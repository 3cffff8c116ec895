------------------------------ MODULE Tcp4Conn ------------------------------
(***************************************************************************)
(* One client TCP connection of ministack (uefiboard/ministack/tcp4.go):   *)
(* the TCB, the goroutines that work on it and a peer behind a network     *)
(* that loses, duplicates and reorders segments.                           *)
(*                                                                         *)
(* Goroutines.  A dialer (dialTCP4Once), a writer (Write), a reader (Read) *)
(* and a closer (Close) may run at the same time; the type is documented   *)
(* as safe for that.  Every one of them pumps the NIC inline and so does   *)
(* the rxLoop goroutine; any of them may be the one that runs              *)
(* deliverSegment, which holds c.mu throughout.  So a segment may be       *)
(* delivered between any two critical sections of the others, and one      *)
(* action is one critical section.  The loop of drainReassemblyLocked is   *)
(* run with c.mu held: rx.busy is that lock, and while it is set no other  *)
(* action on the TCB is enabled.                                           *)
(*                                                                         *)
(* Network.  A segment, once sent, may arrive any number of times at any   *)
(* later moment, or never.  What the peer may have sent is therefore a     *)
(* function of the peer's state (MayArrive), not a variable.               *)
(*                                                                         *)
(* Data.  The peer's stream is PeerData; the bytes the application writes  *)
(* are numbered in the order in which they are handed to Write.  sndWnd is *)
(* left out: deliverSegment stores it (line 371) and nothing reads it.     *)
(***************************************************************************)
EXTENDS Integers, Sequences, FiniteSets

CONSTANTS
  SeqMod,            \* size of the sequence-number space
  ISS, IRS,          \* initial sequence numbers of the client and the peer
  PeerData,          \* the byte stream the peer sends before its FIN
  PeerMaxSeg,        \* longest payload the peer puts into one segment
  Lifetime,          \* how many bytes behind rcv.nxt a late segment may start
  Ahead,             \* how many bytes ahead of rcv.nxt the peer may send
  PeerMayReset,      \* whether the peer may send RST
  MaxBytes,          \* bound: bytes the application hands to Write
  MaxWrite,          \* bound: bytes of one Write call
  MaxRead,           \* bound: length of the buffer given to Read
  MSS,               \* TCP4DefaultMSS
  ReassemblyDepth,   \* TCP4ReassemblyDepth
  MaxRetransmits     \* TCP4MaxRetransmits

(* Sequence-number arithmetic.  SeqMod is 2^32 in the code (uint32); the    *)
(* model keeps the wrap-around and makes the modulus a parameter.           *)
(* Increments are always smaller than SeqMod, so one conditional            *)
(* subtraction is the uint32 addition.                                      *)

ASSUME SeqModAssumption == SeqMod \in Nat /\ SeqMod > 1

SeqNum == 0 .. SeqMod - 1

\* uint32 addition a + n, for n < SeqMod.
SeqAdd(a, n) == IF a + n >= SeqMod THEN a + n - SeqMod ELSE a + n

\* uint32 subtraction a - b.
SeqSub(a, b) == IF a >= b THEN a - b ELSE a - b + SeqMod

\* int32(a-b) < 0: the top bit of the difference is set.
seqLT(a, b) == 2 * SeqSub(a, b) >= SeqMod

\* int32(a-b) > 0.
seqGT(a, b) == a # b /\ ~seqLT(a, b)

-----------------------------------------------------------------------------
ASSUME ConnAssumption ==
  /\ ISS \in SeqNum /\ IRS \in SeqNum
  /\ PeerData \in Seq(Nat)
  /\ PeerMaxSeg \in Nat /\ Lifetime \in Nat /\ Ahead \in Nat
  /\ MaxBytes \in Nat /\ MaxWrite \in Nat /\ MaxRead \in Nat
  /\ ReassemblyDepth \in Nat /\ MaxRetransmits \in Nat
  /\ MSS \in 1 .. SeqMod - 1
  /\ MaxBytes + 2 <= SeqMod
  /\ PeerMayReset \in BOOLEAN

States == {"CLOSED", "SYN_SENT", "ESTABLISHED", "FIN_WAIT_1", "FIN_WAIT_2",
           "CLOSE_WAIT", "CLOSING", "LAST_ACK", "TIME_WAIT"}

VARIABLES
  registered,    \* the conn is in Stack.tcp4Conns
  state, sndUna, sndNxt, rcvNxt, rxQueue, reassembly, peerFinSeen, closed,
  rx,            \* [busy, ack]: a deliverSegment inside drainReassemblyLocked
  dial,          \* progress and result of dialTCP4Once
  wr,            \* the Write call in progress
  rd,            \* the Read call in progress: "idle" or "loop"
  cl,            \* the Close call in progress
  rdRes,         \* result of the last Read
  got,           \* history: every byte Read returned
  handed,        \* number of bytes handed to Write so far
  sent,          \* history: every byte that was given a sequence number
  toPeer,        \* data and FIN segments the client has transmitted
  ackOut,        \* history: last acknowledgment number the client sent
  peerUp,        \* the peer has seen the handshake complete
  peerRcvd,      \* the bytes the peer's TCP has accepted, in order
  peerFin        \* the peer has accepted the client's FIN

NoAck == -1      \* the client has not acknowledged anything yet

tcb == <<state, sndUna, sndNxt, rcvNxt, rxQueue, reassembly, peerFinSeen, closed>>
peer == <<peerUp, peerRcvd, peerFin>>
vars == <<registered, tcb, rx, dial, wr, rd, cl, rdRes, got, handed, sent,
          toPeer, ackOut, peer>>

-----------------------------------------------------------------------------
\* The network and the peer.

StreamLen == Len(PeerData)

\* Sequence number of the byte at offset off of the peer's stream.
PeerSeq(off) == SeqAdd(IRS, off + 1)

\* Bytes of the peer's stream the TCB has taken in.
Accepted == Len(got) + Len(rxQueue)

Segment(flags, seq, ack, payload) ==
  [flags |-> flags, seq |-> seq, ack |-> ack, payload |-> payload]

\* rcv.nxt of the peer after it accepted n sequence numbers beyond the SYN.
PeerAck(n) == SeqAdd(ISS, n + 1)

PeerTaken == Len(peerRcvd) + (IF peerFin THEN 1 ELSE 0)

\* A segment of the peer's stream: the len bytes from offset off, with the FIN
\* when fin is set, acknowledging the first n sequence numbers of the client.
PeerSegment(off, len, fin, n) ==
  Segment({"ACK"} \cup (IF fin THEN {"FIN"} ELSE {}), PeerSeq(off), PeerAck(n),
          SubSeq(PeerData, off + 1, off + len))

\* It may arrive now: the peer cuts its stream as it likes, retransmits it as
\* often as it likes, and any acknowledgment it ever sent may arrive late.
MayArrive(off, len, fin, n) ==
  /\ peerUp
  /\ off + len <= StreamLen
  /\ fin => off + len = StreamLen
  /\ off + Lifetime >= Accepted
  /\ off + len <= Accepted + Ahead
  /\ n <= PeerTaken

SynAckSegment == Segment({"SYN", "ACK"}, IRS, PeerAck(0), <<>>)
RstSegment == Segment({"RST", "ACK"}, 0, PeerAck(0), <<>>)

\* The peer learns that its SYN-ACK arrived.
PeerEstablish ==
  /\ ~peerUp
  /\ ackOut # NoAck
  /\ peerUp' = TRUE
  /\ UNCHANGED <<registered, tcb, rx, dial, wr, rd, cl, rdRes, got, handed,
                 sent, toPeer, ackOut, peerRcvd, peerFin>>

\* The peer accepts the next data or FIN segment of the client's stream.
PeerReceive ==
  /\ peerUp /\ ~peerFin
  /\ \E m \in toPeer :
       /\ m.seq = PeerAck(PeerTaken)
       /\ peerRcvd' = peerRcvd \o m.payload
       /\ IF "FIN" \in m.flags THEN peerFin' = TRUE ELSE UNCHANGED peerFin
  /\ UNCHANGED <<registered, tcb, rx, dial, wr, rd, cl, rdRes, got, handed,
                 sent, toPeer, ackOut, peerUp>>

-----------------------------------------------------------------------------
\* Receive path: deliverSegment and what it calls, with c.mu held.

\* Mutant: acknowledges one number too many.
SendAckOneAhead(rcv) == ackOut' = SeqAdd(rcv, 1)

\* sendSegment(TCPFlagACK, c.sndNxt, c.rcvNxt, nil); its error is ignored, and
\* a lost ACK is a segment that never arrives.
SendAck(rcv) == ackOut' = rcv

\* Lines 404-421: the transitions that follow acceptSegmentLocked.
AfterAccept(st, ack, nxt, fin) ==
  LET acked == IF st = "FIN_WAIT_1" /\ ack = nxt THEN "FIN_WAIT_2" ELSE st
  IN  CASE fin /\ acked = "ESTABLISHED" -> "CLOSE_WAIT"
        [] fin /\ acked = "FIN_WAIT_1" -> IF ack = nxt THEN "TIME_WAIT" ELSE "CLOSING"
        [] fin /\ acked = "FIN_WAIT_2" -> "TIME_WAIT"
        [] OTHER -> acked

DeliverRst(m) ==
  /\ "RST" \in m.flags
  /\ state' = "CLOSED"
  /\ closed' = TRUE
  /\ UNCHANGED <<sndUna, sndNxt, rcvNxt, rxQueue, reassembly, peerFinSeen, rx, ackOut>>

DeliverSynSent(m) ==
  /\ "RST" \notin m.flags
  /\ state = "SYN_SENT"
  /\ {"SYN", "ACK"} \subseteq m.flags
  /\ m.ack = sndNxt
  /\ rcvNxt' = SeqAdd(m.seq, 1)
  /\ sndUna' = m.ack
  /\ state' = "ESTABLISHED"
  /\ SendAck(rcvNxt')
  /\ UNCHANGED <<sndNxt, rxQueue, reassembly, peerFinSeen, closed, rx>>

\* Mutant: one entry too many.
RoomOffByOne == Len(reassembly) <= ReassemblyDepth

\* The reassembly table is not full.
Room == Len(reassembly) < ReassemblyDepth

\* Mutant: wants room in the table for a segment that needs none.
InOrderIfRoom(seq) == seq = rcvNxt /\ Room

\* The segment starts at rcv.nxt.
InOrder(seq) == seq = rcvNxt

\* acceptSegmentLocked, case 1: the segment starts at rcv.nxt.  The handler
\* goes on in DrainStep and DrainDone without giving up c.mu.
AcceptInOrder(seq, payload, fin, ack) ==
  /\ InOrder(seq)
  /\ rxQueue' = rxQueue \o payload
  /\ rcvNxt' = SeqAdd(rcvNxt, Len(payload) + (IF fin THEN 1 ELSE 0))
  /\ IF fin THEN peerFinSeen' = TRUE ELSE UNCHANGED peerFinSeen
  /\ rx' = [busy |-> TRUE, ack |-> ack]
  /\ UNCHANGED <<state, reassembly, ackOut>>

\* acceptSegmentLocked, cases 2 and 3: park a segment that is ahead if there
\* is room, ignore any other; acknowledge both.
AcceptOther(seq, payload, fin, ack) ==
  /\ ~InOrder(seq)
  /\ reassembly' =
       IF seqGT(seq, rcvNxt) /\ Room
       THEN Append(reassembly, [seq |-> seq, payload |-> payload, fin |-> fin])
       ELSE reassembly
  /\ state' = AfterAccept(state, ack, sndNxt, peerFinSeen)
  /\ SendAck(rcvNxt)
  /\ UNCHANGED <<rcvNxt, rxQueue, peerFinSeen, rx>>

\* A pure acknowledgment.
AcceptNothing(ack) ==
  /\ state' = AfterAccept(state, ack, sndNxt, peerFinSeen)
  /\ UNCHANGED <<rcvNxt, rxQueue, reassembly, peerFinSeen, rx, ackOut>>

DeliverOpen(m) ==
  /\ "RST" \notin m.flags
  /\ state \in {"ESTABLISHED", "FIN_WAIT_1", "FIN_WAIT_2", "CLOSE_WAIT"}
  /\ "ACK" \in m.flags
  /\ sndUna' = IF seqGT(m.ack, sndUna) THEN m.ack ELSE sndUna
  /\ UNCHANGED <<sndNxt, closed>>
  /\ LET fin == "FIN" \in m.flags
     IN  IF m.payload # <<>> \/ fin
         THEN \/ AcceptInOrder(m.seq, m.payload, fin, m.ack)
              \/ AcceptOther(m.seq, m.payload, fin, m.ack)
         ELSE AcceptNothing(m.ack)

DeliverClosing(m) ==
  /\ "RST" \notin m.flags
  /\ state \in {"LAST_ACK", "CLOSING"}
  /\ "ACK" \in m.flags
  /\ m.ack = sndNxt
  /\ state' = IF state = "LAST_ACK" THEN "CLOSED" ELSE "TIME_WAIT"
  /\ UNCHANGED <<sndUna, sndNxt, rcvNxt, rxQueue, reassembly, peerFinSeen, closed, rx, ackOut>>

\* In every other case deliverSegment returns without touching the TCB.
deliverSegment(m) ==
  /\ registered /\ ~closed /\ ~rx.busy
  /\ \/ DeliverRst(m)
     \/ DeliverSynSent(m)
     \/ DeliverOpen(m)
     \/ DeliverClosing(m)
  /\ UNCHANGED <<registered, dial, wr, rd, cl, rdRes, got, handed, sent, toPeer, peer>>

\* Mutant: parked segments behind rcv.nxt match.
MatchingBehind == { i \in 1 .. Len(reassembly) : ~seqGT(reassembly[i].seq, rcvNxt) }

\* drainReassemblyLocked: index of the first parked segment at rcv.nxt.
Matching == { i \in 1 .. Len(reassembly) : reassembly[i].seq = rcvNxt }
FirstMatch(i) == i \in Matching /\ \A j \in Matching : i <= j

\* One round of the loop of drainReassemblyLocked.
DrainStep ==
  /\ rx.busy
  /\ \E i \in 1 .. Len(reassembly) :
       /\ FirstMatch(i)
       /\ LET e == reassembly[i]
          IN  /\ rxQueue' = rxQueue \o e.payload
              /\ rcvNxt' = SeqAdd(rcvNxt, Len(e.payload) + (IF e.fin THEN 1 ELSE 0))
              /\ IF e.fin THEN peerFinSeen' = TRUE ELSE UNCHANGED peerFinSeen
       /\ reassembly' = [j \in 1 .. Len(reassembly) - 1 |->
                           IF j < i THEN reassembly[j] ELSE reassembly[j + 1]]
  /\ UNCHANGED <<registered, state, sndUna, sndNxt, closed, rx, dial, wr, rd, cl,
                 rdRes, got, handed, sent, toPeer, ackOut, peer>>

\* No match is left: acknowledge, finish deliverSegment and release c.mu.
DrainDone ==
  /\ rx.busy
  /\ Matching = {}
  /\ SendAck(rcvNxt)
  /\ state' = AfterAccept(state, rx.ack, sndNxt, peerFinSeen)
  /\ rx' = [busy |-> FALSE, ack |-> 0]
  /\ UNCHANGED <<registered, sndUna, sndNxt, rcvNxt, rxQueue, reassembly, peerFinSeen,
                 closed, dial, wr, rd, cl, rdRes, got, handed, sent, toPeer, peer>>

-----------------------------------------------------------------------------
\* dialTCP4Once.

\* Register the TCB and send the SYN.  If the SYN cannot be sent (no route,
\* ARP timeout) the port is released and the error returned.
DialSyn ==
  /\ dial = "none"
  /\ state' = "SYN_SENT"
  /\ sndUna' = ISS
  /\ sndNxt' = SeqAdd(ISS, 1)
  /\ \/ dial' = "wait" /\ registered' = TRUE
     \/ dial' = "error" /\ registered' = FALSE
  /\ UNCHANGED <<rcvNxt, rxQueue, reassembly, peerFinSeen, closed, rx, wr, rd, cl,
                 rdRes, got, handed, sent, toPeer, ackOut, peer>>

\* The wait loop reads state and closed, then pumps.
DialCheck ==
  /\ dial = "wait" /\ ~rx.busy
  /\ \/ state = "ESTABLISHED" /\ dial' = "ok" /\ UNCHANGED registered
     \/ state # "ESTABLISHED" /\ closed /\ dial' = "refused" /\ registered' = FALSE
  /\ UNCHANGED <<tcb, rx, wr, rd, cl, rdRes, got, handed, sent, toPeer, ackOut, peer>>

\* The loop ends when the checker has expired, without another look at state.
DialTimeout ==
  /\ dial = "wait"
  /\ dial' = "timeout"
  /\ registered' = FALSE
  /\ UNCHANGED <<tcb, rx, wr, rd, cl, rdRes, got, handed, sent, toPeer, ackOut, peer>>

-----------------------------------------------------------------------------
\* Write and sendAndAwaitAck.

\* Entry of Write with n bytes.
WriteBegin(n) ==
  /\ dial = "ok" /\ wr.pc = "idle" /\ ~rx.busy
  /\ handed + n <= MaxBytes
  /\ handed' = handed + n
  /\ wr' = IF closed \/ state \notin {"ESTABLISHED", "CLOSE_WAIT"}
           THEN [wr EXCEPT !.res = "closed"]
           ELSE [wr EXCEPT !.pc = "take", !.next = handed, !.left = n, !.res = "none"]
  /\ UNCHANGED <<registered, tcb, rx, dial, rd, cl, rdRes, got, sent, toPeer, ackOut, peer>>

\* First critical section of sendAndAwaitAck: take the sequence numbers of the
\* next segment of at most MSS bytes.
WriteTake ==
  /\ wr.pc = "take" /\ ~rx.busy
  /\ LET len == IF wr.left < MSS THEN wr.left ELSE MSS
         segment == [i \in 1 .. len |-> wr.next + i]
     IN  /\ sent' = sent \o segment
         /\ sndNxt' = SeqAdd(sndNxt, len)
         /\ wr' = [wr EXCEPT !.pc = "send", !.seq = sndNxt, !.segment = segment,
                             !.wantAck = SeqAdd(sndNxt, len), !.tries = 0]
  /\ UNCHANGED <<registered, state, sndUna, rcvNxt, rxQueue, reassembly, peerFinSeen,
                 closed, rx, dial, rd, cl, rdRes, got, handed, toPeer, ackOut, peer>>

\* The segment sendAndAwaitAck sends, and sends again.
DataSegment == [flags |-> {"ACK", "PSH"}, seq |-> wr.seq, payload |-> wr.segment]

\* Mutant: compares snd.una with the first number of the segment.
AckedFirst == ~seqLT(sndUna, wr.seq)

\* snd.una has reached the end of the segment.
Acked == ~seqLT(sndUna, wr.wantAck)

WriteReturn(res) == wr' = [wr EXCEPT !.pc = "idle", !.res = res]

\* sendSegmentExt with the segment; a send error ends the Write.
WriteSend ==
  /\ wr.pc = "send" /\ ~rx.busy
  /\ \/ /\ toPeer' = toPeer \cup {DataSegment}
        /\ wr' = [wr EXCEPT !.pc = "await"]
     \/ WriteReturn("error") /\ UNCHANGED toPeer
  /\ UNCHANGED <<registered, tcb, rx, dial, rd, cl, rdRes, got, handed, sent, ackOut, peer>>

\* The wait loop: closed, acknowledged, or the per-attempt timer has expired
\* and the segment is sent again.  The last segment ends the Write.
WriteAwait ==
  /\ wr.pc = "await" /\ ~rx.busy
  /\ \/ closed /\ WriteReturn("closed")
     \/ /\ ~closed /\ Acked
        /\ LET len == Len(wr.segment)
           IN  wr' = [wr EXCEPT !.pc = IF wr.left = len THEN "idle" ELSE "take",
                                !.res = IF wr.left = len THEN "ok" ELSE "none",
                                !.next = @ + len, !.left = @ - len]
     \/ /\ ~closed /\ ~Acked /\ wr.tries < MaxRetransmits
        /\ wr' = [wr EXCEPT !.pc = "send", !.tries = @ + 1]
  /\ UNCHANGED <<registered, tcb, rx, dial, rd, cl, rdRes, got, handed, sent, toPeer, ackOut, peer>>

\* The overall checker or the retransmit budget has run out.
WriteTimeout ==
  /\ wr.pc = "await"
  /\ WriteReturn("timeout")
  /\ UNCHANGED <<registered, tcb, rx, dial, rd, cl, rdRes, got, handed, sent, toPeer, ackOut, peer>>

-----------------------------------------------------------------------------
\* Read.

ReadBegin ==
  /\ dial = "ok" /\ rd = "idle" /\ ~rx.busy
  /\ IF closed THEN rdRes' = "closed" /\ UNCHANGED rd
               ELSE rd' = "loop" /\ rdRes' = "none"
  /\ UNCHANGED <<registered, tcb, rx, dial, wr, cl, got, handed, sent, toPeer, ackOut, peer>>

ReadReturn(res) == rd' = "idle" /\ rdRes' = res

\* The peer has closed and the queue is drained.
AtEnd == rxQueue = <<>> /\ peerFinSeen

\* One look at the queue, with a buffer of len bytes: data first, then the
\* peer's FIN, then closed.
ReadStep(len) ==
  /\ rd = "loop" /\ ~rx.busy
  /\ \/ /\ rxQueue # <<>>
        /\ LET n == IF len < Len(rxQueue) THEN len ELSE Len(rxQueue)
           IN  /\ got' = got \o SubSeq(rxQueue, 1, n)
               /\ rxQueue' = SubSeq(rxQueue, n + 1, Len(rxQueue))
        /\ ReadReturn("data")
     \/ /\ AtEnd
        /\ ReadReturn("eof") /\ UNCHANGED <<got, rxQueue>>
     \/ /\ rxQueue = <<>> /\ ~peerFinSeen /\ closed
        /\ ReadReturn("closed") /\ UNCHANGED <<got, rxQueue>>
  /\ UNCHANGED <<registered, state, sndUna, sndNxt, rcvNxt, reassembly, peerFinSeen,
                 closed, rx, dial, wr, cl, handed, sent, toPeer, ackOut, peer>>

ReadTimeout ==
  /\ rd = "loop"
  /\ ReadReturn("timeout")
  /\ UNCHANGED <<registered, tcb, rx, dial, wr, cl, got, handed, sent, toPeer, ackOut, peer>>

-----------------------------------------------------------------------------
\* Close.

\* The switch on the state; the FIN's sequence number is taken here and the
\* FIN is sent in a critical section of its own.
CloseBegin ==
  /\ dial = "ok" /\ cl.pc = "idle" /\ ~rx.busy
  /\ IF closed
     THEN cl' = [cl EXCEPT !.pc = "done"] /\ UNCHANGED <<state, sndNxt>>
     ELSE IF state \in {"ESTABLISHED", "CLOSE_WAIT"}
     THEN /\ state' = IF state = "ESTABLISHED" THEN "FIN_WAIT_1" ELSE "LAST_ACK"
          /\ sndNxt' = SeqAdd(sndNxt, 1)
          /\ cl' = [pc |-> "fin", seq |-> sndNxt]
     ELSE cl' = [cl EXCEPT !.pc = "pump"] /\ UNCHANGED <<state, sndNxt>>
  /\ UNCHANGED <<registered, sndUna, rcvNxt, rxQueue, reassembly, peerFinSeen, closed,
                 rx, dial, wr, rd, rdRes, got, handed, sent, toPeer, ackOut, peer>>

\* sendSegmentExt(FIN|ACK); its error is ignored.
CloseFin ==
  /\ cl.pc = "fin" /\ ~rx.busy
  /\ cl' = [cl EXCEPT !.pc = "pump"]
  /\ \/ toPeer' = toPeer \cup {[flags |-> {"FIN", "ACK"}, seq |-> cl.seq, payload |-> <<>>]}
     \/ UNCHANGED toPeer
  /\ UNCHANGED <<registered, tcb, rx, dial, wr, rd, rdRes, got, handed, sent, ackOut, peer>>

\* The pump loop ends on CLOSED, on TIME_WAIT or after two seconds; in every
\* case the TCB is marked closed and its port released.
CloseFinish ==
  /\ cl.pc = "pump" /\ ~rx.busy
  /\ closed' = TRUE
  /\ state' = "CLOSED"
  /\ registered' = FALSE
  /\ cl' = [cl EXCEPT !.pc = "done"]
  /\ UNCHANGED <<sndUna, sndNxt, rcvNxt, rxQueue, reassembly, peerFinSeen, rx, dial, wr,
                 rd, rdRes, got, handed, sent, toPeer, ackOut, peer>>

-----------------------------------------------------------------------------
Init ==
  /\ registered = FALSE
  /\ state = "CLOSED"
  /\ sndUna = 0 /\ sndNxt = 0 /\ rcvNxt = 0
  /\ rxQueue = <<>> /\ reassembly = <<>>
  /\ peerFinSeen = FALSE /\ closed = FALSE
  /\ rx = [busy |-> FALSE, ack |-> 0]
  /\ dial = "none"
  /\ wr = [pc |-> "idle", next |-> 0, left |-> 0, seq |-> 0, segment |-> <<>>,
           wantAck |-> 0, tries |-> 0, res |-> "none"]
  /\ rd = "idle" /\ rdRes = "none"
  /\ cl = [pc |-> "idle", seq |-> 0]
  /\ got = <<>> /\ handed = 0 /\ sent = <<>>
  /\ toPeer = {} /\ ackOut = NoAck
  /\ peerUp = FALSE /\ peerRcvd = <<>> /\ peerFin = FALSE

DeliverStream ==
  \E off \in 0 .. StreamLen, len \in 0 .. PeerMaxSeg, fin \in BOOLEAN, n \in 0 .. MaxBytes + 1 :
    MayArrive(off, len, fin, n) /\ deliverSegment(PeerSegment(off, len, fin, n))

DeliverSynAck == dial # "none" /\ deliverSegment(SynAckSegment)

DeliverReset == dial # "none" /\ PeerMayReset /\ deliverSegment(RstSegment)

Network == DeliverStream \/ DeliverSynAck \/ DeliverReset \/ DrainStep \/ DrainDone
Dialer == DialSyn \/ DialCheck \/ DialTimeout
Writer == (\E n \in 1 .. MaxWrite : WriteBegin(n))
            \/ WriteTake \/ WriteSend \/ WriteAwait \/ WriteTimeout
Reader == ReadBegin \/ (\E n \in 1 .. MaxRead : ReadStep(n)) \/ ReadTimeout
Closer == CloseBegin \/ CloseFin \/ CloseFinish
Peer == PeerEstablish \/ PeerReceive

Next == Network \/ Dialer \/ Writer \/ Reader \/ Closer \/ Peer

Spec == Init /\ [][Next]_vars

\* The segment the receiver is waiting for arrives.
DeliverNext ==
  \E len \in 0 .. PeerMaxSeg, fin \in BOOLEAN, n \in 0 .. MaxBytes + 1 :
    /\ len > 0 \/ fin
    /\ MayArrive(Accepted, len, fin, n)
    /\ deliverSegment(PeerSegment(Accepted, len, fin, n))

\* The peer retransmits what is not acknowledged and the link does not drop it
\* for ever; a lock holder finishes; the loops keep running; an application
\* that reads calls Read again, and a Read looks at the queue at least once.
LiveSpec ==
  /\ Spec
  /\ WF_vars(PeerEstablish) /\ SF_vars(DeliverNext)
  /\ WF_vars(DrainStep) /\ WF_vars(DrainDone)
  /\ WF_vars(ReadBegin) /\ SF_vars(\E n \in 1 .. MaxRead : ReadStep(n))

-----------------------------------------------------------------------------
FlagTypeOK ==
  /\ registered \in BOOLEAN /\ closed \in BOOLEAN /\ peerFinSeen \in BOOLEAN
  /\ peerUp \in BOOLEAN /\ peerFin \in BOOLEAN

TcbTypeOK ==
  /\ state \in States
  /\ sndUna \in SeqNum /\ sndNxt \in SeqNum /\ rcvNxt \in SeqNum
  /\ rxQueue \in Seq(Nat)
  /\ reassembly \in Seq([seq : SeqNum, payload : Seq(Nat), fin : BOOLEAN])
  /\ Len(reassembly) <= ReassemblyDepth

CallTypeOK ==
  /\ rx \in [busy : BOOLEAN, ack : SeqNum]
  /\ dial \in {"none", "wait", "ok", "refused", "timeout", "error"}
  /\ wr \in [pc : {"idle", "take", "send", "await"}, next : Nat, left : Nat, seq : SeqNum,
             segment : Seq(Nat), wantAck : SeqNum, tries : 0 .. MaxRetransmits,
             res : {"none", "ok", "closed", "timeout", "error"}]
  /\ wr.pc \in {"send", "await"} => Len(wr.segment) <= wr.left
  /\ rd \in {"idle", "loop"}
  /\ rdRes \in {"none", "data", "eof", "closed", "timeout"}
  /\ cl \in [pc : {"idle", "fin", "pump", "done"}, seq : SeqNum]

WireTypeOK ==
  /\ got \in Seq(Nat) /\ handed \in 0 .. MaxBytes /\ sent \in Seq(Nat)
  /\ toPeer \subseteq [flags : SUBSET {"ACK", "PSH", "FIN"}, seq : SeqNum, payload : Seq(Nat)]
  /\ ackOut \in SeqNum \cup {NoAck}
  /\ peerRcvd \in Seq(Nat)

\* Every variable has its type, and the reassembly table its bound.
TypeOK == FlagTypeOK /\ TcbTypeOK /\ CallTypeOK /\ WireTypeOK

\* The bytes Read has returned, followed by the bytes queued for it, are a
\* prefix of what the peer sent.
StreamPrefix ==
  /\ Accepted <= StreamLen
  /\ \A i \in 1 .. Len(got) : got[i] = PeerData[i]
  /\ \A i \in 1 .. Len(rxQueue) : rxQueue[i] = PeerData[Len(got) + i]

\* Read reports the peer's close (errTCP4PeerClosed) only after it has returned
\* every byte the peer sent before its FIN (tcp4.go:529-533).
EofComplete == rdRes = "eof" => Len(got) = StreamLen

\* What Read returns is the peer's stream, nothing lost, repeated or out of order,
\* whatever the network and the reassembly table do (tcp4.go:24-27), and the whole
\* of it by the time Read reports the peer's close.
StreamIntegrity == StreamPrefix /\ EofComplete

\* The abstract stream this connection implements: what is queued, what was read,
\* whether the FIN has been taken and whether the last Read reported it.
Stream == INSTANCE ByteStream WITH
  Data <- PeerData, queue <- rxQueue, read <- got, ended <- peerFinSeen, reported <- rdRes = "eof"

\* Seen by the application that reads, the connection is a byte stream: whatever the
\* network and the reassembly table do, every step queues the next bytes of the peer's
\* stream, hands bytes from the front of the queue to Read, or changes nothing it could
\* see, and the end is reported after the last byte (tcp4.go:24-27, 529-533).
ImplementsByteStream == Stream!Spec

\* Every acknowledgment the client sends covers only bytes it has queued for
\* the application, and the FIN only once it has been taken in order; the peer
\* forgets what was acknowledged, so anything else would lose data.
AckCoversQueued ==
  ackOut # NoAck =>
    \E n \in 0 .. StreamLen + 1 :
      /\ ackOut = PeerSeq(n)
      /\ n <= Accepted + (IF peerFinSeen THEN 1 ELSE 0)

\* What the peer has received is a prefix of the bytes handed to Write, in order,
\* and Write returns success only when the peer's TCP has every byte of the call,
\* even with late acknowledgments, retransmissions and a concurrent Close.
WriteOkMeansReceived ==
  /\ Len(peerRcvd) <= Len(sent) /\ \A i \in 1 .. Len(peerRcvd) : peerRcvd[i] = sent[i]
  /\ (wr.res = "ok" => Len(peerRcvd) = Len(sent))

\* A reader that keeps reading gets the peer's whole stream and then the end
\* of it, unless the application closes or the peer resets: a reassembly table full of stale
\* segments never stops the segment at rcv.nxt (tcp4.go:447-475).
StreamCompletes == dial = "ok" ~> (rdRes = "eof" \/ closed \/ cl.pc # "idle")

=============================================================================
