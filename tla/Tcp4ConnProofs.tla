--------------------------- MODULE Tcp4ConnProofs ---------------------------
(***************************************************************************)
(* Tcp4Conn for every stream that fits into one turn of the sequence       *)
(* space, every segmentation by the peer and every loss, duplication and   *)
(* reordering by the network: the receive side, and then the write side    *)
(* for every stream that fits into half of a turn.                         *)
(*                                                                         *)
(* StreamIntegrity is not inductive: that a parked segment is appended at  *)
(* the right place depends on what the reassembly table holds and on       *)
(* rcv.nxt being the number of the next missing byte.  IInv adds both.     *)
(***************************************************************************)
EXTENDS Tcp4Conn, SequenceTheorems, TLAPS

\* The stream with its FIN does not use a sequence number twice.
StreamFits == StreamLen + 2 <= SeqMod

\* Offset of rcv.nxt in the peer's stream; the FIN counts as one byte.
Position == Accepted + (IF peerFinSeen THEN 1 ELSE 0)

\* The slice (seq, payload, fin) is cut from the peer's stream at offset off.
CutAt(seq, payload, fin, off) ==
  /\ seq = PeerSeq(off)
  /\ off + Len(payload) <= StreamLen
  /\ fin => off + Len(payload) = StreamLen
  /\ \A k \in 1 .. Len(payload) : payload[k] = PeerData[off + k]

\* Every parked segment is a slice of the peer's stream.
IsSlice(e) == \E off \in 0 .. StreamLen : CutAt(e.seq, e.payload, e.fin, off)
Parked == \A i \in 1 .. Len(reassembly) : IsSlice(reassembly[i])

\* Once the SYN-ACK is acknowledged rcv.nxt is the number of the next missing
\* byte; before that nothing has been taken in.
Aligned ==
  /\ ackOut # NoAck => rcvNxt = PeerSeq(Position)
  /\ ackOut = NoAck => Position = 0 /\ ~rx.busy
  /\ peerFinSeen => Accepted = StreamLen
  /\ state \in {"ESTABLISHED", "FIN_WAIT_1", "FIN_WAIT_2", "CLOSE_WAIT"} => ackOut # NoAck
  /\ state = "SYN_SENT" => ackOut = NoAck
  /\ dial = "none" => ackOut = NoAck

IInv == TypeOK /\ Parked /\ Aligned /\ StreamPrefix /\ EofComplete /\ AckCoversQueued

-----------------------------------------------------------------------------
\* Sequence numbers.

\* Adding less than a full turn stays in the sequence space.
LEMMA SeqAddType ==
  ASSUME NEW a \in SeqNum, NEW n \in Nat, n <= SeqMod
  PROVE  SeqAdd(a, n) \in SeqNum
  BY SeqModAssumption DEF SeqAdd, SeqNum

\* Different offsets of the stream have different sequence numbers.
LEMMA PeerSeqInjective ==
  ASSUME StreamFits, NEW a \in 0 .. StreamLen + 1, NEW b \in 0 .. StreamLen + 1,
         PeerSeq(a) = PeerSeq(b)
  PROVE  a = b
  BY SeqModAssumption, ConnAssumption
  DEF StreamFits, StreamLen, PeerSeq, SeqAdd, SeqNum

\* Advancing rcv.nxt by n is advancing the offset by n.
LEMMA PeerSeqAdvance ==
  ASSUME StreamFits, NEW a \in Nat, NEW n \in Nat, a + n <= StreamLen + 1
  PROVE  SeqAdd(PeerSeq(a), n) = PeerSeq(a + n)
  BY SeqModAssumption, ConnAssumption
  DEF StreamFits, StreamLen, PeerSeq, SeqAdd, SeqNum

\* Sequence numbers of the peer's stream are sequence numbers.
LEMMA PeerSeqType ==
  ASSUME StreamFits, NEW a \in 0 .. StreamLen + 1
  PROVE  PeerSeq(a) \in SeqNum
  BY SeqModAssumption, ConnAssumption
  DEF StreamFits, StreamLen, PeerSeq, SeqAdd, SeqNum

\* So are the acknowledgments the peer may send.
LEMMA PeerAckType ==
  ASSUME NEW n \in 0 .. MaxBytes + 1
  PROVE  PeerAck(n) \in SeqNum
  BY SeqModAssumption, ConnAssumption DEF PeerAck, SeqAdd, SeqNum

-----------------------------------------------------------------------------
\* Before the dial nothing is queued, parked or read.
LEMMA InitInv == ASSUME StreamFits, Init PROVE IInv
<1>1. StreamLen \in Nat
  BY ConnAssumption DEF StreamLen
<1>2. TypeOK
  <2>1. FlagTypeOK
    BY Zenon DEF Init, FlagTypeOK
  <2>2. TcbTypeOK /\ CallTypeOK
    BY SeqModAssumption, ConnAssumption DEF Init, TcbTypeOK, CallTypeOK, States, SeqNum
  <2>3. WireTypeOK
    BY SeqModAssumption, ConnAssumption DEF Init, WireTypeOK, SeqNum, NoAck
  <2> QED BY <2>1, <2>2, <2>3 DEF TypeOK
<1>3. Parked /\ Aligned
  BY <1>1 DEF Init, Parked, Aligned, Position, Accepted, NoAck
<1>4. StreamPrefix /\ EofComplete /\ AckCoversQueued
  BY <1>1 DEF Init, StreamPrefix, EofComplete, AckCoversQueued, Accepted, NoAck
<1> QED BY <1>2, <1>3, <1>4 DEF IInv

\* What the receive side consists of.
stream == <<rcvNxt, rxQueue, reassembly, peerFinSeen, rx, got, ackOut>>

\* A step that leaves the receive side alone and does not reopen the state
\* machine keeps everything but TypeOK.
LEMMA StreamUntouched ==
  ASSUME IInv, UNCHANGED stream, rdRes' = "eof" => rdRes = "eof",
         dial' = "none" => dial = "none",
         state' = state \/ (state' # "SYN_SENT" /\ ackOut # NoAck)
           \/ (dial = "none" /\ state' = "SYN_SENT")
           \/ state' = "CLOSED"
  PROVE  Parked' /\ Aligned' /\ StreamPrefix' /\ EofComplete' /\ AckCoversQueued'
<1>1. Parked'
  BY DEF IInv, Parked, stream
<1>2. Aligned'
  BY DEF IInv, Aligned, Position, Accepted, stream
<1>3. StreamPrefix' /\ EofComplete' /\ AckCoversQueued'
  BY DEF IInv, StreamPrefix, EofComplete, AckCoversQueued, Accepted, stream
<1> QED BY <1>1, <1>2, <1>3

-----------------------------------------------------------------------------
\* The dialer, the writer, the closer and the peer leave the stream alone.

\* dialTCP4Once keeps the invariant: it sends the SYN and reads the state.
LEMMA DialerInv == ASSUME StreamFits, IInv, Dialer PROVE IInv'
<1>1. FlagTypeOK'
  BY Zenon DEF IInv, TypeOK, FlagTypeOK, Dialer, DialSyn, DialCheck, DialTimeout, tcb, peer
<1>2. TcbTypeOK' /\ CallTypeOK'
  BY SeqModAssumption, ConnAssumption, SeqAddType
  DEF IInv, TypeOK, TcbTypeOK, CallTypeOK, Dialer, DialSyn, DialCheck, DialTimeout, tcb, States
<1>3. WireTypeOK'
  BY DEF IInv, TypeOK, WireTypeOK, Dialer, DialSyn, DialCheck, DialTimeout, peer
<1>4. UNCHANGED stream /\ rdRes' = rdRes
  BY DEF Dialer, DialSyn, DialCheck, DialTimeout, stream, tcb
<1>5. dial' # "none" /\ (state' = state \/ (dial = "none" /\ state' = "SYN_SENT"))
  BY DEF Dialer, DialSyn, DialCheck, DialTimeout, tcb
<1> QED BY <1>1, <1>2, <1>3, <1>4, <1>5, StreamUntouched DEF IInv, TypeOK

\* Close keeps the invariant: it takes a number for its FIN, waits and gives up.
LEMMA CloserInv == ASSUME StreamFits, IInv, Closer PROVE IInv'
<1>1. FlagTypeOK'
  BY Zenon DEF IInv, TypeOK, FlagTypeOK, Closer, CloseBegin, CloseFin, CloseFinish, tcb, peer
<1>2. TcbTypeOK' /\ CallTypeOK'
  <2>1. CASE CloseBegin
    <3>1. SeqAdd(sndNxt, 1) \in SeqNum
      BY SeqModAssumption, SeqAddType DEF IInv, TypeOK, TcbTypeOK
    <3>2. state' \in States /\ sndNxt' \in SeqNum
      BY <2>1, <3>1 DEF IInv, TypeOK, TcbTypeOK, CloseBegin, States
    <3>3. cl' \in [pc : {"idle", "fin", "pump", "done"}, seq : SeqNum]
      <4>1. \/ cl' = [cl EXCEPT !.pc = "done"]
            \/ cl' = [pc |-> "fin", seq |-> sndNxt]
            \/ cl' = [cl EXCEPT !.pc = "pump"]
        BY Zenon, <2>1 DEF CloseBegin
      <4>2. /\ cl \in [pc : {"idle", "fin", "pump", "done"}, seq : SeqNum]
            /\ sndNxt \in SeqNum
        BY DEF IInv, TypeOK, TcbTypeOK, CallTypeOK
      <4> QED BY <4>1, <4>2
    <3> QED BY <2>1, <3>2, <3>3 DEF IInv, TypeOK, TcbTypeOK, CallTypeOK, CloseBegin
  <2>2. CASE CloseFin
    BY Zenon, <2>2 DEF IInv, TypeOK, TcbTypeOK, CallTypeOK, CloseFin, tcb
  <2>3. CASE CloseFinish
    BY Zenon, <2>3 DEF IInv, TypeOK, TcbTypeOK, CallTypeOK, CloseFinish, States
  <2> QED BY <2>1, <2>2, <2>3 DEF Closer
<1>3. WireTypeOK'
  <2>1. CASE CloseFin
    <3>1. [flags |-> {"FIN", "ACK"}, seq |-> cl.seq, payload |-> <<>>]
            \in [flags : SUBSET {"ACK", "PSH", "FIN"}, seq : SeqNum, payload : Seq(Nat)]
      BY DEF IInv, TypeOK, CallTypeOK
    <3> QED BY <2>1, <3>1, Zenon DEF IInv, TypeOK, WireTypeOK, CloseFin, peer
  <2> QED
    BY <2>1 DEF IInv, TypeOK, WireTypeOK, Closer, CloseBegin, CloseFinish, peer
<1>4. UNCHANGED stream /\ rdRes' = rdRes /\ dial' = dial
  BY DEF Closer, CloseBegin, CloseFin, CloseFinish, stream, tcb
<1>5. state' = state \/ (state' # "SYN_SENT" /\ ackOut # NoAck) \/ state' = "CLOSED"
  BY DEF Closer, CloseBegin, CloseFin, CloseFinish, tcb, IInv, Aligned
<1> QED BY <1>1, <1>2, <1>3, <1>4, <1>5, StreamUntouched DEF IInv, TypeOK

\* Whatever the peer does with its own state keeps the invariant.
LEMMA PeerInv == ASSUME StreamFits, IInv, Peer PROVE IInv'
<1>1. FlagTypeOK'
  <2>1. CASE PeerEstablish
    BY Zenon, <2>1 DEF IInv, TypeOK, FlagTypeOK, PeerEstablish, tcb
  <2>2. CASE PeerReceive
    <3>2. peerFin' \in BOOLEAN
      BY Zenon, <2>2 DEF IInv, TypeOK, FlagTypeOK, PeerReceive
    <3> QED BY Zenon, <2>2, <3>2 DEF IInv, TypeOK, FlagTypeOK, PeerReceive, tcb
  <2> QED BY <2>1, <2>2 DEF Peer
<1>2. TcbTypeOK' /\ CallTypeOK'
  BY DEF IInv, TypeOK, TcbTypeOK, CallTypeOK, Peer, PeerEstablish, PeerReceive, tcb
<1>3. WireTypeOK'
  <2>1. CASE PeerReceive
    <3>1. PICK m \in toPeer : peerRcvd' = peerRcvd \o m.payload
      BY <2>1 DEF PeerReceive
    <3>2. m.payload \in Seq(Nat)
      BY DEF IInv, TypeOK, WireTypeOK
    <3> QED BY <2>1, <3>1, <3>2 DEF IInv, TypeOK, WireTypeOK, PeerReceive
  <2> QED
    BY <2>1 DEF IInv, TypeOK, WireTypeOK, Peer, PeerEstablish
<1>4. UNCHANGED stream /\ rdRes' = rdRes /\ dial' = dial /\ state' = state
  BY DEF Peer, PeerEstablish, PeerReceive, stream, tcb
<1> QED BY <1>1, <1>2, <1>3, <1>4, StreamUntouched DEF IInv, TypeOK

\* The record of a Write call.
WriteCall ==
  [pc : {"idle", "take", "send", "await"}, next : Nat, left : Nat, seq : SeqNum,
   segment : Seq(Nat), wantAck : SeqNum, tries : 0 .. MaxRetransmits,
   res : {"none", "ok", "closed", "timeout", "error"}]

\* Write keeps the invariant: it moves snd.nxt, sends, resends and times out.
LEMMA WriterInv == ASSUME StreamFits, IInv, Writer PROVE IInv'
<1> DEFINE OnWire == [flags : SUBSET {"ACK", "PSH", "FIN"}, seq : SeqNum, payload : Seq(Nat)]
           Fits == wr.pc \in {"send", "await"} => Len(wr.segment) <= wr.left
           Typed == /\ wr \in WriteCall /\ Fits /\ sent \in Seq(Nat)
                    /\ handed \in 0 .. MaxBytes /\ sndNxt \in SeqNum /\ toPeer \subseteq OnWire
<1>1. FlagTypeOK'
  BY Zenon DEF IInv, TypeOK, FlagTypeOK, Writer, WriteBegin, WriteTake, WriteSend,
     WriteAwait, WriteTimeout, WriteReturn, tcb, peer
<1>2. Typed
  BY DEF IInv, TypeOK, TcbTypeOK, CallTypeOK, WireTypeOK, WriteCall
<1>3. Typed'
  <2>1. ASSUME NEW n \in 1 .. MaxWrite, WriteBegin(n) PROVE Typed'
    <3>1. \/ wr' = [wr EXCEPT !.res = "closed"]
          \/ wr' = [wr EXCEPT !.pc = "take", !.next = handed, !.left = n, !.res = "none"]
      BY Zenon, <2>1 DEF WriteBegin
    <3>2. wr' \in WriteCall /\ Fits'
      <4>1. handed \in Nat /\ n \in Nat /\ wr.pc = "idle"
        BY <1>2, <2>1, ConnAssumption DEF WriteBegin
      <4>2. CASE wr' = [wr EXCEPT !.res = "closed"]
        BY <1>2, <4>1, <4>2, Zenon DEF WriteCall
      <4>3. CASE wr' = [wr EXCEPT !.pc = "take", !.next = handed, !.left = n, !.res = "none"]
        BY <1>2, <4>1, <4>3, Zenon DEF WriteCall
      <4> QED BY <3>1, <4>2, <4>3
    <3>3. handed' \in 0 .. MaxBytes
      BY <1>2, <2>1, ConnAssumption DEF WriteBegin
    <3> QED BY <1>2, <2>1, <3>2, <3>3 DEF WriteBegin, tcb
  <2>2. CASE WriteTake
    <3> DEFINE len == IF wr.left < MSS THEN wr.left ELSE MSS
               segment == [i \in 1 .. len |-> wr.next + i]
    <3>1. len \in Nat /\ len <= SeqMod
      BY <1>2, SeqModAssumption, ConnAssumption DEF WriteCall
    <3>2. segment \in Seq(Nat) /\ Len(segment) <= wr.left
      <4>1. segment \in [1 .. len -> Nat]
        BY <1>2, <3>1 DEF WriteCall
      <4>2. len <= wr.left
        BY <1>2, ConnAssumption DEF WriteCall
      <4> HIDE DEF len, segment
      <4>3. segment \in Seq(Nat)
        BY <3>1, <4>1, SeqDef
      <4>4. Len(segment) = len
        BY <3>1, <4>1, <4>3
      <4> QED BY <4>2, <4>3, <4>4
    <3>3. SeqAdd(sndNxt, len) \in SeqNum
      BY <1>2, <3>1, SeqAddType
    <3>4. /\ sent' = sent \o segment
          /\ sndNxt' = SeqAdd(sndNxt, len)
          /\ wr' = [wr EXCEPT !.pc = "send", !.seq = sndNxt, !.segment = segment,
                              !.wantAck = SeqAdd(sndNxt, len), !.tries = 0]
          /\ UNCHANGED <<handed, toPeer>>
      BY <2>2 DEF WriteTake
    <3> HIDE DEF len, segment
    <3>5. wr' \in WriteCall /\ Fits'
      <4>1. ASSUME NEW t \in 0 .. MaxRetransmits
            PROVE  [wr EXCEPT !.pc = "send", !.seq = sndNxt, !.segment = segment,
                              !.wantAck = SeqAdd(sndNxt, len), !.tries = t] \in WriteCall
        BY <1>2, <3>2, <3>3, Zenon DEF WriteCall
      <4>2. 0 \in 0 .. MaxRetransmits
        BY ConnAssumption
      <4>3. Fits'
        BY <1>2, <3>2, <3>4 DEF WriteCall
      <4> QED BY <3>4, <4>1, <4>2, <4>3, Zenon
    <3> QED BY <1>2, <3>2, <3>3, <3>4, <3>5
  <2>3. CASE WriteSend
    <3>1. DataSegment \in OnWire
      BY <1>2 DEF WriteCall, DataSegment
    <3>2. \/ wr' = [wr EXCEPT !.pc = "await"]
          \/ wr' = [wr EXCEPT !.pc = "idle", !.res = "error"]
      BY Zenon, <2>3 DEF WriteSend, WriteReturn
    <3>3. wr' \in WriteCall /\ Fits'
      BY <1>2, <2>3, <3>2, Zenon DEF WriteCall, WriteSend
    <3> HIDE DEF OnWire
    <3> QED BY <1>2, <2>3, <3>1, <3>3 DEF WriteSend, tcb
  <2>4. CASE WriteAwait
    <3>1. \/ wr' = [wr EXCEPT !.pc = "idle", !.res = "closed"]
          \/ wr' = [wr EXCEPT !.pc = IF wr.left = Len(wr.segment) THEN "idle" ELSE "take",
                              !.res = IF wr.left = Len(wr.segment) THEN "ok" ELSE "none",
                              !.next = @ + Len(wr.segment), !.left = @ - Len(wr.segment)]
          \/ wr.tries < MaxRetransmits /\ wr' = [wr EXCEPT !.pc = "send", !.tries = @ + 1]
      BY Zenon, <2>4 DEF WriteAwait, WriteReturn
    <3>2. wr' \in WriteCall /\ Fits'
      <4>1. wr.pc = "await" /\ Len(wr.segment) \in Nat /\ Len(wr.segment) <= wr.left
        BY <1>2, <2>4 DEF WriteCall, WriteAwait
      <4>2. CASE wr' = [wr EXCEPT !.pc = "idle", !.res = "closed"]
        BY <1>2, <4>2, Zenon DEF WriteCall
      <4>3. ASSUME NEW p \in {"idle", "take"}, NEW r \in {"ok", "none"},
                   NEW x \in Nat, NEW y \in Nat,
                   wr' = [wr EXCEPT !.pc = p, !.res = r, !.next = x, !.left = y]
            PROVE  wr' \in WriteCall /\ Fits'
        BY <1>2, <4>3, Zenon DEF WriteCall
      <4>4. CASE wr.tries < MaxRetransmits /\ wr' = [wr EXCEPT !.pc = "send", !.tries = @ + 1]
        <5>1. wr.tries + 1 \in 0 .. MaxRetransmits
          BY <1>2, <4>4, ConnAssumption DEF WriteCall
        <5> QED BY <1>2, <4>1, <4>4, <5>1, Zenon DEF WriteCall
      <4>5. wr.next + Len(wr.segment) \in Nat /\ wr.left - Len(wr.segment) \in Nat
        BY <1>2, <4>1 DEF WriteCall
      <4> QED BY <3>1, <4>2, <4>3, <4>4, <4>5, Zenon
    <3> QED BY <1>2, <2>4, <3>2 DEF WriteAwait, tcb
  <2>5. CASE WriteTimeout
    <3>1. wr' \in WriteCall /\ Fits'
      BY <1>2, <2>5, Zenon DEF WriteTimeout, WriteReturn, WriteCall
    <3> QED BY <1>2, <2>5, <3>1 DEF WriteTimeout, tcb
  <2> QED BY <2>1, <2>2, <2>3, <2>4, <2>5 DEF Writer
<1>4. UNCHANGED <<stream, state, sndUna, dial, rd, rdRes, cl, peerRcvd>>
  BY Zenon DEF Writer, WriteBegin, WriteTake, WriteSend, WriteAwait, WriteTimeout, stream, tcb, peer
<1>5. TcbTypeOK' /\ CallTypeOK' /\ WireTypeOK'
  BY <1>3, <1>4 DEF IInv, TypeOK, TcbTypeOK, CallTypeOK, WireTypeOK, WriteCall, stream
<1> QED BY <1>1, <1>4, <1>5, StreamUntouched DEF IInv, TypeOK

-----------------------------------------------------------------------------
\* The reader moves bytes from the queue to the application.

\* Splitting a queue q after n elements and appending the first part to g.
LEMMA SplitQueue ==
  ASSUME NEW g \in Seq(Nat), NEW q \in Seq(Nat), NEW n \in 0 .. Len(q)
  PROVE  LET h == g \o SubSeq(q, 1, n)
             t == SubSeq(q, n + 1, Len(q))
         IN  /\ h \in Seq(Nat) /\ t \in Seq(Nat)
             /\ Len(h) = Len(g) + n /\ Len(t) = Len(q) - n
             /\ \A i \in 1 .. Len(g) : h[i] = g[i]
             /\ \A i \in 1 .. n : h[Len(g) + i] = q[i]
             /\ \A i \in 1 .. Len(q) - n : t[i] = q[n + i]
<1> DEFINE a == SubSeq(q, 1, n)
           t == SubSeq(q, n + 1, Len(q))
<1>0. n \in Int /\ 1 \in Int /\ n + 1 \in Int /\ Len(q) \in Int
  OBVIOUS
<1>1. /\ a \in Seq(Nat) /\ Len(a) = n
      /\ \A i \in 1 .. n : a[i] = q[i]
  <2>1. \A i \in 1 .. n : q[i] \in Nat
    OBVIOUS
  <2>2. /\ a \in Seq(Nat) /\ Len(a) = IF 1 <= n THEN n - 1 + 1 ELSE 0
        /\ \A i \in 1 .. n - 1 + 1 : a[i] = q[1 + i - 1]
    BY <1>0, <2>1, SubSeqProperties
  <2> HIDE DEF a
  <2> QED BY <2>2
<1>2. /\ t \in Seq(Nat) /\ Len(t) = Len(q) - n
      /\ \A i \in 1 .. Len(q) - n : t[i] = q[n + i]
  <2>1. \A i \in n + 1 .. Len(q) : q[i] \in Nat
    OBVIOUS
  <2>2. /\ t \in Seq(Nat)
        /\ Len(t) = IF n + 1 <= Len(q) THEN Len(q) - (n + 1) + 1 ELSE 0
        /\ \A i \in 1 .. Len(q) - (n + 1) + 1 : t[i] = q[n + 1 + i - 1]
    BY <1>0, <2>1, SubSeqProperties
  <2> HIDE DEF t
  <2>3. Len(q) \in Nat /\ Len(q) - (n + 1) + 1 = Len(q) - n
    OBVIOUS
  <2>4. Len(t) = Len(q) - n
    <3>1. CASE n + 1 <= Len(q)
      BY <2>2, <2>3, <3>1
    <3>2. CASE n = Len(q)
      BY <2>2, <2>3, <3>2
    <3>3. n \in Nat /\ n <= Len(q)
      BY <2>3
    <3>4. n + 1 <= Len(q) \/ n = Len(q)
      <4>1. \A x, y \in Nat : x <= y => x + 1 <= y \/ x = y
        OBVIOUS
      <4> QED BY Zenon, <2>3, <3>3, <4>1
    <3> QED BY <3>1, <3>2, <3>4
  <2>5. \A i \in 1 .. Len(q) - n : t[i] = q[n + i]
    <3>1. ASSUME NEW i \in 1 .. Len(q) - n PROVE n + 1 + i - 1 = n + i
      BY <2>3
    <3> QED BY <2>2, <2>3, <3>1, Zenon
  <2> QED BY <2>2, <2>4, <2>5
<1> HIDE DEF a, t
<1>3. /\ g \o a \in Seq(Nat) /\ Len(g \o a) = Len(g) + Len(a)
      /\ \A i \in 1 .. Len(g) + Len(a) :
           (g \o a)[i] = IF i <= Len(g) THEN g[i] ELSE a[i - Len(g)]
  BY <1>1, ConcatProperties, Zenon
<1>4. /\ \A i \in 1 .. Len(g) : (g \o a)[i] = g[i]
      /\ \A i \in 1 .. n : (g \o a)[Len(g) + i] = q[i]
  BY <1>1, <1>3
<1>5. Len(g \o a) = Len(g) + n
  BY <1>1, <1>3
<1> QED BY Zenon, <1>2, <1>3, <1>4, <1>5 DEF a, t

\* Handing queued bytes to the reader moves them from rxQueue to what was read.
LEMMA ReadDataInv ==
  ASSUME StreamFits, IInv, NEW n \in 0 .. Len(rxQueue),
         rxQueue' \in Seq(Nat), got' \in Seq(Nat),
         Len(got') = Len(got) + n, Len(rxQueue') = Len(rxQueue) - n,
         \A i \in 1 .. Len(got) : got'[i] = got[i],
         \A i \in 1 .. n : got'[Len(got) + i] = rxQueue[i],
         \A i \in 1 .. Len(rxQueue) - n : rxQueue'[i] = rxQueue[n + i],
         UNCHANGED <<rcvNxt, reassembly, peerFinSeen, rx, ackOut, state, dial>>,
         rdRes' # "eof"
  PROVE  /\ Parked' /\ Aligned' /\ StreamPrefix' /\ EofComplete' /\ AckCoversQueued'
<1>1. got \in Seq(Nat) /\ rxQueue \in Seq(Nat) /\ StreamLen \in Nat
  BY ConnAssumption DEF IInv, TypeOK, TcbTypeOK, WireTypeOK, StreamLen
<1>3. Accepted' = Accepted
  BY <1>1 DEF Accepted
<1>4. StreamPrefix'
  <2>1. Accepted' <= StreamLen
    BY <1>3 DEF IInv, StreamPrefix
  <2>2. ASSUME NEW i \in 1 .. Len(got') PROVE got'[i] = PeerData[i]
    <3>1. CASE i <= Len(got)
      BY <1>1, <3>1 DEF IInv, StreamPrefix
    <3>2. CASE i > Len(got)
      <4>1. PICK j \in 1 .. n : i = Len(got) + j
        <5>1. i - Len(got) \in 1 .. n /\ i = Len(got) + (i - Len(got))
          BY <1>1, <3>2
        <5> QED BY <5>1, Zenon
      <4>2. j \in 1 .. Len(rxQueue)
        BY <1>1
      <4>3. rxQueue[j] = PeerData[Len(got) + j]
        BY <4>2 DEF IInv, StreamPrefix
      <4> QED BY <4>1, <4>3
    <3> QED BY <1>1, <3>1, <3>2
  <2>3. ASSUME NEW i \in 1 .. Len(rxQueue') PROVE rxQueue'[i] = PeerData[Len(got') + i]
    <3>1. n + i \in 1 .. Len(rxQueue) /\ Len(got') + i = Len(got) + (n + i)
      <4>1. \A g, q \in Nat : \A k \in 0 .. q : \A j \in 1 .. q - k :
              k + j \in 1 .. q /\ (g + k) + j = g + (k + j)
        OBVIOUS
      <4>2. Len(got) \in Nat /\ Len(rxQueue) \in Nat
        BY <1>1
      <4>3. i \in 1 .. Len(rxQueue) - n
        OBVIOUS
      <4>4. /\ n + i \in 1 .. Len(rxQueue)
            /\ (Len(got) + n) + i = Len(got) + (n + i)
        BY Zenon, <4>1, <4>2, <4>3
      <4> QED BY <4>4
    <3>2. rxQueue[n + i] = PeerData[Len(got) + (n + i)]
      BY <3>1 DEF IInv, StreamPrefix
    <3>3. rxQueue'[i] = rxQueue[n + i]
      BY <1>1, Zenon
    <3> QED BY <3>1, <3>2, <3>3
  <2> QED BY <2>1, <2>2, <2>3 DEF StreamPrefix
<1>5. Parked'
  BY DEF IInv, Parked
<1>6. Aligned' /\ AckCoversQueued'
  BY <1>3 DEF IInv, Aligned, AckCoversQueued, Position
<1>7. EofComplete'
  BY DEF EofComplete
<1> QED BY <1>4, <1>5, <1>6, <1>7

\* Read keeps the invariant, in each of its returns.
LEMMA ReaderInv == ASSUME StreamFits, IInv, Reader PROVE IInv'
<1>1. FlagTypeOK'
  BY Zenon DEF IInv, TypeOK, FlagTypeOK, Reader, ReadBegin, ReadStep, ReadTimeout, tcb, peer
<1>2. CASE ReadBegin \/ ReadTimeout
  <2>1. TcbTypeOK' /\ WireTypeOK' /\ UNCHANGED <<stream, dial, state>> /\ rdRes' # "eof"
    BY <1>2 DEF IInv, TypeOK, TcbTypeOK, WireTypeOK, ReadBegin, ReadTimeout, ReadReturn,
       tcb, peer, stream
  <2>2. CallTypeOK'
    BY <1>2 DEF IInv, TypeOK, CallTypeOK, ReadBegin, ReadTimeout, ReadReturn
  <2> QED BY <1>1, <2>1, <2>2, StreamUntouched DEF IInv, TypeOK
<1>3. ASSUME NEW len \in 1 .. MaxRead, ReadStep(len) PROVE IInv'
  <2>1. CallTypeOK'
    BY <1>3, Zenon DEF IInv, TypeOK, CallTypeOK, ReadStep, ReadReturn, AtEnd
  <2>2. CASE rxQueue # <<>>
    <3> DEFINE n == IF len < Len(rxQueue) THEN len ELSE Len(rxQueue)
    <3>1. rxQueue \in Seq(Nat)
      BY DEF IInv, TypeOK, TcbTypeOK
    <3>2. n \in 0 .. Len(rxQueue)
      BY <3>1, ConnAssumption
    <3>3. /\ got' = got \o SubSeq(rxQueue, 1, n)
          /\ rxQueue' = SubSeq(rxQueue, n + 1, Len(rxQueue))
          /\ UNCHANGED <<rcvNxt, reassembly, peerFinSeen, rx, ackOut, state, dial>>
          /\ rdRes' # "eof"
      BY <1>3, <2>2, Zenon DEF ReadStep, ReadReturn, AtEnd
    <3> HIDE DEF n
    <3>4. /\ rxQueue' \in Seq(Nat) /\ got' \in Seq(Nat)
          /\ Len(got') = Len(got) + n /\ Len(rxQueue') = Len(rxQueue) - n
          /\ \A i \in 1 .. Len(got) : got'[i] = got[i]
          /\ \A i \in 1 .. n : got'[Len(got) + i] = rxQueue[i]
          /\ \A i \in 1 .. Len(rxQueue) - n : rxQueue'[i] = rxQueue[n + i]
      <4>1. got \in Seq(Nat)
        BY DEF IInv, TypeOK, WireTypeOK
      <4> DEFINE h == got \o SubSeq(rxQueue, 1, n)
                 t == SubSeq(rxQueue, n + 1, Len(rxQueue))
      <4>2. /\ h \in Seq(Nat) /\ t \in Seq(Nat)
            /\ Len(h) = Len(got) + n /\ Len(t) = Len(rxQueue) - n
            /\ \A i \in 1 .. Len(got) : h[i] = got[i]
            /\ \A i \in 1 .. n : h[Len(got) + i] = rxQueue[i]
            /\ \A i \in 1 .. Len(rxQueue) - n : t[i] = rxQueue[n + i]
        BY <3>1, <3>2, <4>1, SplitQueue
      <4>3. got' = h /\ rxQueue' = t
        BY <3>3, Zenon
      <4> HIDE DEF h, t
      <4> QED BY <4>2, <4>3, Zenon
    <3>5. Parked' /\ Aligned' /\ StreamPrefix' /\ EofComplete' /\ AckCoversQueued'
      BY <3>2, <3>3, <3>4, ReadDataInv, Zenon
    <3>6. TcbTypeOK' /\ WireTypeOK'
      BY <1>3, <3>4 DEF IInv, TypeOK, TcbTypeOK, WireTypeOK, ReadStep, AtEnd, peer
    <3> QED BY <1>1, <2>1, <3>5, <3>6 DEF IInv, TypeOK
  <2>3. CASE rxQueue = <<>>
    <3>1. UNCHANGED <<stream, dial, state>>
      BY <1>3, <2>3 DEF ReadStep, AtEnd, stream
    <3>2. TcbTypeOK' /\ WireTypeOK'
      BY <1>3, <2>3, Zenon DEF IInv, TypeOK, TcbTypeOK, WireTypeOK, ReadStep, AtEnd, peer
    <3>3. EofComplete'
      BY <1>3, <2>3, ConnAssumption
      DEF IInv, TypeOK, WireTypeOK, ReadStep, ReadReturn, AtEnd, EofComplete, Aligned, Accepted, StreamLen
    <3>4. Parked' /\ Aligned' /\ StreamPrefix' /\ AckCoversQueued'
      BY <3>1 DEF IInv, Parked, Aligned, Position, Accepted, StreamPrefix,
         AckCoversQueued, stream
    <3> QED BY <1>1, <2>1, <3>2, <3>3, <3>4 DEF IInv, TypeOK
  <2> QED BY <2>2, <2>3
<1> QED BY <1>2, <1>3 DEF Reader
-----------------------------------------------------------------------------
\* The receive path takes slices of the peer's stream at rcv.nxt.

\* rcv.nxt never points beyond the FIN.
LEMMA PositionType ==
  ASSUME IInv
  PROVE  /\ Len(got) \in Nat /\ Len(rxQueue) \in Nat /\ StreamLen \in Nat
         /\ Accepted \in 0 .. StreamLen /\ Position \in 0 .. StreamLen + 1
         /\ Position = IF peerFinSeen THEN StreamLen + 1 ELSE Accepted
<1>1. Len(got) \in Nat /\ Len(rxQueue) \in Nat /\ StreamLen \in Nat
  BY ConnAssumption DEF IInv, TypeOK, TcbTypeOK, WireTypeOK, StreamLen
<1>2. Accepted \in 0 .. StreamLen
  BY <1>1 DEF IInv, StreamPrefix, Accepted
<1>3. peerFinSeen => Accepted = StreamLen
  BY DEF IInv, Aligned
<1> HIDE DEF Accepted
<1> QED BY <1>1, <1>2, <1>3 DEF Position

\* A slice that starts at rcv.nxt is the next missing one; d is 1 when it
\* carries the FIN.  Taking it keeps the queue a prefix of the stream and
\* rcv.nxt at the next missing byte.
LEMMA TakeSlice ==
  ASSUME StreamFits, IInv, ackOut # NoAck,
         NEW payload \in Seq(Nat), NEW d \in {0, 1}, NEW off \in 0 .. StreamLen,
         rcvNxt = PeerSeq(off),
         off + Len(payload) <= StreamLen,
         d = 1 => off + Len(payload) = StreamLen,
         \A k \in 1 .. Len(payload) : payload[k] = PeerData[off + k],
         rxQueue' = rxQueue \o payload,
         rcvNxt' = SeqAdd(rcvNxt, Len(payload) + d),
         peerFinSeen' <=> peerFinSeen \/ d = 1,
         UNCHANGED <<got, ackOut>>
  PROVE  /\ rxQueue' \in Seq(Nat) /\ rcvNxt' \in SeqNum
         /\ StreamPrefix' /\ AckCoversQueued'
         /\ rcvNxt' = PeerSeq(Position')
         /\ peerFinSeen' => Accepted' = StreamLen
<1>1. /\ Len(got) \in Nat /\ Len(rxQueue) \in Nat /\ StreamLen \in Nat
      /\ Accepted \in 0 .. StreamLen /\ Position \in 0 .. StreamLen + 1
      /\ Position = IF peerFinSeen THEN StreamLen + 1 ELSE Accepted
  BY PositionType
<1>2. off \in 0 .. StreamLen + 1 /\ Len(payload) \in Nat
  BY <1>1
<1>3. off = Position
  <2>1. PeerSeq(off) = PeerSeq(Position)
    BY DEF IInv, Aligned
  <2> QED BY <1>1, <1>2, <2>1, PeerSeqInjective
<1>4. ~peerFinSeen /\ off = Accepted
  BY <1>1, <1>3
<1>5. /\ rxQueue' \in Seq(Nat) /\ Len(rxQueue') = Len(rxQueue) + Len(payload)
      /\ \A i \in 1 .. Len(rxQueue) + Len(payload) : rxQueue'[i] =
           IF i <= Len(rxQueue) THEN rxQueue[i] ELSE payload[i - Len(rxQueue)]
  <2>1. rxQueue \in Seq(Nat)
    BY DEF IInv, TypeOK, TcbTypeOK
  <2> QED BY <2>1, ConcatProperties
<1>6. Accepted' = off + Len(payload) /\ off = Len(got) + Len(rxQueue)
  BY <1>1, <1>2, <1>4, <1>5 DEF Accepted
<1>7. (peerFinSeen' <=> d = 1) /\ (peerFinSeen' => Accepted' = StreamLen)
  BY <1>4, <1>6
<1>8. Position' = off + Len(payload) + d /\ Position' <= StreamLen + 1
  BY <1>1, <1>2, <1>6, <1>7 DEF Position
<1>9. rcvNxt' = PeerSeq(Position')
  <2>1. Len(payload) + d \in Nat /\ off + (Len(payload) + d) = Position'
    BY <1>2, <1>8
  <2>2. off \in Nat /\ off + (Len(payload) + d) <= StreamLen + 1
    BY <1>2, <1>8, <2>1
  <2>3. SeqAdd(PeerSeq(off), Len(payload) + d) = PeerSeq(off + (Len(payload) + d))
    BY <2>1, <2>2, PeerSeqAdvance
  <2> QED BY Zenon, <2>1, <2>3
<1>10. rcvNxt' \in SeqNum
  <2>1. Position' \in 0 .. StreamLen + 1
    BY <1>1, <1>2, <1>8
  <2>2. \A a \in 0 .. StreamLen + 1 : PeerSeq(a) \in SeqNum
    BY PeerSeqType
  <2> QED BY Zenon, <1>9, <2>1, <2>2
<1>11. StreamPrefix'
  <2>1. ASSUME NEW i \in 1 .. Len(got') PROVE got'[i] = PeerData[i]
    BY DEF IInv, StreamPrefix
  <2>2. ASSUME NEW i \in 1 .. Len(rxQueue') PROVE rxQueue'[i] = PeerData[Len(got') + i]
    <3>0. i \in Nat /\ i \in 1 .. Len(rxQueue) + Len(payload)
      BY <1>1, <1>2, <1>5
    <3>1. CASE i <= Len(rxQueue)
      <4>1. rxQueue'[i] = rxQueue[i]
        BY <1>1, <1>5, <3>0, <3>1
      <4>2. i \in 1 .. Len(rxQueue)
        BY <1>1, <3>0, <3>1
      <4>3. rxQueue[i] = PeerData[Len(got) + i]
        BY <4>2 DEF IInv, StreamPrefix
      <4> QED BY Zenon, <4>1, <4>3
    <3>2. CASE i > Len(rxQueue)
      <4>1. \A g, q, l \in Nat : \A x \in 1 .. q + l :
              x > q => x - q \in 1 .. l /\ (g + q) + (x - q) = g + x
        OBVIOUS
      <4>2. /\ i - Len(rxQueue) \in 1 .. Len(payload)
            /\ (Len(got) + Len(rxQueue)) + (i - Len(rxQueue)) = Len(got) + i
        BY Zenon, <1>1, <1>2, <3>0, <3>2, <4>1
      <4>3. payload[i - Len(rxQueue)] = PeerData[off + (i - Len(rxQueue))]
        BY <4>2
      <4>4. off + (i - Len(rxQueue)) = Len(got) + i
        BY <1>6, <4>2
      <4>5. rxQueue'[i] = payload[i - Len(rxQueue)]
        BY <1>1, <1>5, <3>0, <3>2
      <4> QED BY <4>3, <4>4, <4>5
    <3> QED BY <1>1, <3>0, <3>1, <3>2
  <2> QED BY <1>6, <2>1, <2>2 DEF StreamPrefix
<1>12. AckCoversQueued'
  <2>1. PICK n \in 0 .. StreamLen + 1 : ackOut = PeerSeq(n) /\ n <= Position
    BY DEF IInv, AckCoversQueued, Position
  <2>2. n <= Position'
    BY <1>1, <1>2, <1>3, <1>8, <2>1
  <2> QED BY <2>1, <2>2 DEF AckCoversQueued, Position
<1> QED BY <1>5, <1>7, <1>9, <1>10, <1>11, <1>12

\* The transitions after acceptSegmentLocked never lead back to SYN_SENT.
LEMMA AfterAcceptType ==
  ASSUME NEW st \in States, NEW ack, NEW nxt, NEW fin
  PROVE  /\ AfterAccept(st, ack, nxt, fin) \in States
         /\ st # "SYN_SENT" => AfterAccept(st, ack, nxt, fin) # "SYN_SENT"
  BY DEF AfterAccept, States

\* Acknowledging rcv.nxt acknowledges exactly what was taken in.
LEMMA AckNext ==
  ASSUME StreamFits, IInv, ackOut # NoAck, UNCHANGED <<got, rxQueue, peerFinSeen, rcvNxt>>,
         ackOut' = rcvNxt
  PROVE  AckCoversQueued' /\ ackOut' \in SeqNum /\ ackOut' # NoAck
<1>1. Position \in 0 .. StreamLen + 1 /\ rcvNxt = PeerSeq(Position) /\ StreamLen \in Nat
  BY PositionType DEF IInv, Aligned
<1>2. ackOut' \in SeqNum
  BY DEF IInv, TypeOK, TcbTypeOK
<1>3. ackOut' # NoAck
  BY <1>2, SeqModAssumption DEF SeqNum, NoAck
<1>4. Position' = Position
  BY DEF Position, Accepted
<1>5. Position <= Position'
  BY <1>1, <1>4
<1>6. \E n \in 0 .. StreamLen + 1 : ackOut' = PeerSeq(n) /\ n <= Position'
  BY <1>1, <1>5
<1> QED BY <1>2, <1>3, <1>6 DEF AckCoversQueued, Position

\* Merging a parked segment that has become next keeps the invariant
\* (drainReassemblyLocked, one turn of its loop).
LEMMA DrainStepInv == ASSUME StreamFits, IInv, DrainStep PROVE IInv'
<1> DEFINE Entry == [seq : SeqNum, payload : Seq(Nat), fin : BOOLEAN]
<1>1. FlagTypeOK'
  BY Zenon DEF IInv, TypeOK, FlagTypeOK, DrainStep, peer
<1>2. CallTypeOK' /\ WireTypeOK'
  BY DEF IInv, TypeOK, CallTypeOK, WireTypeOK, DrainStep, peer
<1>3. PICK i \in 1 .. Len(reassembly) :
        /\ reassembly[i].seq = rcvNxt
        /\ rxQueue' = rxQueue \o reassembly[i].payload
        /\ rcvNxt' = SeqAdd(rcvNxt, Len(reassembly[i].payload)
                                      + (IF reassembly[i].fin THEN 1 ELSE 0))
        /\ IF reassembly[i].fin THEN peerFinSeen' = TRUE ELSE UNCHANGED peerFinSeen
        /\ reassembly' = [j \in 1 .. Len(reassembly) - 1 |->
                            IF j < i THEN reassembly[j] ELSE reassembly[j + 1]]
  BY Zenon DEF DrainStep, FirstMatch, Matching
<1>4. reassembly \in Seq(Entry) /\ Len(reassembly) \in Nat /\ Len(reassembly) <= ReassemblyDepth
  BY DEF IInv, TypeOK, TcbTypeOK
<1> HIDE DEF Entry
<1>5. reassembly[i] \in Entry
  BY <1>4, ElementOfSeq
<1>6. PICK off \in 0 .. StreamLen :
        CutAt(reassembly[i].seq, reassembly[i].payload, reassembly[i].fin, off)
  BY Zenon, <1>3 DEF IInv, Parked, IsSlice
<1>7. /\ rxQueue' \in Seq(Nat) /\ rcvNxt' \in SeqNum
      /\ StreamPrefix' /\ AckCoversQueued'
      /\ rcvNxt' = PeerSeq(Position')
      /\ peerFinSeen' => Accepted' = StreamLen
  <2> DEFINE payload == reassembly[i].payload
             d == IF reassembly[i].fin THEN 1 ELSE 0
  <2>1. payload \in Seq(Nat) /\ d \in {0, 1}
    BY <1>5 DEF Entry
  <2>2. ackOut # NoAck /\ UNCHANGED <<got, ackOut>>
    BY DEF IInv, Aligned, DrainStep
  <2>3. /\ rcvNxt = PeerSeq(off)
        /\ off + Len(payload) <= StreamLen
        /\ d = 1 => off + Len(payload) = StreamLen
        /\ \A k \in 1 .. Len(payload) : payload[k] = PeerData[off + k]
    BY <1>3, <1>6 DEF CutAt
  <2>4. /\ rxQueue' = rxQueue \o payload
        /\ rcvNxt' = SeqAdd(rcvNxt, Len(payload) + d)
    BY <1>3
  <2>5. peerFinSeen' <=> peerFinSeen \/ d = 1
    BY <1>3
  <2> HIDE DEF payload, d
  <2> QED BY <2>1, <2>2, <2>3, <2>4, <2>5, TakeSlice, Zenon
<1>8. /\ reassembly' \in Seq(Entry) /\ Len(reassembly') <= ReassemblyDepth
      /\ \A j \in 1 .. Len(reassembly') :
           \E k \in 1 .. Len(reassembly) : reassembly'[j] = reassembly[k]
  <2>1. Len(reassembly) - 1 \in Nat
    BY <1>4
  <2>2. \A j \in 1 .. Len(reassembly) - 1 : j \in 1 .. Len(reassembly) /\ j + 1 \in 1 .. Len(reassembly)
    BY <1>4
  <2>3. reassembly' \in [1 .. Len(reassembly) - 1 -> Entry]
    BY <1>3, <1>4, <2>2
  <2>4. reassembly' \in Seq(Entry)
    BY <2>1, <2>3, SeqDef
  <2>5. Len(reassembly') = Len(reassembly) - 1
    BY <2>1, <2>3, <2>4
  <2>6. \A j \in 1 .. Len(reassembly') :
           \E k \in 1 .. Len(reassembly) : reassembly'[j] = reassembly[k]
    BY <1>3, <2>2, <2>5
  <2>7. Len(reassembly') <= ReassemblyDepth
    BY <1>4, <2>5, ConnAssumption
  <2> QED BY <2>4, <2>6, <2>7
<1>9. TcbTypeOK'
  BY <1>7, <1>8, Zenon DEF IInv, TypeOK, TcbTypeOK, DrainStep, Entry
<1>10. Parked'
  BY Zenon, <1>8 DEF IInv, Parked
<1>11. Aligned' /\ EofComplete'
  BY <1>7, Zenon DEF IInv, Aligned, EofComplete, DrainStep
<1> QED BY <1>1, <1>2, <1>7, <1>9, <1>10, <1>11 DEF IInv, TypeOK

\* When no parked segment is next, acknowledging rcv.nxt keeps the invariant
\* (the end of acceptSegmentLocked).
LEMMA DrainDoneInv == ASSUME StreamFits, IInv, DrainDone PROVE IInv'
<1>1. FlagTypeOK'
  BY Zenon DEF IInv, TypeOK, FlagTypeOK, DrainDone, peer
<1>2. ackOut # NoAck /\ state # "SYN_SENT" /\ dial # "none"
  BY DEF IInv, Aligned, DrainDone
<1>3. AckCoversQueued' /\ ackOut' \in SeqNum /\ ackOut' # NoAck
  BY <1>2, AckNext DEF DrainDone, SendAck
<1>4. state' \in States /\ state' # "SYN_SENT"
  BY <1>2, AfterAcceptType DEF IInv, TypeOK, TcbTypeOK, DrainDone
<1>5. TcbTypeOK'
  BY <1>4 DEF IInv, TypeOK, TcbTypeOK, DrainDone
<1>6. CallTypeOK'
  BY SeqModAssumption DEF IInv, TypeOK, CallTypeOK, DrainDone, SeqNum
<1>7. WireTypeOK'
  BY <1>3 DEF IInv, TypeOK, WireTypeOK, DrainDone, peer
<1>8. Parked' /\ StreamPrefix' /\ EofComplete'
  BY DEF IInv, Parked, StreamPrefix, Accepted, EofComplete, DrainDone
<1>9. Aligned'
  BY <1>2, <1>3, <1>4 DEF IInv, Aligned, Position, Accepted, DrainDone
<1> QED BY <1>1, <1>3, <1>5, <1>6, <1>7, <1>8, <1>9 DEF IInv, TypeOK

-----------------------------------------------------------------------------
\* deliverSegment.

\* What the proofs need to know of a segment that arrives.
Genuine(m) ==
  /\ m.payload \in Seq(Nat) /\ m.seq \in SeqNum /\ m.ack \in SeqNum
  /\ m.payload # <<>> \/ "FIN" \in m.flags =>
       IsSlice([seq |-> m.seq, payload |-> m.payload, fin |-> "FIN" \in m.flags])
  /\ "SYN" \in m.flags => dial # "none" /\ SeqAdd(m.seq, 1) = PeerSeq(0)

\* A genuine segment at rcv.nxt is taken in (acceptSegmentLocked, case 1).
LEMMA AcceptInOrderInv ==
  ASSUME StreamFits, IInv, NEW m, Genuine(m), ackOut # NoAck, dial # "none",
         state # "SYN_SENT", m.payload # <<>> \/ "FIN" \in m.flags,
         AcceptInOrder(m.seq, m.payload, "FIN" \in m.flags, m.ack), UNCHANGED <<got, rdRes, dial>>
  PROVE  /\ rxQueue' \in Seq(Nat) /\ rcvNxt' \in SeqNum
         /\ Parked' /\ Aligned' /\ StreamPrefix' /\ EofComplete' /\ AckCoversQueued'
<1> DEFINE payload == m.payload
           d == IF "FIN" \in m.flags THEN 1 ELSE 0
<1>1. payload \in Seq(Nat) /\ d \in {0, 1}
  BY DEF Genuine
<1>2. PICK off \in 0 .. StreamLen : CutAt(m.seq, m.payload, "FIN" \in m.flags, off)
  BY DEF Genuine, IsSlice
<1>3. /\ rcvNxt = PeerSeq(off)
      /\ off + Len(payload) <= StreamLen
      /\ d = 1 => off + Len(payload) = StreamLen
      /\ \A k \in 1 .. Len(payload) : payload[k] = PeerData[off + k]
  BY <1>2 DEF CutAt, AcceptInOrder, InOrder
<1>4. /\ rxQueue' = rxQueue \o payload
      /\ rcvNxt' = SeqAdd(rcvNxt, Len(payload) + d)
      /\ peerFinSeen' <=> peerFinSeen \/ d = 1
      /\ UNCHANGED <<got, ackOut>>
  BY DEF AcceptInOrder
<1> HIDE DEF payload, d
<1>5. /\ rxQueue' \in Seq(Nat) /\ rcvNxt' \in SeqNum
      /\ StreamPrefix' /\ AckCoversQueued'
      /\ rcvNxt' = PeerSeq(Position')
      /\ peerFinSeen' => Accepted' = StreamLen
  BY <1>1, <1>3, <1>4, TakeSlice, Zenon
<1>6. Parked' /\ EofComplete'
  BY DEF IInv, Parked, EofComplete, AcceptInOrder
<1>7. Aligned'
  BY <1>5, Zenon DEF Aligned, AcceptInOrder
<1> QED BY <1>5, <1>6, <1>7

\* A genuine segment ahead is parked or dropped, one behind is acknowledged
\* again (acceptSegmentLocked, cases 2 and 3).
LEMMA AcceptOtherInv ==
  ASSUME StreamFits, IInv, NEW m, Genuine(m), ackOut # NoAck, dial # "none",
         state # "SYN_SENT", m.payload # <<>> \/ "FIN" \in m.flags,
         AcceptOther(m.seq, m.payload, "FIN" \in m.flags, m.ack), UNCHANGED <<got, rdRes, dial>>
  PROVE  /\ state' \in States /\ ackOut' \in SeqNum
         /\ reassembly' \in Seq([seq : SeqNum, payload : Seq(Nat), fin : BOOLEAN])
         /\ Len(reassembly') <= ReassemblyDepth
         /\ Parked' /\ Aligned' /\ StreamPrefix' /\ EofComplete' /\ AckCoversQueued'
<1> DEFINE Entry == [seq : SeqNum, payload : Seq(Nat), fin : BOOLEAN]
           e == [seq |-> m.seq, payload |-> m.payload, fin |-> "FIN" \in m.flags]
<1>1. AckCoversQueued' /\ ackOut' \in SeqNum /\ ackOut' # NoAck
  BY AckNext DEF AcceptOther, SendAck
<1>2. state' \in States /\ state' # "SYN_SENT"
  BY AfterAcceptType DEF IInv, TypeOK, TcbTypeOK, AcceptOther
<1>3. e \in Entry /\ IsSlice(e)
  BY DEF Genuine
<1>4. reassembly \in Seq(Entry) /\ Len(reassembly) <= ReassemblyDepth /\ Len(reassembly) \in Nat
  BY DEF IInv, TypeOK, TcbTypeOK
<1>5. \/ reassembly' = reassembly
      \/ Len(reassembly) < ReassemblyDepth /\ reassembly' = Append(reassembly, e)
  BY Zenon DEF AcceptOther, Room
<1> HIDE DEF Entry, e
<1>6. reassembly' \in Seq(Entry) /\ Len(reassembly') <= ReassemblyDepth /\ Parked'
  <2>1. CASE reassembly' = reassembly
    BY Zenon, <1>4, <2>1 DEF IInv, Parked
  <2>2. CASE Len(reassembly) < ReassemblyDepth /\ reassembly' = Append(reassembly, e)
    <3>1. /\ reassembly' \in Seq(Entry) /\ Len(reassembly') = Len(reassembly) + 1
          /\ \A i \in 1 .. Len(reassembly) : reassembly'[i] = reassembly[i]
          /\ reassembly'[Len(reassembly) + 1] = e
      BY <1>3, <1>4, <2>2, AppendProperties
    <3>2. Len(reassembly') <= ReassemblyDepth
      BY <1>4, <2>2, <3>1, ConnAssumption
    <3>3. ASSUME NEW i \in 1 .. Len(reassembly') PROVE IsSlice(reassembly'[i])
      <4>1. i \in 1 .. Len(reassembly) \/ i = Len(reassembly) + 1
        BY <1>4, <3>1
      <4>2. ASSUME i \in 1 .. Len(reassembly) PROVE IsSlice(reassembly'[i])
        BY Zenon, <3>1, <4>2 DEF IInv, Parked
      <4>3. ASSUME i = Len(reassembly) + 1 PROVE IsSlice(reassembly'[i])
        BY Zenon, <1>3, <3>1, <4>3
      <4> QED BY Zenon, <4>1, <4>2, <4>3
    <3> QED BY <3>1, <3>2, <3>3 DEF Parked
  <2> QED BY <1>5, <2>1, <2>2
<1>7. StreamPrefix' /\ EofComplete'
  BY DEF IInv, StreamPrefix, EofComplete, Accepted, AcceptOther
<1>8. Aligned'
  BY <1>1, <1>2 DEF IInv, Aligned, Position, Accepted, AcceptOther
<1> QED BY <1>1, <1>2, <1>6, <1>7, <1>8 DEF Entry

\* A genuine segment keeps the invariant in every state of the connection
\* (deliverSegment).
LEMMA DeliverInv ==
  ASSUME StreamFits, IInv, NEW m, Genuine(m), deliverSegment(m)
  PROVE  IInv'
<1>1. FlagTypeOK'
  <2>1. UNCHANGED <<registered, peer>>
    BY DEF deliverSegment
  <2>2. closed' \in BOOLEAN
    BY Zenon DEF IInv, TypeOK, FlagTypeOK, deliverSegment, DeliverRst, DeliverSynSent,
       DeliverOpen, DeliverClosing
  <2>3. peerFinSeen' \in BOOLEAN
    BY Zenon DEF IInv, TypeOK, FlagTypeOK, deliverSegment, DeliverRst, DeliverSynSent,
       DeliverOpen, DeliverClosing, AcceptInOrder, AcceptOther, AcceptNothing
  <2> QED BY Zenon, <2>1, <2>2, <2>3 DEF IInv, TypeOK, FlagTypeOK, peer
<1>2. UNCHANGED <<dial, wr, rd, cl, rdRes, got, handed, sent, toPeer, peerRcvd>> /\ ~rx.busy
  BY DEF deliverSegment, peer
<1>3. m.payload \in Seq(Nat) /\ m.seq \in SeqNum /\ m.ack \in SeqNum
  BY DEF Genuine
<1>4. CASE DeliverRst(m) \/ DeliverClosing(m)
  <2>1. TcbTypeOK' /\ CallTypeOK' /\ WireTypeOK'
    BY <1>2, <1>4 DEF IInv, TypeOK, TcbTypeOK, CallTypeOK, WireTypeOK, DeliverRst, DeliverClosing, States
  <2>2. UNCHANGED stream /\ state' \in {"CLOSED", "TIME_WAIT"}
    BY <1>2, <1>4, Zenon DEF DeliverRst, DeliverClosing, stream
  <2>3. Parked' /\ StreamPrefix' /\ EofComplete' /\ AckCoversQueued'
    BY <1>2, <2>2 DEF IInv, Parked, StreamPrefix, EofComplete, AckCoversQueued, Accepted, stream
  <2>4. Aligned'
    BY <1>2, <2>2 DEF IInv, Aligned, Position, Accepted, stream
  <2> QED BY <1>1, <2>1, <2>3, <2>4 DEF IInv, TypeOK
<1>5. CASE DeliverSynSent(m)
  <2>1. rcvNxt' = PeerSeq(0) /\ ackOut' = rcvNxt' /\ dial # "none"
    BY <1>5 DEF DeliverSynSent, SendAck, Genuine
  <2>2. Position = 0 /\ Accepted = 0 /\ ~peerFinSeen /\ StreamLen \in Nat
    <3>1. Position = 0 /\ ackOut = NoAck
      BY <1>5 DEF IInv, Aligned, DeliverSynSent
    <3>2. /\ StreamLen \in Nat /\ Accepted \in 0 .. StreamLen
          /\ Position = IF peerFinSeen THEN StreamLen + 1 ELSE Accepted
      BY PositionType
    <3> HIDE DEF Position, Accepted
    <3> QED BY <3>1, <3>2
  <2>3. Position' = 0 /\ Accepted' = 0 /\ ~peerFinSeen'
    BY <1>2, <1>5, <2>2 DEF Position, Accepted, DeliverSynSent
  <2>4. PeerSeq(0) \in SeqNum
    BY <2>2, PeerSeqType
  <2>5. TcbTypeOK' /\ CallTypeOK'
    BY <1>2, <1>3, <1>5, <2>1, <2>4 DEF IInv, TypeOK, TcbTypeOK, CallTypeOK, DeliverSynSent, States
  <2>6. WireTypeOK'
    BY <1>2, <2>1, <2>4 DEF IInv, TypeOK, WireTypeOK
  <2>7. Parked' /\ StreamPrefix' /\ EofComplete'
    BY <1>2, <1>5 DEF IInv, Parked, StreamPrefix, EofComplete, Accepted, DeliverSynSent
  <2>8. ackOut' # NoAck
    BY <2>1, <2>4, SeqModAssumption DEF SeqNum, NoAck
  <2>9. Aligned'
    BY <1>2, <1>5, <2>1, <2>3, <2>8 DEF Aligned, DeliverSynSent
  <2>10. AckCoversQueued'
    <3>1. \E n \in 0 .. StreamLen + 1 : ackOut' = PeerSeq(n) /\ n <= Position'
      BY <2>1, <2>2, <2>3
    <3> QED BY <3>1 DEF AckCoversQueued, Position
  <2> QED BY <1>1, <2>5, <2>6, <2>7, <2>9, <2>10 DEF IInv, TypeOK
<1>6. CASE DeliverOpen(m)
  <2>1. ackOut # NoAck /\ dial # "none" /\ state # "SYN_SENT" /\ state \in States
    BY <1>6 DEF IInv, Aligned, DeliverOpen, States
  <2>2. sndUna' \in SeqNum /\ sndNxt' \in SeqNum
    BY <1>3, <1>6 DEF IInv, TypeOK, TcbTypeOK, DeliverOpen
  <2>3. CASE /\ m.payload # <<>> \/ "FIN" \in m.flags
             /\ AcceptInOrder(m.seq, m.payload, "FIN" \in m.flags, m.ack)
    <3>1. /\ rxQueue' \in Seq(Nat) /\ rcvNxt' \in SeqNum
          /\ Parked' /\ Aligned' /\ StreamPrefix' /\ EofComplete' /\ AckCoversQueued'
      BY <1>2, <2>1, <2>3, AcceptInOrderInv
    <3>2. TcbTypeOK' /\ CallTypeOK' /\ WireTypeOK'
      <4>1. state' = state /\ reassembly' = reassembly /\ ackOut' = ackOut
            /\ rx' = [busy |-> TRUE, ack |-> m.ack]
        BY <2>3 DEF AcceptInOrder
      <4>2. rx' \in [busy : BOOLEAN, ack : SeqNum]
        BY <1>3, <4>1
      <4> QED BY <1>2, <2>2, <3>1, <4>1, <4>2
              DEF IInv, TypeOK, TcbTypeOK, CallTypeOK, WireTypeOK
    <3> QED BY <1>1, <3>1, <3>2 DEF IInv, TypeOK
  <2>4. CASE /\ m.payload # <<>> \/ "FIN" \in m.flags
             /\ AcceptOther(m.seq, m.payload, "FIN" \in m.flags, m.ack)
    <3>1. /\ state' \in States /\ ackOut' \in SeqNum
          /\ reassembly' \in Seq([seq : SeqNum, payload : Seq(Nat), fin : BOOLEAN])
          /\ Len(reassembly') <= ReassemblyDepth
          /\ Parked' /\ Aligned' /\ StreamPrefix' /\ EofComplete' /\ AckCoversQueued'
      BY <1>2, <2>1, <2>4, AcceptOtherInv, Zenon
    <3>2. UNCHANGED <<rcvNxt, rxQueue, rx>>
      BY <2>4 DEF AcceptOther
    <3>3. TcbTypeOK' /\ CallTypeOK' /\ WireTypeOK'
      BY <1>2, <2>2, <3>1, <3>2 DEF IInv, TypeOK, TcbTypeOK, CallTypeOK, WireTypeOK
    <3> QED BY <1>1, <3>1, <3>3 DEF IInv, TypeOK
  <2>5. CASE AcceptNothing(m.ack)
    <3>1. state' \in States /\ state' # "SYN_SENT"
      BY <2>1, <2>5, AfterAcceptType DEF AcceptNothing
    <3>2. UNCHANGED stream
      BY <1>2, <2>5 DEF AcceptNothing, stream
    <3>3. TcbTypeOK' /\ CallTypeOK' /\ WireTypeOK'
      BY <1>2, <2>2, <3>1, <3>2 DEF IInv, TypeOK, TcbTypeOK, CallTypeOK, WireTypeOK, stream
    <3>4. Parked' /\ Aligned' /\ StreamPrefix' /\ EofComplete' /\ AckCoversQueued'
      BY <1>2, <2>1, <3>1, <3>2, StreamUntouched
    <3> QED BY <1>1, <3>3, <3>4 DEF IInv, TypeOK
  <2> QED BY Zenon, <1>6, <2>3, <2>4, <2>5 DEF DeliverOpen
<1> QED BY <1>4, <1>5, <1>6 DEF deliverSegment

\* The len bytes of the stream from offset off, as a sequence.
LEMMA StreamSlice ==
  ASSUME NEW off \in 0 .. StreamLen, NEW len \in Nat, off + len <= StreamLen
  PROVE  LET p == SubSeq(PeerData, off + 1, off + len)
         IN  p \in Seq(Nat) /\ Len(p) = len /\ \A k \in 1 .. len : p[k] = PeerData[off + k]
<1> DEFINE p == SubSeq(PeerData, off + 1, off + len)
<1>1. StreamLen \in Nat /\ PeerData \in Seq(Nat) /\ StreamLen = Len(PeerData)
  BY ConnAssumption DEF StreamLen
<1>2. off + 1 \in Int /\ off + len \in Int
  BY <1>1
<1>3. \A i \in off + 1 .. off + len : PeerData[i] \in Nat
  BY <1>1
<1>4. /\ p \in Seq(Nat)
      /\ Len(p) = IF off + 1 <= off + len THEN off + len - (off + 1) + 1 ELSE 0
      /\ \A i \in 1 .. off + len - (off + 1) + 1 : p[i] = PeerData[off + 1 + i - 1]
  BY <1>2, <1>3, SubSeqProperties
<1> HIDE DEF p
<1>5. \A k \in 1 .. len : off + 1 + k - 1 = off + k
  BY <1>1
<1>6. off + len - (off + 1) + 1 = len
  BY <1>1
<1>7. (IF off + 1 <= off + len THEN len ELSE 0) = len
  BY <1>1
<1>8. p \in Seq(Nat) /\ Len(p) = len /\ \A k \in 1 .. len : p[k] = PeerData[off + k]
  BY <1>4, <1>5, <1>6, <1>7
<1> QED BY <1>8 DEF p

\* The peer's SYN-ACK is genuine once the client has dialled.
LEMMA SynAckGenuine == ASSUME dial # "none" PROVE Genuine(SynAckSegment)
<1>1. PeerAck(0) \in SeqNum /\ IRS \in SeqNum /\ SeqAdd(IRS, 1) = PeerSeq(0)
  BY ConnAssumption, PeerAckType DEF PeerSeq
<1> QED BY <1>1 DEF Genuine, SynAckSegment, Segment

\* So is its RST.
LEMMA RstGenuine == Genuine(RstSegment)
<1>1. PeerAck(0) \in SeqNum /\ 0 \in SeqNum
  BY SeqModAssumption, ConnAssumption, PeerAckType DEF SeqNum
<1> QED BY <1>1 DEF Genuine, RstSegment, Segment

\* A segment the peer cuts from its stream is genuine.
LEMMA PeerSegmentGenuine ==
  ASSUME StreamFits, NEW off \in 0 .. StreamLen, NEW len \in Nat, NEW fin \in BOOLEAN,
         NEW n \in 0 .. MaxBytes + 1,
         off + len <= StreamLen, fin => off + len = StreamLen
  PROVE  Genuine(PeerSegment(off, len, fin, n))
<1> DEFINE p == SubSeq(PeerData, off + 1, off + len)
           m == PeerSegment(off, len, fin, n)
           f == "FIN" \in m.flags
<1>1. StreamLen \in Nat /\ PeerData \in Seq(Nat) /\ StreamLen = Len(PeerData)
  BY ConnAssumption DEF StreamLen
<1>2. p \in Seq(Nat) /\ Len(p) = len /\ \A k \in 1 .. len : p[k] = PeerData[off + k]
  BY StreamSlice
<1>3. m.payload = p /\ m.seq = PeerSeq(off) /\ m.ack = PeerAck(n)
  BY DEF PeerSegment, Segment
<1>4. f = fin /\ "SYN" \notin m.flags
  BY DEF PeerSegment, Segment
<1>5. m.seq \in SeqNum /\ m.ack \in SeqNum
  <2>1. off \in 0 .. StreamLen + 1
    BY <1>1
  <2> QED BY <1>3, <2>1, PeerSeqType, PeerAckType
<1> HIDE DEF p, m
<1>6. CutAt(m.seq, m.payload, f, off)
  BY <1>1, <1>2, <1>3, <1>4 DEF CutAt
<1>7. IsSlice([seq |-> m.seq, payload |-> m.payload, fin |-> f])
  BY <1>6 DEF IsSlice
<1>8. Genuine(m)
  BY <1>2, <1>3, <1>4, <1>5, <1>7 DEF Genuine
<1> QED BY <1>8 DEF m

\* Every segment in flight is genuine, so delivering, losing or repeating it
\* keeps the invariant.
LEMMA NetworkInv == ASSUME StreamFits, IInv, Network PROVE IInv'
<1>1. CASE DeliverStream
  <2>1. PICK off \in 0 .. StreamLen, len \in 0 .. PeerMaxSeg, fin \in BOOLEAN,
             n \in 0 .. MaxBytes + 1 :
          MayArrive(off, len, fin, n) /\ deliverSegment(PeerSegment(off, len, fin, n))
    BY <1>1 DEF DeliverStream
  <2>2. off + len <= StreamLen /\ (fin => off + len = StreamLen) /\ len \in Nat
    BY <2>1, ConnAssumption DEF MayArrive
  <2>3. Genuine(PeerSegment(off, len, fin, n))
    BY <2>2, PeerSegmentGenuine
  <2> QED BY <2>1, <2>3, DeliverInv
<1>2. CASE DeliverSynAck
  BY <1>2, SynAckGenuine, DeliverInv DEF DeliverSynAck
<1>3. CASE DeliverReset
  BY <1>3, RstGenuine, DeliverInv DEF DeliverReset
<1> QED BY <1>1, <1>2, <1>3, DrainStepInv, DrainDoneInv DEF Network

-----------------------------------------------------------------------------
\* Every step of Tcp4Conn, and stuttering, preserves the invariant.
LEMMA NextInv == ASSUME StreamFits, IInv, [Next]_vars PROVE IInv'
<1>1. CASE Next
  BY <1>1, NetworkInv, DialerInv, WriterInv, ReaderInv, CloserInv, PeerInv DEF Next
<1>2. CASE UNCHANGED vars
  <2>1. FlagTypeOK'
    BY Zenon, <1>2 DEF IInv, TypeOK, FlagTypeOK, vars, tcb, peer
  <2>2. TcbTypeOK' /\ CallTypeOK' /\ WireTypeOK'
    <3>1. TcbTypeOK'
      BY Zenon, <1>2 DEF IInv, TypeOK, TcbTypeOK, vars, tcb
    <3>2. CallTypeOK'
      BY <1>2 DEF IInv, TypeOK, CallTypeOK, vars
    <3>3. WireTypeOK'
      BY Zenon, <1>2 DEF IInv, TypeOK, WireTypeOK, vars, peer
    <3> QED BY <3>1, <3>2, <3>3
  <2>3. Parked' /\ Aligned' /\ StreamPrefix' /\ EofComplete' /\ AckCoversQueued'
    BY <1>2, StreamUntouched DEF vars, tcb, stream
  <2> QED BY <2>1, <2>2, <2>3 DEF IInv, TypeOK
<1> QED BY <1>1, <1>2

\* Whatever the network loses, repeats or reorders and however the goroutines
\* interleave, the connection keeps its inductive invariant.
THEOREM ConnInvariant == ASSUME StreamFits PROVE Spec => []IInv
<1>1. Init => IInv
  BY InitInv
<1>2. IInv /\ [Next]_vars => IInv'
  BY NextInv
<1> QED BY <1>1, <1>2, PTL DEF Spec

\* Every variable of the connection keeps its type and the reassembly table
\* its bound of TCP4ReassemblyDepth segments.
THEOREM ConnTypeOK == ASSUME StreamFits PROVE Spec => []TypeOK
<1>1. IInv => TypeOK
  BY DEF IInv
<1> QED BY <1>1, ConnInvariant, PTL

\* Read returns a prefix of what the peer sent, for every stream shorter than
\* the sequence space, every segmentation and every network, and reports the end
\* of the stream only after its last byte (Read, acceptSegmentLocked,
\* drainReassemblyLocked).
THEOREM ReadsPrefixOfStream == ASSUME StreamFits PROVE Spec => []StreamIntegrity
<1>1. IInv => StreamIntegrity
  BY DEF IInv, StreamIntegrity
<1> QED BY <1>1, ConnInvariant, PTL

\* The client never acknowledges a byte that is not queued for Read.
THEOREM AcksCoverQueuedBytes == ASSUME StreamFits PROVE Spec => []AckCoversQueued
<1>1. IInv => AckCoversQueued
  BY DEF IInv
<1> QED BY <1>1, ConnInvariant, PTL

-----------------------------------------------------------------------------
(* Tcp4Conn implements ByteStream.  The invariant before and after a step   *)
(* says what the step can have put into the queue: the bytes appended to it *)
(* continue the stream, whichever segment brought them.                     *)

\* What a reader can see of the connection.
seen == <<rxQueue, got, peerFinSeen, rdRes>>

\* A step that appends p to the queue is a Receive of the next Len(p) bytes.
LEMMA QueueGrows ==
  ASSUME IInv, IInv', NEW p \in Seq(Nat), rxQueue' = rxQueue \o p,
         UNCHANGED <<got, rdRes>>, peerFinSeen => peerFinSeen'
  PROVE  Stream!Next
<1> DEFINE off == Len(got) + Len(rxQueue)
           n == Len(p)
           q == SubSeq(PeerData, off + 1, off + n)
<1>1. /\ rxQueue \in Seq(Nat) /\ got \in Seq(Nat) /\ PeerData \in Seq(Nat)
      /\ peerFinSeen \in BOOLEAN /\ peerFinSeen' \in BOOLEAN
  BY Zenon, ConnAssumption DEF IInv, TypeOK, FlagTypeOK, TcbTypeOK, WireTypeOK
<1>2. /\ Len(rxQueue') = Len(rxQueue) + n
      /\ \A i \in 1 .. Len(rxQueue) + n :
           rxQueue'[i] = IF i <= Len(rxQueue) THEN rxQueue[i] ELSE p[i - Len(rxQueue)]
  BY <1>1, ConcatProperties
<1>3. n \in Nat /\ Len(rxQueue) \in Nat /\ Len(got) \in Nat /\ StreamLen \in Nat
  BY <1>1 DEF StreamLen
<1>4. off + n <= StreamLen /\ Accepted' = off + n
  BY <1>2, <1>3 DEF IInv, StreamPrefix, Accepted
<1>5. ASSUME NEW k \in 1 .. n PROVE p[k] = PeerData[off + k]
  <2>1. /\ Len(rxQueue) + k \in 1 .. Len(rxQueue) + n /\ ~(Len(rxQueue) + k <= Len(rxQueue))
        /\ (Len(rxQueue) + k) - Len(rxQueue) = k /\ Len(got) + (Len(rxQueue) + k) = off + k
    BY <1>3
  <2>2. rxQueue'[Len(rxQueue) + k] = p[k]
    BY <1>2, <2>1
  <2>3. rxQueue'[Len(rxQueue) + k] = PeerData[Len(got) + (Len(rxQueue) + k)]
    BY <1>2, <2>1, Zenon DEF IInv, StreamPrefix
  <2> QED BY <2>1, <2>2, <2>3
<1>6. q \in Seq(Nat) /\ Len(q) = n /\ \A k \in 1 .. n : q[k] = PeerData[off + k]
  <2>1. off \in 0 .. StreamLen
    BY <1>3, <1>4
  <2> HIDE DEF off, n
  <2> QED BY <1>3, <1>4, <2>1, StreamSlice, Zenon
<1>7. p = q
  <2> HIDE DEF q, off
  <2>1. \A k \in 1 .. Len(p) : p[k] = q[k]
    BY <1>5, <1>6
  <2> QED BY <1>6, <2>1, SeqEqual
<1>8. peerFinSeen' => off + n = StreamLen
  BY <1>4 DEF IInv, Aligned
<1>9. peerFinSeen' = (peerFinSeen \/ peerFinSeen')
  BY Zenon, <1>1
<1>10. Stream!Receive(n, peerFinSeen')
  BY <1>4, <1>7, <1>8, <1>9, Zenon DEF Stream!Receive, StreamLen
<1>11. n \in 0 .. Len(PeerData)
  BY <1>3, <1>4 DEF StreamLen
<1> QED BY <1>1, <1>10, <1>11 DEF Stream!Next

\* A step that touches nothing a reader can see stutters.
LEMMA NothingSeen == ASSUME UNCHANGED seen PROVE UNCHANGED Stream!vars
  BY DEF seen, Stream!vars

\* Delivering a segment queues the next bytes or changes nothing a reader sees.
LEMMA DeliverIsReceive ==
  ASSUME StreamFits, IInv, NEW m, Genuine(m), deliverSegment(m), IInv'
  PROVE  [Stream!Next]_Stream!vars
<1>1. CASE DeliverOpen(m) /\ AcceptInOrder(m.seq, m.payload, "FIN" \in m.flags, m.ack)
  <2>1. m.payload \in Seq(Nat)
    BY DEF Genuine
  <2>2. rxQueue' = rxQueue \o m.payload /\ (peerFinSeen => peerFinSeen')
    BY <1>1 DEF AcceptInOrder
  <2>3. UNCHANGED <<got, rdRes>>
    BY DEF deliverSegment
  <2> QED BY <2>1, <2>2, <2>3, QueueGrows, Zenon
<1>2. CASE DeliverOpen(m) /\ ~AcceptInOrder(m.seq, m.payload, "FIN" \in m.flags, m.ack)
  <2>1. UNCHANGED <<rxQueue, peerFinSeen>>
    BY Zenon, <1>2 DEF DeliverOpen, AcceptOther, AcceptNothing
  <2> QED BY <2>1, NothingSeen DEF deliverSegment, seen
<1>3. CASE DeliverRst(m) \/ DeliverSynSent(m) \/ DeliverClosing(m)
  BY <1>3, NothingSeen DEF deliverSegment, DeliverRst, DeliverSynSent, DeliverClosing, seen
<1> QED BY <1>1, <1>2, <1>3 DEF deliverSegment

\* So does one round of drainReassemblyLocked.
LEMMA DrainIsReceive ==
  ASSUME StreamFits, IInv, DrainStep, IInv' PROVE Stream!Next
<1>1. PICK i \in 1 .. Len(reassembly) :
        /\ rxQueue' = rxQueue \o reassembly[i].payload
        /\ IF reassembly[i].fin THEN peerFinSeen' = TRUE ELSE UNCHANGED peerFinSeen
  BY Zenon DEF DrainStep
<1>2. reassembly[i].payload \in Seq(Nat)
  <2>1. reassembly \in Seq([seq : SeqNum, payload : Seq(Nat), fin : BOOLEAN])
    BY DEF IInv, TypeOK, TcbTypeOK
  <2>2. reassembly[i] \in [seq : SeqNum, payload : Seq(Nat), fin : BOOLEAN]
    BY <2>1, ElementOfSeq, Zenon
  <2> QED BY <2>2
<1>3. peerFinSeen => peerFinSeen'
  BY Zenon, <1>1
<1>4. UNCHANGED <<got, rdRes>>
  BY DEF DrainStep
<1> QED BY <1>1, <1>2, <1>3, <1>4, QueueGrows, Zenon

\* Every step of the receive path refines a step of the stream.
LEMMA NetworkRefines ==
  ASSUME StreamFits, IInv, Network, IInv' PROVE [Stream!Next]_Stream!vars
<1>1. CASE DeliverStream
  <2>1. PICK off \in 0 .. StreamLen, len \in 0 .. PeerMaxSeg, fin \in BOOLEAN,
             n \in 0 .. MaxBytes + 1 :
          MayArrive(off, len, fin, n) /\ deliverSegment(PeerSegment(off, len, fin, n))
    BY <1>1 DEF DeliverStream
  <2>2. off + len <= StreamLen /\ (fin => off + len = StreamLen) /\ len \in Nat
    BY <2>1, ConnAssumption DEF MayArrive
  <2>3. Genuine(PeerSegment(off, len, fin, n))
    BY <2>2, PeerSegmentGenuine
  <2> QED BY <2>1, <2>3, DeliverIsReceive
<1>2. CASE DeliverSynAck
  BY <1>2, SynAckGenuine, DeliverIsReceive DEF DeliverSynAck
<1>3. CASE DeliverReset
  BY <1>3, RstGenuine, DeliverIsReceive DEF DeliverReset
<1>4. CASE DrainStep
  BY <1>4, DrainIsReceive
<1>5. CASE DrainDone
  BY <1>5, NothingSeen DEF DrainDone, seen
<1> QED BY <1>1, <1>2, <1>3, <1>4, <1>5 DEF Network

\* Read takes from the front of the queue, reports the end, or returns nothing.
LEMMA ReaderRefines ==
  ASSUME StreamFits, IInv, Reader PROVE [Stream!Next]_Stream!vars
<1>1. CASE ReadBegin \/ ReadTimeout
  <2>1. rdRes' # "eof" /\ UNCHANGED <<rxQueue, got, peerFinSeen>>
    BY <1>1 DEF ReadBegin, ReadTimeout, ReadReturn, tcb
  <2>2. Stream!Ask
    BY <2>1 DEF Stream!Ask
  <2> QED BY <2>2 DEF Stream!Next
<1>2. ASSUME NEW len \in 1 .. MaxRead, ReadStep(len) PROVE Stream!Next
  <2>1. UNCHANGED peerFinSeen
    BY <1>2 DEF ReadStep
  <2>2. CASE rxQueue # <<>>
    <3> DEFINE n == IF len < Len(rxQueue) THEN len ELSE Len(rxQueue)
    <3>1. rxQueue \in Seq(Nat)
      BY DEF IInv, TypeOK, TcbTypeOK
    <3>2. Len(rxQueue) \in Nat /\ Len(rxQueue) > 0
      BY <2>2, <3>1
    <3>3. n \in 1 .. Len(rxQueue)
      BY <3>2, ConnAssumption
    <3>4. /\ got' = got \o SubSeq(rxQueue, 1, n)
          /\ rxQueue' = SubSeq(rxQueue, n + 1, Len(rxQueue))
          /\ rdRes' # "eof"
      BY <1>2, <2>2, Zenon DEF ReadStep, ReadReturn, AtEnd
    <3> HIDE DEF n
    <3>5. Stream!Take(n)
      BY <2>1, <3>2, <3>3, <3>4 DEF Stream!Take
    <3> QED BY <3>3, <3>5 DEF Stream!Next
  <2>3. CASE AtEnd
    <3>1. rxQueue = <<>> /\ peerFinSeen /\ rdRes' = "eof" /\ UNCHANGED <<rxQueue, got>>
      BY Zenon, <1>2, <2>3 DEF ReadStep, ReadReturn, AtEnd
    <3>2. Stream!Report
      BY <2>1, <3>1 DEF Stream!Report
    <3> QED BY <3>2 DEF Stream!Next
  <2>4. CASE rxQueue = <<>> /\ ~peerFinSeen
    <3>1. rdRes' # "eof" /\ UNCHANGED <<rxQueue, got>>
      BY <1>2, <2>4 DEF ReadStep, ReadReturn, AtEnd
    <3>2. Stream!Ask
      BY <2>1, <3>1 DEF Stream!Ask
    <3> QED BY <3>2 DEF Stream!Next
  <2> QED BY <2>2, <2>3, <2>4 DEF AtEnd
<1> QED BY <1>1, <1>2 DEF Reader

\* Every step of the connection, and stuttering, refines a step of the stream or
\* leaves what a reader can see unchanged.
LEMMA StepRefines ==
  ASSUME StreamFits, IInv, [Next]_vars, IInv' PROVE [Stream!Next]_Stream!vars
<1>1. CASE Dialer
  BY <1>1, NothingSeen DEF Dialer, DialSyn, DialCheck, DialTimeout, tcb, seen
<1>2. CASE Writer
  BY <1>2, NothingSeen, Zenon DEF Writer, WriteBegin, WriteTake, WriteSend, WriteAwait, WriteTimeout, tcb, seen
<1>3. CASE Closer
  BY <1>3, NothingSeen DEF Closer, CloseBegin, CloseFin, CloseFinish, tcb, seen
<1>4. CASE Peer
  BY <1>4, NothingSeen, Zenon DEF Peer, PeerEstablish, PeerReceive, tcb, seen
<1>5. CASE UNCHANGED vars
  BY <1>5, NothingSeen DEF vars, tcb, seen
<1> QED BY <1>1, <1>2, <1>3, <1>4, <1>5, NetworkRefines, ReaderRefines DEF Next

\* The connection implements the byte stream: for every stream shorter than the
\* sequence space, every segmentation, loss, repetition and reordering and every
\* interleaving of Dial, Read, Write and Close, what Read returns is the peer's stream
\* in order and its end is reported after the last byte (tcp4.go, Read,
\* acceptSegmentLocked, drainReassemblyLocked).
THEOREM ConnImplementsStream == ASSUME StreamFits PROVE Spec => ImplementsByteStream
<1>1. Init => Stream!Init
  BY DEF Init, Stream!Init
<1>2. IInv /\ [Next]_vars /\ IInv' => [Stream!Next]_Stream!vars
  BY StepRefines
<1> QED BY <1>1, <1>2, ConnInvariant, PTL DEF Spec, Stream!Spec, ImplementsByteStream

-----------------------------------------------------------------------------
(* The write side.  The bytes given sequence numbers are numbered in their  *)
(* order, and those taken after the FIN one higher.  f bytes precede the    *)
(* FIN, all of them as long as there is none.                               *)

\* The bytes of all Writes lie within half the sequence space, in which seqLT orders.
HalfFits == 2 * (MaxBytes + 1) <= SeqMod

\* Close has taken the FIN's sequence number.
FinTaken == sndNxt = PeerAck(Len(sent) + 1)

\* payload is the bytes of sent from offset o on, and seq the number of the first one.
PlacedAt(seq, payload, o, f) ==
  /\ o + Len(payload) <= Len(sent)
  /\ \A i \in 1 .. Len(payload) : payload[i] = sent[o + i]
  /\ \/ seq = PeerAck(o) /\ o + Len(payload) <= f
     \/ seq = PeerAck(o + 1) /\ f <= o /\ FinTaken

\* A data segment is placed, and a FIN has the number Close took.
SegmentOK(m, f) ==
  \/ "FIN" \notin m.flags /\ \E o \in 0 .. Len(sent) : PlacedAt(m.seq, m.payload, o, f)
  \/ "FIN" \in m.flags /\ m.payload = <<>> /\ m.seq = cl.seq /\ FinTaken

SendInv(f) ==
  /\ f \in 0 .. Len(sent)
  /\ \/ sndNxt = PeerAck(Len(sent)) /\ f = Len(sent)
     \/ FinTaken /\ cl.seq = PeerAck(f) /\ cl.pc # "idle"
     \/ dial = "none"
  /\ cl.pc = "fin" => FinTaken
  /\ dial = "none" => sent = <<>> /\ toPeer = {} /\ cl.pc = "idle"
  /\ \A m \in toPeer : m.payload \in Seq(Nat) /\ SegmentOK(m, f)

\* What the peer has is a prefix, and with the FIN all that precedes it.
ReceivedInv(f) ==
  /\ peerRcvd \in Seq(Nat) /\ Len(peerRcvd) <= f
  /\ \A i \in 1 .. Len(peerRcvd) : peerRcvd[i] = sent[i]
  /\ peerFin \in BOOLEAN /\ (peerFin => Len(peerRcvd) = f /\ FinTaken /\ dial # "none")

\* snd.una is an acknowledgment the peer has sent.
UnaInv ==
  dial = "ok" \/ state \notin {"CLOSED", "SYN_SENT"} => \E u \in 0 .. PeerTaken : sndUna = PeerAck(u)

\* The record of the Write.
WrRecord ==
  [pc : {"idle", "take", "send", "await"}, next : Nat, left : Nat, seq : SeqNum,
   segment : Seq(Nat), wantAck : SeqNum, tries : Nat, res : {"none", "ok", "closed", "timeout", "error"}]

WrType ==
  /\ sent \in Seq(Nat) /\ handed \in 0 .. MaxBytes /\ wr \in WrRecord
  /\ cl = [pc |-> cl.pc, seq |-> cl.seq]

\* The segment under way is the latest one taken.
WrInv(f) ==
  /\ wr.pc \in {"send", "await"} =>
       /\ Len(wr.segment) <= wr.left /\ Len(wr.segment) <= Len(sent)
       /\ PlacedAt(wr.seq, wr.segment, Len(sent) - Len(wr.segment), f)
       /\ wr.wantAck = SeqAdd(wr.seq, Len(wr.segment))
  /\ wr.pc # "idle" => wr.res = "none" /\ dial = "ok"
  /\ wr.res = "ok" => Len(peerRcvd) = Len(sent)
  /\ Len(sent) <= handed
  /\ wr.pc = "take" => Len(sent) + wr.left <= handed
  /\ wr.pc \in {"send", "await"} => Len(sent) + wr.left - Len(wr.segment) <= handed

WriteInv == WrType /\ UnaInv /\ \E f \in 0 .. Len(sent) : SendInv(f) /\ ReceivedInv(f) /\ WrInv(f)

-----------------------------------------------------------------------------
\* The numbers of the client's stream are different, follow one another and wrap
\* (uint32 arithmetic on snd.nxt).
LEMMA AckNumbers ==
  ASSUME NEW a \in 0 .. MaxBytes + 1, NEW b \in 0 .. MaxBytes + 1
  PROVE  /\ PeerAck(a) \in SeqNum
         /\ PeerAck(a) = PeerAck(b) => a = b
         /\ a <= b => SeqAdd(PeerAck(a), b - a) = PeerAck(b)
BY SeqModAssumption, ConnAssumption DEF PeerAck, SeqAdd, SeqNum

\* Within half the sequence space seqLT tells which of two acknowledgments is later.
LEMMA AckOrder ==
  ASSUME HalfFits, NEW a \in 0 .. MaxBytes + 1, NEW b \in 0 .. MaxBytes + 1,
         ~seqLT(PeerAck(a), PeerAck(b))
  PROVE  b <= a
BY SeqModAssumption, ConnAssumption DEF HalfFits, PeerAck, SeqAdd, SeqSub, seqLT, SeqNum

\* What two sequences joined hold (append).
LEMMA JoinSeqs ==
  ASSUME NEW s \in Seq(Nat), NEW t \in Seq(Nat)
  PROVE  /\ s \o t \in Seq(Nat) /\ Len(s \o t) = Len(s) + Len(t)
         /\ \A i \in 1 .. Len(s) : (s \o t)[i] = s[i]
         /\ \A i \in 1 .. Len(t) : (s \o t)[Len(s) + i] = t[i]
OBVIOUS

\* Nothing is written before the dial.
LEMMA WriteStart == Init => WriteInv
<1> SUFFICES ASSUME Init PROVE WriteInv
  OBVIOUS
<1>1. WrType /\ UnaInv
  BY SeqModAssumption, ConnAssumption DEF Init, WrType, WrRecord, UnaInv, SeqNum
<1>2. sent = <<>> /\ Len(sent) = 0 /\ 0 \in 0 .. Len(sent) /\ Len(peerRcvd) = 0 /\ peerRcvd \in Seq(Nat)
  BY DEF Init
<1>3. SendInv(0)
  BY <1>2 DEF Init, SendInv
<1>4. ReceivedInv(0)
  <2>1. peerFin = FALSE /\ \A i \in 1 .. Len(peerRcvd) : FALSE
    BY <1>2 DEF Init
  <2>2. Len(peerRcvd) <= 0
    BY <1>2
  <2> QED BY <1>2, <2>1, <2>2, Zenon DEF ReceivedInv
<1>5. WrInv(0)
  BY <1>2 DEF Init, WrInv
<1> QED BY <1>1, <1>2, <1>3, <1>4, <1>5 DEF WriteInv

\* A step that takes no numbers, sends no segment and leaves the Write alone: receiving,
\* dialling, Read.
LEMMA WriteUntouched ==
  ASSUME WriteInv, UNCHANGED <<sent, toPeer, sndNxt, cl, wr, handed, peerRcvd, peerFin>>,
         dial = "none" <=> dial' = "none", dial = "ok" => dial' = "ok", UnaInv'
  PROVE  WriteInv'
<1> PICK f \in 0 .. Len(sent) : SendInv(f) /\ ReceivedInv(f) /\ WrInv(f)
  BY DEF WriteInv
<1>1. WrType'
  BY Zenon DEF WriteInv, WrType
<1>2. FinTaken' = FinTaken
  BY DEF FinTaken
<1>3. SendInv(f)'
  <2>1. \A m \in toPeer : SegmentOK(m, f)' <=> SegmentOK(m, f)
    BY <1>2, Zenon DEF SegmentOK, PlacedAt
  <2> QED BY <1>2, <2>1 DEF SendInv
<1>4. ReceivedInv(f)'
  BY <1>2 DEF ReceivedInv
<1>5. WrInv(f)'
  BY <1>2, Zenon DEF WrInv, PlacedAt
<1> QED BY <1>1, <1>3, <1>4, <1>5 DEF WriteInv

\* The numbers in use are within the bound of the sequence space.
LEMMA SentFits == WriteInv => sent \in Seq(Nat) /\ Len(sent) \in 0 .. MaxBytes
BY ConnAssumption DEF WriteInv, WrType, WrInv

\* What depends on sent, sndNxt and cl alone stays as it is with them.
LEMMA SentUntouched ==
  ASSUME NEW f, UNCHANGED <<sent, toPeer, sndNxt, cl>>, SendInv(f), dial = "none" <=> dial' = "none"
  PROVE  SendInv(f)' /\ FinTaken' = FinTaken
<1>1. FinTaken' = FinTaken
  BY DEF FinTaken
<1>2. \A m \in toPeer : SegmentOK(m, f)' <=> SegmentOK(m, f)
  BY <1>1, Zenon DEF SegmentOK, PlacedAt
<1> QED BY <1>1, <1>2 DEF SendInv

\* The types of what the Write works on.
LEMMA WriteTypes ==
  ASSUME WriteInv
  PROVE  /\ WrType /\ UnaInv /\ sent \in Seq(Nat) /\ Len(sent) \in Nat /\ Len(sent) <= MaxBytes
         /\ MaxBytes \in Nat /\ handed \in Nat /\ wr \in WrRecord
         /\ wr.left \in Nat /\ wr.next \in Nat /\ wr.segment \in Seq(Nat) /\ Len(wr.segment) \in Nat
         /\ wr.seq \in SeqNum /\ wr.tries \in Nat
<1>1. WrType /\ UnaInv
  BY DEF WriteInv
<1>2. sent \in Seq(Nat) /\ wr \in WrRecord /\ handed \in Nat
  BY <1>1 DEF WrType
<1>3. wr.left \in Nat /\ wr.next \in Nat /\ wr.segment \in Seq(Nat) /\ wr.seq \in SeqNum /\ wr.tries \in Nat
  BY <1>2 DEF WrRecord
<1>4. MaxBytes \in Nat
  BY ConnAssumption
<1> QED BY <1>1, <1>2, <1>3, <1>4, SentFits

\* A step of the Write that takes no numbers and sends nothing: it begins, waits or
\* returns (WriteBegin, WriteAwait, WriteTimeout, and the send that fails).
LEMMA WriteWaits ==
  ASSUME WriteInv, UNCHANGED <<sent, toPeer, sndNxt, sndUna, state, cl, peerRcvd, peerFin, dial>>,
         dial = "ok", wr' \in WrRecord, handed' \in 0 .. MaxBytes, handed' >= handed,
         wr'.res = "ok" => Len(peerRcvd) = Len(sent), wr'.pc # "idle" => wr'.res = "none",
         wr'.pc \in {"send", "await"} => wr.pc \in {"send", "await"} /\ wr'.segment = wr.segment
                                         /\ wr'.left = wr.left /\ wr'.seq = wr.seq /\ wr'.wantAck = wr.wantAck,
         wr'.pc = "take" => Len(sent) + wr'.left <= handed'
  PROVE  WriteInv'
<1>0. /\ WrType /\ UnaInv /\ sent \in Seq(Nat) /\ Len(sent) \in Nat /\ handed \in Nat /\ handed' \in Nat
      /\ wr.left \in Nat /\ wr.segment \in Seq(Nat) /\ Len(wr.segment) \in Nat
  BY WriteTypes, ConnAssumption
<1>1. PICK f \in 0 .. Len(sent) : SendInv(f) /\ ReceivedInv(f) /\ WrInv(f)
  BY DEF WriteInv
<1>2. WrType'
  <2>1. sent' \in Seq(Nat) /\ cl' = [pc |-> cl.pc, seq |-> cl.seq]' /\ handed' \in 0 .. MaxBytes
    BY <1>0 DEF WrType
  <2> QED BY <2>1, Zenon DEF WrType
<1>3. UnaInv'
  BY <1>0, Zenon DEF UnaInv, PeerTaken
<1>4. SendInv(f)' /\ FinTaken' = FinTaken
  BY <1>1, SentUntouched, Zenon
<1>5. ReceivedInv(f)'
  BY <1>1, <1>4, Zenon DEF ReceivedInv
<1>6. Len(sent) <= handed
  BY <1>1, Zenon DEF WrInv
<1>7. WrInv(f)'
  <2>1. CASE wr'.pc \in {"send", "await"}
    <3>1. /\ Len(wr.segment) <= wr.left /\ Len(wr.segment) <= Len(sent)
          /\ PlacedAt(wr.seq, wr.segment, Len(sent) - Len(wr.segment), f)
          /\ wr.wantAck = SeqAdd(wr.seq, Len(wr.segment))
          /\ Len(sent) + wr.left - Len(wr.segment) <= handed
      BY <1>1, <2>1, Zenon DEF WrInv
    <3>2. PlacedAt(wr.seq, wr.segment, Len(sent) - Len(wr.segment), f)'
      BY <1>4, <2>1, <3>1, Zenon DEF PlacedAt
    <3>3. Len(sent) + wr.left - Len(wr.segment) <= handed' /\ Len(sent) <= handed'
      BY <1>0, <1>6, <3>1, SMTT(20)
    <3> QED BY <2>1, <3>1, <3>2, <3>3 DEF WrInv
  <2>2. CASE wr'.pc \notin {"send", "await"}
    <3>1. Len(sent) <= handed'
      BY <1>0, <1>6
    <3> QED BY <2>2, <3>1 DEF WrInv
  <2> QED BY <2>1, <2>2
<1> QED BY <1>1, <1>2, <1>3, <1>4, <1>5, <1>7 DEF WriteInv

\* A Write begins or finds the connection closed (WriteBegin).
LEMMA WriteBeginInv == ASSUME WriteInv, NEW n \in 1 .. MaxWrite, WriteBegin(n) PROVE WriteInv'
<1>1. /\ UNCHANGED <<sent, toPeer, sndNxt, sndUna, state, cl, peerRcvd, peerFin, dial>> /\ dial = "ok"
      /\ handed' = handed + n /\ handed + n <= MaxBytes /\ n \in Nat /\ wr.pc = "idle"
  BY ConnAssumption DEF WriteBegin, tcb, peer
<1>2. wr' = [wr EXCEPT !.res = "closed"] \/ wr' = [wr EXCEPT !.pc = "take", !.next = handed, !.left = n, !.res = "none"]
  BY Zenon DEF WriteBegin
<1>3. wr \in WrRecord /\ handed \in Nat /\ Len(sent) \in Nat /\ MaxBytes \in Nat
  BY WriteTypes
<1>4. handed' \in 0 .. MaxBytes /\ handed' >= handed /\ Len(sent) <= handed
  BY <1>1, <1>3 DEF WriteInv, WrInv
<1>5. CASE wr' = [wr EXCEPT !.res = "closed"]
  <2>1. wr' \in WrRecord /\ wr'.pc = "idle" /\ wr'.res = "closed"
    BY <1>1, <1>3, <1>5, Zenon DEF WrRecord
  <2> QED BY <1>1, <1>4, <2>1, WriteWaits
<1>6. CASE wr' = [wr EXCEPT !.pc = "take", !.next = handed, !.left = n, !.res = "none"]
  <2>1. wr' \in WrRecord /\ wr'.pc = "take" /\ wr'.res = "none" /\ wr'.left = n
    BY <1>1, <1>3, <1>6, Zenon DEF WrRecord
  <2>2. Len(sent) + wr'.left <= handed'
    BY <1>1, <1>3, <1>4, <2>1
  <2> QED BY <1>1, <1>4, <2>1, <2>2, WriteWaits
<1> QED BY <1>2, <1>5, <1>6

\* The next segment takes its numbers; after the FIN they are one higher (WriteTake).
LEMMA WriteTakeInv ==
  ASSUME WriteInv, WriteTake
  PROVE  WriteInv'
<1>f. PICK f \in 0 .. Len(sent) : SendInv(f) /\ ReceivedInv(f) /\ WrInv(f)
  BY DEF WriteInv
<1>t. /\ WrType /\ UnaInv /\ sent \in Seq(Nat) /\ Len(sent) \in Nat /\ handed \in Nat /\ handed <= MaxBytes
      /\ MaxBytes \in Nat /\ wr \in WrRecord /\ wr.left \in Nat /\ wr.next \in Nat /\ MSS \in Nat /\ f \in Nat
  BY WriteTypes, ConnAssumption, SeqModAssumption DEF WrType
<1> DEFINE len == IF wr.left < MSS THEN wr.left ELSE MSS
           segment == [i \in 1 .. len |-> wr.next + i]
<1>0. /\ UNCHANGED <<toPeer, sndUna, state, cl, peerRcvd, peerFin, dial, handed>> /\ dial = "ok"
      /\ wr.pc = "take" /\ wr.res = "none" /\ sent' = sent \o segment /\ sndNxt' = SeqAdd(sndNxt, len)
      /\ wr' = [wr EXCEPT !.pc = "send", !.seq = sndNxt, !.segment = segment,
                          !.wantAck = SeqAdd(sndNxt, len), !.tries = 0]
  <2>1. wr.pc = "take"
    BY DEF WriteTake
  <2>2. wr.res = "none" /\ dial = "ok"
    BY <1>f, <2>1 DEF WrInv
  <2> QED BY <2>1, <2>2, Zenon DEF WriteTake, peer
<1>1. len \in Nat /\ len <= wr.left /\ segment \in Seq(Nat) /\ Len(segment) = len
  <2>1. len \in Nat /\ len <= wr.left
    BY <1>t
  <2> HIDE DEF len
  <2>2. \A i \in 1 .. len : wr.next + i \in Nat
    BY <1>t, <2>1
  <2>3. segment \in Seq(Nat) /\ Len(segment) = len
    BY <2>1, <2>2
  <2> QED BY <2>1, <2>3
<1> HIDE DEF len, segment
<1>2. /\ Len(sent) + len \in 0 .. MaxBytes /\ Len(sent) + wr.left <= handed
      /\ Len(sent) \in 0 .. MaxBytes + 1 /\ Len(sent) + 1 \in 0 .. MaxBytes + 1
      /\ Len(sent) + len + 1 \in 0 .. MaxBytes + 1 /\ Len(sent) + len \in 0 .. MaxBytes + 1
  <2>1. Len(sent) + wr.left <= handed
    BY <1>0, <1>f DEF WrInv
  <2> QED BY <1>1, <1>t, <2>1
<1>3. /\ sent' \in Seq(Nat) /\ Len(sent') = Len(sent) + len
      /\ \A i \in 1 .. Len(sent) : sent'[i] = sent[i]
      /\ \A i \in 1 .. len : sent'[Len(sent) + i] = segment[i]
  BY <1>0, <1>1, <1>t, JoinSeqs, Zenon
<1>4. PICK g \in Nat :
        \/ sndNxt = PeerAck(Len(sent)) /\ f = Len(sent) /\ sndNxt' = PeerAck(Len(sent'))
           /\ ~FinTaken /\ g = Len(sent')
        \/ FinTaken /\ FinTaken' /\ g = f /\ cl.seq = PeerAck(f) /\ cl.pc # "idle"
  <2>1. CASE sndNxt = PeerAck(Len(sent)) /\ f = Len(sent)
    <3>1. PeerAck(Len(sent)) # PeerAck(Len(sent) + 1)
      BY <1>2, <1>t, AckNumbers
    <3>2. SeqAdd(PeerAck(Len(sent)), len) = PeerAck(Len(sent) + len)
      <4>1. Len(sent) <= Len(sent) + len /\ (Len(sent) + len) - Len(sent) = len
        BY <1>1, <1>t
      <4> QED BY <1>2, <4>1, AckNumbers
    <3>3. Len(sent') \in Nat
      BY <1>3
    <3> QED BY <1>0, <1>3, <2>1, <3>1, <3>2, <3>3 DEF FinTaken
  <2>2. CASE FinTaken /\ cl.seq = PeerAck(f) /\ cl.pc # "idle"
    <3>1. PeerAck(Len(sent)) # PeerAck(Len(sent) + 1)
      BY <1>2, <1>t, AckNumbers
    <3>2. SeqAdd(PeerAck(Len(sent) + 1), len) = PeerAck(Len(sent) + len + 1)
      <4>1. Len(sent) + 1 <= Len(sent) + len + 1 /\ (Len(sent) + len + 1) - (Len(sent) + 1) = len
        BY <1>1, <1>t
      <4> QED BY <1>2, <4>1, AckNumbers
    <3> QED BY <1>0, <1>3, <1>t, <2>2, <3>1, <3>2 DEF FinTaken
  <2> QED BY <1>0, <1>f, <2>1, <2>2 DEF SendInv
<1>5. g \in 0 .. Len(sent') /\ f <= g /\ (~FinTaken \/ g = f) /\ (FinTaken => FinTaken')
  BY <1>1, <1>f, <1>t, <1>3, <1>4
<1>6. WrType'
  <2>1. sndNxt \in SeqNum /\ SeqAdd(sndNxt, len) \in SeqNum
    <3>1. PeerAck(Len(sent)) \in SeqNum /\ PeerAck(Len(sent) + 1) \in SeqNum
          /\ PeerAck(Len(sent')) \in SeqNum /\ PeerAck(Len(sent') + 1) \in SeqNum
      BY <1>2, <1>3, AckNumbers
    <3> QED BY <1>0, <1>4, <3>1 DEF FinTaken
  <2>2. wr' \in WrRecord
    BY <1>0, <1>1, <1>t, <2>1, Zenon DEF WrRecord
  <2>3. handed' \in 0 .. MaxBytes /\ cl' = [pc |-> cl.pc, seq |-> cl.seq]'
    BY <1>0, <1>t DEF WrType
  <2> QED BY <1>3, <2>2, <2>3, Zenon DEF WrType
<1>7. UnaInv'
  BY <1>0, <1>t, Zenon DEF UnaInv, PeerTaken
<1>8. SendInv(g)'
  <2>1. ASSUME NEW m \in toPeer PROVE SegmentOK(m, g)'
    <3>1. CASE "FIN" \notin m.flags
      <4>1. PICK o \in 0 .. Len(sent) : PlacedAt(m.seq, m.payload, o, f)
        BY <1>f, <3>1 DEF SendInv, SegmentOK
      <4>2. m.payload \in Seq(Nat) /\ Len(m.payload) \in Nat /\ o \in Nat
        BY <1>f DEF SendInv
      <4>3. /\ o + Len(m.payload) <= Len(sent') /\ o \in 0 .. Len(sent')
            /\ \A i \in 1 .. Len(m.payload) : o + i \in 1 .. Len(sent)
        <5>1. o + Len(m.payload) <= Len(sent)
          BY <4>1 DEF PlacedAt
        <5>2. Len(sent') \in Nat /\ Len(sent) \in Nat /\ Len(sent) <= Len(sent')
          BY <1>1, <1>3, <1>t
        <5>3. ASSUME NEW i \in 1 .. Len(m.payload) PROVE o + i \in 1 .. Len(sent)
          BY <4>2, <5>1, <5>2
        <5>4. o + Len(m.payload) <= Len(sent') /\ o \in 0 .. Len(sent')
          BY <4>2, <5>1, <5>2
        <5> QED BY <5>3, <5>4
      <4>4. \A i \in 1 .. Len(m.payload) : m.payload[i] = sent'[o + i]
        BY <1>3, <4>1, <4>3, Zenon DEF PlacedAt
      <4>5. \/ m.seq = PeerAck(o) /\ o + Len(m.payload) <= g
            \/ m.seq = PeerAck(o + 1) /\ g <= o /\ FinTaken'
        BY <1>5, <1>t, <4>1, <4>2 DEF PlacedAt
      <4>6. PlacedAt(m.seq, m.payload, o, g)'
        BY <4>3, <4>4, <4>5, Zenon DEF PlacedAt
      <4> QED BY <3>1, <4>3, <4>6 DEF SegmentOK
    <3>2. CASE "FIN" \in m.flags
      BY <1>0, <1>5, <1>f, <3>2 DEF SendInv, SegmentOK
    <3> QED BY <3>1, <3>2
  <2>2. \A m \in toPeer' : m.payload \in Seq(Nat) /\ SegmentOK(m, g)'
    BY <1>0, <1>f, <2>1 DEF SendInv
  <2>3. \/ sndNxt' = PeerAck(Len(sent')) /\ g = Len(sent')
        \/ FinTaken' /\ cl'.seq = PeerAck(g) /\ cl'.pc # "idle"
    BY <1>0, <1>4
  <2>4. cl'.pc = "fin" => FinTaken'
    BY <1>0, <1>5, <1>f DEF SendInv
  <2> QED BY <1>0, <1>5, <2>2, <2>3, <2>4, Zenon DEF SendInv
<1>9. ReceivedInv(g)'
  <2>1. /\ peerRcvd \in Seq(Nat) /\ Len(peerRcvd) \in Nat /\ Len(peerRcvd) <= f
        /\ \A i \in 1 .. Len(peerRcvd) : peerRcvd[i] = sent[i]
        /\ peerFin \in BOOLEAN /\ (peerFin => Len(peerRcvd) = f /\ FinTaken /\ dial # "none")
    BY <1>f DEF ReceivedInv
  <2>2. Len(peerRcvd) <= g /\ g \in Nat /\ \A i \in 1 .. Len(peerRcvd) : i \in 1 .. Len(sent)
    <3>1. /\ Len(peerRcvd) \in Nat /\ Len(peerRcvd) <= f /\ f \in Nat /\ f <= Len(sent) /\ Len(sent) \in Nat
          /\ f <= g /\ g \in Nat
      BY <1>5, <1>t, <2>1
    <3>2. Len(peerRcvd) <= g /\ Len(peerRcvd) <= Len(sent)
      BY <3>1
    <3>3. ASSUME NEW i \in 1 .. Len(peerRcvd) PROVE i \in 1 .. Len(sent)
      BY <3>1, <3>2
    <3> QED BY <3>1, <3>2, <3>3
  <2>3. \A i \in 1 .. Len(peerRcvd) : peerRcvd[i] = sent'[i]
    BY <1>3, <2>1, <2>2
  <2> QED BY <1>0, <1>5, <2>1, <2>2, <2>3 DEF ReceivedInv
<1>10. WrInv(g)'
  <2>1. /\ wr'.pc = "send" /\ wr'.seq = sndNxt /\ wr'.segment = segment /\ wr'.wantAck = SeqAdd(sndNxt, len)
        /\ wr'.res = "none" /\ wr'.left = wr.left
    BY <1>0, <1>t DEF WrRecord
  <2>2. Len(sent') - len = Len(sent) /\ len <= Len(sent') /\ Len(sent') <= handed
        /\ Len(sent') + wr.left - len <= handed /\ Len(sent) + len <= Len(sent')
    BY <1>1, <1>2, <1>3, <1>t
  <2>3. \/ sndNxt = PeerAck(Len(sent)) /\ Len(sent) + len <= g
        \/ sndNxt = PeerAck(Len(sent) + 1) /\ g <= Len(sent) /\ FinTaken'
    BY <1>3, <1>4, <1>f, <2>2 DEF FinTaken
  <2>4. PlacedAt(wr.seq, wr.segment, Len(sent) - Len(wr.segment), g)'
    <3>1. \A i \in 1 .. Len(segment) : segment[i] = sent'[Len(sent) + i]
      BY <1>1, <1>3
    <3> QED BY <1>1, <2>1, <2>2, <2>3, <3>1, Zenon DEF PlacedAt
  <2> QED BY <1>0, <1>1, <2>1, <2>2, <2>4 DEF WrInv
<1> QED BY <1>5, <1>6, <1>7, <1>8, <1>9, <1>10 DEF WriteInv

\* The segment goes out, for the first time or again, or the send fails (WriteSend).
LEMMA WriteSendInv == ASSUME WriteInv, WriteSend PROVE WriteInv'
<1>0. /\ wr \in WrRecord /\ sent \in Seq(Nat) /\ Len(sent) \in Nat /\ wr.segment \in Seq(Nat) /\ Len(wr.segment) \in Nat
      /\ handed \in 0 .. MaxBytes /\ handed >= handed /\ WrType
  BY WriteTypes DEF WrType
<1>1. PICK f \in 0 .. Len(sent) : SendInv(f) /\ ReceivedInv(f) /\ WrInv(f)
  BY DEF WriteInv
<1>2. /\ wr.pc = "send" /\ UNCHANGED <<sent, sndNxt, sndUna, state, cl, peerRcvd, peerFin, dial, handed>>
  BY DEF WriteSend, tcb, peer
<1>3. dial = "ok" /\ wr.res = "none"
  BY <1>1, <1>2 DEF WrInv
<1>4. CASE WriteReturn("error") /\ UNCHANGED toPeer
  <2>1. wr' \in WrRecord /\ wr'.pc = "idle" /\ wr'.res = "error"
    BY <1>0, <1>4, Zenon DEF WriteReturn, WrRecord
  <2> QED BY <1>0, <1>2, <1>3, <1>4, <2>1, WriteWaits
<1>5. CASE toPeer' = toPeer \cup {DataSegment} /\ wr' = [wr EXCEPT !.pc = "await"]
  <2>1. /\ wr' \in WrRecord /\ wr'.pc = "await" /\ wr'.res = "none" /\ wr'.segment = wr.segment /\ wr'.left = wr.left
        /\ wr'.seq = wr.seq /\ wr'.wantAck = wr.wantAck
    BY <1>0, <1>3, <1>5 DEF WrRecord
  <2>2. FinTaken' = FinTaken
    BY <1>2 DEF FinTaken
  <2>3. WrType'
    <3>1. sent' \in Seq(Nat) /\ cl' = [pc |-> cl.pc, seq |-> cl.seq]' /\ handed' \in 0 .. MaxBytes
      BY <1>0, <1>2 DEF WrType
    <3> QED BY <2>1, <3>1, Zenon DEF WrType
  <2>4. UnaInv'
    <3>1. UnaInv
      BY WriteTypes
    <3> QED BY <1>2, <3>1, Zenon DEF UnaInv, PeerTaken
  <2>5. /\ Len(wr.segment) <= Len(sent)
        /\ PlacedAt(wr.seq, wr.segment, Len(sent) - Len(wr.segment), f)
    BY <1>1, <1>2 DEF WrInv
  <2>6. SegmentOK(DataSegment, f) /\ DataSegment.payload \in Seq(Nat)
    <3>1. /\ DataSegment.flags = {"ACK", "PSH"} /\ DataSegment.seq = wr.seq /\ DataSegment.payload = wr.segment
      BY DEF DataSegment
    <3>2. Len(sent) - Len(wr.segment) \in 0 .. Len(sent) /\ "FIN" \notin DataSegment.flags
      BY <1>0, <2>5, <3>1
    <3> QED BY <1>0, <2>5, <3>1, <3>2, Zenon DEF SegmentOK
  <2>7. SendInv(f)'
    <3>1. \A m \in toPeer' : m.payload \in Seq(Nat) /\ SegmentOK(m, f)
      BY <1>1, <1>5, <2>6 DEF SendInv
    <3>2. \A m : SegmentOK(m, f)' <=> SegmentOK(m, f)
      BY <1>2, <2>2, Zenon DEF SegmentOK, PlacedAt
    <3>3. \A m \in toPeer' : m.payload \in Seq(Nat) /\ SegmentOK(m, f)'
      BY <3>1, <3>2, Zenon
    <3> QED BY <1>1, <1>2, <1>3, <2>2, <3>3 DEF SendInv
  <2>8. ReceivedInv(f)'
    BY <1>1, <1>2, <2>2 DEF ReceivedInv
  <2>9. WrInv(f)'
    <3>1. PlacedAt(wr.seq, wr.segment, Len(sent) - Len(wr.segment), f)'
      BY <1>2, <2>1, <2>2, <2>5, Zenon DEF PlacedAt
    <3> QED BY <1>1, <1>2, <1>3, <2>1, <3>1 DEF WrInv
  <2> QED BY <1>1, <1>2, <2>3, <2>4, <2>7, <2>8, <2>9 DEF WriteInv
<1> QED BY <1>4, <1>5 DEF WriteSend

\* An acknowledgment of the whole segment means that the peer has every byte taken so
\* far: seqLT compares within half the sequence space (sendAndAwaitAck).
LEMMA AckedIsReceived ==
  ASSUME HalfFits, WriteInv, wr.pc = "await", Acked
  PROVE  Len(peerRcvd) = Len(sent)
<1>0. /\ sent \in Seq(Nat) /\ Len(sent) \in Nat /\ Len(sent) <= MaxBytes /\ MaxBytes \in Nat
      /\ wr.segment \in Seq(Nat) /\ Len(wr.segment) \in Nat /\ UnaInv
  BY WriteTypes
<1>1. PICK f \in 0 .. Len(sent) : SendInv(f) /\ ReceivedInv(f) /\ WrInv(f)
  BY DEF WriteInv
<1> DEFINE o == Len(sent) - Len(wr.segment)
<1>2. /\ dial = "ok" /\ Len(wr.segment) <= Len(sent) /\ PlacedAt(wr.seq, wr.segment, o, f)
      /\ wr.wantAck = SeqAdd(wr.seq, Len(wr.segment))
  BY <1>1 DEF WrInv
<1>3. /\ peerRcvd \in Seq(Nat) /\ Len(peerRcvd) \in Nat /\ Len(peerRcvd) <= f /\ f \in Nat /\ f <= Len(sent)
      /\ peerFin \in BOOLEAN /\ (peerFin => Len(peerRcvd) = f)
  BY <1>0, <1>1 DEF ReceivedInv
<1>4. PICK u \in 0 .. PeerTaken : sndUna = PeerAck(u)
  BY <1>0, <1>2 DEF UnaInv
<1>5. PeerTaken \in Nat /\ PeerTaken <= Len(peerRcvd) + 1 /\ (~peerFin => PeerTaken = Len(peerRcvd))
  BY <1>3 DEF PeerTaken
<1>6. u \in 0 .. MaxBytes + 1 /\ u <= PeerTaken
  BY <1>0, <1>3, <1>5
<1>7. o \in Nat /\ o + Len(wr.segment) = Len(sent) /\ o <= Len(sent)
  BY <1>0, <1>2
<1> HIDE DEF o
<1>8. CASE wr.seq = PeerAck(o) /\ Len(sent) <= f
  <2>1. o \in 0 .. MaxBytes + 1 /\ Len(sent) \in 0 .. MaxBytes + 1 /\ Len(sent) - o = Len(wr.segment)
    BY <1>0, <1>7
  <2>2. wr.wantAck = PeerAck(Len(sent))
    <3>1. SeqAdd(PeerAck(o), Len(sent) - o) = PeerAck(Len(sent))
      BY <1>7, <2>1, AckNumbers, Zenon
    <3> QED BY <1>2, <1>8, <2>1, <3>1, Zenon
  <2>3. Len(sent) <= u
    BY <1>4, <1>6, <2>1, <2>2, AckOrder DEF Acked
  <2> QED BY <1>0, <1>3, <1>5, <1>6, <1>8, <2>3
<1>9. CASE wr.seq = PeerAck(o + 1) /\ f <= o
  <2>1. o + 1 \in 0 .. MaxBytes + 1 /\ Len(sent) + 1 \in 0 .. MaxBytes + 1 /\ (Len(sent) + 1) - (o + 1) = Len(wr.segment)
        /\ o + 1 <= Len(sent) + 1
    <3>1. \A a, b, c, d \in Nat : a <= b /\ b <= d /\ a + c = b =>
            a + 1 \in 0 .. d + 1 /\ b + 1 \in 0 .. d + 1 /\ (b + 1) - (a + 1) = c /\ a + 1 <= b + 1
      OBVIOUS
    <3> QED BY <1>0, <1>7, <3>1, Zenon
  <2>2. wr.wantAck = PeerAck(Len(sent) + 1)
    BY <1>2, <1>9, <2>1, AckNumbers
  <2>3. Len(sent) + 1 <= u
    BY <1>4, <1>6, <2>1, <2>2, AckOrder DEF Acked
  <2> QED BY <1>0, <1>3, <1>5, <1>6, <2>3
<1> QED BY <1>2, <1>7, <1>8, <1>9 DEF PlacedAt

\* The wait for the acknowledgment ends (WriteAwait, WriteTimeout).
LEMMA WriteAwaitInv == ASSUME HalfFits, WriteInv, WriteAwait \/ WriteTimeout PROVE WriteInv'
<1>0. /\ wr \in WrRecord /\ Len(sent) \in Nat /\ Len(wr.segment) \in Nat
      /\ wr.left \in Nat /\ wr.next \in Nat /\ wr.tries \in Nat
      /\ handed \in 0 .. MaxBytes /\ handed >= handed /\ handed \in Nat
  BY WriteTypes, ConnAssumption DEF WrType
<1>1. /\ wr.pc = "await" /\ UNCHANGED <<sent, toPeer, sndNxt, sndUna, state, cl, peerRcvd, peerFin, dial, handed>>
  BY DEF WriteAwait, WriteTimeout, tcb, peer
<1>2. /\ dial = "ok" /\ wr.res = "none" /\ Len(wr.segment) <= wr.left
      /\ Len(sent) + wr.left - Len(wr.segment) <= handed
  BY <1>1 DEF WriteInv, WrInv
<1>3. ASSUME NEW res \in {"closed", "timeout"}, WriteReturn(res) PROVE WriteInv'
  <2>1. wr' \in WrRecord /\ wr'.pc = "idle" /\ wr'.res = res
    BY <1>0, <1>3, Zenon DEF WriteReturn, WrRecord
  <2>2. wr'.res # "ok"
    BY <2>1
  <2> QED BY <1>0, <1>1, <1>2, <2>1, <2>2, WriteWaits
<1>4. ASSUME Acked, wr' = [wr EXCEPT !.pc = IF wr.left = Len(wr.segment) THEN "idle" ELSE "take",
                                     !.res = IF wr.left = Len(wr.segment) THEN "ok" ELSE "none",
                                     !.next = @ + Len(wr.segment), !.left = @ - Len(wr.segment)]
      PROVE  WriteInv'
  <2> DEFINE to == IF wr.left = Len(wr.segment) THEN "idle" ELSE "take"
             res == IF wr.left = Len(wr.segment) THEN "ok" ELSE "none"
             next == wr.next + Len(wr.segment)
             left == wr.left - Len(wr.segment)
  <2>0. to \in {"idle", "take"} /\ res \in {"ok", "none"} /\ (to = "take" => res = "none")
    OBVIOUS
  <2>1. next \in Nat /\ left \in Nat /\ Len(sent) + left <= handed
    BY <1>0, <1>2
  <2>2. /\ wr' \in WrRecord /\ wr'.pc \in {"idle", "take"} /\ wr'.left = left
        /\ wr'.pc = "take" => wr'.res = "none"
    <3>1. wr' = [wr EXCEPT !.pc = to, !.res = res, !.next = next, !.left = left]
      BY <1>4, Zenon
    <3> HIDE DEF to, res, next, left
    <3> QED BY <1>0, <2>0, <2>1, <3>1, Zenon DEF WrRecord
  <2> HIDE DEF to, res, next, left
  <2>3. Len(sent) + wr'.left <= handed'
    BY <1>1, <2>1, <2>2
  <2>4. Len(peerRcvd) = Len(sent)
    BY <1>1, <1>4, AckedIsReceived
  <2> QED BY <1>0, <1>1, <1>2, <2>2, <2>3, <2>4, WriteWaits
<1>5. ASSUME wr' = [wr EXCEPT !.pc = "send", !.tries = @ + 1] PROVE WriteInv'
  <2>0. wr.tries + 1 \in Nat
    BY <1>0
  <2>1. /\ wr' \in WrRecord /\ wr'.pc = "send" /\ wr'.res = "none" /\ wr'.segment = wr.segment /\ wr'.left = wr.left
        /\ wr'.seq = wr.seq /\ wr'.wantAck = wr.wantAck
    BY <1>0, <1>2, <1>5, <2>0, Zenon DEF WrRecord
  <2> QED BY <1>0, <1>1, <1>2, <2>1, WriteWaits
<1> QED BY <1>3, <1>4, <1>5 DEF WriteAwait, WriteTimeout

\* Close takes the FIN's number: every byte numbered so far precedes it (CloseBegin).
LEMMA TakeFinInv ==
  ASSUME WriteInv, dial = "ok", cl.pc = "idle", state \in {"ESTABLISHED", "CLOSE_WAIT"},
         state' \in {"FIN_WAIT_1", "LAST_ACK"}, sndNxt' = SeqAdd(sndNxt, 1), cl' = [pc |-> "fin", seq |-> sndNxt],
         UNCHANGED <<sent, toPeer, sndUna, peerRcvd, peerFin, dial, wr, handed>>
  PROVE  WriteInv'
<1>0. /\ sent \in Seq(Nat) /\ Len(sent) \in Nat /\ Len(sent) <= MaxBytes /\ MaxBytes \in Nat
      /\ WrType /\ UnaInv
  BY WriteTypes
<1>1. PICK f \in 0 .. Len(sent) : SendInv(f) /\ ReceivedInv(f) /\ WrInv(f)
  BY DEF WriteInv
<1>2. /\ sndNxt = PeerAck(Len(sent)) /\ f = Len(sent)
      /\ Len(sent) \in 0 .. MaxBytes + 1 /\ Len(sent) + 1 \in 0 .. MaxBytes + 1
  BY <1>0, <1>1 DEF SendInv
<1>3. ~FinTaken /\ FinTaken'
  <2>1. PeerAck(Len(sent)) # PeerAck(Len(sent) + 1)
    BY <1>0, <1>2, AckNumbers
  <2>2. Len(sent) <= Len(sent) + 1 /\ (Len(sent) + 1) - Len(sent) = 1
    BY <1>0
  <2>3. SeqAdd(PeerAck(Len(sent)), 1) = PeerAck(Len(sent) + 1)
    BY <1>2, <2>2, AckNumbers
  <2> QED BY <1>2, <2>1, <2>3 DEF FinTaken
<1>4. cl'.pc = "fin" /\ cl'.seq = PeerAck(f)
  BY <1>2
<1>5. WrType'
  <2>1. cl' = [pc |-> cl.pc, seq |-> cl.seq]'
    OBVIOUS
  <2> QED BY <1>0, <2>1, Zenon DEF WrType
<1>6. UnaInv'
  BY <1>0, Zenon DEF UnaInv, PeerTaken
<1>7. SendInv(f)'
  <2>1. ASSUME NEW m \in toPeer PROVE m.payload \in Seq(Nat) /\ SegmentOK(m, f)'
    <3>1. /\ m.payload \in Seq(Nat) /\ "FIN" \notin m.flags
          /\ \E o \in 0 .. Len(sent) : PlacedAt(m.seq, m.payload, o, f)
      BY <1>1, <1>3 DEF SendInv, SegmentOK
    <3>2. PICK o \in 0 .. Len(sent) : PlacedAt(m.seq, m.payload, o, f)
      BY <3>1
    <3>3. PlacedAt(m.seq, m.payload, o, f)'
      BY <1>3, <3>2, Zenon DEF PlacedAt
    <3> QED BY <3>1, <3>3, Zenon DEF SegmentOK
  <2> QED BY <1>1, <1>3, <1>4, <2>1 DEF SendInv
<1>8. ReceivedInv(f)'
  BY <1>1, <1>3 DEF ReceivedInv
<1>9. WrInv(f)'
  <2>1. PlacedAt(wr.seq, wr.segment, Len(sent) - Len(wr.segment), f)
          => PlacedAt(wr.seq, wr.segment, Len(sent) - Len(wr.segment), f)'
    BY <1>3, Zenon DEF PlacedAt
  <2> QED BY <1>1, <2>1 DEF WrInv
<1> QED BY <1>1, <1>5, <1>6, <1>7, <1>8, <1>9 DEF WriteInv

\* Close sends the FIN or goes on without one (CloseBegin, CloseFin, CloseFinish).
LEMMA CloseOnInv ==
  ASSUME WriteInv, cl' = [cl EXCEPT !.pc = cl'.pc], cl'.pc \in {"pump", "done"}, dial = "ok" \/ cl.pc # "idle",
         state' \in {state, "CLOSED"},
         \/ toPeer' = toPeer
         \/ cl.pc = "fin" /\ toPeer' = toPeer \cup {[flags |-> {"FIN", "ACK"}, seq |-> cl.seq, payload |-> <<>>]},
         UNCHANGED <<sent, sndNxt, sndUna, peerRcvd, peerFin, dial, wr, handed>>
  PROVE  WriteInv'
<1>0. WrType /\ UnaInv
  BY WriteTypes
<1>1. PICK f \in 0 .. Len(sent) : SendInv(f) /\ ReceivedInv(f) /\ WrInv(f)
  BY DEF WriteInv
<1>2. cl'.seq = cl.seq /\ cl' = [pc |-> cl'.pc, seq |-> cl'.seq]
  <2>1. cl = [pc |-> cl.pc, seq |-> cl.seq]
    BY <1>0 DEF WrType
  <2> QED BY <2>1
<1>3. FinTaken' = FinTaken /\ dial # "none"
  BY <1>1 DEF FinTaken, SendInv
<1>4. WrType'
  BY <1>0, <1>2, Zenon DEF WrType
<1>5. UnaInv'
  BY <1>0 DEF UnaInv, PeerTaken
<1>6. \A m : SegmentOK(m, f)' <=> SegmentOK(m, f)
  BY <1>2, <1>3, Zenon DEF SegmentOK, PlacedAt
<1>7. SendInv(f)'
  <2>1. \A m \in toPeer' : m.payload \in Seq(Nat) /\ SegmentOK(m, f)
    <3> DEFINE fin == [flags |-> {"FIN", "ACK"}, seq |-> cl.seq, payload |-> <<>>]
    <3>1. \A m \in toPeer : m.payload \in Seq(Nat) /\ SegmentOK(m, f)
      BY <1>1 DEF SendInv
    <3>2. "FIN" \in fin.flags /\ fin.payload = <<>> /\ fin.payload \in Seq(Nat) /\ fin.seq = cl.seq
      OBVIOUS
    <3>3. cl.pc = "fin" => FinTaken
      BY <1>1 DEF SendInv
    <3> HIDE DEF fin
    <3>4. cl.pc = "fin" => SegmentOK(fin, f)
      BY <3>2, <3>3, Zenon DEF SegmentOK
    <3>5. toPeer' = toPeer \/ (cl.pc = "fin" /\ toPeer' = toPeer \cup {fin})
      BY DEF fin
    <3> QED BY <3>1, <3>2, <3>4, <3>5, Zenon
  <2>2. \A m \in toPeer' : m.payload \in Seq(Nat) /\ SegmentOK(m, f)'
    BY <1>6, <2>1, Zenon
  <2> QED BY <1>1, <1>2, <1>3, <2>2 DEF SendInv
<1>8. ReceivedInv(f)'
  BY <1>1, <1>3 DEF ReceivedInv
<1>9. WrInv(f)'
  <2>1. PlacedAt(wr.seq, wr.segment, Len(sent) - Len(wr.segment), f)
          => PlacedAt(wr.seq, wr.segment, Len(sent) - Len(wr.segment), f)'
    BY <1>3, Zenon DEF PlacedAt
  <2> QED BY <1>1, <2>1 DEF WrInv
<1> QED BY <1>1, <1>4, <1>5, <1>7, <1>8, <1>9 DEF WriteInv

\* Close keeps what is known of the Write (Close).
LEMMA CloserKeepsWrite == ASSUME WriteInv, Closer PROVE WriteInv'
<1>0. cl = [pc |-> cl.pc, seq |-> cl.seq]
  BY WriteTypes DEF WrType
<1>1. CASE CloseBegin
  <2>1. /\ dial = "ok" /\ cl.pc = "idle"
        /\ UNCHANGED <<sent, toPeer, sndUna, peerRcvd, peerFin, dial, wr, handed>>
    BY <1>1 DEF CloseBegin, peer
  <2>2. CASE /\ state \in {"ESTABLISHED", "CLOSE_WAIT"}
             /\ state' = (IF state = "ESTABLISHED" THEN "FIN_WAIT_1" ELSE "LAST_ACK")
             /\ sndNxt' = SeqAdd(sndNxt, 1) /\ cl' = [pc |-> "fin", seq |-> sndNxt]
    BY <2>1, <2>2, TakeFinInv
  <2>3. ASSUME NEW pc \in {"done", "pump"}, cl' = [cl EXCEPT !.pc = pc], UNCHANGED <<state, sndNxt>> PROVE WriteInv'
    <3>1. cl'.pc = pc
      BY <1>0, <2>3
    <3> QED BY <2>1, <2>3, <3>1, CloseOnInv
  <2> QED BY <1>1, <2>2, <2>3 DEF CloseBegin
<1>2. CASE CloseFin
  <2>1. /\ cl.pc = "fin" /\ cl' = [cl EXCEPT !.pc = "pump"]
        /\ UNCHANGED <<sent, sndNxt, sndUna, state, peerRcvd, peerFin, dial, wr, handed>>
        /\ \/ toPeer' = toPeer \cup {[flags |-> {"FIN", "ACK"}, seq |-> cl.seq, payload |-> <<>>]}
           \/ toPeer' = toPeer
    BY <1>2 DEF CloseFin, tcb, peer
  <2>2. cl'.pc = "pump"
    BY <1>0, <2>1
  <2> QED BY <2>1, <2>2, CloseOnInv
<1>3. CASE CloseFinish
  <2>1. /\ cl.pc = "pump" /\ cl' = [cl EXCEPT !.pc = "done"] /\ state' = "CLOSED"
        /\ UNCHANGED <<sent, toPeer, sndNxt, sndUna, peerRcvd, peerFin, dial, wr, handed>>
    BY <1>3 DEF CloseFinish, peer
  <2>2. cl'.pc = "done"
    BY <1>0, <2>1
  <2> QED BY <2>1, <2>2, CloseOnInv
<1> QED BY <1>1, <1>2, <1>3 DEF Closer

\* The peer takes the next segment of the stream: the one with its number is the one
\* that begins where it has come to, or the FIN after the last byte before it.
LEMMA PeerTakes ==
  ASSUME WriteInv, ~peerFin, NEW m \in toPeer, m.seq = PeerAck(PeerTaken), peerRcvd' = peerRcvd \o m.payload,
         IF "FIN" \in m.flags THEN peerFin' = TRUE ELSE peerFin' = peerFin,
         UNCHANGED <<sent, toPeer, sndNxt, sndUna, state, cl, dial, wr, handed>>
  PROVE  WriteInv'
<1>0. /\ sent \in Seq(Nat) /\ Len(sent) \in Nat /\ Len(sent) <= MaxBytes /\ MaxBytes \in Nat
      /\ WrType /\ UnaInv
  BY WriteTypes
<1>1. PICK f \in 0 .. Len(sent) : SendInv(f) /\ ReceivedInv(f) /\ WrInv(f)
  BY DEF WriteInv
<1>2. /\ peerRcvd \in Seq(Nat) /\ Len(peerRcvd) \in Nat /\ Len(peerRcvd) <= f /\ f \in Nat /\ f <= Len(sent)
      /\ peerFin = FALSE /\ \A i \in 1 .. Len(peerRcvd) : peerRcvd[i] = sent[i]
  BY <1>0, <1>1 DEF ReceivedInv
<1>3. m.payload \in Seq(Nat) /\ Len(m.payload) \in Nat /\ SegmentOK(m, f) /\ dial # "none"
  BY <1>1 DEF SendInv
<1>4. PeerTaken = Len(peerRcvd) /\ Len(peerRcvd) \in 0 .. MaxBytes + 1
  BY <1>0, <1>2 DEF PeerTaken
<1>5. /\ peerRcvd' \in Seq(Nat) /\ Len(peerRcvd') = Len(peerRcvd) + Len(m.payload)
      /\ \A i \in 1 .. Len(peerRcvd) : peerRcvd'[i] = peerRcvd[i]
      /\ \A i \in 1 .. Len(m.payload) : peerRcvd'[Len(peerRcvd) + i] = m.payload[i]
  BY <1>2, <1>3, JoinSeqs, Zenon
<1>6. FinTaken' = FinTaken
  BY DEF FinTaken
<1>7. ReceivedInv(f)'
  <2>1. CASE "FIN" \notin m.flags
    <3>1. PICK o \in 0 .. Len(sent) : PlacedAt(m.seq, m.payload, o, f)
      BY <1>3, <2>1 DEF SegmentOK
    <3>2. o \in 0 .. MaxBytes + 1 /\ o + 1 \in 0 .. MaxBytes + 1 /\ o \in Nat
      BY <1>0
    <3>3. ~(m.seq = PeerAck(o + 1) /\ f <= o)
      <4> SUFFICES ASSUME m.seq = PeerAck(o + 1), f <= o PROVE FALSE
        OBVIOUS
      <4>1. Len(peerRcvd) = o + 1
        BY <1>4, <3>2, AckNumbers, Zenon
      <4> QED BY <1>2, <3>2, <4>1
    <3>4. m.seq = PeerAck(o) /\ o + Len(m.payload) <= f /\ \A i \in 1 .. Len(m.payload) : m.payload[i] = sent[o + i]
      BY <3>1, <3>3 DEF PlacedAt
    <3>5. Len(peerRcvd) = o
      BY <1>4, <3>2, <3>4, AckNumbers
    <3>6. ASSUME NEW i \in 1 .. Len(peerRcvd') PROVE peerRcvd'[i] = sent[i]
      <4>1. CASE i \in 1 .. Len(peerRcvd)
        BY <1>2, <1>5, <4>1
      <4>2. CASE i \notin 1 .. Len(peerRcvd)
        <5>1. i - o \in 1 .. Len(m.payload) /\ o + (i - o) = i
          BY <1>2, <1>3, <1>5, <3>2, <3>5, <4>2
        <5> QED BY <1>5, <3>4, <3>5, <5>1, Zenon
      <4> QED BY <4>1, <4>2, Zenon
    <3>7. peerFin' = FALSE /\ Len(peerRcvd') <= f
      BY <1>2, <1>5, <2>1, <3>4, <3>5
    <3> QED BY <1>5, <3>6, <3>7, Zenon DEF ReceivedInv
  <2>2. CASE "FIN" \in m.flags
    <3>1. m.payload = <<>> /\ m.seq = cl.seq /\ FinTaken
      BY <1>3, <2>2, Zenon DEF SegmentOK
    <3>2. PeerAck(Len(sent)) # PeerAck(Len(sent) + 1)
      <4>1. Len(sent) \in 0 .. MaxBytes + 1 /\ Len(sent) + 1 \in 0 .. MaxBytes + 1 /\ Len(sent) # Len(sent) + 1
        BY <1>0
      <4> QED BY <4>1, AckNumbers
    <3>3. cl.seq = PeerAck(f)
      BY <1>1, <1>3, <3>1, <3>2 DEF SendInv, FinTaken
    <3>4. f \in 0 .. MaxBytes + 1
      BY <1>0, <1>2
    <3>5. Len(peerRcvd) = f
      BY <1>4, <3>1, <3>3, <3>4, AckNumbers
    <3>6. Len(peerRcvd') = Len(peerRcvd) /\ peerFin' = TRUE
      BY <1>2, <1>5, <2>2, <3>1, SMTT(20)
    <3>7. \A i \in 1 .. Len(peerRcvd') : peerRcvd'[i] = sent[i]
      BY <1>2, <1>5, <3>6
    <3>8. Len(peerRcvd') <= f
      BY <1>2, <3>5, <3>6
    <3> QED BY <1>3, <1>5, <1>6, <3>1, <3>5, <3>6, <3>7, <3>8, Zenon DEF ReceivedInv
  <2> QED BY <2>1, <2>2
<1>8. WrType'
  BY <1>0, Zenon DEF WrType
<1>9. UnaInv'
  <2>1. PeerTaken' \in Nat /\ PeerTaken' >= PeerTaken
    <3>1. Len(peerRcvd') \in Nat /\ Len(peerRcvd') >= Len(peerRcvd)
      BY <1>2, <1>3, <1>5
    <3>2. PeerTaken' = Len(peerRcvd') + 0 \/ PeerTaken' = Len(peerRcvd') + 1
      BY Zenon DEF PeerTaken
    <3> QED BY <1>2, <1>4, <3>1, <3>2
  <2>2. 0 .. PeerTaken \subseteq 0 .. PeerTaken'
    BY <1>4, <2>1
  <2> QED BY <1>0, <2>2, Zenon DEF UnaInv
<1>10. SendInv(f)'
  BY <1>1, SentUntouched, Zenon
<1>11. WrInv(f)'
  <2>1. PlacedAt(wr.seq, wr.segment, Len(sent) - Len(wr.segment), f)
          => PlacedAt(wr.seq, wr.segment, Len(sent) - Len(wr.segment), f)'
    BY <1>6, Zenon DEF PlacedAt
  <2>2. Len(peerRcvd) = Len(sent) => Len(peerRcvd') = Len(sent)
    <3>1. Len(peerRcvd') <= f
      BY <1>7 DEF ReceivedInv
    <3>2. Len(peerRcvd') \in Nat /\ Len(peerRcvd') >= Len(peerRcvd)
      BY <1>2, <1>3, <1>5
    <3>3. f \in Nat /\ f <= Len(sent) /\ Len(sent) \in Nat
      BY <1>0, <1>2
    <3> QED BY <3>1, <3>2, <3>3
  <2> QED BY <1>1, <2>1, <2>2, Zenon DEF WrInv
<1> QED BY <1>1, <1>7, <1>8, <1>9, <1>10, <1>11 DEF WriteInv

\* A segment that acknowledges no more than the peer has taken is delivered
\* (deliverSegment).
LEMMA DeliverKeepsWrite ==
  ASSUME WriteInv, NEW m, NEW u \in 0 .. PeerTaken, m.ack = PeerAck(u), deliverSegment(m)
  PROVE  WriteInv'
<1>1. UNCHANGED <<sent, toPeer, sndNxt, cl, wr, handed, peerRcvd, peerFin, dial>>
  BY Zenon DEF deliverSegment, DeliverRst, DeliverSynSent, DeliverOpen, DeliverClosing, peer
<1>2. UnaInv /\ PeerTaken' = PeerTaken
  BY <1>1, WriteTypes DEF PeerTaken
<1>3. \/ sndUna' = m.ack
      \/ sndUna' = sndUna /\ (state' = "CLOSED" \/ state \notin {"CLOSED", "SYN_SENT"})
  <2>1. CASE DeliverRst(m)
    BY <2>1, Zenon DEF DeliverRst
  <2>2. CASE DeliverSynSent(m)
    BY <2>2, Zenon DEF DeliverSynSent
  <2>3. CASE DeliverOpen(m)
    <3>1. state \notin {"CLOSED", "SYN_SENT"} /\ (sndUna' = m.ack \/ sndUna' = sndUna)
      BY <2>3, Zenon DEF DeliverOpen
    <3> QED BY <3>1
  <2>4. CASE DeliverClosing(m)
    BY <2>4, Zenon DEF DeliverClosing
  <2> QED BY <2>1, <2>2, <2>3, <2>4 DEF deliverSegment
<1>4. UnaInv'
  BY <1>1, <1>2, <1>3 DEF UnaInv
<1> QED BY <1>1, <1>4, WriteUntouched

\* The transitions after acceptSegmentLocked stay in CLOSED and SYN_SENT.
LEMMA AfterAcceptStays ==
  ASSUME NEW st \in {"CLOSED", "SYN_SENT"}, NEW ack, NEW nxt, NEW fin
  PROVE  AfterAccept(st, ack, nxt, fin) = st
  BY DEF AfterAccept

\* What arrives from the network leaves the Write as it is; its acknowledgments are the
\* peer's.
LEMMA NetworkKeepsWrite == ASSUME WriteInv, Network PROVE WriteInv'
<1>0. UnaInv /\ peerRcvd \in Seq(Nat) /\ peerFin \in BOOLEAN
  BY WriteTypes DEF WriteInv, ReceivedInv
<1>1. PeerTaken \in Nat /\ 0 \in 0 .. PeerTaken
  BY <1>0 DEF PeerTaken
<1>2. CASE DeliverStream
  <2>1. PICK off \in 0 .. StreamLen, len \in 0 .. PeerMaxSeg, fin \in BOOLEAN, n \in 0 .. MaxBytes + 1 :
          MayArrive(off, len, fin, n) /\ deliverSegment(PeerSegment(off, len, fin, n))
    BY <1>2 DEF DeliverStream
  <2>2. n \in 0 .. PeerTaken /\ PeerSegment(off, len, fin, n).ack = PeerAck(n)
    BY <1>1, <2>1 DEF MayArrive, PeerSegment, Segment
  <2> QED BY <2>1, <2>2, DeliverKeepsWrite
<1>3. CASE DeliverSynAck
  <2>1. SynAckSegment.ack = PeerAck(0) /\ deliverSegment(SynAckSegment)
    BY <1>3 DEF SynAckSegment, Segment, DeliverSynAck
  <2> QED BY <1>1, <2>1, DeliverKeepsWrite
<1>4. CASE DeliverReset
  <2>1. RstSegment.ack = PeerAck(0) /\ deliverSegment(RstSegment)
    BY <1>4 DEF RstSegment, Segment, DeliverReset
  <2> QED BY <1>1, <2>1, DeliverKeepsWrite
<1>5. CASE DrainStep
  <2>1. UNCHANGED <<sent, toPeer, sndNxt, sndUna, state, cl, wr, handed, peerRcvd, peerFin, dial>>
    BY <1>5 DEF DrainStep, peer
  <2>2. UnaInv'
    BY <1>0, <2>1, Zenon DEF UnaInv, PeerTaken
  <2> QED BY <2>1, <2>2, WriteUntouched
<1>6. CASE DrainDone
  <2>1. /\ UNCHANGED <<sent, toPeer, sndNxt, sndUna, cl, wr, handed, peerRcvd, peerFin, dial>>
        /\ state' = AfterAccept(state, rx.ack, sndNxt, peerFinSeen)
    BY <1>6 DEF DrainDone, peer
  <2>2. state \in {"CLOSED", "SYN_SENT"} => state' = state
    BY <2>1, AfterAcceptStays
  <2>3. UnaInv'
    BY <1>0, <2>1, <2>2 DEF UnaInv, PeerTaken
  <2> QED BY <2>1, <2>3, WriteUntouched
<1> QED BY <1>2, <1>3, <1>4, <1>5, <1>6 DEF Network

\* The SYN takes the number before the first byte; the dial decides nothing else
\* (dialTCP4Once).
LEMMA DialerKeepsWrite == ASSUME WriteInv, Dialer PROVE WriteInv'
<1>0. UnaInv /\ WrType
  BY WriteTypes
<1>1. CASE DialSyn
  <2>1. /\ UNCHANGED <<sent, toPeer, cl, wr, handed, peerRcvd, peerFin>> /\ dial = "none"
        /\ dial' \in {"wait", "error"} /\ state' = "SYN_SENT" /\ sndNxt' = SeqAdd(ISS, 1)
    BY <1>1 DEF DialSyn, peer
  <2>2. PICK f \in 0 .. Len(sent) : SendInv(f) /\ ReceivedInv(f) /\ WrInv(f)
    BY DEF WriteInv
  <2>3. sent = <<>> /\ Len(sent) = 0 /\ f = 0 /\ toPeer = {} /\ cl.pc = "idle" /\ ~peerFin /\ wr.pc = "idle"
    BY <2>1, <2>2 DEF SendInv, ReceivedInv, WrInv
  <2>4. sndNxt' = PeerAck(Len(sent))
    BY <2>1, <2>3 DEF PeerAck
  <2>5. SendInv(f)'
    BY <2>1, <2>2, <2>3, <2>4 DEF SendInv
  <2>6. ReceivedInv(f)'
    BY <2>1, <2>2, <2>3 DEF ReceivedInv
  <2>7. WrInv(f)'
    BY <2>1, <2>2, <2>3 DEF WrInv
  <2>8. WrType'
    BY <1>0, <2>1, Zenon DEF WrType
  <2>9. UnaInv'
    BY <2>1 DEF UnaInv
  <2> QED BY <2>1, <2>2, <2>5, <2>6, <2>7, <2>8, <2>9 DEF WriteInv
<1>2. CASE DialCheck \/ DialTimeout
  <2>1. /\ UNCHANGED <<sent, toPeer, sndNxt, sndUna, state, cl, wr, handed, peerRcvd, peerFin>> /\ dial = "wait"
        /\ dial' \in {"ok", "refused", "timeout"} /\ (dial' = "ok" => state = "ESTABLISHED")
    BY <1>2 DEF DialCheck, DialTimeout, tcb, peer
  <2>2. UnaInv'
    BY <1>0, <2>1 DEF UnaInv, PeerTaken
  <2> QED BY <2>1, <2>2, WriteUntouched
<1> QED BY <1>1, <1>2 DEF Dialer

\* For every network, with late acknowledgments, retransmissions, a Close during the
\* Write and numbers that wrap: what the peer has received is a prefix of what was
\* handed to Write, and Write returns success only when the peer has all of it, as long
\* as all Writes together fit into half the sequence space (Write, sendAndAwaitAck).
THEOREM WriteOkIsReceived == ASSUME HalfFits PROVE Spec => []WriteOkMeansReceived
<1>1. Init => WriteInv
  BY WriteStart
<1>2. WriteInv /\ [Next]_vars => WriteInv'
  <2> SUFFICES ASSUME WriteInv, [Next]_vars PROVE WriteInv'
    OBVIOUS
  <2>0. UnaInv
    BY WriteTypes
  <2>1. CASE Network
    BY <2>1, NetworkKeepsWrite
  <2>2. CASE Dialer
    BY <2>2, DialerKeepsWrite
  <2>3. CASE Writer
    BY <2>3, WriteBeginInv, WriteTakeInv, WriteSendInv, WriteAwaitInv DEF Writer
  <2>4. CASE Closer
    BY <2>4, CloserKeepsWrite
  <2>5. CASE PeerReceive
    <3>1. PICK m \in toPeer :
            /\ m.seq = PeerAck(PeerTaken) /\ peerRcvd' = peerRcvd \o m.payload
            /\ IF "FIN" \in m.flags THEN peerFin' = TRUE ELSE UNCHANGED peerFin
      BY <2>5, Zenon DEF PeerReceive
    <3>2. ~peerFin /\ UNCHANGED <<sent, toPeer, sndNxt, sndUna, state, cl, dial, wr, handed>>
      BY <2>5, Zenon DEF PeerReceive, tcb
    <3> QED BY <3>1, <3>2, PeerTakes, Zenon
  <2>6. CASE Reader \/ PeerEstablish \/ UNCHANGED vars
    <3>1. UNCHANGED <<sent, toPeer, sndNxt, sndUna, state, cl, wr, handed, peerRcvd, peerFin, dial>>
      BY <2>6, Zenon DEF Reader, ReadBegin, ReadStep, ReadTimeout, PeerEstablish, vars, tcb, peer
    <3>2. UnaInv'
      BY <2>0, <3>1, Zenon DEF UnaInv, PeerTaken
    <3> QED BY <3>1, <3>2, WriteUntouched
  <2> QED BY <2>1, <2>2, <2>3, <2>4, <2>5, <2>6 DEF Next, Peer
<1>3. WriteInv => WriteOkMeansReceived
  <2> SUFFICES ASSUME WriteInv PROVE WriteOkMeansReceived
    OBVIOUS
  <2>1. sent \in Seq(Nat) /\ Len(sent) \in Nat
    BY WriteTypes
  <2>2. PICK f \in 0 .. Len(sent) : SendInv(f) /\ ReceivedInv(f) /\ WrInv(f)
    BY DEF WriteInv
  <2>3. Len(peerRcvd) \in Nat /\ Len(peerRcvd) <= f /\ \A i \in 1 .. Len(peerRcvd) : peerRcvd[i] = sent[i]
    BY <2>2 DEF ReceivedInv
  <2>4. Len(peerRcvd) <= Len(sent)
    BY <2>1, <2>2, <2>3
  <2> QED BY <2>2, <2>3, <2>4 DEF WriteOkMeansReceived, WrInv
<1> QED BY <1>1, <1>2, <1>3, PTL DEF Spec
=============================================================================
