----------------------------- MODULE ByteStream -----------------------------
(***************************************************************************)
(* What a connection promises to the application that reads from it        *)
(* (TCP4Conn.Read, uefiboard/ministack/tcp4.go:509-547): the peer's bytes, *)
(* queued in the order of the stream and each of them once, read from the  *)
(* front of the queue, and the end of the stream reported only when        *)
(* nothing is missing.  Tcp4Conn implements it.                            *)
(***************************************************************************)
EXTENDS Naturals, Sequences

CONSTANT Data        \* the stream

VARIABLES
  queue,      \* bytes that wait for Read
  read,       \* bytes Read has returned
  ended,      \* the end of the stream has been seen
  reported    \* the last Read reported it

vars == <<queue, read, ended, reported>>

\* The next n bytes of the stream are queued; the last of them may bring its end.
Receive(n, last) ==
  LET off == Len(read) + Len(queue)
  IN  /\ off + n <= Len(Data)
      /\ last => off + n = Len(Data)
      /\ queue' = queue \o SubSeq(Data, off + 1, off + n)
      /\ ended' = (ended \/ last)
      /\ UNCHANGED <<read, reported>>

\* A Read returns n bytes from the front of the queue.
Take(n) ==
  /\ n <= Len(queue)
  /\ read' = read \o SubSeq(queue, 1, n)
  /\ queue' = SubSeq(queue, n + 1, Len(queue))
  /\ reported' = FALSE
  /\ UNCHANGED ended

\* A Read reports the end.
Report ==
  /\ ended /\ queue = <<>>
  /\ reported' = TRUE
  /\ UNCHANGED <<queue, read, ended>>

\* A Read begins, or returns with nothing.
Ask == reported' = FALSE /\ UNCHANGED <<queue, read, ended>>

Init == queue = <<>> /\ read = <<>> /\ ended = FALSE /\ reported = FALSE

Next ==
  \/ \E n \in 0 .. Len(Data), last \in BOOLEAN : Receive(n, last)
  \/ \E n \in 1 .. Len(queue) : Take(n)
  \/ Report
  \/ Ask

Spec == Init /\ [][Next]_vars
=============================================================================
