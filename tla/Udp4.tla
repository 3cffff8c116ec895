-------------------------------- MODULE Udp4 --------------------------------
(***************************************************************************)
(* UDP sockets: OpenUDP4, the queue a dispatcher fills and ReadFrom        *)
(* empties, and Close (uefiboard/ministack/udp4.go, stack.go).             *)
(*                                                                         *)
(* Several receive loops may dispatch at the same time.  handleUDP4 looks  *)
(* the socket up under the stack's lock, deliver asks under the socket's   *)
(* lock whether it is closed and sends on the channel after unlocking, in  *)
(* up to three attempts, each of which is one step here.  The actions are  *)
(* those of one socket and one dispatcher; Dns composes them with the      *)
(* goroutines that resolve names.                                          *)
(***************************************************************************)
EXTENDS Naturals, Sequences

CONSTANTS
  Conn,          \* the sockets ever opened
  Port,          \* local ports
  Dispatcher,    \* goroutines that dispatch frames: rxLoop and receive loops
  Depth,         \* udp4QueueDepth
  MaxDatagrams,  \* bound: datagrams that arrive in all
  Nobody

VARIABLES
  conns,         \* Stack.udp4Conns: port -> socket or Nobody
  port,          \* local port of a socket, Nobody before it is opened
  closed,        \* UDP4Conn.closed
  queue,         \* its channel
  sealed,        \* the channel has been closed
  cl,            \* progress of its Close
  rd,            \* progress and result of its reader
  dp,            \* per dispatcher: what deliver does next, for whom, with what
  arrived,       \* number of datagrams that have come so far
  panic          \* ghost: a send on a closed channel

vars == <<conns, port, closed, queue, sealed, cl, rd, dp, arrived, panic>>

Idle == [pc |-> "idle", conn |-> Nobody, dg |-> Nobody]
Goto(d, l) == dp' = [dp EXCEPT ![d].pc = l]

-----------------------------------------------------------------------------
\* OpenUDP4; ErrUDP4PortInUse changes nothing.
OpenUDP4(c, p) ==
  /\ port[c] = Nobody /\ conns[p] = Nobody
  /\ conns' = [conns EXCEPT ![p] = c] /\ port' = [port EXCEPT ![c] = p]
  /\ UNCHANGED <<closed, queue, sealed, cl, rd, dp, arrived, panic>>

\* handleUDP4: the next datagram for a bound port; for another it does nothing.
Lookup(d, p, m) ==
  /\ dp[d].pc = "idle" /\ conns[p] # Nobody
  /\ arrived < MaxDatagrams /\ arrived' = arrived + 1
  /\ dp' = [dp EXCEPT ![d] = [pc |-> "check", conn |-> conns[p], dg |-> m]]
  /\ UNCHANGED <<conns, port, closed, queue, sealed, cl, rd, panic>>

\* deliver: the check of closed.
DeliverCheck(d) ==
  /\ dp[d].pc = "check"
  /\ dp' = [dp EXCEPT ![d] = IF closed[dp[d].conn] THEN Idle ELSE [@ EXCEPT !.pc = "send"]]
  /\ UNCHANGED <<conns, port, closed, queue, sealed, cl, rd, arrived, panic>>

\* A non-blocking send: panics on a closed channel, else the datagram is queued
\* if there is room and deliver goes on at label full if there is none.
TrySend(d, full) ==
  LET c == dp[d].conn IN
  /\ IF sealed[c]
     THEN panic' = TRUE /\ dp' = [dp EXCEPT ![d] = Idle] /\ UNCHANGED queue
     ELSE IF Len(queue[c]) < Depth
     THEN /\ queue' = [queue EXCEPT ![c] = Append(@, dp[d].dg)]
          /\ dp' = [dp EXCEPT ![d] = Idle] /\ UNCHANGED panic
     ELSE /\ dp' = [dp EXCEPT ![d] = IF full = "idle" THEN Idle ELSE [@ EXCEPT !.pc = full]]
          /\ UNCHANGED <<queue, panic>>
  /\ UNCHANGED <<conns, port, closed, sealed, cl, rd, arrived>>

DeliverSend(d) == dp[d].pc = "send" /\ TrySend(d, "drop")

\* Buffer full: the oldest is taken out.
DeliverDrop(d) ==
  LET c == dp[d].conn IN
  /\ dp[d].pc = "drop"
  /\ queue' = [queue EXCEPT ![c] = IF @ = <<>> THEN @ ELSE Tail(@)]
  /\ Goto(d, "resend")
  /\ UNCHANGED <<conns, port, closed, sealed, cl, rd, arrived, panic>>

DeliverResend(d) == dp[d].pc = "resend" /\ TrySend(d, "idle")

-----------------------------------------------------------------------------
\* ReadFrom polls the channel.  The goroutine that reads a socket is the one that
\* closes it, so that the answers of a closed socket are left out.
ReadFrom(c) ==
  /\ port[c] # Nobody /\ ~closed[c] /\ rd[c] # "poll"
  /\ rd' = [rd EXCEPT ![c] = "poll"]
  /\ UNCHANGED <<conns, port, closed, queue, sealed, cl, dp, arrived, panic>>

ReadPoll(c) ==
  /\ rd[c] = "poll" /\ queue[c] # <<>>
  /\ queue' = [queue EXCEPT ![c] = Tail(@)]
  /\ rd' = [rd EXCEPT ![c] = "ok"]
  /\ UNCHANGED <<conns, port, closed, sealed, cl, dp, arrived, panic>>

ReadTimeout(c) ==
  /\ rd[c] = "poll"
  /\ rd' = [rd EXCEPT ![c] = "timeout"]
  /\ UNCHANGED <<conns, port, closed, queue, sealed, cl, dp, arrived, panic>>

\* Close in its three steps.
CloseMark(c) ==
  /\ port[c] # Nobody /\ ~closed[c]
  /\ closed' = [closed EXCEPT ![c] = TRUE] /\ cl' = [cl EXCEPT ![c] = "release"]
  /\ UNCHANGED <<conns, port, queue, sealed, rd, dp, arrived, panic>>

CloseRelease(c) ==
  /\ cl[c] = "release"
  /\ conns' = [conns EXCEPT ![port[c]] = Nobody]
  /\ cl' = [cl EXCEPT ![c] = "seal"]
  /\ UNCHANGED <<port, closed, queue, sealed, rd, dp, arrived, panic>>

CloseSeal(c) ==
  /\ cl[c] = "seal"
  /\ sealed' = [sealed EXCEPT ![c] = TRUE] /\ cl' = [cl EXCEPT ![c] = "done"]
  /\ UNCHANGED <<conns, port, closed, queue, rd, dp, arrived, panic>>

Init ==
  /\ conns = [p \in Port |-> Nobody] /\ port = [c \in Conn |-> Nobody]
  /\ closed = [c \in Conn |-> FALSE] /\ queue = [c \in Conn |-> <<>>]
  /\ sealed = [c \in Conn |-> FALSE] /\ cl = [c \in Conn |-> "none"]
  /\ rd = [c \in Conn |-> "idle"] /\ dp = [d \in Dispatcher |-> Idle]
  /\ arrived = 0 /\ panic = FALSE

Dispatch(d) == DeliverCheck(d) \/ DeliverSend(d) \/ DeliverDrop(d) \/ DeliverResend(d)

-----------------------------------------------------------------------------
=============================================================================
