------------------------------- MODULE RxPump -------------------------------
(***************************************************************************)
(* Who receives a frame: the goroutine rxLoop and the receive loops inside *)
(* PingOnce and resolveARP all take frames from the one link, dispatch     *)
(* them and wait for what the others may have dispatched; and Close, which *)
(* stops them (uefiboard/ministack/stack.go, arp.go).                      *)
(*                                                                         *)
(* A process is rxLoop or a goroutine that calls PingOnce.  The pc "top"   *)
(* is the head of its receive loop and "recv" the call of RecvFrame; while *)
(* sendIPv4Frame waits for ARP it is at "arp" and "arpRecv" instead, on    *)
(* behalf of its own request or of the reply to an echo request it has     *)
(* just dispatched.  Frames are abstracted to what dispatch looks at, and  *)
(* those it ignores are left out.                                          *)
(***************************************************************************)
EXTENDS Naturals, Sequences, FiniteSets

CONSTANTS
  Rx,          \* the rxLoop goroutine
  Pinger,      \* goroutines that call PingOnce
  Host,        \* addresses that can be pinged or that ping us
  NextHop,     \* RouteTable.Lookup: the neighbour a host is reached through
  Neighbour,   \* addresses on the link
  NoRoute,     \* NextHop of a host without a route
  MaxPings,    \* calls of PingOnce in all
  MaxFrames,   \* frames that ever arrive
  MaxQueue     \* frames the device holds

Proc == Pinger \cup {Rx}

ASSUME PumpAssumption == Rx \notin Pinger

VARIABLES
  arp,         \* the ARP cache: "none", "pending" or "resolved"
  pings,       \* Stack.pings: sequence number -> waiting process, a set of pairs
  boxes,       \* the waiters whose channel holds a reply, by sequence number
  ipID,        \* Stack.ipID, not wrapping within the bounds
  started, closed, stop, closer,   \* Start, Close and its progress
  pc, seq, dst, why, held,         \* per process: see above; why is "ping" or "reply"
  res,         \* per process: the result of its latest PingOnce
  link,        \* frames the device holds
  asked, echoed,   \* ARP requests and echo requests that left the machine
  arrived      \* number of frames that have arrived

stackVars == <<arp, pings, boxes, ipID, started, closed, stop, closer>>
procVars == <<pc, seq, dst, why, held, res>>
wireVars == <<link, asked, echoed, arrived>>
vars == <<stackVars, procVars, wireVars>>

Frame(kind, x) == [kind |-> kind, x |-> x]
Waiters == {w[1] : w \in pings}
Goto(p, l) == pc' = [pc EXCEPT ![p] = l]
InPing(p) == p # Rx /\ pc[p] # "idle"

-----------------------------------------------------------------------------
\* Start sets the flag under the lock and starts rxLoop after it.
StartMark ==
  /\ ~started /\ ~closed
  /\ started' = TRUE
  /\ UNCHANGED <<arp, pings, boxes, ipID, closed, stop, closer, procVars, wireVars>>
StartGo ==
  /\ started /\ pc[Rx] = "idle"
  /\ Goto(Rx, "top")
  /\ UNCHANGED <<stackVars, seq, dst, why, held, res, wireVars>>

\* Close, once: mark, close stopCh, wait for rxLoop if it was started.
CloseMark ==
  /\ closer = "no" /\ closer' = "marked" /\ closed' = TRUE
  /\ UNCHANGED <<arp, pings, boxes, ipID, started, stop, procVars, wireVars>>
CloseStop ==
  /\ closer = "marked" /\ closer' = "waiting" /\ stop' = TRUE
  /\ UNCHANGED <<arp, pings, boxes, ipID, started, closed, procVars, wireVars>>

CloseReturn ==
  /\ closer = "waiting" /\ (started => pc[Rx] = "done")
  /\ closer' = "done"
  /\ UNCHANGED <<arp, pings, boxes, ipID, started, closed, stop, procVars, wireVars>>

-----------------------------------------------------------------------------
\* PingOnce up to its first unlock: registers a waiter under a fresh number.
PingOnce(p, h) ==
  /\ pc[p] = "idle" /\ ipID < 2 * MaxPings + MaxFrames
  /\ IF closed
     THEN /\ res' = [res EXCEPT ![p] = "closed"]
          /\ UNCHANGED <<pings, ipID, pc, seq, dst, why>>
     ELSE /\ seq' = [seq EXCEPT ![p] = ipID]
          /\ pings' = pings \cup {<<ipID, p>>}
          /\ ipID' = ipID + 2
          /\ dst' = [dst EXCEPT ![p] = h] /\ why' = [why EXCEPT ![p] = "ping"]
          /\ Goto(p, "send") /\ res' = [res EXCEPT ![p] = "none"]
  /\ UNCHANGED <<arp, boxes, started, closed, stop, closer, held, wireVars>>

\* Mutant: cleanup forgotten.
ForgetNothing(p) == pings' = pings

\* cleanup of PingOnce.
Cleanup(p) == pings' = {w \in pings : w[1] # seq[p]}

\* sendIPv4Frame fails: PingOnce cleans up and returns the error, dispatch
\* drops it.
SendFails(p, err) ==
  IF why[p] = "ping"
  THEN Cleanup(p) /\ Goto(p, "idle") /\ res' = [res EXCEPT ![p] = err]
  ELSE Goto(p, "top") /\ UNCHANGED <<pings, res>>

\* The packet leaves, or SendFrame reports an error.
Transmit(p) ==
  \/ /\ Goto(p, "top")
     /\ echoed' = IF why[p] = "ping" THEN echoed \cup {seq[p]} ELSE echoed
     /\ UNCHANGED <<pings, res>>
  \/ SendFails(p, "sendError") /\ UNCHANGED echoed

\* sendIPv4Frame: closed, no route, a cached address, or an ARP request.
SendIPv4Frame(p) ==
  LET hop == NextHop[dst[p]] IN
  /\ pc[p] = "send"
  /\ \/ /\ closed \/ hop = NoRoute
        /\ SendFails(p, IF closed THEN "closed" ELSE "noRoute")
        /\ UNCHANGED <<arp, asked, echoed>>
     \/ /\ ~closed /\ hop # NoRoute /\ arp[hop] = "resolved"
        /\ Transmit(p)
        /\ UNCHANGED <<arp, asked>>
     \/ /\ ~closed /\ hop # NoRoute /\ arp[hop] # "resolved"
        /\ arp' = [arp EXCEPT ![hop] = "pending"]
        /\ \/ asked' = asked \cup {hop} /\ Goto(p, "arp") /\ UNCHANGED <<pings, res>>
           \/ SendFails(p, "sendError") /\ UNCHANGED asked
        /\ UNCHANGED echoed
  /\ UNCHANGED <<boxes, ipID, started, closed, stop, closer, seq, dst, why, held, link, arrived>>

\* The head of resolveARP's loop.
ArpTop(p) ==
  /\ pc[p] = "arp"
  /\ IF arp[NextHop[dst[p]]] = "resolved"
     THEN Transmit(p)
     ELSE Goto(p, "arpRecv") /\ UNCHANGED <<pings, res, echoed>>
  /\ UNCHANGED <<arp, boxes, ipID, started, closed, stop, closer, seq, dst, why, held, link, asked, arrived>>

\* The deadline passes.
ArpTimeout(p) ==
  /\ pc[p] = "arp"
  /\ SendFails(p, "arpTimeout")
  /\ UNCHANGED <<arp, boxes, ipID, started, closed, stop, closer, seq, dst, why, held, wireVars>>

\* handleARPFrame: the sender is learned from requests and replies alike.
Learn(h) == arp' = [arp EXCEPT ![h] = "resolved"]

\* RecvFrame inside resolveARP: ARP is handled, anything else is discarded.
ArpRecv(p) ==
  /\ pc[p] = "arpRecv"
  /\ Goto(p, "arp")
  /\ IF link = <<>>
     THEN UNCHANGED <<arp, link>>
     ELSE LET f == Head(link) IN
          /\ link' = Tail(link)
          /\ IF f.kind = "arp" THEN Learn(f.x) ELSE UNCHANGED arp
  /\ UNCHANGED <<pings, boxes, ipID, started, closed, stop, closer, seq, dst, why, held, res, asked, echoed, arrived>>

-----------------------------------------------------------------------------
\* The head of the loops of PingOnce and rxLoop.
PingTop(p) ==
  /\ pc[p] = "top" /\ p # Rx
  /\ \/ /\ seq[p] \in boxes
        /\ boxes' = boxes \ {seq[p]} /\ res' = [res EXCEPT ![p] = "ok"]
        /\ Goto(p, "idle") /\ UNCHANGED pings
     \/ /\ stop
        /\ Cleanup(p) /\ res' = [res EXCEPT ![p] = "closed"]
        /\ Goto(p, "idle") /\ UNCHANGED boxes
     \/ /\ seq[p] \notin boxes /\ ~stop
        /\ Goto(p, "recv") /\ UNCHANGED <<pings, boxes, res>>
  /\ UNCHANGED <<arp, ipID, started, closed, stop, closer, seq, dst, why, held, wireVars>>

PingTimeout(p) ==
  /\ pc[p] = "top" /\ p # Rx
  /\ Cleanup(p) /\ Goto(p, "idle") /\ res' = [res EXCEPT ![p] = "timeout"]
  /\ UNCHANGED <<arp, boxes, ipID, started, closed, stop, closer, seq, dst, why, held, wireVars>>

\* Mutant: keeps receiving after Close.
RxTopDeaf ==
  /\ pc[Rx] = "top"
  /\ Goto(Rx, "recv")
  /\ UNCHANGED <<stackVars, seq, dst, why, held, res, wireVars>>

RxTop ==
  /\ pc[Rx] = "top"
  /\ Goto(Rx, IF stop THEN "done" ELSE "recv")
  /\ UNCHANGED <<stackVars, seq, dst, why, held, res, wireVars>>

\* RecvFrame and dispatch up to its first unlock.  A reply is taken out of the
\* table here and handed over in Deliver; a request is answered through
\* sendIPv4Frame by the process that dispatches it.
RecvDispatch(p) ==
  /\ pc[p] = "recv"
  /\ IF link = <<>>
     THEN Goto(p, "top") /\ UNCHANGED <<arp, pings, ipID, dst, why, held, link>>
     ELSE LET f == Head(link) IN
          /\ link' = Tail(link)
          /\ \/ /\ f.kind = "arp"
                /\ Learn(f.x) /\ Goto(p, "top") /\ UNCHANGED <<pings, ipID, dst, why, held>>
             \/ /\ f.kind = "echoReply"
                /\ IF f.x \in Waiters
                   THEN Goto(p, "deliver") /\ held' = [held EXCEPT ![p] = f.x]
                   ELSE Goto(p, "top") /\ UNCHANGED held
                /\ pings' = {w \in pings : w[1] # f.x}
                /\ UNCHANGED <<arp, ipID, dst, why>>
             \/ /\ f.kind = "echoRequest"
                /\ ipID' = ipID + 1
                /\ dst' = [dst EXCEPT ![p] = f.x] /\ why' = [why EXCEPT ![p] = "reply"]
                /\ Goto(p, "send") /\ UNCHANGED <<arp, pings, held>>
  /\ UNCHANGED <<boxes, started, closed, stop, closer, seq, res, asked, echoed, arrived>>

\* The send on the waiter's channel, which is empty and has room for one.
Deliver(p) ==
  /\ pc[p] = "deliver"
  /\ boxes' = boxes \cup {held[p]}
  /\ Goto(p, "top")
  /\ UNCHANGED <<arp, pings, ipID, started, closed, stop, closer, seq, dst, why, held, res, wireVars>>

-----------------------------------------------------------------------------
\* The network: replies to what was asked, any number of times, and requests.
Arrive ==
  /\ arrived < MaxFrames /\ Len(link) < MaxQueue
  /\ arrived' = arrived + 1
  /\ \E f \in {Frame("arp", h) : h \in asked} \cup {Frame("echoReply", s) : s \in echoed}
              \cup {Frame("echoRequest", h) : h \in Host} :
       link' = Append(link, f)
  /\ UNCHANGED <<stackVars, procVars, asked, echoed>>

Init ==
  /\ arp = [h \in Neighbour |-> "none"]
  /\ pings = {} /\ boxes = {} /\ ipID = 0
  /\ started = FALSE /\ closed = FALSE /\ stop = FALSE /\ closer = "no"
  /\ pc = [p \in Proc |-> "idle"] /\ seq = [p \in Proc |-> 0]
  /\ dst = [p \in Proc |-> CHOOSE h \in Host : TRUE] /\ why = [p \in Proc |-> "ping"]
  /\ held = [p \in Proc |-> 0] /\ res = [p \in Proc |-> "none"]
  /\ link = <<>> /\ asked = {} /\ echoed = {} /\ arrived = 0

Receive(p) == SendIPv4Frame(p) \/ ArpTop(p) \/ ArpRecv(p) \/ RecvDispatch(p) \/ Deliver(p)

Next ==
  \/ StartMark \/ StartGo \/ CloseMark \/ CloseStop \/ CloseReturn
  \/ \E p \in Pinger : PingTop(p) \/ PingTimeout(p) \/ \E h \in Host : PingOnce(p, h)
  \/ RxTop
  \/ \E p \in Proc : Receive(p) \/ ArpTimeout(p)
  \/ Arrive

Spec == Init /\ [][Next]_vars

\* Every goroutine runs, and every loop is left when its deadline has passed.
Fairness ==
  /\ WF_vars(StartGo) /\ WF_vars(CloseStop) /\ WF_vars(CloseReturn) /\ WF_vars(RxTop)
  /\ \A p \in Proc : WF_vars(Receive(p)) /\ SF_vars(ArpTimeout(p))
  /\ \A p \in Pinger : WF_vars(PingTop(p)) /\ SF_vars(PingTimeout(p))

FairSpec == Spec /\ Fairness

-----------------------------------------------------------------------------
\* Stack.pings and the waiters agree whatever the interleaving of several
\* receive loops: what is registered belongs to a PingOnce in progress, and a
\* PingOnce in progress is registered, or its reply is in its channel or in the
\* hands of a dispatcher (PingOnce, handleICMP).
WaitersMatch ==
  /\ \A w \in pings : InPing(w[2]) /\ seq[w[2]] = w[1]
  /\ \A p \in Pinger : InPing(p) =>
       \/ <<seq[p], p>> \in pings
       \/ seq[p] \in boxes
       \/ \E q \in Proc : pc[q] = "deliver" /\ held[q] = seq[p]

\* Every PingOnce returns (PingOnce, resolveARP: both loops have a deadline), and so
\* does Close, whatever rxLoop was doing when it was called.
CallsReturn ==
  /\ \A p \in Pinger : InPing(p) ~> ~InPing(p)
  /\ closer = "marked" ~> closer = "done"

=============================================================================
