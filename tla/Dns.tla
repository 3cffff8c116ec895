---------------------------------- MODULE Dns ----------------------------------
(***************************************************************************)
(* ResolveA (uefiboard/ministack/dns.go): several callers, each with a     *)
(* socket of Udp4 on the first free port and a transaction id made from    *)
(* that port.  A caller that waits in ReadFrom receives and dispatches     *)
(* frames itself, also those of the other callers, and rxLoop does too.    *)
(* Replies are lost, late, repeated and reordered.                         *)
(***************************************************************************)
EXTENDS Udp4, FiniteSets

CONSTANTS
  Procs,           \* goroutines that call ResolveA
  Rx,              \* rxLoop
  Wanted,          \* the names each of them looks up
  Elsewhere,       \* an address no query asks for
  Queries          \* bound: calls of a process

VARIABLES
  pc, count, name, result,   \* per process
  cand,            \* per process: the loop's candidate port
  asked,           \* queries that have left the machine, with the socket that sent them
  stackClosed      \* Stack.closed

proc == <<pc, count, name, result, cand>>
dnsVars == <<vars, proc, asked, stackClosed>>

ASSUME DnsAssumption ==
  /\ Conn = Procs \X (1 .. Queries) /\ Dispatcher = Procs \cup {Rx}
  /\ IsFiniteSet(Port) /\ Port = 0 .. Cardinality(Port) - 1
  /\ Queries \in Nat /\ Nobody \notin Conn \cup Port

Names == UNION {Wanted[p] : p \in Procs}

\* What a call ends with instead of an address.
Outcomes == {"none", "closed", "in use", "error", "timeout"}

\* An address is told apart from an error.
ASSUME OutcomeAssumption == Names \cap Outcomes = {} /\ Elsewhere \notin Outcomes

\* The socket of the call in progress.
sock(p) == <<p, count[p]>>

\* The transaction id: seed and MAC are fixed, the port is mixed in.
DnsID(k) == k + 1000

At(p, l) == pc' = [pc EXCEPT ![p] = l]
Result(p, r) == result' = [result EXCEPT ![p] = r]

-----------------------------------------------------------------------------
\* A call begins.
Begin(p, n) ==
  /\ pc[p] \in {"idle", "done"} /\ count[p] < Queries
  /\ count' = [count EXCEPT ![p] = @ + 1]
  /\ name' = [name EXCEPT ![p] = n] /\ cand' = [cand EXCEPT ![p] = 0]
  /\ IF stackClosed THEN At(p, "done") /\ Result(p, "closed")
     ELSE At(p, "open") /\ Result(p, "none")
  /\ UNCHANGED <<vars, asked, stackClosed>>

\* Mutant: an error other than "in use" is tried again.
OpenAgain(p) ==
  /\ pc[p] = "open"
  /\ \/ /\ stackClosed \/ cand[p] \notin Port
        /\ UNCHANGED <<vars, pc, result, cand>>
     \/ /\ ~stackClosed /\ cand[p] \in Port /\ conns[cand[p]] # Nobody
        /\ cand' = [cand EXCEPT ![p] = @ + 1] /\ UNCHANGED <<vars, pc, result>>
     \/ /\ ~stackClosed /\ cand[p] \in Port /\ OpenUDP4(sock(p), cand[p])
        /\ At(p, "query") /\ UNCHANGED <<result, cand>>
  /\ UNCHANGED <<count, name, asked, stackClosed>>

\* One turn of the loop that looks for a port.
Open(p) ==
  /\ pc[p] = "open"
  /\ \/ /\ stackClosed \/ cand[p] \notin Port
        /\ At(p, "done") /\ Result(p, IF stackClosed THEN "closed" ELSE "in use")
        /\ UNCHANGED <<vars, cand>>
     \/ /\ ~stackClosed /\ cand[p] \in Port /\ conns[cand[p]] # Nobody
        /\ cand' = [cand EXCEPT ![p] = @ + 1] /\ UNCHANGED <<vars, pc, result>>
     \/ /\ ~stackClosed /\ cand[p] \in Port /\ OpenUDP4(sock(p), cand[p])
        /\ At(p, "query") /\ UNCHANGED <<result, cand>>
  /\ UNCHANGED <<count, name, asked, stackClosed>>

\* buildDNSQuery refuses a name that is too long; WriteTo may fail.
Query(p, ok) ==
  /\ pc[p] = "query"
  /\ IF ok
     THEN /\ asked' = asked \cup {[port |-> cand[p], id |-> DnsID(cand[p]), name |-> name[p], by |-> sock(p)]}
          /\ At(p, "wait") /\ UNCHANGED result
     ELSE At(p, "close") /\ Result(p, "error") /\ UNCHANGED asked
  /\ UNCHANGED <<vars, count, name, cand, stackClosed>>

\* The head of the receive loop.
Listen(p) ==
  /\ pc[p] = "wait" /\ ReadFrom(sock(p))
  /\ UNCHANGED <<proc, asked, stackClosed>>

\* Mutant: the id is not looked at.
MatchesAny(p, m) == TRUE

\* parseDNSAnswerForA does not find it malformed: the id matches.
Matches(p, m) == m.id = DnsID(cand[p])

\* ReadFrom returns a datagram.  The first A record of the answer, an rcode, no A
\* record or a loop of pointers end the call; anything else is dropped.
Answer(p) ==
  /\ pc[p] = "wait" /\ dp[p].pc = "idle" /\ ReadPoll(sock(p))
  /\ LET m == Head(queue[sock(p)]) IN
     IF Matches(p, m)
     THEN At(p, "close") /\ Result(p, IF m.kind = "a" THEN m.name ELSE m.kind)
     ELSE UNCHANGED <<pc, result>>
  /\ UNCHANGED <<count, name, cand, asked, stackClosed>>

\* The deadline passes; a closed stack makes no difference here.
Timeout(p) ==
  /\ pc[p] = "wait" /\ dp[p].pc = "idle" /\ ReadTimeout(sock(p))
  /\ At(p, "close") /\ Result(p, "timeout")
  /\ UNCHANGED <<count, name, cand, asked, stackClosed>>

\* The deferred Close.
Close(p) ==
  /\ pc[p] = "close"
  /\ \/ (CloseMark(sock(p)) \/ CloseRelease(sock(p))) /\ UNCHANGED pc
     \/ CloseSeal(sock(p)) /\ At(p, "done")
  /\ UNCHANGED <<count, name, result, cand, asked, stackClosed>>

CloseStack ==
  /\ ~stackClosed /\ stackClosed' = TRUE
  /\ UNCHANGED <<vars, proc, asked>>

-----------------------------------------------------------------------------
\* What may arrive: the reply to any query sent so far, or traffic that has nothing
\* to do with a query.  The address of a name is represented by the name; "error"
\* stands for an rcode, an empty answer or a loop of pointers.
Incoming ==
  {[port |-> q.port, id |-> q.id, name |-> q.name, kind |-> k] : q \in asked, k \in {"a", "error"}}
  \cup {[port |-> k, id |-> 0, name |-> Elsewhere, kind |-> "a"] : k \in Port}

\* A dispatcher receives a datagram: rxLoop, or a caller inside ReadFrom.
Receive(d) ==
  /\ d # Rx => pc[d] = "wait" /\ rd[sock(d)] = "poll"
  /\ \E m \in Incoming : Lookup(d, m.port, m)
  /\ UNCHANGED <<proc, asked, stackClosed>>

\* It hands the datagram to the socket.
HandOver(d) == Dispatch(d) /\ UNCHANGED <<proc, asked, stackClosed>>

DnsInit ==
  /\ Init
  /\ pc = [p \in Procs |-> "idle"] /\ count = [p \in Procs |-> 0]
  /\ name = [p \in Procs |-> CHOOSE n \in Names : TRUE] /\ cand = [p \in Procs |-> 0]
  /\ result = [p \in Procs |-> "none"]
  /\ asked = {} /\ stackClosed = FALSE

Step(p) ==
  \/ Open(p) \/ (\E ok \in BOOLEAN : Query(p, ok)) \/ Listen(p)
  \/ Answer(p) \/ Timeout(p) \/ Close(p) \/ HandOver(p)

\* A send on a closed channel panics and stops the machine.
DnsNext ==
  /\ ~panic
  /\ \/ \E p \in Procs : Step(p) \/ \E n \in Wanted[p] : Begin(p, n)
     \/ \E d \in Dispatcher : Receive(d)
     \/ HandOver(Rx)
     \/ CloseStack

\* Every caller is scheduled; its deadline ends ReadFrom.
DnsSpec == DnsInit /\ [][DnsNext]_dnsVars /\ \A p \in Procs : WF_dnsVars(~panic /\ Step(p))

-----------------------------------------------------------------------------
\* The address p's call returned was asked for from its port: by this call, and then for
\* its own name, or by one whose socket had been closed.
Answered(p) == \E q \in asked :
  /\ q.port = cand[p] /\ q.name = result[p]
  /\ IF q.by = sock(p) THEN q.name = name[p] ELSE closed[q.by]

\* Concurrent calls keep apart ("distinct IDs across concurrent queries", dns.go:77),
\* however their searches for a port interleave and whoever receives and dispatches a
\* reply: a port is taken exactly by the call that uses it, no way out of ResolveA leaks
\* it, and the address a call returns is that of the name it asked for, except that it may
\* be a late reply to an earlier call, over by then, that had the same port and so the
\* same id.  It is never the address of a call in progress, nor stray traffic.  (For calls
\* that follow one another dns.go:79 promises more than this: the exception is real.)
CallsKeepApart ==
  /\ \A k \in Port : conns[k] # Nobody =>
       \E p \in Procs : conns[k] = sock(p) /\ cand[p] = k /\ pc[p] \in {"query", "wait", "close"}
  /\ \A c \in Conn : port[c] # Nobody /\ ~closed[c] => conns[port[c]] = c
  /\ \A p \in Procs : result[p] \in Names \cup {Elsewhere} => Answered(p)

\* Every call returns, unless the machine has stopped (ResolveA's deadline).
CallEnds == \A p \in Procs : pc[p] = "open" ~> pc[p] = "done" \/ panic
=============================================================================
