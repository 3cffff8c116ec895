------------------------------ MODULE DnsProofs ------------------------------
(***************************************************************************)
(* Concurrent calls of ResolveA keep apart, for any number of callers,     *)
(* ports, dispatchers and datagrams.                                       *)
(*                                                                         *)
(* That a port leads to the call that uses it depends on how far the Close *)
(* of every socket has come (SockInv), and that a reply is the caller's    *)
(* own on every datagram with a transaction id, wherever it is on its way, *)
(* answering a query that was sent (MailInv), and on who sent it: a call   *)
(* that waits has its socket open, so that whoever else sent from its port *)
(* had closed theirs (AskInv).                                             *)
(***************************************************************************)
EXTENDS Dns, SequenceTheorems, FiniteSetTheorems, TLAPS

\* The call has a socket.
Busy(p) == pc[p] \in {"query", "wait", "close"}

SockType ==
  /\ conns \in [Port -> Conn \cup {Nobody}] /\ port \in [Conn -> Port \cup {Nobody}]
  /\ closed \in [Conn -> BOOLEAN] /\ cl \in [Conn -> {"none", "release", "seal", "done"}]
  /\ count \in [Procs -> 0 .. Queries] /\ cand \in [Procs -> Nat]
  /\ pc \in [Procs -> {"idle", "open", "query", "wait", "close", "done"}]
  /\ \A p \in Procs : pc[p] \in {"open", "query", "wait", "close"} => count[p] > 0

\* Every port leads to a call that uses it, every open socket has its port, and a
\* socket's Close has given it up exactly when it says so.
SockInv ==
  /\ \A p \in Procs : Busy(p) => port[sock(p)] = cand[p] /\ port[sock(p)] # Nobody
  /\ \A k \in Port : conns[k] # Nobody => \E p \in Procs : conns[k] = sock(p) /\ cand[p] = k /\ Busy(p)
  /\ \A c \in Conn : port[c] # Nobody /\ ~closed[c] => conns[port[c]] = c
  /\ \A c \in Conn : (closed[c] <=> cl[c] # "none") /\ (closed[c] => port[c] # Nobody)
  /\ \A c \in Conn : cl[c] = "release" => conns[port[c]] = c
  /\ \A c \in Conn : cl[c] \in {"seal", "done"} => conns[port[c]] # c

AnyName == CHOOSE n \in Names : TRUE
NameSet == Names \cup {Elsewhere, AnyName}
Asked == [port : Port, id : Nat, name : NameSet, by : Conn]
Datagrams == [port : Port, id : Nat, name : NameSet, kind : {"a", "error"}]

\* A datagram with a transaction id answers a query that was sent.
Backed(m) == m.id # 0 => \E q \in asked : q.id = m.id /\ q.name = m.name

MailType ==
  /\ asked \subseteq Asked
  /\ name \in [Procs -> NameSet] /\ result \in [Procs -> NameSet \cup Outcomes]
  /\ queue \in [Conn -> Seq(Datagrams)]
  /\ dp \in [Dispatcher -> [pc : {"idle", "check", "send", "drop", "resend"},
                            conn : Conn \cup {Nobody}, dg : Datagrams \cup {Nobody}]]

\* Every query has the id of its port, and every datagram in a queue or in a
\* dispatcher's hands is backed.
MailInv ==
  /\ \A q \in asked : q.id = DnsID(q.port)
  /\ \A c \in Conn : \A k \in 1 .. Len(queue[c]) : Backed(queue[c][k])
  /\ \A d \in Dispatcher : dp[d].pc # "idle" =>
       dp[d].conn \in Conn /\ dp[d].dg \in Datagrams /\ Backed(dp[d].dg)

\* A call that returned an address asked for it, or its port did before.
CallInv ==
  /\ \A p \in Procs : pc[p] = "open" => result[p] = "none"
  /\ \A p \in Procs : result[p] \in Names \cup {Elsewhere} => Answered(p)

\* A query was sent by a call that has begun, from the port of its socket, for its name,
\* and the socket of a call that waits is open.
AskInv ==
  /\ \A p \in Procs : pc[p] \in {"query", "wait"} => ~closed[sock(p)]
  /\ \A q \in asked : port[q.by] = q.port /\ \E p \in Procs, i \in 0 .. Queries : q.by = <<p, i>> /\ i <= count[p]
  /\ \A q \in asked, p \in Procs : q.by = sock(p) => q.name = name[p]

DnsInv == SockType /\ SockInv /\ MailType /\ MailInv /\ CallInv /\ AskInv

-----------------------------------------------------------------------------
(* The sockets.                                                            *)

\* The socket of a call in progress is one of the sockets, and is its own.
LEMMA SockOfCall ==
  ASSUME SockType
  PROVE  /\ \A p \in Procs : Busy(p) \/ pc[p] = "open" => sock(p) \in Conn
         /\ \A p, q \in Procs : sock(p) = sock(q) => p = q
<1> USE DnsAssumption
<1>1. ASSUME NEW p \in Procs, Busy(p) \/ pc[p] = "open" PROVE sock(p) \in Conn
  <2>1. count[p] \in 0 .. Queries /\ count[p] > 0
    BY <1>1 DEF SockType, Busy
  <2>2. count[p] \in 1 .. Queries
    BY <2>1
  <2> QED BY <2>2 DEF sock
<1>2. \A p, q \in Procs : sock(p) = sock(q) => p = q
  BY DEF sock
<1> QED BY <1>1, <1>2

\* A call that has no socket moves on without one.
LEMMA MovesWithout ==
  ASSUME SockType, SockInv, SockType', NEW p \in Procs, ~Busy(p), ~Busy(p)',
         UNCHANGED <<conns, port, closed, cl>>,
         \A q \in Procs : q # p => pc'[q] = pc[q] /\ cand'[q] = cand[q] /\ count'[q] = count[q]
  PROVE  SockInv'
<1>1. \A q \in Procs : q # p => sock(q)' = sock(q) /\ (Busy(q)' <=> Busy(q))
  BY DEF sock, Busy
<1>2. \A q \in Procs : Busy(q)' => port'[sock(q)'] = cand'[q] /\ port'[sock(q)'] # Nobody
  BY <1>1 DEF SockInv
<1>3. ASSUME NEW k \in Port, conns'[k] # Nobody
      PROVE  \E q \in Procs : conns'[k] = sock(q)' /\ cand'[q] = k /\ Busy(q)'
  <2>1. PICK q \in Procs : conns[k] = sock(q) /\ cand[q] = k /\ Busy(q)
    BY <1>3 DEF SockInv
  <2> QED BY <1>1, <2>1
<1> QED BY <1>2, <1>3 DEF SockInv

\* A call that has a socket moves on with it.
LEMMA MovesWith ==
  ASSUME SockType, SockInv, NEW p \in Procs, NEW l \in {"query", "wait", "close"}, Busy(p),
         pc' = [pc EXCEPT ![p] = l], UNCHANGED <<conns, port, closed, cl, count, cand>>
  PROVE  SockType' /\ SockInv'
<1>1. \A q \in Procs : pc'[q] = IF q = p THEN l ELSE pc[q]
  BY DEF SockType
<1>2. \A q \in Procs : sock(q)' = sock(q) /\ (Busy(q)' <=> Busy(q))
  BY <1>1 DEF sock, Busy
<1>3. SockType'
  BY <1>1 DEF SockType, Busy
<1>4. ASSUME NEW k \in Port, conns'[k] # Nobody
      PROVE  \E q \in Procs : conns'[k] = sock(q)' /\ cand'[q] = k /\ Busy(q)'
  <2>1. PICK q \in Procs : conns[k] = sock(q) /\ cand[q] = k /\ Busy(q)
    BY <1>4 DEF SockInv
  <2> QED BY <1>2, <2>1
<1>5. SockInv'
  BY <1>2, <1>4 DEF SockInv
<1> QED BY <1>3, <1>5

\* A call begins, or finds the stack closed.
LEMMA BeginSock ==
  ASSUME SockType, SockInv, NEW p \in Procs, NEW n, Begin(p, n) PROVE SockType' /\ SockInv'
<1>1. /\ pc[p] \in {"idle", "done"} /\ count[p] < Queries
      /\ count' = [count EXCEPT ![p] = @ + 1] /\ cand' = [cand EXCEPT ![p] = 0]
      /\ UNCHANGED <<conns, port, closed, cl>>
  BY DEF Begin, vars
<1>2. PICK l \in {"open", "done"} : pc' = [pc EXCEPT ![p] = l]
  BY DEF Begin, At
<1>3. count[p] + 1 \in 0 .. Queries /\ count[p] + 1 > 0
  BY <1>1, DnsAssumption DEF SockType
<1>4. \A q \in Procs : /\ pc'[q] = (IF q = p THEN l ELSE pc[q])
                       /\ count'[q] = (IF q = p THEN count[p] + 1 ELSE count[q])
                       /\ cand'[q] = (IF q = p THEN 0 ELSE cand[q])
  BY <1>1, <1>2 DEF SockType
<1>5. SockType'
  BY <1>1, <1>2, <1>3, <1>4 DEF SockType
<1>6. ~Busy(p) /\ ~Busy(p)'
  BY <1>1, <1>4 DEF Busy
<1>7. \A q \in Procs : q # p => pc'[q] = pc[q] /\ cand'[q] = cand[q] /\ count'[q] = count[q]
  BY <1>4
<1>8. SockInv'
  BY <1>1, <1>5, <1>6, <1>7, MovesWithout
<1> QED BY <1>5, <1>8

\* One turn of the search for a port.
LEMMA OpenSock ==
  ASSUME SockType, SockInv, NEW p \in Procs, Open(p) PROVE SockType' /\ SockInv'
<1> USE DnsAssumption
<1>0. pc[p] = "open" /\ UNCHANGED count
  BY Zenon DEF Open
<1>1. CASE At(p, "done") /\ UNCHANGED <<vars, cand>>
  <2>1. \A q \in Procs : pc'[q] = IF q = p THEN "done" ELSE pc[q]
    BY <1>1 DEF SockType, At
  <2>2. SockType'
    BY <1>0, <1>1, <2>1 DEF SockType, At, vars
  <2>3. ~Busy(p) /\ ~Busy(p)'
    BY <1>0, <2>1 DEF Busy
  <2>4. SockInv'
    BY <1>0, <1>1, <2>1, <2>2, <2>3, MovesWithout DEF vars
  <2> QED BY <2>2, <2>4
<1>2. CASE cand' = [cand EXCEPT ![p] = @ + 1] /\ UNCHANGED <<vars, pc>>
  <2>1. \A q \in Procs : q # p => cand'[q] = cand[q]
    BY <1>2 DEF SockType
  <2>2. SockType'
    BY <1>0, <1>2 DEF SockType, vars
  <2>3. ~Busy(p) /\ ~Busy(p)'
    BY <1>0, <1>2 DEF Busy
  <2>4. SockInv'
    BY <1>0, <1>2, <2>1, <2>2, <2>3, MovesWithout DEF vars
  <2> QED BY <2>2, <2>4
<1>3. CASE cand[p] \in Port /\ OpenUDP4(sock(p), cand[p]) /\ At(p, "query") /\ UNCHANGED cand
  <2> DEFINE c == sock(p)
             k == cand[p]
  <2>1. /\ port[c] = Nobody /\ conns[k] = Nobody /\ k \in Port
        /\ conns' = [conns EXCEPT ![k] = c] /\ port' = [port EXCEPT ![c] = k]
        /\ pc' = [pc EXCEPT ![p] = "query"] /\ UNCHANGED <<closed, cl, count, cand>>
    BY <1>0, <1>3 DEF OpenUDP4, At
  <2>2. c \in Conn
    BY <1>0, SockOfCall
  <2>3. \A q \in Procs : pc'[q] = IF q = p THEN "query" ELSE pc[q]
    BY <2>1 DEF SockType
  <2>4. \A q \in Procs : sock(q)' = sock(q) /\ (Busy(q)' <=> Busy(q) \/ q = p)
    BY <1>0, <2>1, <2>3 DEF sock, Busy
  <2>5. SockType'
    BY <1>0, <2>1, <2>2, <2>3 DEF SockType
  <2>6. /\ \A x \in Port : conns'[x] = IF x = k THEN c ELSE conns[x]
        /\ \A x \in Conn : port'[x] = IF x = c THEN k ELSE port[x]
    BY <2>1 DEF SockType
  <2>7. \A q \in Procs : q # p /\ Busy(q) => sock(q) \in Conn /\ sock(q) # c
    BY SockOfCall
  <2>8. k # Nobody /\ c # Nobody
    BY <2>1, <2>2
  <2>9. \A x \in Conn : port[x] # Nobody => port[x] \in Port /\ x # c
    BY <2>1 DEF SockType
  <2>10. ~closed[c] /\ cl[c] = "none"
    BY <2>1, <2>2 DEF SockInv, SockType
  <2> HIDE DEF c, k
  <2>11. \A q \in Procs : Busy(q)' => port'[sock(q)'] = cand'[q] /\ port'[sock(q)'] # Nobody
    <3>1. port'[sock(p)'] = cand'[p] /\ port'[sock(p)'] # Nobody
      BY <2>1, <2>2, <2>4, <2>6, <2>8 DEF c, k
    <3> QED BY <2>1, <2>4, <2>6, <2>7, <3>1 DEF SockInv
  <2>12. ASSUME NEW x \in Port, conns'[x] # Nobody
         PROVE  \E q \in Procs : conns'[x] = sock(q)' /\ cand'[q] = x /\ Busy(q)'
    <3>1. CASE x = k
      <4>1. conns'[x] = sock(p)' /\ cand'[p] = x /\ Busy(p)'
        BY <2>1, <2>4, <2>6, <3>1 DEF c, k
      <4> QED BY <4>1
    <3>2. CASE x # k
      <4>1. conns[x] # Nobody /\ conns'[x] = conns[x]
        BY <2>6, <2>12, <3>2
      <4>2. PICK q \in Procs : conns[x] = sock(q) /\ cand[q] = x /\ Busy(q)
        BY <4>1 DEF SockInv
      <4> QED BY <2>1, <2>4, <4>1, <4>2
    <3> QED BY <3>1, <3>2
  <2>13. \A x \in Conn : port'[x] # Nobody /\ ~closed'[x] => conns'[port'[x]] = x
    BY <2>1, <2>2, <2>6, <2>8, <2>9 DEF SockInv
  <2>14. \A x \in Conn : (closed'[x] <=> cl'[x] # "none") /\ (closed'[x] => port'[x] # Nobody)
    BY <2>1, <2>6, <2>10, <2>8 DEF SockInv
  <2>15. \A x \in Conn : closed[x] => port[x] # Nobody /\ x # c /\ port'[x] = port[x] /\ port[x] \in Port
    BY <2>6, <2>9, <2>10 DEF SockInv
  <2>16. \A x \in Conn : cl'[x] = "release" => conns'[port'[x]] = x
    BY <2>1, <2>2, <2>6, <2>8, <2>15 DEF SockInv
  <2>17. \A x \in Conn : cl'[x] \in {"seal", "done"} => conns'[port'[x]] # x
    BY <2>1, <2>6, <2>15 DEF SockInv
  <2> QED BY <2>5, <2>11, <2>12, <2>13, <2>14, <2>16, <2>17 DEF SockInv
<1> QED BY <1>1, <1>2, <1>3, Zenon DEF Open

\* The three steps of the deferred Close.
LEMMA CloseSock ==
  ASSUME SockType, SockInv, NEW p \in Procs, Close(p) PROVE SockType' /\ SockInv'
<1> USE DnsAssumption
<1> DEFINE c == sock(p)
<1>0. pc[p] = "close" /\ Busy(p) /\ c \in Conn /\ UNCHANGED <<count, cand>>
  BY SockOfCall DEF Close, Busy
<1>1. \A q \in Procs : sock(q)' = sock(q)
  BY <1>0 DEF sock
<1>2. CASE CloseMark(c) /\ UNCHANGED pc
  <2>1. /\ port[c] # Nobody /\ ~closed[c] /\ closed' = [closed EXCEPT ![c] = TRUE]
        /\ cl' = [cl EXCEPT ![c] = "release"] /\ UNCHANGED <<conns, port>>
    BY <1>2 DEF CloseMark
  <2>2. SockType'
    BY <1>0, <1>2, <2>1 DEF SockType
  <2>a. \A x \in Conn : closed'[x] = (IF x = c THEN TRUE ELSE closed[x])
    BY Zenon, <2>1 DEF SockType
  <2>b. \A x \in Conn : cl'[x] = (IF x = c THEN "release" ELSE cl[x])
    BY <2>1 DEF SockType
  <2>3. \A x \in Conn : (closed'[x] <=> x = c \/ closed[x]) /\ cl'[x] = (IF x = c THEN "release" ELSE cl[x])
    BY Zenon, <2>a, <2>b
  <2>4. \A q \in Procs : Busy(q)' <=> Busy(q)
    BY <1>2 DEF Busy
  <2> HIDE DEF c
  <2>5. ASSUME NEW x \in Port, conns'[x] # Nobody
        PROVE  \E q \in Procs : conns'[x] = sock(q)' /\ cand'[q] = x /\ Busy(q)'
    <3>1. PICK q \in Procs : conns[x] = sock(q) /\ cand[q] = x /\ Busy(q)
      BY <2>1, <2>5 DEF SockInv
    <3> QED BY <1>0, <1>1, <2>1, <2>4, <3>1
  <2>6. SockInv'
    BY <1>0, <1>1, <2>1, <2>3, <2>4, <2>5 DEF SockInv
  <2> QED BY <2>2, <2>6
<1>3. CASE CloseRelease(c) /\ UNCHANGED pc
  <2>1. /\ cl[c] = "release" /\ conns' = [conns EXCEPT ![port[c]] = Nobody]
        /\ cl' = [cl EXCEPT ![c] = "seal"] /\ UNCHANGED <<port, closed>>
    BY <1>3 DEF CloseRelease
  <2>2. closed[c] /\ port[c] \in Port /\ conns[port[c]] = c
    BY <1>0, <2>1 DEF SockType, SockInv
  <2>3. SockType'
    BY <1>0, <1>3, <2>1, Zenon DEF SockType
  <2>4. /\ \A x \in Conn : cl'[x] = IF x = c THEN "seal" ELSE cl[x]
        /\ \A x \in Port : conns'[x] = IF x = port[c] THEN Nobody ELSE conns[x]
    BY <2>1 DEF SockType
  <2>5. \A q \in Procs : Busy(q)' <=> Busy(q)
    BY <1>3 DEF Busy
  <2> HIDE DEF c
  <2>6. ASSUME NEW x \in Port, conns'[x] # Nobody
        PROVE  \E q \in Procs : conns'[x] = sock(q)' /\ cand'[q] = x /\ Busy(q)'
    <3>1. conns'[x] = conns[x]
      BY <2>4, <2>6
    <3>2. PICK q \in Procs : conns[x] = sock(q) /\ cand[q] = x /\ Busy(q)
      BY <2>6, <3>1 DEF SockInv
    <3> QED BY <1>0, <1>1, <2>5, <3>1, <3>2
  <2>7. \A x \in Conn : port[x] # Nobody => port[x] \in Port
    BY DEF SockType
  <2>8. \A x \in Conn : port'[x] # Nobody /\ ~closed'[x] => conns'[port'[x]] = x
    BY <2>1, <2>2, <2>4, <2>7 DEF SockInv
  <2>9. \A x \in Conn : (closed'[x] <=> cl'[x] # "none") /\ (closed'[x] => port'[x] # Nobody)
    BY <1>0, <2>1, <2>2, <2>4 DEF SockInv
  <2>10. \A x \in Conn : cl'[x] = "release" => conns'[port'[x]] = x
    BY <2>1, <2>2, <2>4, <2>7, <2>9 DEF SockInv
  <2>11. \A x \in Conn : cl'[x] \in {"seal", "done"} => conns'[port'[x]] # x
    BY <1>0, <2>1, <2>2, <2>4, <2>7, <2>9 DEF SockInv
  <2> QED BY <1>0, <1>1, <2>1, <2>3, <2>5, <2>6, <2>8, <2>9, <2>10, <2>11 DEF SockInv
<1>4. CASE CloseSeal(c) /\ At(p, "done")
  <2>1. /\ cl[c] = "seal" /\ cl' = [cl EXCEPT ![c] = "done"] /\ pc' = [pc EXCEPT ![p] = "done"]
        /\ UNCHANGED <<conns, port, closed>>
    BY <1>4 DEF CloseSeal, At
  <2>2. \A q \in Procs : pc'[q] = IF q = p THEN "done" ELSE pc[q]
    BY <2>1 DEF SockType
  <2>3. \A q \in Procs : Busy(q)' <=> Busy(q) /\ q # p
    BY <2>2 DEF Busy
  <2>4. SockType'
    BY <1>0, <2>1, <2>2 DEF SockType
  <2>5. \A x \in Conn : cl'[x] = IF x = c THEN "done" ELSE cl[x]
    BY <2>1 DEF SockType
  <2>6. conns[port[c]] # c /\ port[c] = cand[p]
    BY <1>0, <2>1 DEF SockInv
  <2>7. ASSUME NEW x \in Port, conns'[x] # Nobody
        PROVE  \E q \in Procs : conns'[x] = sock(q)' /\ cand'[q] = x /\ Busy(q)'
    <3>1. PICK q \in Procs : conns[x] = sock(q) /\ cand[q] = x /\ Busy(q)
      BY <2>1, <2>7 DEF SockInv
    <3>2. q # p
      BY <2>6, <3>1
    <3> QED BY <1>0, <1>1, <2>1, <2>3, <3>1, <3>2
  <2> HIDE DEF c
  <2>8. SockInv'
    BY <1>0, <1>1, <2>1, <2>3, <2>5, <2>7 DEF SockInv
  <2> QED BY <2>4, <2>8
<1> QED BY <1>2, <1>3, <1>4 DEF Close

\* Every step keeps the sockets in order; a dispatcher does not touch them.
LEMMA StepSock == ASSUME SockType, SockInv, [DnsNext]_dnsVars PROVE SockType' /\ SockInv'
<1>1. ASSUME UNCHANGED <<conns, port, closed, cl, count, cand, pc>> PROVE SockType' /\ SockInv'
  BY <1>1 DEF SockType, SockInv, Busy, sock
<1>2. ASSUME NEW d, HandOver(d) \/ Receive(d) PROVE SockType' /\ SockInv'
  BY <1>1, <1>2 DEF HandOver, Receive, Dispatch, DeliverCheck, DeliverSend, DeliverDrop, DeliverResend,
     TrySend, Lookup, proc
<1>3. ASSUME NEW p \in Procs, NEW l \in {"wait", "close"}, Busy(p), At(p, l) \/ UNCHANGED pc,
             UNCHANGED <<conns, port, closed, cl, count, cand>>
      PROVE  SockType' /\ SockInv'
  BY <1>1, <1>3, MovesWith DEF At
<1>4. ASSUME NEW p \in Procs, Step(p) PROVE SockType' /\ SockInv'
  <2>1. ASSUME NEW ok \in BOOLEAN, Query(p, ok) PROVE SockType' /\ SockInv'
    <3>1. Busy(p) /\ UNCHANGED <<conns, port, closed, cl, count, cand>> /\ (At(p, "wait") \/ At(p, "close"))
      BY <2>1 DEF Query, Busy, vars
    <3> QED BY <1>3, <3>1
  <2>2. CASE Listen(p)
    BY <1>1, <2>2 DEF Listen, ReadFrom, proc
  <2>3. CASE Answer(p)
    <3>1. /\ Busy(p) /\ UNCHANGED <<conns, port, closed, cl, count, cand>>
          /\ (At(p, "close") \/ UNCHANGED pc)
      BY <2>3 DEF Answer, ReadPoll, Busy
    <3> QED BY <1>3, <3>1
  <2>4. CASE Timeout(p)
    <3>1. Busy(p) /\ UNCHANGED <<conns, port, closed, cl, count, cand>> /\ At(p, "close")
      BY <2>4 DEF Timeout, ReadTimeout, Busy
    <3> QED BY <1>3, <3>1
  <2> QED BY <1>2, <1>4, <2>1, <2>2, <2>3, <2>4, OpenSock, CloseSock DEF Step
<1>5. CASE CloseStack \/ UNCHANGED dnsVars
  BY <1>1, <1>5 DEF CloseStack, dnsVars, vars, proc
<1> QED BY <1>2, <1>4, <1>5, BeginSock DEF DnsNext

-----------------------------------------------------------------------------
(* The datagrams.                                                          *)

\* What is backed stays backed: queries are never forgotten.
LEMMA BackedStays ==
  ASSUME NEW m, Backed(m), asked \subseteq asked' PROVE Backed(m)'
BY DEF Backed

\* An answer stays an answer while the call that has it does not begin again.
LEMMA AnsweredStays ==
  ASSUME NEW p \in Procs, Answered(p), asked \subseteq Asked, asked \subseteq asked',
         cand'[p] = cand[p], result'[p] = result[p], count'[p] = count[p], name'[p] = name[p],
         \A c \in Conn : closed[c] => closed'[c]
  PROVE  Answered(p)'
<1>1. PICK q \in asked : /\ q.port = cand[p] /\ q.name = result[p]
                         /\ IF q.by = sock(p) THEN q.name = name[p] ELSE closed[q.by]
  BY DEF Answered
<1>2. q \in asked' /\ q.by \in Conn /\ sock(p)' = sock(p)
  BY DEF Asked, sock
<1>3. q.by # sock(p) => closed'[q.by]
  BY <1>1, <1>2
<1> QED BY <1>1, <1>2, <1>3 DEF Answered

\* No step opens a socket again.
LEMMA ClosedStays ==
  ASSUME SockType, NEW p \in Procs, UNCHANGED closed \/ Close(p)
  PROVE  \A c \in Conn : closed[c] => closed'[c]
<1>1. UNCHANGED closed \/ closed' = [closed EXCEPT ![sock(p)] = TRUE]
  BY Zenon DEF Close, CloseMark, CloseRelease, CloseSeal
<1> QED BY <1>1, Zenon DEF SockType

\* A step of a call that leaves the queues and the dispatchers alone.
LEMMA CallStep ==
  ASSUME DnsInv, NEW p \in Procs, UNCHANGED <<queue, dp>>,
         asked \subseteq asked', asked' \subseteq Asked,
         \A q \in asked' : q.id = DnsID(q.port),
         name' \in [Procs -> NameSet], result' \in [Procs -> NameSet \cup Outcomes],
         \A q \in Procs : q # p => /\ pc'[q] = pc[q] /\ cand'[q] = cand[q] /\ result'[q] = result[q]
                                   /\ count'[q] = count[q] /\ name'[q] = name[q],
         \A c \in Conn : closed[c] => closed'[c],
         pc'[p] = "open" => result'[p] = "none",
         result'[p] \in Names \cup {Elsewhere} => Answered(p)'
  PROVE  MailType' /\ MailInv' /\ CallInv'
<1>1. MailType'
  BY DEF DnsInv, MailType
<1>2. MailInv'
  BY BackedStays DEF DnsInv, MailInv
<1>3. CallInv'
  <2>1. ASSUME NEW q \in Procs, q # p, result'[q] \in Names \cup {Elsewhere} PROVE Answered(q)'
    <3>1. Answered(q) /\ asked \subseteq Asked
      BY <2>1 DEF DnsInv, CallInv, MailType
    <3> QED BY <2>1, <3>1, AnsweredStays
  <2> QED BY <2>1 DEF DnsInv, CallInv
<1> QED BY <1>1, <1>2, <1>3

\* Begin, the search for a port, a timeout and the Close of a call.
LEMMA QuietSteps ==
  ASSUME DnsInv, NEW p \in Procs,
         (\E n \in Wanted[p] : Begin(p, n)) \/ Open(p) \/ Timeout(p) \/ Close(p)
  PROVE  MailType' /\ MailInv' /\ CallInv'
<1> USE OutcomeAssumption
<1>0. /\ UNCHANGED <<queue, dp, asked>>
      /\ asked \subseteq Asked /\ \A q \in asked : q.id = DnsID(q.port)
  BY Zenon DEF Begin, Open, Timeout, Close, OpenUDP4, ReadTimeout, CloseMark, CloseRelease, CloseSeal, vars,
     DnsInv, MailType, MailInv
<1>a. \A c \in Conn : closed[c] => closed'[c]
  <2>1. UNCHANGED closed \/ Close(p)
    BY Zenon DEF Begin, Open, Timeout, OpenUDP4, ReadTimeout, vars
  <2> QED BY <2>1, ClosedStays DEF DnsInv
<1>b. \A q \in Procs : q # p => count'[q] = count[q] /\ name'[q] = name[q]
  <2>1. ASSUME NEW n \in Wanted[p], Begin(p, n) PROVE <1>b
    BY <2>1 DEF Begin, DnsInv, SockType, MailType
  <2>2. CASE Open(p) \/ Timeout(p) \/ Close(p)
    BY <2>2, Zenon DEF Open, Timeout, Close
  <2> QED BY <2>1, <2>2
<1>1. name' \in [Procs -> NameSet]
  <2>1. ASSUME NEW n \in Wanted[p], Begin(p, n) PROVE name' \in [Procs -> NameSet]
    <3>1. n \in NameSet
      BY DEF NameSet, Names
    <3> QED BY <2>1, <3>1 DEF Begin, DnsInv, MailType
  <2>2. CASE Open(p) \/ Timeout(p) \/ Close(p)
    BY <2>2, Zenon DEF Open, Timeout, Close, DnsInv, MailType
  <2> QED BY <2>1, <2>2
<1>2. CASE \E r \in Outcomes : result' = [result EXCEPT ![p] = r]
  <2>1. PICK r \in Outcomes : result' = [result EXCEPT ![p] = r]
    BY <1>2, Zenon
  <2>2. result' \in [Procs -> NameSet \cup Outcomes]
    BY <2>1 DEF DnsInv, MailType
  <2>3. \A q \in Procs : result'[q] = IF q = p THEN r ELSE result[q]
    BY <2>1 DEF DnsInv, MailType
  <2>4. result'[p] \notin Names \cup {Elsewhere}
    BY <2>3
  <2>5. /\ \A q \in Procs : q # p => pc'[q] = pc[q] /\ cand'[q] = cand[q]
        /\ pc'[p] = "open" => r = "none"
    <3>1. ASSUME NEW n \in Wanted[p], Begin(p, n) PROVE <2>5!:
      <4>1. CASE stackClosed
        BY <3>1, <4>1 DEF Begin, At, DnsInv, SockType
      <4>2. CASE ~stackClosed
        <5>1. result' = [result EXCEPT ![p] = "none"]
          BY <3>1, <4>2 DEF Begin, Result
        <5>2. r = "none"
          BY <2>3, <5>1 DEF DnsInv, MailType
        <5> QED BY <3>1, <4>2, <5>2 DEF Begin, At, DnsInv, SockType
      <4> QED BY <4>1, <4>2
    <3>2. CASE Open(p)
      <4>1. CASE At(p, "done") /\ UNCHANGED cand
        BY <4>1 DEF At, DnsInv, SockType
      <4>2. CASE UNCHANGED result
        <5>1. r = "none"
          BY <2>3, <3>2, <4>2, Zenon DEF Open, DnsInv, CallInv
        <5>2. CASE cand' = [cand EXCEPT ![p] = @ + 1] /\ UNCHANGED pc
          BY <5>1, <5>2 DEF DnsInv, SockType
        <5>3. CASE At(p, "query") /\ UNCHANGED cand
          BY <5>1, <5>3 DEF At, DnsInv, SockType
        <5>4. CASE At(p, "done") /\ UNCHANGED cand
          BY <5>1, <5>4 DEF At, DnsInv, SockType
        <5> QED BY <3>2, <5>2, <5>3, <5>4, Zenon DEF Open
      <4> QED BY <3>2, <4>1, <4>2, Zenon DEF Open
    <3>3. CASE Timeout(p)
      BY <3>3 DEF Timeout, At, DnsInv, SockType
    <3>4. CASE Close(p)
      <4>1. pc[p] = "close" /\ UNCHANGED cand /\ (UNCHANGED pc \/ pc' = [pc EXCEPT ![p] = "done"])
        BY <3>4 DEF Close, At
      <4> QED BY <4>1 DEF DnsInv, SockType
    <3> QED BY <3>1, <3>2, <3>3, <3>4
  <2> QED BY <1>0, <1>a, <1>b, <1>1, <2>2, <2>3, <2>4, <2>5, CallStep
<1>3. CASE UNCHANGED result /\ ~\E n \in Wanted[p] : Begin(p, n)
  <2>1. result' \in [Procs -> NameSet \cup Outcomes]
    BY <1>3 DEF DnsInv, MailType
  <2>2. CASE Open(p)
    <3>1. result[p] = "none"
      BY <2>2, Zenon DEF Open, DnsInv, CallInv
    <3>2. "none" \in Outcomes /\ result' = [result EXCEPT ![p] = "none"]
      BY <1>3, <3>1, Zenon DEF Outcomes, DnsInv, MailType
    <3> QED BY <1>2, <3>2, Zenon
  <2>3. CASE Close(p) \/ Timeout(p)
    <3>1. UNCHANGED cand /\ (UNCHANGED pc \/ \E l \in {"done", "close"} : pc' = [pc EXCEPT ![p] = l])
      BY <2>3 DEF Close, Timeout, At
    <3>2. /\ \A q \in Procs : q # p => pc'[q] = pc[q] /\ cand'[q] = cand[q]
          /\ pc'[p] = "open" => result'[p] = "none"
      BY <1>3, <3>1 DEF DnsInv, SockType, CallInv
    <3>3. ASSUME result'[p] \in Names \cup {Elsewhere} PROVE Answered(p)'
      <4>1. Answered(p) /\ asked \subseteq Asked /\ asked \subseteq asked'
        BY <1>0, <1>3, <3>3 DEF DnsInv, CallInv
      <4>2. UNCHANGED <<count, name>>
        BY <2>3, Zenon DEF Close, Timeout
      <4> QED BY <1>a, <1>3, <3>1, <4>1, <4>2, AnsweredStays
    <3> QED BY <1>0, <1>a, <1>b, <1>1, <1>3, <2>1, <3>2, <3>3, CallStep
  <2> QED BY <1>3, <2>2, <2>3
<1> QED BY <1>2, <1>3, Zenon DEF Begin, Open, Timeout, Close, Result, Outcomes

\* A query leaves with the id of its port, or fails.
LEMMA QueryMail ==
  ASSUME DnsInv, NEW p \in Procs, NEW ok \in BOOLEAN, Query(p, ok)
  PROVE  MailType' /\ MailInv' /\ CallInv'
<1> USE OutcomeAssumption
<1> DEFINE q0 == [port |-> cand[p], id |-> DnsID(cand[p]), name |-> name[p], by |-> sock(p)]
<1>0. /\ pc[p] = "query" /\ UNCHANGED <<queue, dp, name, cand, count, closed>>
      /\ asked' = asked \/ asked' = asked \cup {q0}
  BY DEF Query, vars
<1>1. cand[p] \in Nat /\ cand[p] \in Port /\ name[p] \in NameSet /\ sock(p) \in Conn
  <2>1. sock(p) \in Conn
    BY <1>0, SockOfCall DEF DnsInv, Busy
  <2> QED BY <1>0, <2>1 DEF DnsInv, SockType, SockInv, MailType, Busy
<1>2. q0 \in Asked /\ q0.id = DnsID(q0.port)
  BY <1>1 DEF DnsID, Asked
<1>3. /\ asked \subseteq asked' /\ asked' \subseteq Asked
      /\ \A q \in asked' : q.id = DnsID(q.port)
  <2> HIDE DEF q0
  <2> QED BY <1>0, <1>2 DEF DnsInv, MailType, MailInv
<1>4. /\ \A q \in Procs : q # p => pc'[q] = pc[q]
      /\ pc'[p] # "open"
  BY DEF Query, At, DnsInv, SockType
<1>5. name' \in [Procs -> NameSet]
  BY <1>0 DEF DnsInv, MailType
<1>6. /\ result' \in [Procs -> NameSet \cup Outcomes]
      /\ \A q \in Procs : q # p => result'[q] = result[q]
      /\ result'[p] \in {result[p], "error"}
  BY Zenon DEF Query, Result, DnsInv, MailType, Outcomes
<1>7. ASSUME result'[p] \in Names \cup {Elsewhere} PROVE Answered(p)'
  <2>1. "error" \notin Names \cup {Elsewhere}
    BY Zenon DEF Outcomes
  <2>2. result'[p] = result[p] /\ Answered(p) /\ asked \subseteq Asked
    BY <1>6, <1>7, <2>1 DEF DnsInv, CallInv, MailType
  <2> HIDE DEF q0
  <2> QED BY <1>0, <1>3, <2>2, AnsweredStays
<1> HIDE DEF q0
<1> QED BY <1>0, <1>3, <1>4, <1>5, <1>6, <1>7, CallStep

\* A call takes the first datagram of its queue; one with its id answers a query from
\* its port, because no two ports share an id.
LEMMA AnswerMail ==
  ASSUME DnsInv, NEW p \in Procs, Answer(p) PROVE MailType' /\ MailInv' /\ CallInv'
<1> USE OutcomeAssumption
<1> DEFINE c == sock(p)
           m == Head(queue[c])
<1>0. /\ pc[p] = "wait" /\ queue[c] # <<>> /\ queue' = [queue EXCEPT ![c] = Tail(queue[c])]
      /\ UNCHANGED <<dp, name, cand, asked, count, closed>>
  BY DEF Answer, ReadPoll
<1>1. c \in Conn
  BY <1>0, SockOfCall DEF DnsInv, Busy
<1>2. queue[c] \in Seq(Datagrams)
  BY <1>1 DEF DnsInv, MailType
<1>3. /\ m \in Datagrams /\ m = queue[c][1] /\ 1 \in 1 .. Len(queue[c])
      /\ Tail(queue[c]) \in Seq(Datagrams) /\ Len(Tail(queue[c])) = Len(queue[c]) - 1
      /\ \A k \in 1 .. Len(queue[c]) - 1 : Tail(queue[c])[k] = queue[c][k + 1]
  <2> HIDE DEF c
  <2> QED BY <1>0, <1>2, HeadTailProperties
<1>4. Backed(m)
  BY <1>1, <1>3 DEF DnsInv, MailInv
<1>5. MailType' /\ MailInv'
  <2>1. queue' \in [Conn -> Seq(Datagrams)]
    BY <1>0, <1>1, <1>3 DEF DnsInv, MailType
  <2>2. \A x \in Conn : queue'[x] = IF x = c THEN Tail(queue[c]) ELSE queue[x]
    BY <1>0 DEF DnsInv, MailType
  <2>3. \A r \in Datagrams : Backed(r) => Backed(r)'
    BY <1>0 DEF Backed
  <2>4. ASSUME NEW x \in Conn, NEW k \in 1 .. Len(queue'[x]) PROVE Backed(queue[x][k])'
    <3>1. queue[x] \in Seq(Datagrams) /\ Len(queue[x]) \in Nat
      BY DEF DnsInv, MailType
    <3>2. CASE x = c
      <4>1. k \in 1 .. Len(queue[c]) - 1 /\ queue'[x][k] = queue[c][k + 1]
        BY <1>3, <2>2, <3>2, Zenon
      <4>2. k + 1 \in 1 .. Len(queue[c])
        BY <3>1, <3>2, <4>1
      <4>3. Backed(queue[c][k + 1])
        BY <1>1, <4>2 DEF DnsInv, MailInv
      <4> QED BY <1>0, <4>1, <4>3 DEF Backed
    <3>3. CASE x # c
      <4>1. k \in 1 .. Len(queue[x]) /\ queue'[x][k] = queue[x][k]
        BY <2>2, <2>4, <3>3
      <4>2. Backed(queue[x][k])
        BY <4>1 DEF DnsInv, MailInv
      <4> QED BY <1>0, <4>1, <4>2 DEF Backed
    <3> QED BY <3>2, <3>3
  <2>5. \A d \in Dispatcher : dp'[d].pc # "idle" =>
          dp'[d].conn \in Conn /\ dp'[d].dg \in Datagrams /\ Backed(dp[d].dg)'
    BY <1>0 DEF DnsInv, MailInv, Backed
  <2>6. result' \in [Procs -> NameSet \cup Outcomes]
    <3>1. (IF m.kind = "a" THEN m.name ELSE m.kind) \in NameSet \cup Outcomes
      BY <1>3, Zenon DEF Datagrams, Outcomes
    <3>2. UNCHANGED result \/ result' = [result EXCEPT ![p] = IF m.kind = "a" THEN m.name ELSE m.kind]
      BY DEF Answer, Result
    <3> DEFINE r == IF m.kind = "a" THEN m.name ELSE m.kind
    <3> HIDE DEF r
    <3>3. r \in NameSet \cup Outcomes /\ (UNCHANGED result \/ result' = [result EXCEPT ![p] = r])
      BY <3>1, <3>2 DEF r
    <3> QED BY <3>3 DEF DnsInv, MailType
  <2>7. MailType'
    BY <1>0, <2>1, <2>6 DEF DnsInv, MailType
  <2>8. MailInv'
    <3>1. \A q \in asked' : q.id = DnsID(q.port)
      BY <1>0 DEF DnsInv, MailInv
    <3> QED BY <2>4, <2>5, <3>1 DEF MailInv
  <2> QED BY <2>7, <2>8
<1>6. CallInv'
  <2>1. CASE UNCHANGED <<pc, result>>
    BY <1>0, <2>1 DEF DnsInv, CallInv, Answered, sock
  <2>2. CASE m.id = DnsID(cand[p]) /\ At(p, "close") /\ Result(p, IF m.kind = "a" THEN m.name ELSE m.kind)
    <3> DEFINE r == IF m.kind = "a" THEN m.name ELSE m.kind
    <3>1. /\ \A q \in Procs : pc'[q] = IF q = p THEN "close" ELSE pc[q]
          /\ \A q \in Procs : result'[q] = IF q = p THEN r ELSE result[q]
      <4>1. pc' = [pc EXCEPT ![p] = "close"] /\ result' = [result EXCEPT ![p] = r]
        BY <2>2 DEF At, Result
      <4> HIDE DEF r
      <4> QED BY <4>1 DEF DnsInv, SockType, MailType
    <3>2. r \in Names \cup {Elsewhere} => r = m.name
      BY <1>3, Zenon DEF Datagrams, Outcomes
    <3>3. PICK q \in asked : q.id = m.id /\ q.name = m.name
      <4>1. cand[p] \in Nat
        BY DEF DnsInv, SockType
      <4>2. m.id # 0
        BY <2>2, <4>1 DEF DnsID
      <4> QED BY <1>4, <4>2 DEF Backed
    <3>4. q.port = cand[p]
      <4>1. q.port \in Port /\ q.id = DnsID(q.port) /\ cand[p] \in Nat
        BY DEF DnsInv, SockType, MailType, Asked, MailInv
      <4>2. q.port \in Nat
        BY <4>1, DnsAssumption, FS_CardinalityType
      <4> QED BY <2>2, <3>3, <4>1, <4>2 DEF DnsID
    <3>5. q.by = sock(p) => q.name = name[p]
      BY DEF DnsInv, AskInv
    <3>6. ASSUME q.by # sock(p) PROVE closed[q.by]
      <4>1. q.by \in Conn /\ port[q.by] = cand[p] /\ cand[p] # Nobody /\ port[c] = cand[p] /\ ~closed[c]
        BY <1>0, <3>4 DEF DnsInv, MailType, Asked, AskInv, SockInv, Busy
      <4> QED BY <1>1, <3>6, <4>1 DEF DnsInv, SockInv
    <3>7. ASSUME r \in Names \cup {Elsewhere} PROVE Answered(p)'
      <4>1. q \in asked' /\ q.name = result'[p] /\ sock(p)' = sock(p)
        BY <1>0, <3>1, <3>2, <3>3, <3>7 DEF sock
      <4> HIDE DEF r, m, c
      <4> QED BY <1>0, <3>4, <3>5, <3>6, <4>1 DEF Answered
    <3>8. \A x \in Procs : x # p /\ result[x] \in Names \cup {Elsewhere} => Answered(x)'
      <4>1. \A c1 \in Conn : closed[c1] => closed'[c1]
        BY <1>0
      <4>2. asked \subseteq Asked /\ asked \subseteq asked'
        BY <1>0 DEF DnsInv, MailType
      <4> HIDE DEF r, m, c
      <4> QED BY <1>0, <3>1, <4>1, <4>2, AnsweredStays DEF DnsInv, CallInv
    <3> HIDE DEF r, m, c
    <3> QED BY <1>0, <3>1, <3>7, <3>8 DEF DnsInv, CallInv
  <2> QED BY <2>1, <2>2 DEF Answer, Matches
<1> QED BY <1>5, <1>6

\* A step of one dispatcher, which hands at most one datagram to one socket.
LEMMA DispatcherStep ==
  ASSUME DnsInv, NEW d \in Dispatcher, UNCHANGED <<proc, asked, closed>>,
         NEW x, dp' = [dp EXCEPT ![d] = x],
         x = Idle \/ (/\ x \in [pc : {"check", "send", "drop", "resend"}, conn : Conn, dg : Datagrams]
                      /\ Backed(x.dg)),
         NEW c \in Conn, NEW s \in Seq(Datagrams), queue' = [queue EXCEPT ![c] = s],
         \A k \in 1 .. Len(s) : Backed(s[k])
  PROVE  MailType' /\ MailInv' /\ CallInv'
<1>0. UNCHANGED <<pc, count, name, result, cand, asked>>
  BY DEF proc
<1>1. /\ \A e \in Dispatcher : dp'[e] = IF e = d THEN x ELSE dp[e]
      /\ \A e \in Conn : queue'[e] = IF e = c THEN s ELSE queue[e]
  BY DEF DnsInv, MailType
<1>2. MailType'
  <2>1. x \in [pc : {"idle", "check", "send", "drop", "resend"},
               conn : Conn \cup {Nobody}, dg : Datagrams \cup {Nobody}]
    BY DEF Idle
  <2> QED BY <1>0, <2>1 DEF DnsInv, MailType
<1>3. ASSUME NEW e \in Conn, NEW k \in 1 .. Len(queue'[e]) PROVE Backed(queue[e][k])'
  <2>1. CASE e = c
    <3>1. Backed(s[k]) /\ queue'[e][k] = s[k]
      BY <1>1, <1>3, <2>1
    <3> QED BY <1>0, <3>1 DEF Backed
  <2>2. CASE e # c
    <3>1. k \in 1 .. Len(queue[e]) /\ queue'[e][k] = queue[e][k]
      BY <1>1, <1>3, <2>2
    <3>2. Backed(queue[e][k])
      BY <3>1 DEF DnsInv, MailInv
    <3> QED BY <1>0, <3>1, <3>2 DEF Backed
  <2> QED BY <2>1, <2>2
<1>4. ASSUME NEW e \in Dispatcher, dp'[e].pc # "idle"
      PROVE  dp'[e].conn \in Conn /\ dp'[e].dg \in Datagrams /\ Backed(dp[e].dg)'
  <2>1. CASE e = d
    <3>1. x # Idle
      BY <1>1, <1>4, <2>1 DEF Idle
    <3>2. x.conn \in Conn /\ x.dg \in Datagrams /\ Backed(x.dg)
      BY <3>1
    <3> QED BY <1>0, <1>1, <2>1, <3>2 DEF Backed
  <2>2. CASE e # d
    <3>1. dp'[e] = dp[e]
      BY <1>1, <2>2
    <3>2. dp[e].conn \in Conn /\ dp[e].dg \in Datagrams /\ Backed(dp[e].dg)
      BY <1>4, <3>1 DEF DnsInv, MailInv
    <3> QED BY <1>0, <3>1, <3>2 DEF Backed
  <2> QED BY <2>1, <2>2
<1>5. MailInv'
  <2>1. \A q \in asked' : q.id = DnsID(q.port)
    BY <1>0 DEF DnsInv, MailInv
  <2> QED BY <1>3, <1>4, <2>1 DEF MailInv
<1>6. CallInv'
  BY <1>0 DEF DnsInv, CallInv, Answered, sock
<1> QED BY <1>2, <1>5, <1>6

\* handleUDP4 finds the socket of a reply, or of traffic without an id.
LEMMA ReceiveMail ==
  ASSUME DnsInv, NEW d \in Dispatcher, Receive(d) PROVE MailType' /\ MailInv' /\ CallInv'
<1>1. PICK m \in Incoming : Lookup(d, m.port, m)
  BY DEF Receive
<1>2. m \in Datagrams /\ Backed(m)
  <2>1. CASE \E q \in asked, k \in {"a", "error"} : m = [port |-> q.port, id |-> q.id, name |-> q.name, kind |-> k]
    BY <2>1 DEF DnsInv, MailType, Asked, Datagrams, Backed
  <2>2. CASE \E k \in Port : m = [port |-> k, id |-> 0, name |-> Elsewhere, kind |-> "a"]
    <3>1. PICK k \in Port : m = [port |-> k, id |-> 0, name |-> Elsewhere, kind |-> "a"]
      BY <2>2
    <3>2. Elsewhere \in NameSet /\ 0 \in Nat
      BY DEF NameSet
    <3> QED BY <3>1, <3>2 DEF Datagrams, Backed
  <2> QED BY <2>1, <2>2 DEF Incoming
<1>3. conns[m.port] \in Conn
  <2>1. m.port \in Port
    <3>1. \A q \in asked : q.port \in Port
      BY DEF DnsInv, MailType, Asked
    <3> QED BY <3>1 DEF Incoming
  <2> QED BY <1>1, <2>1 DEF Lookup, DnsInv, SockType
<1> DEFINE x == [pc |-> "check", conn |-> conns[m.port], dg |-> m]
<1>4. x \in [pc : {"check", "send", "drop", "resend"}, conn : Conn, dg : Datagrams] /\ x.dg = m
  BY <1>2, <1>3
<1>5. dp' = [dp EXCEPT ![d] = x] /\ UNCHANGED <<queue, proc, asked, closed>>
  BY <1>1, Zenon DEF Lookup, Receive
<1>6. PICK c \in Conn : TRUE
  BY <1>3
<1>7. queue[c] \in Seq(Datagrams) /\ queue' = [queue EXCEPT ![c] = queue[c]]
  BY <1>5 DEF DnsInv, MailType
<1>8. \A k \in 1 .. Len(queue[c]) : Backed(queue[c][k])
  BY DEF DnsInv, MailInv
<1> HIDE DEF x
<1> QED BY <1>2, <1>4, <1>5, <1>7, <1>8, DispatcherStep, Zenon

\* deliver: each of its steps keeps the datagram, queues it, or gives the oldest up.
LEMMA HandOverMail ==
  ASSUME DnsInv, NEW d \in Dispatcher, HandOver(d) PROVE MailType' /\ MailInv' /\ CallInv'
<1> DEFINE c == dp[d].conn
           m == dp[d].dg
<1>0. dp[d].pc # "idle" /\ UNCHANGED <<proc, asked, closed>>
  BY DEF HandOver, Dispatch, DeliverCheck, DeliverSend, DeliverDrop, DeliverResend, TrySend
<1>1. c \in Conn /\ m \in Datagrams /\ Backed(m)
  BY <1>0 DEF DnsInv, MailInv
<1>2. queue[c] \in Seq(Datagrams) /\ \A k \in 1 .. Len(queue[c]) : Backed(queue[c][k])
  BY <1>1 DEF DnsInv, MailType, MailInv
<1>3. ASSUME NEW l \in {"check", "send", "drop", "resend"}
      PROVE  /\ [dp[d] EXCEPT !.pc = l] \in [pc : {"check", "send", "drop", "resend"}, conn : Conn, dg : Datagrams]
             /\ Backed([dp[d] EXCEPT !.pc = l].dg)
  <2>1. dp[d] \in [pc : {"idle", "check", "send", "drop", "resend"},
                   conn : Conn \cup {Nobody}, dg : Datagrams \cup {Nobody}]
    BY DEF DnsInv, MailType
  <2>2. [dp[d] EXCEPT !.pc = l] = [pc |-> l, conn |-> c, dg |-> m]
    BY <2>1
  <2> QED BY <1>1, <2>2
<1>4. ASSUME UNCHANGED queue,
             dp' = [dp EXCEPT ![d] = Idle]
               \/ \E l \in {"check", "send", "drop", "resend"} : dp' = [dp EXCEPT ![d] = [dp[d] EXCEPT !.pc = l]]
      PROVE  MailType' /\ MailInv' /\ CallInv'
  <2>1. queue' = [queue EXCEPT ![c] = queue[c]]
    BY <1>1, <1>4 DEF DnsInv, MailType
  <2>2. CASE dp' = [dp EXCEPT ![d] = Idle]
    <3> HIDE DEF c
    <3> QED BY <1>0, <1>1, <1>2, <2>1, <2>2, DispatcherStep, Zenon
  <2>3. ASSUME NEW l \in {"check", "send", "drop", "resend"}, dp' = [dp EXCEPT ![d] = [dp[d] EXCEPT !.pc = l]]
        PROVE  MailType' /\ MailInv' /\ CallInv'
    <3> DEFINE x == [dp[d] EXCEPT !.pc = l]
    <3>1. x \in [pc : {"check", "send", "drop", "resend"}, conn : Conn, dg : Datagrams] /\ Backed(x.dg)
      BY <1>3
    <3>2. dp' = [dp EXCEPT ![d] = x]
      BY <2>3
    <3> HIDE DEF c, x
    <3> QED BY <1>0, <1>1, <1>2, <2>1, <3>1, <3>2, DispatcherStep, Zenon
  <2> QED BY <1>4, <2>2, <2>3
<1>5. CASE DeliverCheck(d)
  BY <1>4, <1>5, Zenon DEF DeliverCheck
<1>6. ASSUME NEW full \in {"drop", "idle"}, TrySend(d, full) PROVE MailType' /\ MailInv' /\ CallInv'
  <2>1. CASE queue' = [queue EXCEPT ![c] = Append(queue[c], m)] /\ dp' = [dp EXCEPT ![d] = Idle]
    <3> DEFINE s == Append(queue[c], m)
    <3>1. s \in Seq(Datagrams) /\ \A k \in 1 .. Len(s) : Backed(s[k])
      <4> HIDE DEF c, m
      <4>1. /\ s \in Seq(Datagrams) /\ Len(s) = Len(queue[c]) + 1 /\ Len(queue[c]) \in Nat
            /\ \A k \in 1 .. Len(queue[c]) : s[k] = queue[c][k]
            /\ s[Len(queue[c]) + 1] = m
        BY <1>1, <1>2
      <4> HIDE DEF s
      <4>2. \A k \in 1 .. Len(s) : k \in 1 .. Len(queue[c]) \/ k = Len(queue[c]) + 1
        BY <4>1
      <4> QED BY <1>1, <1>2, <4>1, <4>2
    <3>2. queue' = [queue EXCEPT ![c] = s]
      BY <2>1
    <3> HIDE DEF c, m, s
    <3> QED BY <1>0, <1>1, <2>1, <3>1, <3>2, DispatcherStep, Zenon
  <2>2. CASE UNCHANGED queue
    BY <1>4, <1>6, <2>2 DEF TrySend
  <2> QED BY <1>6, <2>1, <2>2 DEF TrySend
<1>7. CASE DeliverDrop(d)
  <2> DEFINE s == IF queue[c] = <<>> THEN queue[c] ELSE Tail(queue[c])
             x == [dp[d] EXCEPT !.pc = "resend"]
  <2>1. s \in Seq(Datagrams) /\ \A k \in 1 .. Len(s) : Backed(s[k])
    <3>1. CASE queue[c] = <<>>
      BY <1>2, <3>1
    <3>2. CASE queue[c] # <<>>
      <4> HIDE DEF c
      <4>1. /\ s \in Seq(Datagrams) /\ Len(s) = Len(queue[c]) - 1 /\ Len(queue[c]) \in Nat
            /\ \A k \in 1 .. Len(s) : s[k] = queue[c][k + 1]
        BY <1>2, <3>2, HeadTailProperties
      <4> HIDE DEF s
      <4>2. \A k \in 1 .. Len(s) : k + 1 \in 1 .. Len(queue[c])
        BY <4>1
      <4> QED BY <1>2, <4>1, <4>2, Zenon
    <3> QED BY <3>1, <3>2, Zenon
  <2>2. queue' = [queue EXCEPT ![c] = s] /\ dp' = [dp EXCEPT ![d] = x]
    BY <1>7 DEF DeliverDrop, Goto
  <2>3. x \in [pc : {"check", "send", "drop", "resend"}, conn : Conn, dg : Datagrams] /\ Backed(x.dg)
    BY <1>3
  <2> HIDE DEF c, s, x
  <2> QED BY <1>0, <1>1, <2>1, <2>2, <2>3, DispatcherStep, Zenon
<1> QED BY <1>5, <1>6, <1>7 DEF HandOver, Dispatch, DeliverSend, DeliverResend

\* A step that changes neither the queues nor the calls.
LEMMA IdleMail ==
  ASSUME DnsInv, UNCHANGED <<queue, dp, proc, asked, closed>> PROVE MailType' /\ MailInv' /\ CallInv'
<1>1. UNCHANGED <<queue, dp, pc, count, name, result, cand, asked>>
  BY DEF proc
<1>2. MailType'
  BY <1>1 DEF DnsInv, MailType
<1>3. MailInv'
  BY <1>1, BackedStays DEF DnsInv, MailInv
<1>4. CallInv'
  BY <1>1 DEF DnsInv, CallInv, Answered, sock
<1> QED BY <1>2, <1>3, <1>4

-----------------------------------------------------------------------------
(* The queries.                                                            *)

\* A step that sends nothing and opens or closes no socket, of calls that stay the same.
LEMMA AskIdle ==
  ASSUME DnsInv, UNCHANGED <<closed, port, asked, count, name>>,
         \A p \in Procs : pc'[p] \in {"query", "wait"} => pc[p] \in {"query", "wait"}
  PROVE  AskInv'
BY DEF DnsInv, AskInv, sock

\* A call that begins has sent nothing from its new socket.
LEMMA AskBegin ==
  ASSUME DnsInv, NEW p \in Procs, NEW n, Begin(p, n) PROVE AskInv'
<1>1. /\ UNCHANGED <<closed, port, asked>> /\ count' = [count EXCEPT ![p] = @ + 1]
      /\ name' = [name EXCEPT ![p] = n]
  BY DEF Begin, vars
<1>2. PICK l \in {"open", "done"} : pc' = [pc EXCEPT ![p] = l]
  BY DEF Begin, At
<1>3. \A r \in Procs : /\ pc'[r] = (IF r = p THEN l ELSE pc[r])
                       /\ count'[r] = (IF r = p THEN count[p] + 1 ELSE count[r])
                       /\ name'[r] = (IF r = p THEN n ELSE name[r]) /\ count[r] \in Nat
  BY <1>1, <1>2 DEF DnsInv, SockType, MailType
<1>4. \A r \in Procs : pc'[r] \in {"query", "wait"} => ~closed'[sock(r)']
  BY <1>1, <1>3 DEF DnsInv, AskInv, sock
<1>5. ASSUME NEW q \in asked
      PROVE  /\ port'[q.by] = q.port
             /\ \E r \in Procs, i \in 0 .. Queries : q.by = <<r, i>> /\ i <= count'[r]
             /\ \A r \in Procs : q.by = sock(r)' => q.name = name'[r]
  <2>1. PICK r \in Procs, i \in 0 .. Queries : q.by = <<r, i>> /\ i <= count[r]
    BY DEF DnsInv, AskInv
  <2>2. i <= count'[r]
    BY <1>3, <2>1
  <2>3. q.by # sock(p)'
    BY <1>3, <2>1 DEF sock
  <2>4. \A x \in Procs : q.by = sock(x)' => q.name = name'[x]
    BY <1>3, <2>3 DEF DnsInv, AskInv, sock
  <2> QED BY <1>1, <2>1, <2>2, <2>4 DEF DnsInv, AskInv
<1> QED BY <1>1, <1>4, <1>5 DEF AskInv

\* A query is sent from the open socket of its call.
LEMMA AskQuery ==
  ASSUME DnsInv, NEW p \in Procs, NEW ok \in BOOLEAN, Query(p, ok) PROVE AskInv'
<1> DEFINE q0 == [port |-> cand[p], id |-> DnsID(cand[p]), name |-> name[p], by |-> sock(p)]
<1>1. /\ pc[p] = "query" /\ UNCHANGED <<closed, port, count, name>>
      /\ asked' = asked \/ asked' = asked \cup {q0}
  BY DEF Query, vars
<1>2. \A r \in Procs : pc'[r] \in {"query", "wait"} => pc[r] \in {"query", "wait"}
  BY <1>1 DEF Query, At, DnsInv, SockType
<1>3. \A r \in Procs : sock(r)' = sock(r)
  BY <1>1 DEF sock
<1>4. /\ port[q0.by] = q0.port /\ q0.by = <<p, count[p]>> /\ count[p] \in 0 .. Queries /\ count[p] <= count[p]
      /\ \A r \in Procs : q0.by = sock(r) => q0.name = name[r]
  BY <1>1, SockOfCall DEF DnsInv, SockType, SockInv, Busy, sock
<1> HIDE DEF q0
<1>5. \A q \in asked' : q \in asked \/ q = q0
  BY <1>1
<1> QED BY <1>1, <1>2, <1>3, <1>4, <1>5 DEF DnsInv, AskInv

\* A socket is opened for a call that has sent nothing from it.
LEMMA AskOpen ==
  ASSUME DnsInv, NEW p \in Procs, Open(p) PROVE AskInv'
<1>0. pc[p] = "open" /\ sock(p) \in Conn /\ UNCHANGED <<closed, asked, count, name>>
  <2>1. pc[p] = "open" /\ UNCHANGED <<closed, asked, count, name>>
    BY Zenon DEF Open, OpenUDP4, vars
  <2> QED BY <2>1, SockOfCall DEF DnsInv
<1>1. CASE UNCHANGED port /\ (At(p, "done") \/ UNCHANGED pc)
  <2>1. \A r \in Procs : pc'[r] \in {"query", "wait"} => pc[r] \in {"query", "wait"}
    BY <1>1 DEF At, DnsInv, SockType
  <2> QED BY <1>0, <1>1, <2>1, AskIdle
<1>2. CASE port[sock(p)] = Nobody /\ (\E k \in Port : port' = [port EXCEPT ![sock(p)] = k]) /\ At(p, "query")
  <2>1. \A r \in Procs : pc'[r] = (IF r = p THEN "query" ELSE pc[r]) /\ sock(r)' = sock(r)
    BY <1>0, <1>2 DEF At, DnsInv, SockType, sock
  <2>2. ~closed[sock(p)]
    BY <1>0, <1>2 DEF DnsInv, SockInv
  <2>3. \A q \in asked : q.by # sock(p) /\ port'[q.by] = port[q.by]
    <3>1. \A q \in asked : q.by \in Conn /\ port[q.by] \in Port
      BY DEF DnsInv, MailType, Asked, AskInv
    <3> QED BY <1>2, <3>1, DnsAssumption DEF DnsInv, SockType
  <2> QED BY <1>0, <2>1, <2>2, <2>3 DEF DnsInv, AskInv
<1> QED BY <1>1, <1>2, Zenon DEF Open, OpenUDP4, vars

\* Only a call that has its answer closes its socket.
LEMMA AskClose ==
  ASSUME DnsInv, NEW p \in Procs, Close(p) PROVE AskInv'
<1>1. /\ pc[p] = "close" /\ UNCHANGED <<port, asked, count, name>> /\ (UNCHANGED pc \/ At(p, "done"))
      /\ UNCHANGED closed \/ closed' = [closed EXCEPT ![sock(p)] = TRUE]
  BY Zenon DEF Close, CloseMark, CloseRelease, CloseSeal
<1>2. \A r \in Procs : pc'[r] \in {"query", "wait"} => pc[r] \in {"query", "wait"} /\ r # p
  BY <1>1 DEF At, DnsInv, SockType
<1>3. ASSUME NEW r \in Procs, pc'[r] \in {"query", "wait"} PROVE ~closed'[sock(r)']
  <2>1. sock(r)' = sock(r) /\ sock(r) # sock(p) /\ sock(r) \in Conn /\ ~closed[sock(r)]
    BY <1>1, <1>2, <1>3, SockOfCall DEF DnsInv, AskInv, Busy, sock
  <2> QED BY <1>1, <2>1, Zenon DEF DnsInv, SockType
<1> QED BY <1>1, <1>3 DEF DnsInv, AskInv, sock

\* Every query was sent by a call that has begun, from its open socket.
LEMMA AskStep == ASSUME DnsInv, [DnsNext]_dnsVars PROVE AskInv'
<1>1. ASSUME NEW d, HandOver(d) \/ Receive(d) PROVE AskInv'
  <2>1. UNCHANGED <<closed, port, asked, proc>>
    BY <1>1, Zenon DEF HandOver, Receive, Dispatch, DeliverCheck, DeliverSend, DeliverDrop, DeliverResend,
       TrySend, Lookup
  <2> QED BY <2>1, AskIdle DEF proc
<1>2. ASSUME NEW p \in Procs, Listen(p) \/ Answer(p) \/ Timeout(p) PROVE AskInv'
  <2>1. UNCHANGED <<closed, port, asked, count, name>> /\ (UNCHANGED pc \/ At(p, "close"))
    BY <1>2, Zenon DEF Listen, Answer, Timeout, ReadFrom, ReadPoll, ReadTimeout, proc
  <2>2. \A r \in Procs : pc'[r] \in {"query", "wait"} => pc[r] \in {"query", "wait"}
    BY <2>1 DEF At, DnsInv, SockType
  <2> QED BY <2>1, <2>2, AskIdle
<1>3. CASE CloseStack \/ UNCHANGED dnsVars
  BY <1>3, AskIdle DEF CloseStack, dnsVars, vars, proc
<1> QED BY <1>1, <1>2, <1>3, AskBegin, AskQuery, AskOpen, AskClose DEF DnsNext, Step

\* The invariant holds before the first call ...
LEMMA DnsStart == DnsInit => DnsInv
<1> SUFFICES ASSUME DnsInit PROVE DnsInv
  OBVIOUS
<1> USE DnsAssumption, OutcomeAssumption DEF DnsInit, Init
<1>1. SockType
  BY DEF SockType
<1>2. SockInv
  BY DEF SockInv, Busy
<1>3. MailType
  <2>1. \A p \in Procs : name[p] = AnyName
    BY DEF AnyName
  <2>2. name \in [Procs -> NameSet]
    BY <2>1 DEF NameSet
  <2>3. queue \in [Conn -> Seq(Datagrams)]
    BY DEF DnsInit, Init
  <2>4. Idle \in [pc : {"idle", "check", "send", "drop", "resend"},
                  conn : Conn \cup {Nobody}, dg : Datagrams \cup {Nobody}]
    BY DEF Idle
  <2> QED BY <2>2, <2>3, <2>4, Zenon DEF MailType, Outcomes
<1>4. MailInv
  BY DEF MailInv, Idle
<1>5. CallInv
  BY Zenon DEF CallInv, Outcomes
<1>6. AskInv
  BY DEF AskInv
<1> QED BY <1>1, <1>2, <1>3, <1>4, <1>5, <1>6 DEF DnsInv

\* ... and every step keeps it.
LEMMA DnsStep == DnsInv /\ [DnsNext]_dnsVars => DnsInv'
<1> SUFFICES ASSUME DnsInv, [DnsNext]_dnsVars PROVE DnsInv'
  OBVIOUS
<1>1. SockType' /\ SockInv'
  <2>1. SockType /\ SockInv
    BY DEF DnsInv
  <2> QED BY <2>1, StepSock
<1>2. MailType' /\ MailInv' /\ CallInv'
  <2>1. ASSUME NEW p \in Procs, Step(p) \/ \E n \in Wanted[p] : Begin(p, n)
        PROVE  MailType' /\ MailInv' /\ CallInv'
    <3>1. CASE \E ok \in BOOLEAN : Query(p, ok)
      BY <3>1, QueryMail
    <3>2. CASE Listen(p)
      <4>1. UNCHANGED <<queue, dp, proc, asked, closed>>
        BY <3>2 DEF Listen, ReadFrom
      <4> QED BY <4>1, IdleMail
    <3>3. CASE HandOver(p)
      <4>1. p \in Dispatcher
        BY DnsAssumption
      <4> QED BY <3>3, <4>1, HandOverMail
    <3> QED BY <2>1, <3>1, <3>2, <3>3, AnswerMail, QuietSteps DEF Step
  <2>2. ASSUME NEW d \in Dispatcher, Receive(d) PROVE MailType' /\ MailInv' /\ CallInv'
    BY <2>2, ReceiveMail
  <2>3. CASE HandOver(Rx)
    <3>1. Rx \in Dispatcher
      BY DnsAssumption
    <3> QED BY <2>3, <3>1, HandOverMail
  <2>4. CASE CloseStack \/ UNCHANGED dnsVars
    <3>1. UNCHANGED <<queue, dp, proc, asked, closed>>
      BY <2>4 DEF CloseStack, dnsVars, vars
    <3> QED BY <3>1, IdleMail
  <2> QED BY <2>1, <2>2, <2>3, <2>4 DEF DnsNext
<1>3. AskInv'
  BY AskStep
<1> QED BY <1>1, <1>2, <1>3 DEF DnsInv

\* However ResolveA's callers interleave and whoever dispatches a reply, a port is taken
\* exactly by the call that uses it, and an address a call returns is that of its own name
\* or a late reply to a call over before it that had the same port: dns.go makes the
\* transaction id of the port.  For any number of callers, ports and datagrams.
THEOREM CallsStayApart == DnsSpec => []CallsKeepApart
<1>1. DnsInv => CallsKeepApart
  BY DEF DnsInv, SockInv, CallInv, CallsKeepApart, Busy
<1> QED BY <1>1, DnsStart, DnsStep, PTL DEF DnsSpec
=============================================================================
