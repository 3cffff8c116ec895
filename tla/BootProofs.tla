----------------------------- MODULE BootProofs -----------------------------
(***************************************************************************)
(* What every boot keeps, for any menu, any keystrokes and any answers of  *)
(* the firmware: the image in control is the one configured, nothing of it *)
(* stays behind without a refusal, and the entry booted is the one chosen. *)
(*                                                                         *)
(* The argument about a probe is one about the stages it has left: what a  *)
(* stage provides holds as soon as the stage is no longer awaited, and the *)
(* lists of stages have a shape that losing their head keeps.              *)
(*                                                                         *)
(* The dialler of the network boots comes first: DialTLSWithRetry accounts *)
(* for its connections, for any number of calls, attempts and ports.       *)
(***************************************************************************)
EXTENDS BootMenu, DialRetry, TLAPS

-----------------------------------------------------------------------------
(* The dialler.  The table holds a connection from registerTCP4 to         *)
(* releaseTCP4, and the inductive invariant says which stage of a dial or of*)
(* a Close that is.  One thing is asked of the application: that it does not*)
(* call Close of one connection from two goroutines.  releaseTCP4 deletes by*)
(* port, so that a second release would delete whoever has the port by then.*)

DialType ==
  /\ conns \in [Ports -> Conn \cup {NoConn}] /\ rover \in Nat
  /\ dial \in [Conn -> {"idle", "register", "syn", "open", "failed"}]
  /\ port \in [Conn -> Ports] /\ connClosed \in [Conn -> BOOLEAN]
  /\ cl \in [Conn -> [Closers -> {"idle", "pump", "release", "done"}]]
  /\ at \in {"resolve", "dial", "register", "syn", "tcpFailed", "tcpSleep",
             "handshake", "tlsClose", "tlsFailed", "tlsSleep", "done"}
  /\ cur \in Conn \cup {NoConn} /\ handed \subseteq Conn

\* A Close of c has begun and not yet released the port.
Closing(c) == \E k \in Closers : cl[c][k] \in {"pump", "release"}

\* c has its port in the table.
Holds(c) == dial[c] = "syn" \/ (dial[c] = "open" /\ (~connClosed[c] \/ Closing(c)))

\* The table and the connections agree.
TableInv ==
  /\ \A c \in Conn : Holds(c) => conns[port[c]] = c
  /\ \A c \in Conn : dial[c] = "register" => conns[port[c]] = NoConn
  /\ \A p \in Ports : conns[p] # NoConn => port[conns[p]] = p /\ dial[conns[p]] \in {"syn", "open"}
  /\ \A c \in Conn, k \in Closers :
       /\ cl[c][k] # "idle" => dial[c] = "open"
       /\ cl[c][k] \in {"release", "done"} => connClosed[c]

\* The dialler and the connections agree: only the connection in hand is in progress, and
\* one that is open and in use was handed out unless it is in hand.
DiallerInv ==
  /\ \A c \in Conn : dial[c] = "register" <=> at = "register" /\ cur = c
  /\ \A c \in Conn : dial[c] = "syn" <=> at = "syn" /\ cur = c
  /\ at \in {"register", "syn", "handshake", "tlsClose"} => cur \in Conn
  /\ at \in {"handshake", "tlsClose"} => dial[cur] = "open" /\ cur \notin handed
  /\ \A c \in handed : dial[c] = "open"
  /\ \A c \in Conn : ConnLive(c) => c \in handed \/ (at \in {"handshake", "tlsClose"} /\ cur = c)

DialInv == DialType /\ TableInv /\ DiallerInv

\* The application does not close a connection from two goroutines.
OneCloser == \A k, l \in Closers : k = l

\* A step of the dialler that touches no connection and has none in hand before or after.
LEMMA ControlStep ==
  ASSUME DialInv, UNCHANGED <<ports, handed>>,
         NothingInHand, NothingInHand', cur' \in Conn \cup {NoConn}
  PROVE  DialInv'
<1>0. UNCHANGED <<conns, rover, dial, port, connClosed, cl>>
  BY DEF ports
<1>1. at' \in {"resolve", "dial", "tcpFailed", "tcpSleep", "tlsFailed", "tlsSleep", "done"}
  BY DEF NothingInHand
<1>2. DialType'
  BY <1>0, <1>1 DEF DialInv, DialType, Ports
<1>3. TableInv'
  BY <1>0 DEF DialInv, TableInv, Holds, Closing, Ports
<1>4. DiallerInv'
  BY <1>0, <1>1 DEF DialInv, DiallerInv, NothingInHand, ConnLive
<1> QED BY <1>2, <1>3, <1>4 DEF DialInv

\* allocTCP4Port finds a port that is not in the table, or fails.
LEMMA StartStep == ASSUME DialInv, DialStart PROVE DialInv'
<1>0. at = "dial" /\ UNCHANGED handed
  BY DEF DialStart, app
<1>1. CASE stackClosed /\ at' = "tcpFailed" /\ UNCHANGED <<ports, cur>>
  <2>1. NothingInHand /\ NothingInHand' /\ cur' \in Conn \cup {NoConn}
    BY <1>0, <1>1 DEF NothingInHand, DialInv, DialType
  <2> QED BY <1>0, <1>1, <2>1, ControlStep
<1>2. ASSUME NEW c \in Conn, Alloc(c), cur' = c, at' = "register" PROVE DialInv'
  <2>1. PICK n \in 0 .. PortProbes - 1 : PortFree(n) /\ port' = [port EXCEPT ![c] = Candidate(n)]
                                     /\ rover' = (rover + n + 1) % (NPorts + 1)
    BY <1>2, Zenon DEF Alloc
  <2>2. Candidate(n) \in Ports /\ rover' \in Nat
    <3>1. rover \in Nat /\ n \in Nat /\ NPorts \in Nat /\ NPorts > 0
      BY PortsAssumption DEF DialInv, DialType
    <3> QED BY <2>1, <3>1 DEF Candidate, Ports
  <2>3. conns[Candidate(n)] = NoConn /\ dial[c] = "idle" /\ dial' = [dial EXCEPT ![c] = "register"]
        /\ UNCHANGED <<conns, connClosed, cl>>
    BY <1>2, <2>1 DEF PortFree, Alloc
  <2>4. /\ \A d \in Conn : dial'[d] = IF d = c THEN "register" ELSE dial[d]
        /\ \A d \in Conn : port'[d] = IF d = c THEN Candidate(n) ELSE port[d]
    BY <2>1, <2>3 DEF DialInv, DialType
  <2>5. DialType'
    BY <1>0, <1>2, <2>1, <2>2, <2>3 DEF DialInv, DialType, Ports
  <2>6. TableInv'
    <3>1. \A d \in Conn : Holds(d)' => d # c /\ Holds(d)
      BY <2>3, <2>4 DEF Holds, Closing
    <3>2. \A d \in Conn : Holds(d)' => conns'[port'[d]] = d
      BY <2>3, <2>4, <3>1 DEF DialInv, TableInv
    <3>3. \A d \in Conn : dial'[d] = "register" => conns'[port'[d]] = NoConn
      BY <2>3, <2>4 DEF DialInv, TableInv
    <3>4. \A p \in Ports : conns'[p] # NoConn => port'[conns'[p]] = p /\ dial'[conns'[p]] \in {"syn", "open"}
      BY <2>3, <2>4 DEF DialInv, TableInv, DialType
    <3>5. \A d \in Conn, k \in Closers :
            /\ cl'[d][k] # "idle" => dial'[d] = "open"
            /\ cl'[d][k] \in {"release", "done"} => connClosed'[d]
      BY <2>3, <2>4 DEF DialInv, TableInv
    <3> QED BY <3>2, <3>3, <3>4, <3>5 DEF TableInv, Ports
  <2>7. DiallerInv'
    BY <1>0, <1>2, <2>3, <2>4 DEF DialInv, DiallerInv, DialType, ConnLive
  <2> QED BY <2>5, <2>6, <2>7 DEF DialInv
<1>3. ASSUME NEW c \in Conn, AllocFail(c), at' = "tcpFailed", UNCHANGED cur PROVE DialInv'
  <2>1. /\ \A d \in Conn : dial'[d] = IF d = c THEN "failed" ELSE dial[d]
        /\ dial[c] = "idle" /\ UNCHANGED <<conns, rover, port, connClosed, cl>>
        /\ dial' \in [Conn -> {"idle", "register", "syn", "open", "failed"}]
    BY <1>3 DEF AllocFail, DialInv, DialType
  <2>2. DialType'
    BY <1>0, <1>3, <2>1 DEF DialInv, DialType, Ports
  <2>3. TableInv'
    BY <2>1 DEF DialInv, TableInv, DialType, Holds, Closing, Ports
  <2>4. DiallerInv'
    BY <1>0, <1>3, <2>1 DEF DialInv, DiallerInv, DialType, ConnLive
  <2> QED BY <2>2, <2>3, <2>4 DEF DialInv
<1> QED BY <1>1, <1>2, <1>3 DEF DialStart

\* registerTCP4 and the outcome of the SYN.
LEMMA SynStep == ASSUME DialInv, DialRegister \/ DialEnd PROVE DialInv'
<1>0. UNCHANGED handed
  BY DEF DialRegister, DialEnd, app
<1>c. cur \in Conn
  BY DEF DialInv, DiallerInv, DialRegister, DialEnd
<1>1. CASE DialRegister
  <2>0. at = "register" /\ at' = "syn" /\ UNCHANGED <<cur, rover, port, connClosed, cl>> /\ dial[cur] = "register"
    BY <1>1 DEF DialRegister, Register
  <2>1. /\ \A d \in Conn : dial'[d] = IF d = cur THEN "syn" ELSE dial[d]
        /\ \A p \in Ports : conns'[p] = IF p = port[cur] THEN cur ELSE conns[p]
        /\ dial' \in [Conn -> {"idle", "register", "syn", "open", "failed"}]
        /\ conns' \in [Ports -> Conn \cup {NoConn}]
    BY <1>1, <1>c DEF DialRegister, Register, DialInv, DialType
  <2>2. DialType'
    BY <1>0, <2>0, <2>1 DEF DialInv, DialType, Ports
  <2>3. TableInv'
    <3>1. \A d \in Conn : port[d] \in Ports
      BY DEF DialInv, DialType
    <3>2. \A d \in Conn : d # cur /\ Holds(d) => port[d] # port[cur]
      BY <1>c, <2>0, PortsAssumption DEF DialInv, TableInv
    <3>3. \A d \in Conn : Holds(d)' => d = cur \/ Holds(d)
      BY <2>0, <2>1 DEF Holds, Closing
    <3>4. \A d \in Conn : Holds(d)' => conns'[port'[d]] = d
      BY <1>c, <2>0, <2>1, <3>1, <3>2, <3>3 DEF DialInv, TableInv
    <3>5. \A d \in Conn : dial'[d] # "register"
      BY <2>0, <2>1 DEF DialInv, DiallerInv
    <3>6. \A p \in Ports : conns'[p] # NoConn => port'[conns'[p]] = p /\ dial'[conns'[p]] \in {"syn", "open"}
      BY <1>c, <2>0, <2>1 DEF DialInv, TableInv, DialType
    <3>7. \A d \in Conn, k \in Closers :
            /\ cl'[d][k] # "idle" => dial'[d] = "open"
            /\ cl'[d][k] \in {"release", "done"} => connClosed'[d]
      BY <2>0, <2>1 DEF DialInv, TableInv
    <3> QED BY <3>4, <3>5, <3>6, <3>7 DEF TableInv, Ports
  <2>4. DiallerInv'
    BY <1>0, <1>c, <2>0, <2>1, PortsAssumption DEF DialInv, DiallerInv, DialType, ConnLive
  <2> QED BY <2>2, <2>3, <2>4 DEF DialInv
<1>2. CASE DialEnd /\ DialOk(cur) /\ at' = "handshake" /\ UNCHANGED cur
  <2>0. at = "syn" /\ dial[cur] = "syn" /\ ~connClosed[cur] /\ UNCHANGED <<conns, rover, port, connClosed, cl>>
    BY <1>2 DEF DialEnd, DialOk
  <2>1. /\ \A d \in Conn : dial'[d] = IF d = cur THEN "open" ELSE dial[d]
        /\ dial' \in [Conn -> {"idle", "register", "syn", "open", "failed"}]
    BY <1>2, <1>c DEF DialOk, DialInv, DialType
  <2>2. DialType'
    BY <1>0, <1>2, <2>0, <2>1 DEF DialInv, DialType, Ports
  <2>3. TableInv'
    BY <1>c, <2>0, <2>1 DEF DialInv, TableInv, DialType, Holds, Closing, Ports
  <2>4. DiallerInv'
    BY <1>0, <1>2, <1>c, <2>0, <2>1 DEF DialInv, DiallerInv, DialType, ConnLive
  <2> QED BY <2>2, <2>3, <2>4 DEF DialInv
<1>3. CASE DialEnd /\ DialFail(cur) /\ at' = "tcpFailed" /\ cur' = NoConn
  <2>0. at = "syn" /\ dial[cur] = "syn" /\ UNCHANGED <<rover, port, connClosed, cl>>
    BY <1>3 DEF DialEnd, DialFail
  <2>1. /\ \A d \in Conn : dial'[d] = IF d = cur THEN "failed" ELSE dial[d]
        /\ \A p \in Ports : conns'[p] = IF p = port[cur] THEN NoConn ELSE conns[p]
        /\ dial' \in [Conn -> {"idle", "register", "syn", "open", "failed"}]
        /\ conns' \in [Ports -> Conn \cup {NoConn}]
    BY <1>3, <1>c DEF DialFail, DialInv, DialType
  <2>2. DialType'
    BY <1>0, <1>3, <2>0, <2>1 DEF DialInv, DialType, Ports
  <2>3. TableInv'
    <3>1. \A d \in Conn : port[d] \in Ports
      BY DEF DialInv, DialType
    <3>2. \A d \in Conn : Holds(d)' => d # cur /\ Holds(d)
      BY <2>0, <2>1 DEF Holds, Closing
    <3>3. conns[port[cur]] = cur
      BY <1>c, <2>0 DEF DialInv, TableInv, Holds
    <3>4. \A d \in Conn : Holds(d)' => conns'[port'[d]] = d
      BY <1>c, <2>0, <2>1, <3>1, <3>2, <3>3 DEF DialInv, TableInv
    <3>5. \A d \in Conn : dial'[d] # "register"
      BY <2>0, <2>1 DEF DialInv, DiallerInv
    <3>6. \A p \in Ports : conns'[p] # NoConn => port'[conns'[p]] = p /\ dial'[conns'[p]] \in {"syn", "open"}
      BY <1>c, <2>0, <2>1, <3>3 DEF DialInv, TableInv, DialType
    <3>7. \A d \in Conn, k \in Closers :
            /\ cl'[d][k] # "idle" => dial'[d] = "open"
            /\ cl'[d][k] \in {"release", "done"} => connClosed'[d]
      BY <2>0, <2>1 DEF DialInv, TableInv
    <3> QED BY <3>4, <3>5, <3>6, <3>7 DEF TableInv, Ports
  <2>4. DiallerInv'
    BY <1>0, <1>3, <1>c, <2>0, <2>1 DEF DialInv, DiallerInv, DialType, ConnLive
  <2> QED BY <2>2, <2>3, <2>4 DEF DialInv
<1> QED BY <1>1, <1>2, <1>3 DEF DialEnd

\* An RST closes a connection and leaves it in the table.
LEMMA ResetStep ==
  ASSUME DialInv, NEW c \in Conn, Reset(c), UNCHANGED <<at, cur, handed>> PROVE DialInv'
<1>0. /\ dial[c] \in {"syn", "open"} /\ conns[port[c]] = c
      /\ UNCHANGED <<conns, rover, dial, port, cl>> /\ connClosed' = [connClosed EXCEPT ![c] = TRUE]
  BY DEF Reset
<1>1. connClosed' \in [Conn -> BOOLEAN]
  BY <1>0 DEF DialInv, DialType
<1>2. connClosed'[c] /\ \A d \in Conn : d # c => (connClosed'[d] <=> connClosed[d])
  BY <1>0, Zenon DEF DialInv, DialType
<1>3. DialType'
  BY <1>0, <1>1 DEF DialInv, DialType, Ports
<1>4. TableInv'
  <2>1. \A d \in Conn : Holds(d)' => conns[port[d]] = d
    BY <1>0, <1>2 DEF DialInv, TableInv, Holds, Closing
  <2>2. \A d \in Conn, k \in Closers : cl[d][k] \in {"release", "done"} => connClosed'[d]
    BY <1>0, <1>2 DEF DialInv, TableInv
  <2> QED BY <1>0, <2>1, <2>2 DEF DialInv, TableInv, Ports
<1>5. DiallerInv'
  <2>1. \A d \in Conn : ConnLive(d)' => ConnLive(d)
    BY <1>0, <1>2 DEF ConnLive
  <2> QED BY <1>0, <2>1 DEF DialInv, DiallerInv
<1> QED BY <1>3, <1>4, <1>5 DEF DialInv

\* The steps of one Close of c.
CloseSteps(c, k) == CloseBegin(c, k) \/ ConnCloseMark(c, k) \/ CloseRelease(c, k)

\* Close marks the connection before it releases the port, and the port is its own.
LEMMA CloseTable ==
  ASSUME DialInv, OneCloser, NEW c \in Conn, NEW k \in Closers, CloseSteps(c, k)
  PROVE  /\ TableInv' /\ UNCHANGED <<rover, dial, port>>
         /\ conns' \in [Ports -> Conn \cup {NoConn}] /\ connClosed' \in [Conn -> BOOLEAN]
         /\ cl' \in [Conn -> [Closers -> {"idle", "pump", "release", "done"}]]
         /\ dial[c] = "open" /\ \A d \in Conn : connClosed[d] => connClosed'[d]
<1>0. /\ UNCHANGED <<rover, dial, port>> /\ dial[c] = "open"
      /\ cl \in [Conn -> [Closers -> {"idle", "pump", "release", "done"}]]
      /\ \A d \in Conn : port[d] \in Ports
  BY DEF CloseSteps, CloseBegin, ConnCloseMark, CloseRelease, DialInv, DialType, TableInv
<1>s. \A x : cl' = [cl EXCEPT ![c][k] = x] =>
        /\ \A d \in Conn, l \in Closers : cl'[d][l] = IF d = c THEN x ELSE cl[d][l]
        /\ x \in {"idle", "pump", "release", "done"} =>
             cl' \in [Conn -> [Closers -> {"idle", "pump", "release", "done"}]]
  BY <1>0 DEF OneCloser
<1>1. CASE CloseBegin(c, k)
  <2>1. UNCHANGED <<conns, connClosed>> /\ cl' = [cl EXCEPT ![c][k] = IF connClosed[c] THEN "done" ELSE "pump"]
    BY <1>1 DEF CloseBegin
  <2>2. cl' \in [Conn -> [Closers -> {"idle", "pump", "release", "done"}]]
    BY <1>s, <2>1, Zenon
  <2>3. \A d \in Conn, l \in Closers :
          cl'[d][l] = cl[d][l] \/ (d = c /\ cl'[d][l] \in {"done", "pump"} /\ (connClosed[c] <=> cl'[d][l] = "done"))
    BY <1>s, <2>1
  <2>4. TableInv'
    <3>1. \A d \in Conn : Holds(d)' => Holds(d)
      BY <1>0, <2>1, <2>3 DEF Holds, Closing
    <3>2. \A d \in Conn, l \in Closers :
            /\ cl'[d][l] # "idle" => dial[d] = "open"
            /\ cl'[d][l] \in {"release", "done"} => connClosed[d]
      BY <1>0, <2>3 DEF DialInv, TableInv
    <3> QED BY <1>0, <2>1, <3>1, <3>2 DEF DialInv, TableInv, Ports
  <2> QED BY <1>0, <2>1, <2>2, <2>4 DEF DialInv, DialType
<1>2. CASE ConnCloseMark(c, k)
  <2>1. /\ UNCHANGED conns /\ cl' = [cl EXCEPT ![c][k] = "release"] /\ cl[c][k] = "pump"
        /\ connClosed' = [connClosed EXCEPT ![c] = TRUE]
    BY <1>2 DEF ConnCloseMark
  <2>2. connClosed' \in [Conn -> BOOLEAN]
    BY <2>1 DEF DialInv, DialType
  <2>3. connClosed'[c] /\ \A d \in Conn : d # c => (connClosed'[d] <=> connClosed[d])
    BY <2>1, Zenon DEF DialInv, DialType
  <2>4. \A d \in Conn, l \in Closers : cl'[d][l] = IF d = c THEN "release" ELSE cl[d][l]
    BY <1>s, <2>1, Zenon
  <2>5. cl' \in [Conn -> [Closers -> {"idle", "pump", "release", "done"}]]
    BY <1>s, <2>1, Zenon
  <2>6. TableInv'
    <3>1. \A d \in Conn : Holds(d)' => Holds(d)
      BY <1>0, <2>1, <2>3, <2>4 DEF Holds, Closing
    <3>2. \A d \in Conn, l \in Closers :
            /\ cl'[d][l] # "idle" => dial[d] = "open"
            /\ cl'[d][l] \in {"release", "done"} => connClosed'[d]
      BY <1>0, <2>3, <2>4 DEF DialInv, TableInv
    <3> QED BY <1>0, <2>1, <3>1, <3>2 DEF DialInv, TableInv, Ports
  <2>7. \A d \in Conn : connClosed[d] => connClosed'[d]
    BY <2>3
  <2> QED BY <1>0, <2>1, <2>2, <2>5, <2>6, <2>7 DEF DialInv, DialType
<1>3. CASE CloseRelease(c, k)
  <2>1. /\ UNCHANGED connClosed /\ cl' = [cl EXCEPT ![c][k] = "done"] /\ cl[c][k] = "release"
        /\ conns' = [conns EXCEPT ![port[c]] = NoConn]
    BY <1>3 DEF CloseRelease
  <2>2. \A d \in Conn, l \in Closers : cl'[d][l] = IF d = c THEN "done" ELSE cl[d][l]
    BY <1>s, <2>1, Zenon
  <2>3. cl' \in [Conn -> [Closers -> {"idle", "pump", "release", "done"}]]
    BY <1>s, <2>1, Zenon
  <2>4. conns' \in [Ports -> Conn \cup {NoConn}] /\ \A p \in Ports : conns'[p] = IF p = port[c] THEN NoConn ELSE conns[p]
    BY <2>1 DEF DialInv, DialType
  <2>5. connClosed[c] /\ conns[port[c]] = c
    BY <1>0, <2>1 DEF DialInv, TableInv, Holds, Closing
  <2>6. TableInv'
    <3>1. \A d \in Conn : Holds(d)' => Holds(d) /\ d # c
      BY <1>0, <2>1, <2>2, <2>5 DEF Holds, Closing
    <3>2. \A d \in Conn : Holds(d)' => conns'[port[d]] = d
      BY <1>0, <2>4, <2>5, <3>1 DEF DialInv, TableInv
    <3>3. \A d \in Conn : dial[d] = "register" => conns'[port[d]] = NoConn
      BY <1>0, <2>4 DEF DialInv, TableInv
    <3>4. \A p \in Ports : conns'[p] # NoConn => port[conns'[p]] = p /\ dial[conns'[p]] \in {"syn", "open"}
      BY <2>4 DEF DialInv, TableInv
    <3>5. \A d \in Conn, l \in Closers :
            /\ cl'[d][l] # "idle" => dial[d] = "open"
            /\ cl'[d][l] \in {"release", "done"} => connClosed[d]
      BY <1>0, <2>2, <2>5 DEF DialInv, TableInv
    <3> QED BY <1>0, <2>1, <3>2, <3>3, <3>4, <3>5 DEF TableInv, Ports
  <2> QED BY <1>0, <2>1, <2>3, <2>4, <2>6 DEF DialInv, DialType
<1> QED BY <1>1, <1>2, <1>3 DEF CloseSteps

\* A Close, by the application or by the dialler, which stays or goes on to it.
LEMMA CloseStep ==
  ASSUME DialInv, OneCloser, NEW c \in Conn, NEW k \in Closers, CloseSteps(c, k),
         UNCHANGED <<cur, handed>>,
         UNCHANGED at \/ (at = "handshake" /\ at' = "tlsClose")
  PROVE  DialInv'
<1>1. /\ TableInv' /\ UNCHANGED <<rover, dial, port>>
      /\ conns' \in [Ports -> Conn \cup {NoConn}] /\ connClosed' \in [Conn -> BOOLEAN]
      /\ cl' \in [Conn -> [Closers -> {"idle", "pump", "release", "done"}]]
      /\ \A d \in Conn : connClosed[d] => connClosed'[d]
  BY CloseTable
<1>2. DialType'
  BY <1>1 DEF DialInv, DialType, Ports
<1>3. DiallerInv'
  <2>1. \A d \in Conn : ConnLive(d)' => ConnLive(d)
    BY <1>1 DEF ConnLive
  <2> QED BY <1>1, <2>1 DEF DialInv, DiallerInv
<1> QED BY <1>1, <1>2, <1>3 DEF DialInv

\* The dialler puts down the connection in hand: it hands it out, or has seen it closed.
LEMMA PutDown ==
  ASSUME DialInv, UNCHANGED ports, at \in {"handshake", "tlsClose"},
         at' \in {"tlsFailed", "done"}, cur' = NoConn,
         handed' = handed \cup {cur} \/ (connClosed[cur] /\ UNCHANGED handed)
  PROVE  DialInv'
<1>0. UNCHANGED <<conns, rover, dial, port, connClosed, cl>> /\ cur \in Conn /\ dial[cur] = "open"
  BY DEF ports, DialInv, DiallerInv
<1>1. DialType'
  BY <1>0 DEF DialInv, DialType, Ports
<1>2. TableInv'
  BY <1>0 DEF DialInv, TableInv, Holds, Closing, Ports
<1>3. DiallerInv'
  <2>1. \A c \in Conn : dial[c] \notin {"register", "syn"}
    BY DEF DialInv, DiallerInv
  <2>2. \A c \in handed' : dial[c] = "open"
    BY <1>0 DEF DialInv, DiallerInv
  <2>3. \A c \in Conn : ConnLive(c) => c \in handed'
    BY <1>0 DEF DialInv, DiallerInv, ConnLive
  <2> QED BY <1>0, <2>1, <2>2, <2>3 DEF DiallerInv, ConnLive
<1> QED BY <1>1, <1>2, <1>3 DEF DialInv

\* The handshake, and the Close after it failed.
LEMMA TlsStep ==
  ASSUME DialInv, OneCloser, NEW k \in Closers,
         (\E ok \in BOOLEAN : Handshake(ok, k)) \/ TlsClose(k)
  PROVE  DialInv'
<1>0. cur \in Conn /\ at \in {"handshake", "tlsClose"}
  BY DEF Handshake, TlsClose, DialInv, DiallerInv
<1>1. CASE \E ok \in BOOLEAN : Handshake(ok, k)
  <2>1. CASE ReturnDial("conn") /\ handed' = handed \cup {cur} /\ cur' = NoConn /\ UNCHANGED ports
    BY <1>0, <2>1, PutDown DEF ReturnDial
  <2>2. CASE at = "handshake" /\ CloseBegin(cur, k) /\ at' = "tlsClose" /\ UNCHANGED <<handed, cur>>
    <3>1. CloseSteps(cur, k)
      BY <2>2 DEF CloseSteps
    <3> QED BY <1>0, <2>2, <3>1, CloseStep
  <2> QED BY <1>1, <2>1, <2>2 DEF Handshake
<1>2. CASE TlsClose(k)
  <2>1. CASE (ConnCloseMark(cur, k) \/ CloseRelease(cur, k)) /\ UNCHANGED <<at, cur>>
    <3>1. CloseSteps(cur, k) /\ UNCHANGED handed
      BY <1>2, <2>1 DEF CloseSteps, TlsClose, app
    <3> QED BY <1>0, <2>1, <3>1, CloseStep
  <2>2. CASE cl[cur][k] = "done" /\ at' = "tlsFailed" /\ cur' = NoConn /\ UNCHANGED ports
    <3>1. connClosed[cur] /\ UNCHANGED handed
      BY <1>0, <1>2, <2>2 DEF DialInv, TableInv, TlsClose, app
    <3> QED BY <1>0, <2>2, <3>1, PutDown
  <2> QED BY <1>2, <2>1, <2>2 DEF TlsClose
<1> QED BY <1>1, <1>2

\* A dial begins with an empty table ...
LEMMA DialBegins == DialInit => DialInv
<1> SUFFICES ASSUME DialInit PROVE DialInv
  OBVIOUS
<1> USE PortsAssumption DEF DialInit, PortsInit
<1>1. DialType
  BY DEF DialType, Ports
<1>2. TableInv
  BY DEF TableInv, Holds, Closing
<1>3. DiallerInv
  BY DEF DiallerInv, ConnLive
<1> QED BY <1>1, <1>2, <1>3 DEF DialInv

\* ... and every step of it, and of whoever closes or resets connections, keeps the
\* accounts.
LEMMA DialKeeps == ASSUME OneCloser PROVE DialInv /\ [DialNext]_dialVars => DialInv'
<1> SUFFICES ASSUME DialInv, [DialNext]_dialVars PROVE DialInv'
  OBVIOUS
<1>t. cur \in Conn \cup {NoConn}
  BY DEF DialInv, DialType
<1>1. CASE (\E ok \in BOOLEAN : ResolveHost(ok)) \/ TcpFailed \/ TcpSleep \/ TlsFailed \/ TlsSleep \/ NextCall
  <2>1. UNCHANGED <<ports, cur, handed>> /\ NothingInHand /\ NothingInHand'
    BY <1>1 DEF ResolveHost, TcpFailed, TcpReturn, TcpSleep, TlsFailed, TlsSleep, NextCall, ReturnDial, NothingInHand, app
  <2> QED BY <1>t, <2>1, ControlStep
<1>2. CASE DialStart \/ DialRegister \/ DialEnd
  BY <1>2, StartStep, SynStep
<1>3. CASE \E k \in Closers : (\E ok \in BOOLEAN : Handshake(ok, k)) \/ TlsClose(k)
  BY <1>3, TlsStep
<1>4. CASE ByOthers
  <2>1. UNCHANGED <<at, cur, handed>> /\ handed \subseteq Conn
    BY <1>4 DEF ByOthers, app, DialInv, DialType
  <2>2. ASSUME NEW c \in Conn, Reset(c) PROVE DialInv'
    BY <2>1, <2>2, ResetStep
  <2>3. ASSUME NEW c \in handed, NEW k \in Closers, CloseSteps(c, k) PROVE DialInv'
    <3>1. c \in Conn
      BY <2>1
    <3> QED BY <2>1, <2>3, <3>1, CloseStep
  <2> QED BY <1>4, <2>2, <2>3 DEF ByOthers, CloseSteps
<1>5. CASE CloseStack \/ UNCHANGED dialVars
  <2>1. UNCHANGED <<conns, rover, dial, port, connClosed, cl, at, cur, handed>>
    BY <1>5 DEF CloseStack, dialVars, ports, app
  <2>2. DialType'
    BY <2>1 DEF DialInv, DialType, Ports
  <2>3. TableInv'
    BY <2>1 DEF DialInv, TableInv, Holds, Closing, Ports
  <2>4. DiallerInv'
    BY <2>1 DEF DialInv, DiallerInv, ConnLive
  <2> QED BY <2>2, <2>3, <2>4 DEF DialInv
<1> QED BY <1>1, <1>2, <1>3, <1>4, <1>5 DEF DialNext, Step

\* Whatever stage of whatever attempt of DialTLSWithRetry fails, and whatever the peer
\* resets meanwhile, no error leaves a TCP connection behind, and every connection in use
\* is the one its port leads to.  For any number of calls, attempts, probes and ports, of
\* an application that closes a connection from one goroutine.
THEOREM DialsAreAccounted == ASSUME OneCloser PROVE DialSpec => []ConnectionsAccounted
<1>1. DialInv => ConnectionsAccounted
  <2> SUFFICES ASSUME DialInv PROVE ConnectionsAccounted
    OBVIOUS
  <2>1. LiveConnRegistered
    BY DEF DialInv, TableInv, Holds, LiveConnRegistered, ConnLive
  <2>2. ASSUME NothingInHand, NEW c \in Conn, ConnLive(c) PROVE c \in handed
    BY <2>2 DEF DialInv, DiallerInv, NothingInHand
  <2>3. ASSUME NothingInHand, NEW p \in Ports, conns[p] # NoConn
        PROVE  conns[p] \in handed \/ connClosed[conns[p]]
    <3>1. conns[p] \in Conn /\ dial[conns[p]] \in {"syn", "open"}
      BY <2>3 DEF DialInv, DialType, TableInv
    <3>2. dial[conns[p]] = "open"
      BY <2>3, <3>1 DEF DialInv, DiallerInv, NothingInHand
    <3> QED BY <2>2, <2>3, <3>1, <3>2 DEF ConnLive
  <2> QED BY <2>1, <2>2, <2>3 DEF ConnectionsAccounted
<1> QED BY <1>1, DialBegins, DialKeeps, PTL DEF DialSpec

-----------------------------------------------------------------------------

Fetching == {"embedded", "stream", "extract"}
AfterLoad == {"options", "inherit", "start", "unload"}
Stages == {"net", "manifest", "magic", "measure", "dtb", "rng", "load"} \cup Fetching \cup AfterLoad

\* A stage of A is still to come.
Awaits(A) == \E g \in DOMAIN todo : todo[g] \in A

\* The order of the stages the proofs need: bytes fetched are checked afterwards, and
\* measured once there are no others to come; after LoadImage only what it needs, up to
\* the start; at the end the start and the unload.
Shape(s, p) ==
  /\ s \in Seq(Stages)
  /\ \A g \in DOMAIN s :
       /\ s[g] \in Fetching => \E m \in DOMAIN s : m > g /\ s[m] = "magic"
       /\ s[g] = "measure" => \A m \in DOMAIN s : m > g => s[m] \notin Fetching
       /\ s[g] = "load" => \A m \in DOMAIN s : m > g => s[m] \in AfterLoad
       /\ s[g] = "load" /\ p # "tinyC" => \E m \in DOMAIN s : m > g /\ s[m] = "start"
       /\ s[g] = "start" => g = Len(s) - 1 /\ s[Len(s)] = "unload"
       /\ s[g] = "unload" => g = Len(s)

\* What the stages gone by have left: bytes for the target, checked and measured, and
\* the child's command line, device and RNG.
Provided ==
  /\ ~Awaits(Fetching) => \E pe \in BOOLEAN : payload = [from |-> target.ref, pe |-> pe]
  /\ ~Awaits(Fetching) /\ ~Awaits({"magic"}) => payload.pe
  /\ probe \in {"modeA", "modeB", "modeC"} /\ ~Awaits({"measure"}) => measured = target.ref /\ ~Awaits(Fetching)
  /\ probe \in {"modeC", "menu"} =>
       /\ ~Awaits({"options"}) => options = target.cmdline
       /\ ~Awaits({"inherit"}) => device = "parent"
       /\ ~Awaits({"rng"}) => rng = {} \/ "rng" \in refused

\* The stages left and the state of the child agree.
ChildInv ==
  /\ image \in {"none", "loaded", "running", "kept", "gone"}
  /\ image = "none" => todo = <<>> \/ Awaits({"load"})
  /\ image = "loaded" =>
       /\ \A g \in DOMAIN todo : todo[g] \in AfterLoad
       /\ \/ probe = "tinyC" \/ Awaits({"start"})
          \/ todo = <<>> /\ refused \cap {"options", "inherit"} # {}
  /\ image = "running" => todo = <<"start", "unload">>
  /\ image \in {"kept", "gone"} => todo = <<"unload">> \/ todo = <<>>
  /\ image = "kept" /\ todo = <<>> => "unload" \in refused

BootInv ==
  /\ Shape(todo, probe) /\ ChildInv
  /\ options \in {"", target.cmdline}
  /\ todo # <<>> => Provided

-----------------------------------------------------------------------------
\* s is x followed by y and z.
Joins(s, x, y, z) ==
  /\ s \in Seq(Stages) /\ Len(s) = Len(x) + Len(y) + Len(z)
  /\ \A g \in 1 .. Len(x) : s[g] = x[g]
  /\ \A g \in 1 .. Len(y) : s[Len(x) + g] = y[g]
  /\ \A g \in 1 .. Len(z) : s[Len(x) + Len(y) + g] = z[g]

\* Concatenation joins.
LEMMA JoinsThree ==
  ASSUME NEW x \in Seq(Stages), NEW y \in Seq(Stages), NEW z \in Seq(Stages)
  PROVE  Joins(x \o y \o z, x, y, z)
<1>1. /\ x \o y \in Seq(Stages) /\ Len(x \o y) = Len(x) + Len(y)
      /\ \A g \in 1 .. Len(x) : (x \o y)[g] = x[g]
      /\ \A g \in 1 .. Len(y) : (x \o y)[Len(x) + g] = y[g]
  OBVIOUS
<1> DEFINE w == x \o y
<1> HIDE DEF w
<1>2. /\ w \o z \in Seq(Stages) /\ Len(w \o z) = Len(w) + Len(z)
      /\ \A g \in 1 .. Len(w) : (w \o z)[g] = w[g]
      /\ \A g \in 1 .. Len(z) : (w \o z)[Len(w) + g] = z[g]
  BY <1>1 DEF w
<1>3. Len(x) \in Nat /\ Len(y) \in Nat /\ Len(w) = Len(x) + Len(y)
  BY <1>1 DEF w
<1>4. Joins(w \o z, x, y, z)
  BY <1>1, <1>2, <1>3 DEF Joins, w
<1> QED BY <1>4 DEF w

\* The pieces the lists of stages are made of.
LEMMA Pieces ==
  /\ ModeCFetch \in Seq(Stages) /\ ModeCReady \in Seq(Stages) /\ Launch \in Seq(Stages)
  /\ ModeAFetch \in Seq(Stages) /\ ModeBFetch \in Seq(Stages) /\ StreamedReady \in Seq(Stages)
  /\ EntryFetch \in Seq(Stages) /\ EntryReady \in Seq(Stages) /\ EmbeddedReady \in Seq(Stages)
  /\ Len(ModeCFetch) = 4 /\ Len(ModeCReady) = 6 /\ Len(Launch) = 2
  /\ Len(ModeAFetch) = 3 /\ Len(ModeBFetch) = 3 /\ Len(StreamedReady) = 3
  /\ Len(EntryFetch) = 3 /\ Len(EntryReady) = 5 /\ Len(EmbeddedReady) = 3
  BY DEF ModeCFetch, ModeCReady, Launch, ModeAFetch, ModeBFetch, StreamedReady, EntryFetch, EntryReady,
     EmbeddedReady, Stages, Fetching, AfterLoad

\* What a list of stages needs at the beginning of probe p.
Begins(s, p) ==
  /\ Shape(s, p) /\ s # <<>>
  /\ \E g \in DOMAIN s : s[g] \in Fetching
  /\ \E g \in DOMAIN s : s[g] = "load"
  /\ p \in {"modeA", "modeB", "modeC"} => \E g \in DOMAIN s : s[g] = "measure"
  /\ p \in {"modeC", "menu"} => \A a \in {"options", "inherit", "rng"} : \E g \in DOMAIN s : s[g] = a

\* runKernelBootLinuxKernel.
LEMMA BeginsModeC ==
  ASSUME NEW s, Joins(s, ModeCFetch, ModeCReady, Launch) PROVE Begins(s, "modeC")
<1>1. s \in Seq(Stages) /\ Len(s) = 12
  BY Pieces DEF Joins
<1>2. /\ s[1] = ModeCFetch[1] /\ s[2] = ModeCFetch[2] /\ s[3] = ModeCFetch[3] /\ s[4] = ModeCFetch[4]
      /\ s[5] = ModeCReady[1] /\ s[6] = ModeCReady[2] /\ s[7] = ModeCReady[3] /\ s[8] = ModeCReady[4]
      /\ s[9] = ModeCReady[5] /\ s[10] = ModeCReady[6] /\ s[11] = Launch[1] /\ s[12] = Launch[2]
  BY Pieces DEF Joins
<1>3. /\ s[1] = "net" /\ s[2] = "manifest" /\ s[3] = "extract" /\ s[4] = "magic" /\ s[5] = "measure"
      /\ s[6] = "dtb" /\ s[7] = "rng" /\ s[8] = "load" /\ s[9] = "options" /\ s[10] = "inherit"
      /\ s[11] = "start" /\ s[12] = "unload"
  BY <1>2 DEF ModeCFetch, ModeCReady, Launch
<1>4. \A g \in DOMAIN s : g \in 1 .. 12
  BY <1>1
<1>5. Shape(s, "modeC")
  BY <1>1, <1>3, <1>4 DEF Shape, Fetching, AfterLoad
<1>6. DOMAIN s = 1 .. 12 /\ s # <<>>
  BY <1>1
<1>7. /\ 3 \in DOMAIN s /\ s[3] \in Fetching /\ 8 \in DOMAIN s /\ 5 \in DOMAIN s
      /\ 9 \in DOMAIN s /\ 10 \in DOMAIN s /\ 7 \in DOMAIN s
  BY <1>3, <1>6 DEF Fetching
<1> QED BY <1>3, <1>5, <1>6, <1>7, Zenon DEF Begins

\* runKernelBootRealRegistry.
LEMMA BeginsModeA ==
  ASSUME NEW s, Joins(s, ModeAFetch, StreamedReady, Launch) PROVE Begins(s, "modeA")
<1>1. s \in Seq(Stages) /\ Len(s) = 8
  BY Pieces DEF Joins
<1>2. /\ s[1] = ModeAFetch[1] /\ s[2] = ModeAFetch[2] /\ s[3] = ModeAFetch[3]
      /\ s[4] = StreamedReady[1] /\ s[5] = StreamedReady[2] /\ s[6] = StreamedReady[3]
      /\ s[7] = Launch[1] /\ s[8] = Launch[2]
  BY Pieces DEF Joins
<1>3. /\ s[1] = "net" /\ s[2] = "manifest" /\ s[3] = "stream" /\ s[4] = "magic" /\ s[5] = "measure"
      /\ s[6] = "load" /\ s[7] = "start" /\ s[8] = "unload"
  BY <1>2 DEF ModeAFetch, StreamedReady, Launch
<1>4. \A g \in DOMAIN s : g \in 1 .. 8
  BY <1>1
<1>5. Shape(s, "modeA")
  BY <1>1, <1>3, <1>4 DEF Shape, Fetching, AfterLoad
<1>6. DOMAIN s = 1 .. 8 /\ s # <<>>
  BY <1>1
<1>7. /\ 3 \in DOMAIN s /\ s[3] \in Fetching /\ 6 \in DOMAIN s /\ 5 \in DOMAIN s
  BY <1>3, <1>6 DEF Fetching
<1> QED BY <1>3, <1>5, <1>6, <1>7, Zenon DEF Begins

\* runKernelBootSelfTest.
LEMMA BeginsModeB ==
  ASSUME NEW s, Joins(s, ModeBFetch, StreamedReady, Launch) PROVE Begins(s, "modeB")
<1>1. s \in Seq(Stages) /\ Len(s) = 8
  BY Pieces DEF Joins
<1>2. /\ s[1] = ModeBFetch[1] /\ s[2] = ModeBFetch[2] /\ s[3] = ModeBFetch[3]
      /\ s[4] = StreamedReady[1] /\ s[5] = StreamedReady[2] /\ s[6] = StreamedReady[3]
      /\ s[7] = Launch[1] /\ s[8] = Launch[2]
  BY Pieces DEF Joins
<1>3. /\ s[1] = "embedded" /\ s[2] = "magic" /\ s[3] = "stream" /\ s[4] = "magic"
      /\ s[5] = "measure" /\ s[6] = "load" /\ s[7] = "start" /\ s[8] = "unload"
  BY <1>2 DEF ModeBFetch, StreamedReady, Launch
<1>4. \A g \in DOMAIN s : g \in 1 .. 8
  BY <1>1
<1>5. Shape(s, "modeB")
  BY <1>1, <1>3, <1>4 DEF Shape, Fetching, AfterLoad
<1>6. DOMAIN s = 1 .. 8 /\ s # <<>>
  BY <1>1
<1>7. /\ 1 \in DOMAIN s /\ s[1] \in Fetching /\ 6 \in DOMAIN s /\ 5 \in DOMAIN s
  BY <1>3, <1>6 DEF Fetching
<1> QED BY <1>3, <1>5, <1>6, <1>7, Zenon DEF Begins

\* bootEntry.
LEMMA BeginsMenu ==
  ASSUME NEW s, Joins(s, EntryFetch, EntryReady, Launch) PROVE Begins(s, "menu")
<1>1. s \in Seq(Stages) /\ Len(s) = 10
  BY Pieces DEF Joins
<1>2. /\ s[1] = EntryFetch[1] /\ s[2] = EntryFetch[2] /\ s[3] = EntryFetch[3]
      /\ s[4] = EntryReady[1] /\ s[5] = EntryReady[2] /\ s[6] = EntryReady[3]
      /\ s[7] = EntryReady[4] /\ s[8] = EntryReady[5] /\ s[9] = Launch[1] /\ s[10] = Launch[2]
  BY Pieces DEF Joins
<1>3. /\ s[1] = "manifest" /\ s[2] = "extract" /\ s[3] = "magic" /\ s[4] = "dtb" /\ s[5] = "rng"
      /\ s[6] = "load" /\ s[7] = "options" /\ s[8] = "inherit" /\ s[9] = "start"
      /\ s[10] = "unload"
  BY <1>2 DEF EntryFetch, EntryReady, Launch
<1>4. \A g \in DOMAIN s : g \in 1 .. 10
  BY <1>1
<1>5. Shape(s, "menu")
  BY <1>1, <1>3, <1>4 DEF Shape, Fetching, AfterLoad
<1>6. DOMAIN s = 1 .. 10 /\ s # <<>>
  BY <1>1
<1>7. /\ 2 \in DOMAIN s /\ s[2] \in Fetching /\ 6 \in DOMAIN s /\ 7 \in DOMAIN s /\ 8 \in DOMAIN s
      /\ 5 \in DOMAIN s
  BY <1>3, <1>6 DEF Fetching
<1> QED BY <1>3, <1>5, <1>6, <1>7, Zenon DEF Begins

\* runEFIHandoverProbe and the variant of runOneVariant that starts its child.
LEMMA BeginsEmbedded ==
  ASSUME NEW s, NEW p \in {"handover", "tinyZ"}, Joins(s, EmbeddedReady, Launch, <<>>) PROVE Begins(s, p)
<1>1. s \in Seq(Stages) /\ Len(s) = 5
  BY Pieces DEF Joins
<1>2. /\ s[1] = EmbeddedReady[1] /\ s[2] = EmbeddedReady[2] /\ s[3] = EmbeddedReady[3]
      /\ s[4] = Launch[1] /\ s[5] = Launch[2]
  BY Pieces DEF Joins
<1>3. /\ s[1] = "embedded" /\ s[2] = "magic" /\ s[3] = "load" /\ s[4] = "start" /\ s[5] = "unload"
  BY <1>2 DEF EmbeddedReady, Launch
<1>4. \A g \in DOMAIN s : g \in 1 .. 5
  BY <1>1
<1>5. Shape(s, p)
  BY <1>1, <1>3, <1>4 DEF Shape, Fetching, AfterLoad
<1>6. DOMAIN s = 1 .. 5 /\ s # <<>>
  BY <1>1
<1>7. /\ 1 \in DOMAIN s /\ s[1] \in Fetching /\ 3 \in DOMAIN s
  BY <1>3, <1>6 DEF Fetching
<1> QED BY <1>3, <1>5, <1>6, <1>7, Zenon DEF Begins

\* Variant C of runOneVariant.
LEMMA BeginsTinyC ==
  ASSUME NEW s, Joins(s, EmbeddedReady, <<>>, <<>>) PROVE Begins(s, "tinyC")
<1>1. s \in Seq(Stages) /\ Len(s) = 3
  BY Pieces DEF Joins
<1>2. /\ s[1] = EmbeddedReady[1] /\ s[2] = EmbeddedReady[2] /\ s[3] = EmbeddedReady[3]
  BY Pieces DEF Joins
<1>3. /\ s[1] = "embedded" /\ s[2] = "magic" /\ s[3] = "load"
  BY <1>2 DEF EmbeddedReady
<1>4. \A g \in DOMAIN s : g \in 1 .. 3
  BY <1>1
<1>5. Shape(s, "tinyC")
  BY <1>1, <1>3, <1>4 DEF Shape, Fetching, AfterLoad
<1>6. DOMAIN s = 1 .. 3 /\ s # <<>>
  BY <1>1
<1>7. /\ 1 \in DOMAIN s /\ s[1] \in Fetching /\ 3 \in DOMAIN s
  BY <1>3, <1>6 DEF Fetching
<1> QED BY <1>3, <1>5, <1>6, <1>7, Zenon DEF Begins

\* The same for two pieces.
LEMMA JoinsTwo ==
  ASSUME NEW x \in Seq(Stages), NEW y \in Seq(Stages)
  PROVE  Joins(x \o y, x, y, <<>>)
  BY DEF Joins

\* Every probe begins with a list of stages that suits it.
LEMMA StagesBegin ==
  ASSUME NEW p \in {"modeA", "modeB", "modeC", "menu", "handover", "tinyC", "tinyZ"}
  PROVE  Begins(StagesOf(p), p)
<1>1. CASE p = "modeA"
  <2>1. StagesOf(p) = ModeAFetch \o StreamedReady \o Launch
    BY <1>1, Zenon DEF StagesOf
  <2> QED BY <1>1, <2>1, Pieces, JoinsThree, BeginsModeA, Zenon
<1>2. CASE p = "modeB"
  <2>1. StagesOf(p) = ModeBFetch \o StreamedReady \o Launch
    BY <1>2, Zenon DEF StagesOf
  <2> QED BY <1>2, <2>1, Pieces, JoinsThree, BeginsModeB, Zenon
<1>3. CASE p = "modeC"
  <2>1. StagesOf(p) = ModeCFetch \o ModeCReady \o Launch
    BY <1>3, Zenon DEF StagesOf
  <2> QED BY <1>3, <2>1, Pieces, JoinsThree, BeginsModeC, Zenon
<1>4. CASE p = "menu"
  <2>1. StagesOf(p) = EntryFetch \o EntryReady \o Launch
    BY <1>4, Zenon DEF StagesOf
  <2> QED BY <1>4, <2>1, Pieces, JoinsThree, BeginsMenu, Zenon
<1>5. CASE p \in {"handover", "tinyZ"}
  <2>1. StagesOf(p) = EmbeddedReady \o Launch
    BY <1>5, Zenon DEF StagesOf, TinyVariant
  <2> QED BY <1>5, <2>1, Pieces, JoinsTwo, BeginsEmbedded, Zenon
<1>6. CASE p = "tinyC"
  <2>1. StagesOf(p) = EmbeddedReady \o <<>>
    BY <1>6, Zenon DEF StagesOf, TinyVariant
  <2>2. <<>> \in Seq(Stages)
    OBVIOUS
  <2> QED BY <1>6, <2>1, <2>2, Pieces, JoinsTwo, BeginsTinyC, Zenon
<1> QED BY <1>1, <1>2, <1>3, <1>4, <1>5, <1>6

\* The shape stays when the head goes.
LEMMA TailShape ==
  ASSUME NEW s, NEW p, Shape(s, p), s # <<>>
  PROVE  Shape(Tail(s), p)
<1> DEFINE u == Tail(s)
<1>1. s \in Seq(Stages)
  BY DEF Shape
<1>2. u \in Seq(Stages) /\ Len(s) \in Nat \ {0} /\ Len(u) = Len(s) - 1 /\ DOMAIN u = 1 .. Len(u)
      /\ DOMAIN s = 1 .. Len(s)
  BY <1>1
<1>3. \A g \in DOMAIN u : g \in Nat /\ g + 1 \in DOMAIN s /\ u[g] = s[g + 1]
  BY <1>1, <1>2
<1>4. \A m \in DOMAIN s : m \in Nat /\ (m > 1 => m - 1 \in DOMAIN u /\ u[m - 1] = s[m])
  BY <1>1, <1>2
<1> HIDE DEF u
<1>5. ASSUME NEW g \in DOMAIN u
      PROVE  /\ u[g] \in Fetching => \E m \in DOMAIN u : m > g /\ u[m] = "magic"
             /\ u[g] = "measure" => \A m \in DOMAIN u : m > g => u[m] \notin Fetching
             /\ u[g] = "load" => \A m \in DOMAIN u : m > g => u[m] \in AfterLoad
             /\ u[g] = "load" /\ p # "tinyC" => \E m \in DOMAIN u : m > g /\ u[m] = "start"
             /\ u[g] = "start" => g = Len(u) - 1 /\ u[Len(u)] = "unload"
             /\ u[g] = "unload" => g = Len(u)
  <2>1. g \in Nat /\ g + 1 \in DOMAIN s /\ u[g] = s[g + 1]
    BY <1>3
  <2>2. ASSUME NEW m \in DOMAIN s, m > g + 1 PROVE m - 1 \in DOMAIN u /\ m - 1 > g /\ u[m - 1] = s[m]
    BY <1>4, <2>1, <2>2
  <2>3. ASSUME NEW m \in DOMAIN u, m > g PROVE m + 1 \in DOMAIN s /\ m + 1 > g + 1 /\ u[m] = s[m + 1]
    BY <1>3, <2>1, <2>3
  <2>4. u[g] \in Fetching => \E m \in DOMAIN u : m > g /\ u[m] = "magic"
    BY <2>1, <2>2 DEF Shape
  <2>5. u[g] = "measure" => \A m \in DOMAIN u : m > g => u[m] \notin Fetching
    BY <2>1, <2>3, Zenon DEF Shape
  <2>6. u[g] = "load" => \A m \in DOMAIN u : m > g => u[m] \in AfterLoad
    BY <2>1, <2>3, Zenon DEF Shape
  <2>7. u[g] = "load" /\ p # "tinyC" => \E m \in DOMAIN u : m > g /\ u[m] = "start"
    <3>1. ASSUME s[g + 1] = "load", p # "tinyC" PROVE \E m \in DOMAIN s : m > g + 1 /\ s[m] = "start"
      BY <2>1, <3>1 DEF Shape
    <3> QED BY <2>1, <2>2, <3>1
  <2>8. u[g] = "start" => g = Len(u) - 1 /\ u[Len(u)] = "unload"
    <3>1. u[g] = "start" => g + 1 = Len(s) - 1 /\ s[Len(s)] = "unload"
      BY <2>1, Zenon DEF Shape
    <3> QED BY <1>2, <1>4, <2>1, <3>1
  <2>9. u[g] = "unload" => g = Len(u)
    <3>1. s[g + 1] = "unload" => g + 1 = Len(s)
      BY <2>1 DEF Shape
    <3> QED BY <1>2, <2>1, <3>1
  <2> QED BY <2>4, <2>5, <2>6, <2>7, <2>8, <2>9
<1> QED BY <1>2, <1>5 DEF Shape, u

\* What a stage gone by leaves to await.
LEMMA TailAwaits ==
  ASSUME todo \in Seq(Stages), todo # <<>>, todo' = Tail(todo), NEW A
  PROVE  /\ Awaits(A) => Head(todo) \in A \/ Awaits(A)'
         /\ Awaits(A)' => Awaits(A)
<1>1. \A g \in DOMAIN todo : g = 1 \/ (g - 1 \in DOMAIN Tail(todo) /\ Tail(todo)[g - 1] = todo[g])
  OBVIOUS
<1>2. \A g \in DOMAIN Tail(todo) : g + 1 \in DOMAIN todo /\ Tail(todo)[g] = todo[g + 1]
  OBVIOUS
<1>3. Head(todo) = todo[1]
  OBVIOUS
<1> QED BY <1>1, <1>2, <1>3 DEF Awaits

-----------------------------------------------------------------------------
\* A probe that has returned awaits nothing.
LEMMA ReturnStep ==
  ASSUME BootInv, Return, ChildInv', UNCHANGED <<target, options>>
  PROVE  BootInv'
<1>1. Shape(<<>>, probe')
  BY DEF Shape
<1> QED BY <1>1, Zenon DEF BootInv, Return

\* Before LoadImage has succeeded nothing but the stages left decides about the child.
LEMMA EarlyStage ==
  ASSUME BootInv, todo # <<>>, Head(todo) \in Stages \ AfterLoad
  PROVE  image = "none" /\ todo \in Seq(Stages)
<1>0. todo \in Seq(Stages)
  BY Zenon DEF BootInv, Shape
<1>1. todo \in Seq(Stages) /\ Head(todo) = todo[1] /\ 1 \in DOMAIN todo
  BY <1>0
<1>2. image # "loaded"
  BY <1>1, Zenon DEF BootInv, ChildInv
<1>3. todo # <<"start", "unload">> /\ todo # <<"unload">>
  BY <1>1 DEF AfterLoad
<1> QED BY <1>1, <1>2, <1>3, Zenon DEF BootInv, ChildInv

\* The first stage and the others.
LEMMA HeadFacts ==
  ASSUME NEW s \in Seq(Stages), s # <<>>
  PROVE  /\ Head(s) = s[1] /\ 1 \in DOMAIN s /\ DOMAIN s \subseteq Nat
         /\ \A g \in DOMAIN s : g # 1 => g > 1 /\ g - 1 \in DOMAIN Tail(s) /\ Tail(s)[g - 1] = s[g]
<1>1. DOMAIN s = 1 .. Len(s) /\ Len(s) \in Nat \ {0} /\ DOMAIN Tail(s) = 1 .. Len(s) - 1 /\ Head(s) = s[1]
  OBVIOUS
<1>2. \A k \in 1 .. Len(s) - 1 : Tail(s)[k] = s[k + 1]
  OBVIOUS
<1>3. \A g \in 1 .. Len(s) : g # 1 => g > 1 /\ g - 1 \in 1 .. Len(s) - 1 /\ (g - 1) + 1 = g
  BY <1>1
<1> QED BY <1>1, <1>2, <1>3

\* Bytes fetched are still to be checked.
LEMMA FetchIsChecked ==
  ASSUME Shape(todo, probe), todo # <<>>, todo' = Tail(todo), Head(todo) \in Fetching
  PROVE  Awaits(Fetching) /\ Awaits({"magic"})'
<1>1. todo \in Seq(Stages)
  BY DEF Shape
<1>2. todo[1] \in Fetching /\ 1 \in DOMAIN todo
  BY <1>1, HeadFacts
<1>3. PICK m \in DOMAIN todo : m > 1 /\ todo[m] = "magic"
  BY <1>2 DEF Shape
<1>4. m # 1
  BY <1>1, <1>3
<1>5. m - 1 \in DOMAIN Tail(todo) /\ Tail(todo)[m - 1] = "magic"
  BY <1>1, <1>3, <1>4, HeadFacts
<1> QED BY <1>2, <1>5 DEF Awaits

\* Nothing is fetched after the measurement.
LEMMA MeasuredLast ==
  ASSUME Shape(todo, probe), todo # <<>>, Head(todo) = "measure"
  PROVE  ~Awaits(Fetching)
<1>1. todo \in Seq(Stages)
  BY DEF Shape
<1>2. todo[1] = "measure" /\ 1 \in DOMAIN todo
  BY <1>1, HeadFacts
<1>3. SUFFICES ASSUME NEW g \in DOMAIN todo, todo[g] \in Fetching PROVE FALSE
  BY DEF Awaits
<1>4. g # 1
  BY <1>2, <1>3 DEF Fetching
<1>5. g > 1
  BY <1>1, <1>4, HeadFacts
<1> QED BY <1>2, <1>3, <1>5 DEF Shape

\* A stage goes by and provides what it is there for: what is left to prove of the
\* invariant.
LEMMA DoneStep ==
  ASSUME BootInv, todo # <<>>, Done, UNCHANGED <<probe, target>>, ChildInv',
         options' \in {"", target.cmdline},
         IF Head(todo) \in Fetching THEN \E pe \in BOOLEAN : payload' = [from |-> target.ref, pe |-> pe]
                                    ELSE payload' = payload,
         Head(todo) = "magic" => payload.pe,
         IF Head(todo) = "measure" THEN measured' = payload.from ELSE measured' = measured,
         IF Head(todo) = "options" THEN options' = target.cmdline ELSE options' = options,
         IF Head(todo) = "inherit" THEN device' = "parent" ELSE device' = device,
         IF Head(todo) = "rng" THEN rng' = {} \/ "rng" \in refused' ELSE rng' = rng,
         refused \subseteq refused'
  PROVE  BootInv'
<1>0. todo \in Seq(Stages) /\ Shape(todo, probe) /\ todo' = Tail(todo)
  BY Zenon DEF BootInv, Shape, Done
<1>1. Shape(todo', probe')
  BY <1>0, TailShape, Zenon
<1>2. /\ Awaits(Fetching) => Head(todo) \in Fetching \/ Awaits(Fetching)'
      /\ Awaits({"magic"}) => Head(todo) = "magic" \/ Awaits({"magic"})'
      /\ Awaits({"measure"}) => Head(todo) = "measure" \/ Awaits({"measure"})'
      /\ Awaits({"options"}) => Head(todo) = "options" \/ Awaits({"options"})'
      /\ Awaits({"inherit"}) => Head(todo) = "inherit" \/ Awaits({"inherit"})'
      /\ Awaits({"rng"}) => Head(todo) = "rng" \/ Awaits({"rng"})'
      /\ Awaits(Fetching)' => Awaits(Fetching)
  BY <1>0, TailAwaits, Zenon
<1>3. Head(todo) \in Fetching => Awaits(Fetching) /\ Awaits({"magic"})'
  BY <1>0, FetchIsChecked, Zenon
<1>4. Head(todo) = "measure" => ~Awaits(Fetching)
  BY <1>0, MeasuredLast, Zenon
<1>5. Provided
  BY Zenon DEF BootInv
<1>6. Provided'
  <2>1. ~Awaits(Fetching)' => \E pe \in BOOLEAN : payload' = [from |-> target.ref, pe |-> pe]
    BY <1>2, <1>5, Zenon DEF Provided
  <2>2. ~Awaits(Fetching)' /\ ~Awaits({"magic"})' => payload'.pe
    <3>1. CASE Head(todo) \in Fetching
      BY <1>3, <3>1, Zenon
    <3>2. CASE Head(todo) \notin Fetching
      BY <1>2, <1>5, <3>2, Zenon DEF Provided
    <3> QED BY <3>1, <3>2, Zenon
  <2>3. probe \in {"modeA", "modeB", "modeC"} /\ ~Awaits({"measure"})' => measured' = target.ref /\ ~Awaits(Fetching)'
    <3>1. CASE Head(todo) = "measure"
      <4>1. PICK pe \in BOOLEAN : payload = [from |-> target.ref, pe |-> pe]
        BY <1>4, <1>5, <3>1, Zenon DEF Provided
      <4>2. payload.from = target.ref
        BY <4>1, Zenon
      <4> QED BY <1>2, <1>4, <3>1, <4>2, Zenon
    <3>2. CASE Head(todo) # "measure"
      BY <1>2, <1>5, <3>2, Zenon DEF Provided
    <3> QED BY <3>1, <3>2, Zenon
  <2>4. probe \in {"modeC", "menu"} =>
          /\ ~Awaits({"options"})' => options' = target.cmdline
          /\ ~Awaits({"inherit"})' => device' = "parent"
          /\ ~Awaits({"rng"})' => rng' = {} \/ "rng" \in refused'
    BY <1>2, <1>5, Zenon DEF Provided
  <2> QED BY <2>1, <2>2, <2>3, <2>4, Zenon DEF Provided, Awaits
<1> QED BY <1>1, <1>6, Zenon DEF BootInv

\* A stage before LoadImage ends, either way.
LEMMA EarlyStep ==
  ASSUME BootInv, todo # <<>>, Head(todo) \in Stages \ (AfterLoad \cup {"load"}), Done \/ Return,
         UNCHANGED <<probe, image>>
  PROVE  ChildInv'
<1>1. image = "none" /\ todo \in Seq(Stages)
  BY EarlyStage
<1>2. CASE Done
  <2>1. Awaits({"load"})
    BY <1>1, Zenon DEF BootInv, ChildInv
  <2>2. Awaits({"load"})'
    BY <1>1, <1>2, <2>1, TailAwaits DEF Done
  <2> QED BY <1>1, <2>2 DEF ChildInv
<1>3. CASE Return
  BY <1>1, <1>3 DEF ChildInv, Return
<1> QED BY <1>2, <1>3

\* The stages after LoadImage.
LEMMA LoadShape ==
  ASSUME Shape(todo, probe), todo # <<>>, todo' = Tail(todo), Head(todo) = "load"
  PROVE  /\ \A g \in DOMAIN todo' : todo'[g] \in AfterLoad
         /\ probe = "tinyC" \/ Awaits({"start"})'
<1>1. todo \in Seq(Stages)
  BY DEF Shape
<1>2. todo[1] = "load" /\ 1 \in DOMAIN todo
  BY <1>1, HeadFacts
<1>3. ASSUME NEW g \in DOMAIN Tail(todo) PROVE Tail(todo)[g] \in AfterLoad
  <2>1. g + 1 \in DOMAIN todo /\ g + 1 > 1 /\ Tail(todo)[g] = todo[g + 1]
    BY <1>1
  <2> QED BY <1>2, <2>1 DEF Shape
<1>4. ASSUME probe # "tinyC" PROVE Awaits({"start"})'
  <2>1. PICK m \in DOMAIN todo : m > 1 /\ todo[m] = "start"
    BY <1>2, <1>4 DEF Shape
  <2>2. m # 1
    BY <1>1, <2>1
  <2>3. m - 1 \in DOMAIN Tail(todo) /\ Tail(todo)[m - 1] = "start"
    BY <1>1, <2>1, <2>2, HeadFacts
  <2> QED BY <2>3 DEF Awaits
<1> QED BY <1>3, <1>4

\* A stage between LoadImage and StartImage ends; a return is a refusal.
LEMMA LateStep ==
  ASSUME BootInv, todo # <<>>, Head(todo) \in {"options", "inherit"}, UNCHANGED <<probe, image>>,
         \/ Done /\ refused' = refused
         \/ Return /\ refused' = refused \cup {Head(todo)}
  PROVE  ChildInv'
<1>1. todo \in Seq(Stages)
  BY Zenon DEF BootInv, Shape
<1>2. Head(todo) = todo[1]
  BY <1>1, HeadFacts
<1>3. image \in {"none", "loaded"}
  <2>1. todo # <<"start", "unload">> /\ todo # <<"unload">>
    BY <1>2
  <2> QED BY <2>1, Zenon DEF BootInv, ChildInv
<1>4. CASE Done
  <2>1. /\ Awaits({"load"}) => Awaits({"load"})'
        /\ Awaits({"start"}) => Awaits({"start"})'
    BY <1>1, <1>4, TailAwaits DEF Done
  <2>2. \A g \in DOMAIN todo' : g + 1 \in DOMAIN todo /\ todo'[g] = todo[g + 1]
    BY <1>1, <1>4 DEF Done
  <2>3. image = "none" => ChildInv'
    BY <2>1, Zenon DEF BootInv, ChildInv
  <2>4. image = "loaded" => ChildInv'
    <3>1. SUFFICES ASSUME image = "loaded" PROVE ChildInv'
      OBVIOUS
    <3>2. \A g \in DOMAIN todo' : todo'[g] \in AfterLoad
      BY <2>2, <3>1, Zenon DEF BootInv, ChildInv
    <3>3. probe = "tinyC" \/ Awaits({"start"})'
      BY <2>1, <3>1, Zenon DEF BootInv, ChildInv
    <3> QED BY <3>1, <3>2, <3>3 DEF ChildInv
  <2> QED BY <1>3, <2>3, <2>4
<1>5. CASE Return /\ refused' = refused \cup {Head(todo)}
  <2>1. todo' = <<>> /\ refused' \cap {"options", "inherit"} # {}
    BY <1>5 DEF Return
  <2> QED BY <1>3, <2>1 DEF ChildInv
<1> QED BY <1>4, <1>5

\* StartImage and what follows it: the last two stages.
LEMMA LastStages ==
  ASSUME NEW s, NEW p, Shape(s, p), s # <<>>
  PROVE  /\ Head(s) = "start" => s = <<"start", "unload">>
         /\ Head(s) = "unload" => s = <<"unload">>
<1>1. s \in Seq(Stages)
  BY DEF Shape
<1>2. Head(s) = s[1] /\ 1 \in DOMAIN s
  BY <1>1, HeadFacts
<1>3. ASSUME Head(s) = "start" PROVE s = <<"start", "unload">>
  <2>1. 1 = Len(s) - 1 /\ s[Len(s)] = "unload" /\ s[1] = "start"
    BY <1>2, <1>3, Zenon DEF Shape
  <2>2. Len(s) \in Nat
    BY <1>1
  <2>3. Len(s) = 2
    BY <2>1, <2>2
  <2> QED BY <1>1, <2>1, <2>3
<1>4. ASSUME Head(s) = "unload" PROVE s = <<"unload">>
  <2>1. Len(s) = 1 /\ s[1] = "unload"
    BY <1>2, <1>4, Zenon DEF Shape
  <2> QED BY <1>1, <2>1
<1> QED BY <1>3, <1>4

-----------------------------------------------------------------------------
\* Every stage of every probe keeps the invariant.
LEMMA BootStepInv ==
  ASSUME BootInv, BootStep PROVE BootInv'
<1> USE DEF At
<1>0. options \in {"", target.cmdline} /\ Shape(todo, probe) /\ ChildInv
  BY Zenon DEF BootInv
<1>1. CASE Prepare
  <2>1. todo # <<>> /\ Head(todo) \in {"net", "manifest", "dtb"} /\ (Done \/ Return)
    BY <1>1 DEF Prepare
  <2>2. Head(todo) \in Stages \ (AfterLoad \cup {"load"}) /\ Head(todo) \notin Fetching
    BY <2>1 DEF Stages, AfterLoad, Fetching
  <2>3. UNCHANGED <<probe, target, payload, measured, rng, image, options, device, refused>>
    BY <1>1 DEF Prepare
  <2>4. ChildInv'
    BY <2>1, <2>2, <2>3, EarlyStep
  <2>5. CASE Done
    BY <1>0, <2>1, <2>2, <2>3, <2>4, <2>5, DoneStep, Zenon
  <2>6. CASE Return
    BY <2>3, <2>4, <2>6, ReturnStep
  <2> QED BY <2>1, <2>5, <2>6
<1>2. CASE Obtain
  <2>1. todo # <<>> /\ Head(todo) \in Fetching /\ (Done \/ Return)
    BY <1>2 DEF Obtain, Fetching
  <2>2. Head(todo) \in Stages \ (AfterLoad \cup {"load"})
    BY <2>1 DEF Stages, AfterLoad, Fetching
  <2>3. UNCHANGED <<probe, target, measured, rng, image, options, device, refused>>
    BY <1>2 DEF Obtain
  <2>4. ChildInv'
    BY <2>1, <2>2, <2>3, EarlyStep
  <2>5. CASE \E pe \in BOOLEAN : payload' = [from |-> target.ref, pe |-> pe] /\ Done
    <3>1. Head(todo) \notin {"magic", "measure", "options", "inherit", "rng"}
      BY <2>1 DEF Fetching
    <3> QED BY <1>0, <2>1, <2>3, <2>4, <2>5, <3>1, DoneStep, Zenon
  <2>6. CASE Return
    BY <2>3, <2>4, <2>6, ReturnStep
  <2> QED BY <1>2, <2>5, <2>6 DEF Obtain
<1>3. CASE Magic
  <2>1. todo # <<>> /\ Head(todo) = "magic" /\ (Done \/ Return) /\ (Done => payload.pe \/ Return)
    BY <1>3 DEF Magic
  <2>2. Head(todo) \in Stages \ (AfterLoad \cup {"load"}) /\ Head(todo) \notin Fetching
    BY <2>1 DEF Stages, AfterLoad, Fetching
  <2>3. UNCHANGED <<probe, target, payload, measured, rng, image, options, device, refused>>
    BY <1>3 DEF Magic
  <2>4. ChildInv'
    BY <2>1, <2>2, <2>3, EarlyStep
  <2>5. CASE Done /\ payload.pe
    BY <1>0, <2>1, <2>2, <2>3, <2>4, <2>5, DoneStep, Zenon
  <2>6. CASE Return
    BY <2>3, <2>4, <2>6, ReturnStep
  <2> QED BY <2>1, <2>5, <2>6
<1>4. CASE Measure
  <2>1. todo # <<>> /\ Head(todo) = "measure" /\ Done /\ measured' = payload.from
    BY <1>4 DEF Measure
  <2>2. Head(todo) \in Stages \ (AfterLoad \cup {"load"}) /\ Head(todo) \notin Fetching
    BY <2>1 DEF Stages, AfterLoad, Fetching
  <2>3. UNCHANGED <<probe, target, payload, rng, image, options, device, refused>>
    BY <1>4 DEF Measure
  <2>4. ChildInv'
    BY <2>1, <2>2, <2>3, EarlyStep
  <2> QED BY <1>0, <2>1, <2>2, <2>3, <2>4, DoneStep, Zenon
<1>5. CASE UninstallAllRNG
  <2>1. /\ todo # <<>> /\ Head(todo) = "rng" /\ Done
        /\ rng' = {} \/ "rng" \in refused'
        /\ refused \subseteq refused'
    BY <1>5 DEF UninstallAllRNG
  <2>2. Head(todo) \in Stages \ (AfterLoad \cup {"load"}) /\ Head(todo) \notin Fetching
    BY <2>1 DEF Stages, AfterLoad, Fetching
  <2>3. UNCHANGED <<probe, target, payload, measured, image, options, device>>
    BY <1>5 DEF UninstallAllRNG
  <2>4. ChildInv'
    BY <2>1, <2>2, <2>3, EarlyStep
  <2> QED BY <1>0, <2>1, <2>2, <2>3, <2>4, DoneStep, Zenon
<1>6. CASE LoadImage
  <2>1. todo # <<>> /\ Head(todo) = "load"
    BY <1>6 DEF LoadImage
  <2>2. Head(todo) \in Stages \ AfterLoad /\ Head(todo) \notin Fetching
    BY <2>1 DEF Stages, AfterLoad, Fetching
  <2>3. UNCHANGED <<probe, target, payload, measured, rng, options, device>> /\ refused \subseteq refused'
    BY <1>6 DEF LoadImage
  <2>4. image = "none"
    BY <2>1, <2>2, EarlyStage
  <2>5. CASE Done /\ image' = "loaded"
    <3>1. ChildInv'
      BY <1>0, <2>1, <2>3, <2>5, LoadShape, Zenon DEF ChildInv, Done
    <3> QED BY <1>0, <2>1, <2>2, <2>3, <2>5, <3>1, DoneStep, Zenon
  <2>6. CASE Return /\ UNCHANGED image
    <3>1. ChildInv'
      BY <2>4, <2>6 DEF ChildInv, Return
    <3> QED BY <2>3, <2>6, <3>1, ReturnStep
  <2> QED BY <1>6, <2>5, <2>6 DEF LoadImage
<1>7. CASE SetLoadOptions
  <2>1. todo # <<>> /\ Head(todo) = "options" /\ Head(todo) \notin Fetching
    BY <1>7, Zenon DEF SetLoadOptions, Fetching
  <2>2. UNCHANGED <<probe, target, payload, measured, rng, image, device>>
    BY <1>7, Zenon DEF SetLoadOptions
  <2>3. CASE Done /\ options' = target.cmdline /\ UNCHANGED refused
    <3>1. ChildInv'
      BY <2>1, <2>2, <2>3, LateStep
    <3> QED BY <2>1, <2>2, <2>3, <3>1, DoneStep
  <2>4. CASE Return /\ refused' = refused \cup {"options"} /\ UNCHANGED options
    <3>1. ChildInv'
      BY <2>1, <2>2, <2>4, LateStep
    <3> QED BY <2>2, <2>4, <3>1, ReturnStep
  <2> QED BY <1>0, <1>7, <2>3, <2>4, Zenon DEF SetLoadOptions
<1>8. CASE InheritParentDeviceHandle
  <2>1. todo # <<>> /\ Head(todo) = "inherit" /\ Head(todo) \notin Fetching
    BY <1>8 DEF InheritParentDeviceHandle, Fetching
  <2>2. UNCHANGED <<probe, target, payload, measured, rng, image, options>>
    BY <1>8 DEF InheritParentDeviceHandle
  <2>3. CASE Done /\ device' = "parent" /\ UNCHANGED refused
    <3>1. ChildInv'
      BY <2>1, <2>2, <2>3, LateStep
    <3> QED BY <1>0, <2>1, <2>2, <2>3, <3>1, DoneStep, Zenon
  <2>4. CASE Return /\ refused' = refused \cup {"inherit"} /\ UNCHANGED device
    <3>1. ChildInv'
      BY <2>1, <2>2, <2>4, LateStep
    <3> QED BY <2>2, <2>4, <3>1, ReturnStep
  <2> QED BY <1>8, <2>3, <2>4 DEF InheritParentDeviceHandle
<1>9. CASE StartImage
  <2>1. todo = <<"start", "unload">>
    BY <1>0, <1>9, LastStages, Zenon DEF StartImage
  <2> QED BY <1>9, <2>1, Zenon DEF StartImage, BootInv, ChildInv, Provided, Awaits
<1>10. CASE ImageReturns
  <2>1. todo = <<"start", "unload">>
    BY <1>0, <1>10, Zenon DEF ImageReturns, ChildInv
  <2>2. todo # <<>> /\ Head(todo) = "start" /\ Head(todo) \notin Fetching /\ Tail(todo) = <<"unload">>
    BY <2>1 DEF Fetching
  <2>3. UNCHANGED <<probe, target, payload, measured, rng, options, device, refused>>
    BY <1>10 DEF ImageReturns
  <2>4. CASE image' = "gone" /\ Return
    BY <2>3, <2>4, ReturnStep DEF ChildInv, Return
  <2>5. CASE image' \in {"kept", "gone"} /\ Done
    <3>1. ChildInv'
      BY <2>2, <2>5 DEF ChildInv, Done
    <3> QED BY <1>0, <2>2, <2>3, <2>5, <3>1, DoneStep, Zenon
  <2> QED BY <1>10, <2>4, <2>5 DEF ImageReturns
<1>11. CASE UnloadImage
  <2>1. todo # <<>> /\ Head(todo) = "unload" /\ Done
    BY <1>11 DEF UnloadImage
  <2>2. todo = <<"unload">>
    BY <1>0, <2>1, LastStages, Zenon
  <2>3. todo' = <<>>
    BY <2>1, <2>2 DEF Done
  <2>4. ~Awaits({"start"}) /\ todo # <<"start", "unload">>
    BY <2>2 DEF Awaits
  <2>5. UNCHANGED <<probe, target, options>>
    BY <1>11 DEF UnloadImage
  <2>6. ChildInv'
    <3>1. CASE image' = "gone"
      BY <2>3, <3>1 DEF ChildInv
    <3>2. CASE image' = image /\ refused' = refused \cup {"unload"}
      <4>1. image # "running" /\ (image = "loaded" => probe = "tinyC")
        BY <1>0, <2>1, <2>4, Zenon DEF ChildInv
      <4>2. \A g \in DOMAIN todo' : todo'[g] \in AfterLoad
        BY <2>3
      <4> QED BY <1>0, <2>3, <2>5, <3>2, <4>1, <4>2, Zenon DEF ChildInv
    <3> QED BY <1>11, <3>1, <3>2 DEF UnloadImage
  <2> QED BY <2>3, <2>5, <2>6, ReturnStep DEF Return
<1> QED BY <1>1, <1>2, <1>3, <1>4, <1>5, <1>6, <1>7, <1>8, <1>9, <1>10, <1>11 DEF BootStep

\* The invariant says what the two properties of a probe say.
LEMMA BootInvImplies ==
  BootInv => StartedAsConfigured /\ ImageReleased
<1> SUFFICES ASSUME BootInv PROVE StartedAsConfigured /\ ImageReleased
  OBVIOUS
<1>1. ASSUME image = "running" PROVE StartedAsConfigured
  <2>1. todo = <<"start", "unload">>
    BY <1>1, Zenon DEF BootInv, ChildInv
  <2>2. todo # <<>> /\ \A g \in DOMAIN todo : todo[g] \in {"start", "unload"}
    BY <2>1
  <2>3. /\ ~Awaits(Fetching) /\ ~Awaits({"magic"}) /\ ~Awaits({"measure"})
        /\ ~Awaits({"options"}) /\ ~Awaits({"inherit"}) /\ ~Awaits({"rng"})
    BY <2>2 DEF Awaits, Fetching
  <2>4. Provided
    BY <2>2, Zenon DEF BootInv
  <2>5. PICK pe \in BOOLEAN : payload = [from |-> target.ref, pe |-> pe]
    BY <2>3, <2>4 DEF Provided
  <2>6. payload.pe = pe /\ payload.from = target.ref
    BY <2>5
  <2>7. payload = [from |-> target.ref, pe |-> TRUE]
    BY <2>3, <2>4, <2>5, <2>6 DEF Provided
  <2> QED BY <2>3, <2>4, <2>6, <2>7 DEF Provided, StartedAsConfigured
<1>2. ImageReleased
  <2>1. SUFFICES ASSUME todo = <<>>, image \in {"loaded", "kept"}, probe # "tinyC"
                 PROVE  refused \cap {"options", "inherit", "unload"} # {}
    BY DEF ImageReleased
  <2>2. ~Awaits({"start"})
    BY <2>1 DEF Awaits
  <2>3. image = "loaded" => refused \cap {"options", "inherit"} # {}
    BY <2>1, <2>2, Zenon DEF BootInv, ChildInv
  <2>4. image = "kept" => "unload" \in refused
    BY <2>1, Zenon DEF BootInv, ChildInv
  <2> QED BY <2>1, <2>3, <2>4
<1> QED BY <1>1, <1>2 DEF StartedAsConfigured

-----------------------------------------------------------------------------
InMenu == loop \in {"render", "poll", "check", "boot"}

MenuType ==
  /\ loop \in {"net", "setup", "render", "poll", "check", "boot", "halt", "direct"}
  /\ keyq \in Seq(Keys) /\ typed \in Seq(Keys)
  /\ now \in Nat /\ deadline \in Int /\ armed \in BOOLEAN
  /\ loop \in {"net", "setup"} => typed = <<>> /\ ~armed
  /\ loop # "direct" => probe = "menu"
  /\ loop \notin {"boot", "direct"} => todo = <<>> /\ image = "none" /\ options = ""

\* The cursor is where the keys lead, and on the screen; the countdown is for the default
\* entry, as long as no key was pressed; what is booted is the entry under the cursor.
CursorInv ==
  /\ InMenu => cfg \in Configs /\ Parse(cfg) /\ selected \in DOMAIN cfg.entries /\ LeadsTo(cfg, typed, selected)
  /\ loop \in {"poll", "check", "boot"} => shown.cursor \in {0, selected}
  /\ armed => /\ typed = <<>> /\ cfg.default # ""
              /\ cfg.timeout * PerSecond < Half => deadline >= cfg.timeout * PerSecond
  /\ loop = "boot" =>
       target = [ref |-> cfg.entries[selected], cmdline |-> Cmdline[cfg.entries[selected]]]
  /\ cause = "auto" => loop = "boot" /\ armed /\ now > deadline

MenuInv == MenuType /\ CursorInv /\ BootInv

\* A parsed file has a sequence of entries.
LEMMA ConfigType ==
  ASSUME NEW c \in Configs
  PROVE  c.entries \in Seq(Labels) /\ c.timeout \in Int
<1>1. PICK n \in 0 .. MaxEntries : c.entries \in [1 .. n -> Labels]
  BY Zenon DEF Configs
<1>2. n \in Nat
  BY MenuAssumption
<1>3. c.timeout \in Int
  BY MenuAssumption, Zenon DEF Configs
<1> QED BY <1>1, <1>2, <1>3

\* indexOfDefault names an entry, the default one if there is a default.
LEMMA DefaultIsEntry ==
  ASSUME NEW c \in Configs, Parse(c)
  PROVE  /\ IndexOfDefault(c) \in DOMAIN c.entries
         /\ c.default # "" => c.entries[IndexOfDefault(c)] = c.default
<1>1. c.entries \in Seq(Labels) /\ c.entries # <<>>
  BY ConfigType, Zenon DEF Parse
<1>2. 1 \in DOMAIN c.entries
  BY <1>1
<1>3. CASE c.default = ""
  BY <1>2, <1>3, Zenon DEF IndexOfDefault
<1>4. CASE c.default # ""
  <2>1. \E g \in DOMAIN c.entries : c.entries[g] = c.default
    BY <1>4, Zenon DEF Parse, Range
  <2>2. c.default \in Range(c.entries)
    BY <1>4, Zenon DEF Parse
  <2> QED BY <1>4, <2>1, <2>2, Zenon DEF IndexOfDefault
<1> QED BY <1>3, <1>4, Zenon

\* Without a keystroke the cursor is at the default.
LEMMA StartLeads ==
  ASSUME NEW c \in Configs, Parse(c)
  PROVE  \A g \in DOMAIN c.entries : LeadsTo(c, <<>>, g) <=> g = IndexOfDefault(c)
<1>1. 0 .. Len(<<>>) = {0} /\ 1 .. Len(<<>>) = {} /\ Len(<<>>) = 0
  OBVIOUS
<1>2. IndexOfDefault(c) \in DOMAIN c.entries
  BY DefaultIsEntry, Zenon
<1>3. ASSUME NEW g \in DOMAIN c.entries, LeadsTo(c, <<>>, g) PROVE g = IndexOfDefault(c)
  BY <1>1, <1>3 DEF LeadsTo
<1>4. LeadsTo(c, <<>>, IndexOfDefault(c))
  <2> DEFINE pos == [m \in 0 .. Len(<<>>) |-> IndexOfDefault(c)]
  <2>1. pos \in [0 .. Len(<<>>) -> DOMAIN c.entries] /\ pos[0] = IndexOfDefault(c)
    BY <1>1, <1>2
  <2> QED BY <1>1, <2>1, Zenon DEF LeadsTo
<1> QED BY <1>3, <1>4

\* The switch over the key moves the cursor as the key says.
LEMMA MoveLeads ==
  ASSUME NEW c \in Configs, NEW k, NEW pos \in DOMAIN c.entries
  PROVE  Move(Len(c.entries), k, pos) = Leads(c, k, pos) /\ Leads(c, k, pos) \in DOMAIN c.entries
<1> DEFINE n == Len(c.entries)
<1>1. c.entries \in Seq(Labels)
  BY ConfigType
<1>2. n \in Nat /\ DOMAIN c.entries = 1 .. n /\ pos \in 1 .. n
  BY <1>1
<1> HIDE DEF n
<1>3. CASE k = "up"
  <2>1. Move(n, k, pos) = (IF pos > 1 THEN pos - 1 ELSE pos) /\ Leads(c, k, pos) = (IF pos = 1 THEN 1 ELSE pos - 1)
    BY <1>3, Zenon DEF Move, Leads
  <2> QED BY <1>2, <2>1 DEF n
<1>4. CASE k = "down"
  <2>1. Move(n, k, pos) = (IF pos < n THEN pos + 1 ELSE pos) /\ Leads(c, k, pos) = (IF pos = n THEN pos ELSE pos + 1)
    BY <1>4, Zenon DEF Move, Leads, n
  <2> QED BY <1>2, <2>1 DEF n
<1>5. CASE k = "home"
  <2>1. Move(n, k, pos) = 1 /\ Leads(c, k, pos) = 1
    BY <1>5, Zenon DEF Move, Leads
  <2> QED BY <1>2, <2>1 DEF n
<1>6. CASE k = "end"
  <2>1. Move(n, k, pos) = n /\ Leads(c, k, pos) = n
    BY <1>6, Zenon DEF Move, Leads, n
  <2> QED BY <1>2, <2>1 DEF n
<1>7. CASE k \notin {"up", "down", "home", "end"}
  <2>1. Move(n, k, pos) = pos /\ Leads(c, k, pos) = pos
    BY <1>7, Zenon DEF Move, Leads
  <2> QED BY <1>2, <2>1 DEF n
<1> QED BY <1>3, <1>4, <1>5, <1>6, <1>7

\* One more key leads one step further.
LEMMA KeyLeads ==
  ASSUME NEW c \in Configs, NEW ks \in Seq(Keys), NEW k \in Keys, NEW g \in DOMAIN c.entries, LeadsTo(c, ks, g)
  PROVE  LeadsTo(c, Append(ks, k), Leads(c, k, g))
<1>1. PICK pos \in [0 .. Len(ks) -> DOMAIN c.entries] :
         /\ pos[0] = IndexOfDefault(c) /\ pos[Len(ks)] = g
         /\ \A n \in 1 .. Len(ks) : pos[n] = Leads(c, ks[n], pos[n - 1])
  BY DEF LeadsTo
<1> DEFINE ls == Append(ks, k)
           to == Leads(c, k, g)
           bt == [n \in 0 .. Len(ls) |-> IF n \in 0 .. Len(ks) THEN pos[n] ELSE to]
<1>2. /\ Len(ks) \in Nat /\ Len(ls) = Len(ks) + 1 /\ ls[Len(ks) + 1] = k
      /\ \A n \in 1 .. Len(ks) : ls[n] = ks[n]
  OBVIOUS
<1>3. to \in DOMAIN c.entries
  BY MoveLeads
<1> HIDE DEF ls, to
<1>4. bt \in [0 .. Len(ls) -> DOMAIN c.entries]
  BY <1>1, <1>3
<1>5. /\ 0 \in 0 .. Len(ks) /\ Len(ks) \in 0 .. Len(ks) /\ 0 \in 0 .. Len(ls) /\ Len(ks) \in 0 .. Len(ls)
      /\ Len(ls) \in 0 .. Len(ls) /\ Len(ls) \notin 0 .. Len(ks)
  BY <1>2
<1>6. bt[0] = IndexOfDefault(c) /\ bt[Len(ls)] = to /\ bt[Len(ks)] = g
  BY <1>1, <1>5
<1>7. ASSUME NEW n \in 1 .. Len(ls) PROVE bt[n] = Leads(c, ls[n], bt[n - 1])
  <2>1. CASE n = Len(ls)
    <3>1. ls[n] = k /\ n - 1 = Len(ks)
      BY <1>2, <2>1
    <3> QED BY <1>6, <2>1, <3>1 DEF to
  <2>2. CASE n # Len(ls)
    <3>1. n \in 1 .. Len(ks) /\ n \in 0 .. Len(ks) /\ n - 1 \in 0 .. Len(ks) /\ n \in 0 .. Len(ls) /\ n - 1 \in 0 .. Len(ls)
      <4>1. Len(ks) \in Nat /\ Len(ls) = Len(ks) + 1
        BY <1>2
      <4> QED BY <2>2, <4>1
    <3>2. bt[n] = pos[n] /\ bt[n - 1] = pos[n - 1] /\ ls[n] = ks[n]
      BY <1>2, <3>1
    <3> QED BY <1>1, <3>1, <3>2
  <2> QED BY <2>1, <2>2
<1> HIDE DEF bt
<1>8. LeadsTo(c, ls, to)
  BY <1>4, <1>6, <1>7, Zenon DEF LeadsTo
<1> QED BY <1>8 DEF ls, to

\* A timeout that fits in a Duration is one.
LEMMA SecondsFit ==
  ASSUME NEW n \in Int
  PROVE  Seconds(n) \in Int /\ (n > 0 /\ n * PerSecond < Half => Seconds(n) = n * PerSecond)
<1> DEFINE x == n * PerSecond
<1>1. x \in Int /\ (n > 0 => x > 0) /\ Half \in Nat \ {0}
  BY MenuAssumption
<1> HIDE DEF x
<1>2. 2 * Half > 0 /\ x + Half \in Int /\ 2 * Half \in Int
  BY <1>1
<1>3. (x + Half) % (2 * Half) \in Int
  BY <1>2
<1>4. ASSUME x > 0, x < Half PROVE (x + Half) % (2 * Half) = x + Half
  <2>1. 0 <= x + Half /\ x + Half < 2 * Half
    BY <1>1, <1>4
  <2>2. \A a \in Nat, b \in Nat : a < b => a % b = a
    OBVIOUS
  <2> QED BY <1>1, <1>2, <2>1, <2>2
<1>5. Seconds(n) = ((x + Half) % (2 * Half)) - Half
  BY DEF Seconds, x
<1>6. Seconds(n) \in Int /\ (n > 0 /\ x < Half => Seconds(n) = x)
  BY <1>1, <1>3, <1>4, <1>5
<1> QED BY <1>6 DEF x

\* Steps of the menu that boot nothing.
LEMMA BootSame ==
  ASSUME BootInv, UNCHANGED bootVars
  PROVE  UNCHANGED <<probe, todo, image, options, target>> /\ BootInv'
<1>1. UNCHANGED <<probe, target, todo, payload, measured, rng, image, options, device, refused>>
  BY DEF bootVars
<1>2. Shape(todo', probe')
  BY <1>1, Zenon DEF BootInv
<1>3. ChildInv'
  BY <1>1, Zenon DEF BootInv, ChildInv, Awaits
<1>4. todo' # <<>> => Provided'
  <2>1. Provided => Provided'
    BY <1>1 DEF Provided, Awaits
  <2> QED BY <1>1, <2>1, Zenon DEF BootInv
<1> QED BY <1>1, <1>2, <1>3, <1>4, Zenon DEF BootInv

\* Steps of the menu that touch neither the configuration nor what is booted.
LEMMA IdleStep ==
  ASSUME MenuInv, UNCHANGED <<bootVars, cfg, selected, typed, armed, deadline, cause>>,
         keyq' \in Seq(Keys), now' \in Nat, loop # "boot", loop # "direct",
         loop' \in {"net", "setup", "render", "poll", "check", "halt"},
         loop' \in {"net", "setup"} => loop \in {"net", "setup"},
         loop' \in {"render", "poll", "check"} => loop \in {"render", "poll", "check"},
         loop' \in {"poll", "check"} => shown'.cursor \in {0, selected}
  PROVE  MenuInv'
<1>1. UNCHANGED <<probe, todo, image, options, target>> /\ BootInv'
  BY BootSame DEF MenuInv
<1>2. MenuType'
  BY <1>1, Zenon DEF MenuInv, MenuType
<1>3. cause # "auto"
  BY Zenon DEF MenuInv, CursorInv
<1>4. CursorInv'
  BY <1>1, <1>3, Zenon DEF MenuInv, CursorInv, InMenu
<1> QED BY <1>1, <1>2, <1>4 DEF MenuInv

\* Nothing has been booted before bootEntry, and there all of it is to come.
LEMMA DispatchStep ==
  ASSUME MenuInv, loop \in {"poll", "check"}, NEW why, Dispatch(why)
  PROVE  BootInv' /\ probe' = "menu"
<1>1. /\ todo = <<>> /\ image = "none" /\ options = "" /\ probe = "menu"
      /\ UNCHANGED <<probe, payload, measured, rng, image, options, device, refused>> /\ todo' = StagesOf("menu")
  BY Zenon DEF MenuInv, MenuType, Dispatch
<1>2. Begins(StagesOf("menu"), "menu")
  BY StagesBegin
<1>3. /\ Awaits(Fetching)' /\ Awaits({"load"})' /\ Awaits({"options"})' /\ Awaits({"inherit"})' /\ Awaits({"rng"})'
      /\ Shape(todo', probe') /\ todo' # <<>>
  BY <1>1, <1>2, Zenon DEF Begins, Awaits
<1>4. ChildInv'
  BY <1>1, <1>3, Zenon DEF ChildInv
<1>5. Provided'
  BY <1>1, <1>3, Zenon DEF Provided
<1> QED BY <1>1, <1>3, <1>4, <1>5, Zenon DEF BootInv

\* menuLoop begins.
LEMMA EnterStep ==
  ASSUME MenuInv, Enter PROVE MenuInv'
<1>1. PICK c \in Configs :
        /\ cfg' = c
        /\ IF Parse(c)
           THEN /\ loop' = "render"
                /\ selected' = IndexOfDefault(c)
                /\ armed' = (c.timeout > 0 /\ c.default # "")
                /\ deadline' = IF armed' THEN now + Seconds(c.timeout) ELSE now
           ELSE loop' = "halt" /\ UNCHANGED <<selected, armed, deadline>>
  BY Zenon DEF Enter
<1>2. /\ loop = "setup" /\ UNCHANGED <<bootVars, now, shown, typed, cause>> /\ keyq' \in {<<>>, keyq}
      /\ typed = <<>> /\ ~armed /\ cause # "auto" /\ now \in Nat /\ deadline \in Int /\ keyq \in Seq(Keys)
  BY Zenon DEF Enter, ResetConIn, MenuInv, MenuType, CursorInv
<1>3. UNCHANGED <<probe, todo, image, options, target>> /\ BootInv'
  BY <1>2, BootSame DEF MenuInv
<1>4. c.timeout \in Int
  BY ConfigType
<1>5. CASE Parse(c)
  <2>1. /\ loop' = "render" /\ selected' = IndexOfDefault(c) /\ armed' = (c.timeout > 0 /\ c.default # "")
        /\ deadline' = IF armed' THEN now + Seconds(c.timeout) ELSE now
    BY <1>1, <1>5, Zenon
  <2>2. deadline' \in Int /\ (armed' /\ c.timeout * PerSecond < Half => deadline' >= c.timeout * PerSecond)
    <3>1. c.timeout * PerSecond \in Int
      BY <1>4, MenuAssumption
    <3>2. /\ Seconds(c.timeout) \in Int
          /\ c.timeout > 0 /\ c.timeout * PerSecond < Half => Seconds(c.timeout) = c.timeout * PerSecond
      BY <1>4, SecondsFit
    <3>3. deadline' \in Int
      <4>1. deadline' = now + Seconds(c.timeout) \/ deadline' = now
        BY <2>1, Zenon
      <4> QED BY <1>2, <3>2, <4>1
    <3>4. ASSUME armed', c.timeout * PerSecond < Half PROVE deadline' >= c.timeout * PerSecond
      <4>0. c.timeout > 0 /\ deadline' = now + Seconds(c.timeout)
        BY <2>1, <3>4, Zenon
      <4>1. deadline' = now + c.timeout * PerSecond
        BY <3>2, <3>4, <4>0
      <4> QED BY <1>2, <3>1, <4>1
    <3> QED BY <3>3, <3>4
  <2>3. IndexOfDefault(c) \in DOMAIN c.entries /\ LeadsTo(c, <<>>, IndexOfDefault(c))
    BY <1>5, DefaultIsEntry, StartLeads, Zenon
  <2>4. MenuType'
    BY <1>2, <1>3, <2>1, <2>2, Zenon DEF MenuInv, MenuType
  <2>5. CursorInv'
    <3>1. typed' = <<>> /\ cause' # "auto" /\ cfg' = c
      BY <1>1, <1>2, Zenon
    <3> QED BY <1>5, <2>1, <2>2, <2>3, <3>1, Zenon DEF CursorInv, InMenu
  <2> QED BY <1>3, <2>4, <2>5 DEF MenuInv
<1>6. CASE ~Parse(c)
  <2>1. loop' = "halt" /\ UNCHANGED <<selected, armed, deadline>>
    BY <1>1, <1>6
  <2>2. MenuType'
    BY <1>2, <1>3, <2>1, Zenon DEF MenuInv, MenuType
  <2>3. CursorInv'
    BY <1>2, <2>1, Zenon DEF CursorInv, InMenu
  <2> QED BY <1>3, <2>2, <2>3 DEF MenuInv
<1> QED BY <1>5, <1>6

\* A keystroke: the cursor moves or stays, and Enter boots what it stands on.
LEMMA KeyStep ==
  ASSUME MenuInv, HandleKey PROVE MenuInv'
<1> DEFINE k == Head(keyq)
<1>1. /\ loop = "poll" /\ keyq # <<>> /\ keyq' = Tail(keyq) /\ typed' = Append(typed, k) /\ armed' = FALSE
      /\ selected' = Move(Len(cfg.entries), k, selected) /\ UNCHANGED <<cfg, now, deadline, shown>>
  BY DEF HandleKey
<1>2. keyq \in Seq(Keys) /\ typed \in Seq(Keys) /\ cause # "auto" /\ now \in Nat /\ deadline \in Int
  BY <1>1, Zenon DEF MenuInv, MenuType, CursorInv
<1>3. k \in Keys /\ keyq' \in Seq(Keys) /\ typed' \in Seq(Keys)
  BY <1>1, <1>2
<1>4. cfg \in Configs /\ Parse(cfg) /\ selected \in DOMAIN cfg.entries /\ LeadsTo(cfg, typed, selected)
  BY <1>1, Zenon DEF MenuInv, CursorInv, InMenu
<1>5. selected' \in DOMAIN cfg.entries /\ LeadsTo(cfg, typed', selected')
  BY <1>1, <1>2, <1>3, <1>4, MoveLeads, KeyLeads
<1>6. CASE k = "enter" /\ Dispatch("enter")
  <2>1. selected' = selected
    BY <1>1, <1>6, Zenon DEF Move
  <2>2. BootInv' /\ probe' = "menu"
    BY <1>1, <1>6, DispatchStep
  <2>3. /\ loop' = "boot" /\ cause' = "enter"
        /\ target' = [ref |-> cfg.entries[selected], cmdline |-> Cmdline[cfg.entries[selected]]]
    BY <1>6 DEF Dispatch
  <2>4. MenuType'
    BY <1>1, <1>2, <1>3, <2>2, <2>3, Zenon DEF MenuType
  <2>5. shown'.cursor \in {0, selected}
    BY <1>1, Zenon DEF MenuInv, CursorInv
  <2>6. CursorInv'
    BY <1>1, <1>4, <1>5, <2>1, <2>3, <2>5, Zenon DEF CursorInv, InMenu
  <2> QED BY <2>2, <2>4, <2>6 DEF MenuInv
<1>7. CASE loop' \in {"halt", "render"} /\ UNCHANGED <<bootVars, cause>>
  <2>1. UNCHANGED <<probe, todo, image, options, target>> /\ BootInv'
    BY <1>7, BootSame DEF MenuInv
  <2>2. MenuType'
    BY <1>1, <1>2, <1>3, <1>7, <2>1, Zenon DEF MenuInv, MenuType
  <2>3. CursorInv'
    BY <1>1, <1>2, <1>4, <1>5, <1>7, Zenon DEF CursorInv, InMenu
  <2> QED BY <2>1, <2>2, <2>3 DEF MenuInv
<1> QED BY <1>6, <1>7 DEF HandleKey

\* Every step of the menu, of a boot and of the user keeps the invariant.
LEMMA MenuStep ==
  MenuInv /\ [MenuNext]_vars => MenuInv'
<1> SUFFICES ASSUME MenuInv, [MenuNext]_vars PROVE MenuInv'
  OBVIOUS
<1>0. keyq \in Seq(Keys) /\ now \in Nat /\ MaxTime \in Nat
  BY MenuAssumption, Zenon DEF MenuInv, MenuType
<1>1. CASE UNCHANGED vars
  <2>1. UNCHANGED <<bootVars, cfg, loop, selected, armed, now, deadline, shown, keyq, typed, cause>>
    BY <1>1 DEF vars, menuVars
  <2>2. UNCHANGED <<probe, todo, image, options, target>> /\ BootInv'
    BY <2>1, BootSame DEF MenuInv
  <2>3. MenuType' /\ CursorInv'
    BY <2>1, <2>2, Zenon DEF MenuInv, MenuType, CursorInv, InMenu
  <2> QED BY <2>2, <2>3 DEF MenuInv
<1>2. CASE FetchConfig
  BY <1>0, <1>2, IdleStep DEF FetchConfig
<1>3. CASE Enter
  BY <1>3, EnterStep
<1>4. CASE Render
  <2>1. shown'.cursor = selected
    BY <1>4 DEF Render
  <2> QED BY <1>0, <1>4, <2>1, IdleStep DEF Render
<1>5. CASE RenderFails
  <2>1. shown'.cursor = 0
    BY <1>5 DEF RenderFails
  <2> QED BY <1>0, <1>5, <2>1, IdleStep DEF RenderFails
<1>6. CASE ReadNone
  <2>1. now' \in Nat
    BY <1>0, <1>6 DEF ReadNone, Pass
  <2>2. shown'.cursor \in {0, selected}
    BY <1>6, Zenon DEF ReadNone, MenuInv, CursorInv
  <2> QED BY <1>0, <1>6, <2>1, <2>2, IdleStep DEF ReadNone
<1>7. CASE ReadFails
  <2>1. now' \in Nat
    BY <1>0, <1>7 DEF ReadFails, Pass
  <2> QED BY <1>0, <1>7, <2>1, IdleStep DEF ReadFails
<1>8. CASE AutoBoot
  <2>1. BootInv' /\ probe' = "menu"
    BY <1>8, DispatchStep DEF AutoBoot
  <2>2. /\ loop = "check" /\ loop' = "boot" /\ armed /\ now > deadline
        /\ target' = [ref |-> cfg.entries[selected], cmdline |-> Cmdline[cfg.entries[selected]]]
        /\ UNCHANGED <<cfg, selected, armed, now, deadline, shown, keyq, typed>>
    BY <1>8 DEF AutoBoot, Dispatch
  <2>3. MenuType'
    BY <2>1, <2>2, Zenon DEF MenuInv, MenuType
  <2>4. CursorInv'
    BY <2>2, Zenon DEF MenuInv, CursorInv, InMenu
  <2> QED BY <2>1, <2>3, <2>4 DEF MenuInv
<1>9. CASE Wait
  <2>1. now' \in Nat
    BY <1>0, <1>9 DEF Wait, Pass
  <2> QED BY <1>0, <1>9, <2>1, IdleStep DEF Wait
<1>10. CASE HandleKey
  BY <1>10, KeyStep
<1>11. CASE Boot
  <2>1. BootInv' /\ UNCHANGED menuVars /\ loop \in {"boot", "direct"}
    BY <1>11, BootStepInv DEF Boot, MenuInv
  <2>2. UNCHANGED <<probe, target>>
    BY <1>11, Zenon DEF Boot, BootStep, Prepare, Obtain, Magic, Measure, UninstallAllRNG, LoadImage, SetLoadOptions,
       InheritParentDeviceHandle, StartImage, ImageReturns, UnloadImage
  <2>3. MenuType' /\ CursorInv'
    BY <2>1, <2>2, Zenon DEF menuVars, MenuInv, MenuType, CursorInv, InMenu
  <2> QED BY <2>1, <2>3 DEF MenuInv
<1>12. CASE Finished
  BY <1>1, <1>12 DEF Finished
<1>13. CASE \E k \in Keys : Press(k)
  <2>1. PICK k \in Keys : Press(k)
    BY <1>13
  <2>2. keyq' \in Seq(Keys)
    BY <1>0, <2>1 DEF Press
  <2>3. UNCHANGED <<bootVars, cfg, loop, selected, armed, now, deadline, shown, typed, cause>>
        /\ loop \notin {"boot", "halt", "direct"}
    BY <2>1 DEF Press
  <2>4. loop \in {"poll", "check"} => shown.cursor \in {0, selected}
    BY Zenon DEF MenuInv, CursorInv
  <2>5. loop \in {"net", "setup", "render", "poll", "check"}
    BY <2>3, Zenon DEF MenuInv, MenuType
  <2> QED BY <1>0, <2>2, <2>3, <2>4, <2>5, IdleStep
<1> QED BY <1>1, <1>2, <1>3, <1>4, <1>5, <1>6, <1>7, <1>8, <1>9, <1>10, <1>11, <1>12, <1>13 DEF MenuNext, Turn

\* It holds at the start, with a menu and without.
LEMMA MenuStart ==
  MenuInit => MenuInv
<1> SUFFICES ASSUME MenuInit PROVE MenuInv
  OBVIOUS
<1>0. keyq = <<>> /\ typed = <<>> /\ now = 0 /\ deadline = 0 /\ armed = FALSE /\ cause = "none" /\ loop \in {"net", "direct"}
  BY Zenon DEF MenuInit
<1>1. CursorInv /\ keyq \in Seq(Keys) /\ typed \in Seq(Keys) /\ now \in Nat /\ deadline \in Int /\ armed \in BOOLEAN
      /\ typed = <<>> /\ ~armed
  <2>1. CursorInv
    BY <1>0, Zenon DEF CursorInv, InMenu
  <2>2. armed \in BOOLEAN /\ ~armed
    BY <1>0, Zenon
  <2>3. keyq \in Seq(Keys) /\ typed \in Seq(Keys) /\ now \in Nat /\ deadline \in Int
    BY <1>0
  <2> QED BY <1>0, <2>1, <2>2, <2>3, Zenon
<1>2. CASE BootInit /\ probe = "menu" /\ todo = <<>> /\ loop = "net"
  <2>1. Shape(todo, probe)
    BY <1>2 DEF Shape
  <2>2. BootInv
    BY <1>2, <2>1, Zenon DEF BootInv, BootInit, ChildInv
  <2>3. MenuType
    BY <1>1, <1>2, Zenon DEF MenuType, BootInit
  <2> QED BY <1>1, <2>2, <2>3 DEF MenuInv
<1>3. CASE DirectInit /\ loop = "direct"
  <2>1. probe \in {"modeA", "modeB", "modeC", "handover", "tinyC", "tinyZ"} /\ todo = StagesOf(probe) /\ BootInit
    BY <1>3, Zenon DEF DirectInit, ModeOf
  <2>2. Begins(todo, probe)
    BY <2>1, StagesBegin
  <2>3. /\ Shape(todo, probe) /\ todo # <<>> /\ Awaits(Fetching) /\ Awaits({"load"})
        /\ probe \in {"modeA", "modeB", "modeC"} => Awaits({"measure"})
        /\ probe \in {"modeC", "menu"} => Awaits({"options"}) /\ Awaits({"inherit"}) /\ Awaits({"rng"})
    BY <2>2 DEF Begins, Awaits
  <2>4. ChildInv /\ options \in {"", target.cmdline}
    BY <2>1, <2>3, Zenon DEF ChildInv, BootInit
  <2>5. Provided
    BY <2>1, <2>3 DEF Provided
  <2>6. MenuType
    BY <1>1, <1>3 DEF MenuType
  <2> QED BY <1>1, <2>3, <2>4, <2>5, <2>6, Zenon DEF MenuInv, BootInv
<1> QED BY <1>2, <1>3, Zenon DEF MenuInit

\* The child in control, whichever probe or menu entry it is for and however the
\* firmware answers, is the checked and measured image of its target, with what it was
\* configured to get (bootEntry, runOCIKernelBootProbe and the chain-boot probes).
THEOREM StartsWhatIsConfigured ==
  MenuSpec => []StartedAsConfigured
<1>1. MenuInv => StartedAsConfigured
  BY BootInvImplies DEF MenuInv
<1> QED BY <1>1, MenuStart, MenuStep, PTL DEF MenuSpec

\* No probe leaves an image in memory unless the firmware refused a call, or the probe
\* only loads (the error paths after LoadImage).
THEOREM ReleasesItsImage ==
  MenuSpec => []ImageReleased
<1>1. MenuInv => ImageReleased
  BY BootInvImplies DEF MenuInv
<1> QED BY <1>1, MenuStart, MenuStep, PTL DEF MenuSpec

\* What the menu boots is what the user sees and chose, for any entries, keystrokes and
\* timeouts (menuLoop, bootEntry).
THEOREM BootsTheChosenEntry ==
  MenuSpec => []BootedIsChosen
<1>1. ASSUME MenuInv PROVE BootedIsChosen
  <2>1. ASSUME loop = "boot"
        PROVE  /\ \E g \in DOMAIN cfg.entries : LeadsTo(cfg, typed, g) /\ target.ref = cfg.entries[g]
               /\ shown.cursor # 0 => target.ref = cfg.entries[shown.cursor]
               /\ image = "running" => options = Cmdline[target.ref] /\ payload.from = target.ref
    <3>1. /\ selected \in DOMAIN cfg.entries /\ LeadsTo(cfg, typed, selected) /\ shown.cursor \in {0, selected}
          /\ target = [ref |-> cfg.entries[selected], cmdline |-> Cmdline[cfg.entries[selected]]]
          /\ probe = "menu"
      BY <1>1, <2>1, Zenon DEF MenuInv, CursorInv, InMenu, MenuType
    <3>2. target.ref = cfg.entries[selected] /\ target.cmdline = Cmdline[target.ref]
      BY <3>1
    <3>3. image = "running" => options = target.cmdline /\ payload.from = target.ref
      <4>1. StartedAsConfigured
        BY <1>1, BootInvImplies DEF MenuInv
      <4> QED BY <3>1, <4>1 DEF StartedAsConfigured
    <3> QED BY <3>1, <3>2, <3>3
  <2>2. ASSUME cause = "auto"
        PROVE  /\ target.ref = cfg.default /\ typed = <<>>
               /\ cfg.timeout * PerSecond < Half => now > cfg.timeout * PerSecond
    <3>1. /\ loop = "boot" /\ now > deadline /\ typed = <<>> /\ cfg.default # ""
          /\ cfg.timeout * PerSecond < Half => deadline >= cfg.timeout * PerSecond
          /\ now \in Nat /\ deadline \in Int
      BY <1>1, <2>2, Zenon DEF MenuInv, CursorInv, MenuType
    <3>2. /\ cfg \in Configs /\ Parse(cfg) /\ selected \in DOMAIN cfg.entries /\ LeadsTo(cfg, <<>>, selected)
          /\ target = [ref |-> cfg.entries[selected], cmdline |-> Cmdline[cfg.entries[selected]]]
      BY <1>1, <3>1, Zenon DEF MenuInv, CursorInv, InMenu
    <3>3. selected = IndexOfDefault(cfg) /\ cfg.entries[selected] = cfg.default
      BY <3>1, <3>2, StartLeads, DefaultIsEntry, Zenon
    <3>4. cfg.timeout * PerSecond \in Int
      BY <3>2, ConfigType, MenuAssumption
    <3>5. cfg.timeout * PerSecond < Half => now > cfg.timeout * PerSecond
      <4> DEFINE x == cfg.timeout * PerSecond
      <4> HIDE DEF x
      <4>1. x \in Int /\ (x < Half => deadline >= x)
        BY <3>1, <3>4, Zenon DEF x
      <4>2. now > deadline /\ now \in Nat /\ deadline \in Int
        BY <3>1, Zenon
      <4>3. x < Half => now > x
        BY <4>1, <4>2
      <4> QED BY <4>3, Zenon DEF x
    <3> QED BY <3>1, <3>2, <3>3, <3>5, Zenon
  <2> QED BY <2>1, <2>2 DEF BootedIsChosen
<1> QED BY <1>1, MenuStart, MenuStep, PTL DEF MenuSpec

=============================================================================
