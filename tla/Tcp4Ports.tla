----------------------------- MODULE Tcp4Ports -----------------------------
(***************************************************************************)
(* The demux table Stack.tcp4Conns: how dialTCP4Once takes a local port,   *)
(* how Close gives it back, and what several dials and closes do to one    *)
(* another (uefiboard/ministack/tcp4.go).                                  *)
(*                                                                         *)
(* allocTCP4Port, registerTCP4 and releaseTCP4 each lock s.mu by           *)
(* themselves, so a dial is three critical sections and a close two.  The  *)
(* handshake and the data of a connection are Tcp4Conn's subject; here it  *)
(* only succeeds, fails or is reset.                                       *)
(***************************************************************************)
EXTENDS Naturals

CONSTANTS
  Conn,              \* the connections that are ever dialled
  NPorts,            \* candidates: 16382 ports from 49152 on
  PortProbes,            \* candidates a dial looks at: 1024
  Closers,           \* goroutines that may call Close on one connection
  ConcurrentDials,   \* whether a dial may start while another is in progress
  NoConn

ASSUME PortsAssumption ==
  /\ NPorts \in Nat \ {0} /\ PortProbes \in Nat \ {0}
  /\ ConcurrentDials \in BOOLEAN
  /\ NoConn \notin Conn

VARIABLES
  conns,     \* Stack.tcp4Conns
  rover,     \* Stack.tcp4PortRover
  dial,      \* progress of the dial of a connection
  port,      \* its local port
  connClosed,    \* TCP4Conn.closed
  cl         \* progress of each Close of it

ports == <<conns, rover, dial, port, connClosed, cl>>

Ports == 0 .. NPorts - 1

\* The i-th candidate of a dial, counted from 49152.
Candidate(i) == (rover + i) % NPorts

\* It is not in the table.
PortFree(i) == conns[Candidate(i)] = NoConn

Dialing(c) == dial[c] \in {"register", "syn"}

\* allocTCP4Port.  The rover counts modulo one more than the candidates do.
Alloc(c) ==
  /\ dial[c] = "idle"
  /\ ConcurrentDials \/ \A d \in Conn : ~Dialing(d)
  /\ \E i \in 0 .. PortProbes - 1 :
       /\ PortFree(i) /\ \A j \in 0 .. i - 1 : ~PortFree(j)
       /\ port' = [port EXCEPT ![c] = Candidate(i)]
       /\ rover' = (rover + i + 1) % (NPorts + 1)
  /\ dial' = [dial EXCEPT ![c] = "register"]
  /\ UNCHANGED <<conns, connClosed, cl>>

\* ErrTCP4PortInUse.
AllocFail(c) ==
  /\ dial[c] = "idle"
  /\ ConcurrentDials \/ \A d \in Conn : ~Dialing(d)
  /\ \A i \in 0 .. PortProbes - 1 : ~PortFree(i)
  /\ dial' = [dial EXCEPT ![c] = "failed"]
  /\ UNCHANGED <<conns, rover, port, connClosed, cl>>

\* registerTCP4 overwrites whatever the table holds.
Register(c) ==
  /\ dial[c] = "register"
  /\ conns' = [conns EXCEPT ![port[c]] = c]
  /\ dial' = [dial EXCEPT ![c] = "syn"]
  /\ UNCHANGED <<rover, port, connClosed, cl>>

\* The SYN cannot be sent, is refused or not answered: releaseTCP4.
DialFail(c) ==
  /\ dial[c] = "syn"
  /\ conns' = [conns EXCEPT ![port[c]] = NoConn]
  /\ dial' = [dial EXCEPT ![c] = "failed"]
  /\ UNCHANGED <<rover, port, connClosed, cl>>

DialOk(c) ==
  /\ dial[c] = "syn" /\ ~connClosed[c]
  /\ dial' = [dial EXCEPT ![c] = "open"]
  /\ UNCHANGED <<conns, rover, port, connClosed, cl>>

\* handleTCP4 finds the connection and deliverSegment handles an RST.
Reset(c) ==
  /\ dial[c] \in {"syn", "open"} /\ ~connClosed[c]
  /\ conns[port[c]] = c
  /\ connClosed' = [connClosed EXCEPT ![c] = TRUE]
  /\ UNCHANGED <<conns, rover, dial, port, cl>>

\* Close returns at once on a closed connection.
CloseBegin(c, k) ==
  /\ dial[c] = "open" /\ cl[c][k] = "idle"
  /\ cl' = [cl EXCEPT ![c][k] = IF connClosed[c] THEN "done" ELSE "pump"]
  /\ UNCHANGED <<conns, rover, dial, port, connClosed>>

ConnCloseMark(c, k) ==
  /\ cl[c][k] = "pump"
  /\ connClosed' = [connClosed EXCEPT ![c] = TRUE]
  /\ cl' = [cl EXCEPT ![c][k] = "release"]
  /\ UNCHANGED <<conns, rover, dial, port>>

\* releaseTCP4 deletes by port, whoever is registered there.
CloseRelease(c, k) ==
  /\ cl[c][k] = "release"
  /\ conns' = [conns EXCEPT ![port[c]] = NoConn]
  /\ cl' = [cl EXCEPT ![c][k] = "done"]
  /\ UNCHANGED <<rover, dial, port, connClosed>>

PortsInit ==
  /\ conns = [p \in Ports |-> NoConn]
  /\ rover = 0
  /\ dial = [c \in Conn |-> "idle"]
  /\ port = [c \in Conn |-> 0]
  /\ connClosed = [c \in Conn |-> FALSE]
  /\ cl = [c \in Conn |-> [k \in Closers |-> "idle"]]

-----------------------------------------------------------------------------
\* The connection has been handed to its caller and is in use.
ConnLive(c) == dial[c] = "open" /\ ~connClosed[c]

\* Segments reach every connection in use: it is the one registered under its
\* port, whatever other connections are dialled and closed meanwhile
\* (registerTCP4, releaseTCP4, tcp4.go:272-273).
LiveConnRegistered == \A c \in Conn : ConnLive(c) => conns[port[c]] = c

=============================================================================
