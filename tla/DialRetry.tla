----------------------------- MODULE DialRetry -----------------------------
(***************************************************************************)
(* DialTLS with its retries: the loop of DialTLSWithRetry around           *)
(* dialTLSOnce, which resolves the host, dials through the second retry    *)
(* loop of DialTCP4WithRetry and shakes hands (uefiboard/ministack/        *)
(* dial_retry.go, tls.go).  Composed with Tcp4Ports: every attempt of the  *)
(* inner loop takes a port, registers a connection and gives both back, in *)
(* the critical sections of that module, while the application closes      *)
(* connections of earlier dials and the peer resets any of them.           *)
(*                                                                         *)
(* An error is abstracted to its class: "transient" or one that            *)
(* isRetryableDialError refuses, "refused" (a reset, a bad certificate, a  *)
(* configuration error) or "closed" (ErrStackClosed).  How long a sleep    *)
(* takes is left out.  Dials follow one another; the n-th connection       *)
(* of the run is the connection n.                                         *)
(***************************************************************************)
EXTENDS Tcp4Ports, Integers

CONSTANTS
  Param,       \* the attempts a caller passes; 0 or less means the default
  Default,     \* Stack.DefaultDialAttempts; 0 if not configured
  Fallback,    \* DefaultDialAttemptsFallback
  Dials        \* DialTLS calls of the application, one after the other

ASSUME DialAssumption ==
  /\ Param \in Int /\ Default \in Int
  /\ Fallback \in Nat /\ Fallback > 0

VARIABLES
  at,
  i,             \* the loop of DialTLSWithRetry
  j,             \* the loop of DialTCP4WithRetry
  err,           \* class of the error in hand
  outcome,       \* what the caller gets: "none", "conn", "exhausted" or an error
  cur,           \* the connection of the attempt, NoConn without one
  stackClosed,   \* Stack.closed
  round,
  handed         \* ghost: the connections that calls have returned

app == <<stackClosed, round, handed>>
dialVars == <<ports, at, i, j, err, outcome, cur, app>>

\* dialAttemptsOrDefault.
AttemptsOrDefault(n) == IF n > 0 THEN n ELSE IF Default > 0 THEN Default ELSE Fallback

TlsAttempts == AttemptsOrDefault(Param)     \* of DialTLSWithRetry
TcpAttempts == AttemptsOrDefault(Default)   \* of DialTCP4 inside it

ASSUME ConnAssumption == Conn = 1 .. Dials * TlsAttempts * TcpAttempts

\* isRetryableDialError.
Retryable(e) == e \in {"transient", "exhausted"}

\* ErrStackClosed is among the errors once the stack is closed.
Errors(es) == es \cup (IF stackClosed THEN {"closed"} ELSE {})

ReturnDial(r) == at' = "done" /\ outcome' = r

-----------------------------------------------------------------------------
\* dialTLSOnce: resolves the host and starts DialTCP4.
ResolveHost(ok) ==
  /\ at = "resolve"
  /\ IF ok THEN at' = "dial" /\ j' = 0 /\ UNCHANGED err
     ELSE err' \in Errors({"transient", "refused"}) /\ at' = "tlsFailed" /\ UNCHANGED j
  /\ UNCHANGED <<ports, i, outcome, cur, app>>

\* dialTCP4Once up to the choice of a port, on a stack that has an address.
DialStart ==
  /\ at = "dial"
  /\ \/ stackClosed /\ err' = "closed" /\ at' = "tcpFailed" /\ UNCHANGED <<ports, cur>>
     \/ \E c \in Conn :
          /\ ~stackClosed /\ \A d \in Conn : d < c <=> dial[d] # "idle"
          /\ \/ Alloc(c) /\ cur' = c /\ at' = "register" /\ UNCHANGED err
             \/ AllocFail(c) /\ err' = "transient" /\ at' = "tcpFailed" /\ UNCHANGED cur
  /\ UNCHANGED <<i, j, outcome, app>>

DialRegister ==
  /\ at = "register" /\ Register(cur) /\ at' = "syn"
  /\ UNCHANGED <<i, j, err, outcome, cur, app>>

\* The SYN and the wait for its answer.
DialEnd ==
  /\ at = "syn"
  /\ \/ DialOk(cur) /\ at' = "handshake" /\ UNCHANGED <<err, cur>>
     \/ /\ DialFail(cur) /\ at' = "tcpFailed" /\ cur' = NoConn
        /\ err' \in Errors(IF connClosed[cur] THEN {"refused", "transient"} ELSE {"transient"})
  /\ UNCHANGED <<i, j, outcome, app>>

\* DialTCP4WithRetry hands an error to its caller.
TcpReturn(e) == err' = e /\ at' = "tlsFailed"

\* DialTCP4WithRetry after a failed attempt.
TcpFailed ==
  /\ at = "tcpFailed"
  /\ \/ ~Retryable(err) /\ TcpReturn(err)
     \/ /\ Retryable(err) /\ j = TcpAttempts - 1
        /\ TcpReturn(IF TcpAttempts = 1 THEN err ELSE "exhausted")
     \/ /\ Retryable(err) /\ j # TcpAttempts - 1
        /\ at' = "tcpSleep" /\ UNCHANGED err
  /\ UNCHANGED <<ports, i, j, outcome, cur, app>>

\* dialRetrySleep: it doubles and is cut short when the stack is closed, and the loop
\* goes on either way; how long it takes is left out.
TcpSleep ==
  /\ at = "tcpSleep"
  /\ j' = j + 1
  /\ at' = "dial"
  /\ UNCHANGED <<ports, i, err, outcome, cur, app>>

\* NewTLSConfig and the handshake; an error closes the connection.
Handshake(ok, k) ==
  /\ at = "handshake"
  /\ \/ /\ ok /\ ~connClosed[cur] /\ ReturnDial("conn")
        /\ handed' = handed \cup {cur} /\ cur' = NoConn /\ UNCHANGED <<ports, err>>
     \/ /\ ~ok /\ err' \in Errors({"transient", "refused"})
        /\ CloseBegin(cur, k) /\ at' = "tlsClose" /\ UNCHANGED <<outcome, handed, cur>>
  /\ UNCHANGED <<i, j, stackClosed, round>>

\* Mutant: the attempt does not wait for Close.
TlsCloseEarly(k) ==
  /\ at = "tlsClose" /\ at' = "tlsFailed" /\ cur' = NoConn
  /\ UNCHANGED <<ports, i, j, err, outcome, app>>

\* Close of the connection of a failed handshake, to its end.
TlsClose(k) ==
  /\ at = "tlsClose"
  /\ \/ (ConnCloseMark(cur, k) \/ CloseRelease(cur, k)) /\ UNCHANGED <<at, cur>>
     \/ cl[cur][k] = "done" /\ at' = "tlsFailed" /\ cur' = NoConn /\ UNCHANGED ports
  /\ UNCHANGED <<i, j, err, outcome, app>>

\* Mutant: a fatal error has no branch.
TlsFailedStuck ==
  /\ at = "tlsFailed" /\ Retryable(err)
  /\ \/ i = TlsAttempts - 1 /\ ReturnDial("exhausted")
     \/ i # TlsAttempts - 1 /\ at' = "tlsSleep" /\ UNCHANGED outcome
  /\ UNCHANGED <<ports, i, j, err, cur, app>>

\* DialTLSWithRetry after a failed attempt.
TlsFailed ==
  /\ at = "tlsFailed"
  /\ \/ ~Retryable(err) /\ ReturnDial(err)
     \/ /\ Retryable(err) /\ i = TlsAttempts - 1
        /\ ReturnDial(IF TlsAttempts = 1 THEN err ELSE "exhausted")
     \/ /\ Retryable(err) /\ i # TlsAttempts - 1
        /\ at' = "tlsSleep" /\ UNCHANGED outcome
  /\ UNCHANGED <<ports, i, j, err, cur, app>>

TlsSleep ==
  /\ at = "tlsSleep"
  /\ i' = i + 1
  /\ at' = "resolve"
  /\ UNCHANGED <<ports, j, err, outcome, cur, app>>

\* The application dials again, with a result or an error in hand.
NextCall ==
  /\ at = "done" /\ round < Dials /\ round' = round + 1
  /\ at' = "resolve" /\ i' = 0 /\ outcome' = "none"
  /\ UNCHANGED <<ports, j, err, cur, stackClosed, handed>>

CloseStack ==
  /\ ~stackClosed /\ stackClosed' = TRUE
  /\ UNCHANGED <<ports, at, i, j, err, outcome, cur, round, handed>>

\* Meanwhile the application closes a connection it got, or the peer resets one.
ByOthers ==
  /\ \/ \E c \in Conn : Reset(c)
     \/ \E c \in handed, k \in Closers : CloseBegin(c, k) \/ ConnCloseMark(c, k) \/ CloseRelease(c, k)
  /\ UNCHANGED <<at, i, j, err, outcome, cur, app>>

DialInit ==
  /\ PortsInit
  /\ at = "resolve" /\ round = 1 /\ cur = NoConn /\ handed = {}
  /\ i = 0 /\ j = 0
  /\ err = "none" /\ outcome = "none" /\ stackClosed = FALSE

Step ==
  \/ \E ok \in BOOLEAN : ResolveHost(ok) \/ \E k \in Closers : Handshake(ok, k)
  \/ DialStart \/ DialRegister \/ DialEnd \/ \E k \in Closers : TlsClose(k)
  \/ TcpFailed \/ TcpSleep \/ TlsFailed \/ TlsSleep

DialNext == Step \/ NextCall \/ CloseStack \/ ByOthers

DialSpec == DialInit /\ [][DialNext]_dialVars /\ WF_dialVars(Step)

-----------------------------------------------------------------------------
\* The dialler is between attempts or has returned.
NothingInHand == at \in {"resolve", "dial", "tcpFailed", "tcpSleep", "tlsFailed", "tlsSleep", "done"}

\* An error never leaves a TCP connection behind, whichever stage of whichever
\* attempt of whichever call failed: between attempts the only connections in use
\* are those handed to the application, and a port is still taken by another one
\* only if the peer reset it (dialTLSOnce, tls.go:144; dialTCP4Once).  And every
\* connection in use is the one its port leads to.
ConnectionsAccounted ==
  /\ LiveConnRegistered
  /\ NothingInHand =>
       /\ \A c \in Conn : ConnLive(c) => c \in handed
       /\ \A p \in Ports : conns[p] # NoConn => conns[p] \in handed \/ connClosed[conns[p]]

\* Every dial ends, whatever is reset or closed meanwhile (DialTLSWithRetry).
DialReturns == at # "done" ~> at = "done"

=============================================================================
