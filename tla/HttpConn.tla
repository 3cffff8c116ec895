------------------------------- MODULE HttpConn -------------------------------
(***************************************************************************)
(* The connection of one HTTP request: HTTPGet, HTTPSGet and their         *)
(* streaming siblings (kind "get"), which read the response before they    *)
(* return, and orasoci's RoundTrip (kind "oras"), which returns after the  *)
(* headers and leaves the body to a goroutine and a pipe.                  *)
(*                                                                         *)
(* A step that waits takes any time its timeout allows.  Parsing is        *)
(* HttpStream and HttpGet, dialling is DialRetry: here a step succeeds or  *)
(* fails.                                                                  *)
(***************************************************************************)
EXTENDS Naturals, FiniteSetsExt

CONSTANTS
  Kinds,
  Pieces,          \* writes to the pipe a body takes
  DialTimeout, RequestTimeout,
  Attempts,        \* how many dial timeouts a dial with its retries may take
  Contexts,        \* deadlines of the request's context
  Horizon          \* bound on the time modelled

NoDeadline == Horizon + 1

VARIABLES
  kind, scheme, host, dns,    \* the request
  ctx,                        \* its context's deadline
  cancelled,                  \* its context was cancelled
  now,
  dialLimit, reqLimit,        \* dialTimeout, reqTimeout
  stage,                         \* of the call
  ret,                        \* "none", "ok" or "error"
  conn,                       \* "none", "open" or "closed"
  deadline,                   \* of the connection
  worker,                     \* the goroutine: "none", "read", "write", "pipe", "close" or "done"
  sent,                       \* pieces written to the pipe
  complete,                   \* the worker's copyErr = nil
  pipe,                       \* "open", "eof" or "error"
  reader                      \* the body's reader: "none", "held", "reading" (blocked in Read), "eof", "error"
                              \* or "closed"

request == <<kind, scheme, host, dns, ctx>>
limits == <<dialLimit, reqLimit>>
flow == <<worker, sent, complete, pipe, reader>>
httpVars == <<request, cancelled, now, limits, stage, ret, conn, deadline, flow>>

\* A step may take any time up to t.
Takes(t) == \E d \in 0 .. t : now + d <= Horizon /\ now' = now + d

GoOn(l) == stage' = l /\ UNCHANGED ret
Return(r) == stage' = "done" /\ ret' = r

CtxErr == cancelled \/ now > ctx

-----------------------------------------------------------------------------
\* parseHTTPURL, parseHTTPSURL, the timeouts and their defaults; RoundTrip takes
\* what is left of the context's time if that is less.
Begin(ok) ==
  /\ stage = "begin"
  /\ IF ok THEN GoOn(IF scheme = "https" THEN "dial" ELSE "resolve") ELSE Return("error")
  /\ LET budget == IF now < ctx THEN ctx - now ELSE 0
         limit(t) == IF kind = "oras" /\ ctx # NoDeadline /\ budget > 0 THEN Min({budget, t}) ELSE t
     IN  dialLimit' = limit(DialTimeout) /\ reqLimit' = limit(RequestTimeout)
  /\ UNCHANGED <<request, cancelled, now, conn, deadline, flow>>

\* An address literal, or ResolveA within the timeout.
Resolve(ok) ==
  /\ stage = "resolve"
  /\ IF host = "name" /\ dns THEN Takes(dialLimit) ELSE UNCHANGED now
  /\ IF host = "ipv4" \/ (host = "name" /\ dns /\ ok) THEN GoOn("dial") ELSE Return("error")
  /\ UNCHANGED <<request, cancelled, limits, conn, deadline, flow>>

\* DialTCP4 or DialTLS with their retries, then SetDeadline on the TCP connection.
Dial(ok) ==
  /\ stage = "dial" /\ Takes(Attempts * dialLimit)
  /\ IF ok
     THEN GoOn("write") /\ conn' = "open" /\ deadline' = now' + reqLimit
     ELSE Return("error") /\ UNCHANGED <<conn, deadline>>
  /\ UNCHANGED <<request, cancelled, limits, flow>>

\* A wait on the connection: it ends at the deadline if not before.
TakesConn == Takes(IF deadline > now THEN deadline - now ELSE 0)

\* Close, deferred by the "get" kinds.
CloseAndReturn(r) == conn' = "closed" /\ Return(r)

\* The request is written, if RoundTrip's context has not ended.
Write(ok) ==
  /\ stage = "write"
  /\ IF kind = "oras" /\ CtxErr THEN CloseAndReturn("error") /\ UNCHANGED now
     ELSE /\ TakesConn
          /\ IF ok THEN GoOn("written") /\ UNCHANGED conn ELSE CloseAndReturn("error")
  /\ UNCHANGED <<request, cancelled, limits, deadline, flow>>

\* RoundTrip looks at its context again.
Checked ==
  /\ stage = "written"
  /\ IF kind = "oras" /\ CtxErr THEN CloseAndReturn("error") ELSE GoOn("read") /\ UNCHANGED conn
  /\ UNCHANGED <<request, cancelled, now, limits, deadline, flow>>

\* The "get" kinds read the whole response and close.
ReadAll(ok) ==
  /\ stage = "read" /\ kind = "get" /\ TakesConn
  /\ CloseAndReturn(IF ok THEN "ok" ELSE "error")
  /\ UNCHANGED <<request, cancelled, limits, deadline, flow>>

\* RoundTrip reads the headers, starts the worker and returns the pipe's end.
ReadHeaders(ok) ==
  /\ stage = "read" /\ kind = "oras" /\ TakesConn
  /\ IF ok
     THEN Return("ok") /\ worker' = "read" /\ reader' = "held" /\ UNCHANGED <<conn, pipe>>
     ELSE CloseAndReturn("error") /\ pipe' = "error" /\ UNCHANGED <<worker, reader>>
  /\ UNCHANGED <<request, cancelled, limits, deadline, sent, complete>>

-----------------------------------------------------------------------------
(* The goroutine of RoundTrip.                                             *)

\* streamBodyOnly reads: the body is complete, or there is more, or an error, also
\* after the last piece (a chunk's end or the trailer that does not come).
WorkerRead(ok) ==
  /\ worker = "read" /\ TakesConn
  /\ worker' = IF ok /\ sent # Pieces THEN "write" ELSE "pipe"
  /\ complete' = (ok /\ sent = Pieces)
  /\ UNCHANGED <<request, cancelled, limits, stage, ret, conn, deadline, sent, pipe, reader>>

\* Mutant: its write waits for a reader that has gone.
WorkerWriteDeaf ==
  /\ worker = "write" /\ reader = "eof" /\ worker' = "pipe"
  /\ UNCHANGED <<request, cancelled, now, limits, stage, ret, conn, deadline, sent, complete, pipe, reader>>

\* Its write finds the pipe closed by the reader.
WorkerWrite ==
  /\ worker = "write" /\ reader = "closed" /\ worker' = "pipe"
  /\ UNCHANGED <<request, cancelled, now, limits, stage, ret, conn, deadline, sent, complete, pipe, reader>>

\* Mutant: every end is a good end.
WorkerPipeEof ==
  /\ worker = "pipe" /\ worker' = "close" /\ pipe' = "eof"
  /\ UNCHANGED <<request, cancelled, now, limits, stage, ret, conn, deadline, sent, complete, reader>>

\* pw.Close or pw.CloseWithError.
WorkerPipe ==
  /\ worker = "pipe" /\ worker' = "close"
  /\ pipe' = IF complete THEN "eof" ELSE "error"
  /\ UNCHANGED <<request, cancelled, now, limits, stage, ret, conn, deadline, sent, complete, reader>>

\* conn.Close; bodyDone has room for the result.
WorkerClose ==
  /\ worker = "close" /\ worker' = "done" /\ conn' = "closed"
  /\ UNCHANGED <<request, cancelled, now, limits, stage, ret, deadline, sent, complete, pipe, reader>>

-----------------------------------------------------------------------------
(* The caller.                                                             *)

\* The caller blocks in Read of the pipe.
ReaderBlock ==
  /\ reader = "held" /\ reader' = "reading"
  /\ UNCHANGED <<request, cancelled, now, limits, stage, ret, conn, deadline, worker, sent, complete, pipe>>

\* A read of the body meets the worker's write.
ReaderRead ==
  /\ reader = "reading" /\ worker = "write"
  /\ worker' = "read" /\ sent' = sent + 1 /\ reader' = "held"
  /\ UNCHANGED <<request, cancelled, now, limits, stage, ret, conn, deadline, complete, pipe>>

\* A read of the body finds the writer's end closed.
ReaderEnd ==
  /\ reader = "reading" /\ pipe # "open"
  /\ reader' = pipe
  /\ UNCHANGED <<request, cancelled, now, limits, stage, ret, conn, deadline, worker, sent, complete, pipe>>

ReaderClose ==
  /\ reader = "held" /\ reader' = "closed"
  /\ UNCHANGED <<request, cancelled, now, limits, stage, ret, conn, deadline, worker, sent, complete, pipe>>

Cancel ==
  /\ kind = "oras" /\ ~cancelled /\ cancelled' = TRUE
  /\ UNCHANGED <<request, now, limits, stage, ret, conn, deadline, flow>>

HttpInit ==
  /\ kind \in Kinds /\ scheme \in {"http", "https"} /\ host \in {"ipv4", "ipv6", "name"}
  /\ dns \in BOOLEAN /\ ctx \in (IF kind = "oras" THEN Contexts \cup {NoDeadline} ELSE {NoDeadline})
  /\ cancelled = FALSE /\ now = 1 /\ dialLimit = 0 /\ reqLimit = 0
  /\ stage = "begin" /\ ret = "none" /\ conn = "none" /\ deadline = 0
  /\ worker = "none" /\ sent = 0 /\ complete = FALSE /\ pipe = "open" /\ reader = "none"

Call == \E ok \in BOOLEAN :
  Begin(ok) \/ Resolve(ok) \/ Dial(ok) \/ Write(ok) \/ Checked \/ ReadAll(ok) \/ ReadHeaders(ok)

Worker == (\E ok \in BOOLEAN : WorkerRead(ok)) \/ WorkerWrite \/ WorkerPipe \/ WorkerClose

Reader == ReaderBlock \/ ReaderRead \/ ReaderEnd \/ ReaderClose

HttpNext == Call \/ Worker \/ Reader \/ Cancel

HttpSpec == HttpInit /\ [][HttpNext]_httpVars

\* The call goes on, each of its waits having a deadline.  The goroutine is scheduled
\* while the caller runs; while the caller is blocked in Read it need not be: "the
\* producer goroutine never runs while the consumer blocks on Read, so the io.Pipe
\* deadlocks" (phase2_oci_kernel_boot.go:1002, uefiboard/doc.go:40).
HttpFairSpec ==
  HttpSpec /\ WF_httpVars(Call) /\ WF_httpVars(Worker /\ reader # "reading")

-----------------------------------------------------------------------------
\* The body's reader sees the end only of a complete body, all of whose pieces it
\* was given: a body that broke off, whatever the order of closing, is an error.
EofMeansComplete == reader = "eof" => complete /\ sent = Pieces

\* Every call returns, and once the caller has read the body to its end or closed it,
\* wherever the goroutine was then, the connection is released (RoundTrip and its
\* goroutine).  Nothing is said of a caller that stays in Read: it may wait for ever.
ConnReleased ==
  /\ <>(stage = "done")
  /\ (stage = "done" /\ reader \in {"none", "eof", "error", "closed"}) ~> (conn # "open")
=============================================================================
