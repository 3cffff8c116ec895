-------------------------------- MODULE HttpGet --------------------------------
(***************************************************************************)
(* The buffered GET: readHTTPResponse and readHTTPSResponse collect what   *)
(* comes until the connection ends, and parseHTTPResponse takes it apart   *)
(* (ministack/http.go, https.go).  It is the third client of HttpStream's  *)
(* environment; the body of its result is dst.                             *)
(***************************************************************************)
EXTENDS HttpStream

CONSTANTS
  ChunkMax,        \* the 4096 bytes of one read
  MaxResponse      \* HTTPMaxResponseBytes

VARIABLE all       \* what was collected

stream == <<buf, acc, mode, redirect, left, split>>
getVars == <<vars, all>>

-----------------------------------------------------------------------------
(* parseHTTPResponse.                                                      *)

\* bytes.Index: the places at or after pos where sep begins.
Places(raw, sep, pos) ==
  {k \in pos .. Len(raw) - Len(sep) + 1 : SubSeq(raw, k, k + Len(sep) - 1) = sep}

Bad == [ok |-> FALSE, body |-> <<>>]
Good(b) == [ok |-> TRUE, body |-> b]

\* decodeChunked.
DecodeChunked(raw) ==
  LET F[pos \in 1 .. Len(raw) + 1] ==
        LET eol == Places(raw, CRLF, pos)
            size == IF eol = {} THEN <<>> ELSE SubSeq(raw, pos, Min(eol) - 1)
            n == ValueOf(Digits, size[1])
            next == Min(eol) + 2
        IN  IF eol = {} \/ Len(size) # 1 \/ size[1] \notin Range(Digits) THEN Bad
            ELSE IF n = 0 THEN Good(<<>>)
            ELSE IF next - 1 + n + 2 > Len(raw) THEN Bad
            ELSE [F[next + n + 2] EXCEPT !.body = SubSeq(raw, next, next + n - 1) \o @]
  IN  F[1]

\* The body by Transfer-Encoding, else by Content-Length (of a body cut short, what
\* is there), else the rest.
DecodeBody(headers, rest) ==
  LET lengths == {k \in DOMAIN Lengths : Lengths[k] \in Range(headers)} IN
  IF "T" \in Range(headers) THEN DecodeChunked(rest)
  ELSE IF lengths = {} THEN Good(rest)
  ELSE Good(SubSeq(rest, 1, Min({Min(lengths) - 1, Len(rest)})))

ParseResponse(raw) ==
  LET sep == Places(raw, CRLF \o CRLF, 1)
      head == SubSeq(raw, 1, Min(sep) - 1)
  IN  IF sep = {} THEN Bad
      ELSE IF head = <<>> \/ head[1] \notin {"S", "R"} THEN Bad
      ELSE DecodeBody(SelectSeq(Tail(head), LAMBDA x : x \notin Range(CRLF)),
                      SubSeq(raw, Min(sep) + 4, Len(raw)))

-----------------------------------------------------------------------------
\* A read with data; too many of them are an error.
Read ==
  /\ pc = "read" /\ wire # <<>>
  /\ \E n \in 1 .. Min({ChunkMax, Len(wire)}) :
       /\ wire' = SubSeq(wire, n + 1, Len(wire))
       /\ IF Len(all) + n > MaxResponse
          THEN pc' = "done" /\ result' = "error" /\ UNCHANGED all
          ELSE all' = all \o SubSeq(wire, 1, n) /\ UNCHANGED <<pc, result>>
  /\ UNCHANGED <<fixed, stream, dst, written>>

\* The connection ends.  Any error counts as an end once there is data.
ReadEnds ==
  /\ pc = "read" /\ wire = <<>>
  /\ IF end = "error" /\ all = <<>>
     THEN result' = "error" /\ UNCHANGED <<dst, written>>
     ELSE LET parsed == ParseResponse(all) IN
          /\ result' = IF parsed.ok THEN "ok" ELSE "error"
          /\ dst' = parsed.body /\ written' = Len(parsed.body)
  /\ pc' = "done"
  /\ UNCHANGED <<fixed, stream, wire, all>>

GetInit == Init /\ all = <<>>

GetStep == Read \/ ReadEnds \/ (Step /\ UNCHANGED all)

Finished == pc = "done" /\ UNCHANGED getVars

GetNext == GetStep \/ Finished

GetSpec == GetInit /\ [][GetNext]_getVars

-----------------------------------------------------------------------------
\* A result is made of body bytes only, however the response was cut into reads; a
\* chunked one is complete whatever happened to the connection.  Of the responses
\* that arrive whole the ones within the cap are accepted (HTTPMaxResponseBytes); a
\* chunk size beyond 32 bits is refused (decodeChunked).
GetBody ==
  client = "get" =>
    /\ result = "ok" => IsPrefix(dst, Body) /\ (whole \/ rsp.kind = "chunked" => dst = Body)
    /\ rsp.kind = "huge" => result # "ok"
    /\ pc = "done" /\ whole /\ rsp.kind # "huge" => (result = "ok" <=> Len(Text(rsp)) <= MaxResponse)

\* All clients together: a body is delivered if and only if it is whole, as far as the
\* framing can tell (streamHTTPResponseHeaders, readHTTPResponse, streamBodyOnly).
BodiesWhole == DeliveredIffWhole /\ GetBody
=============================================================================
