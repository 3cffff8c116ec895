------------------------------ MODULE HttpStream ------------------------------
(***************************************************************************)
(* Streaming an HTTP response into a writer: lineReader and                *)
(* streamHTTPResponseHeaders of ministack/http.go, and their copies in     *)
(* ministack/orasoci/transport.go.                                         *)
(*                                                                         *)
(* The server sends the text of a response or a part of it, and then       *)
(* closes or the connection fails; the network cuts what was sent into     *)
(* reads of any length.  A text is a sequence of symbols: a status line is *)
(* "S" or, for a redirect, "R"; a header is "L0", "L1", ...                *)
(* (Content-Length), "T" (Transfer-Encoding: chunked) or "X"; a chunk size *)
(* is a digit, or "H" for 2^63 or more; "CR", "LF" and the symbols of Data *)
(* stand for themselves.                                                   *)
(***************************************************************************)
EXTENDS Naturals, SequencesExt, FiniteSetsExt

CONSTANTS
  Responses,   \* what the server may send
  Buffer,      \* streamReadBufBytes
  LineMax,     \* HTTPLineMaxBytes
  Rooms,       \* what a writer accepts before it fails
  Clients,     \* "ministack", "orasoci", or "get": the buffered client of HttpGet
  Transports   \* "tcp" or "tls"

VARIABLES
  rsp,         \* the response the server sends
  client, transport,
  room,        \* what the writer accepts
  wire,        \* what was sent and not yet read
  whole,       \* ghost: the server sent all of it
  end,         \* how the connection ends: "close" or "error"
  buf,         \* lineReader: buf[pos:end]
  acc,         \* ReadLine: the part of the line found so far
  pc,          \* what the client reads: a line, and which one, or the body
  mode,        \* how the body ends: "close", "length" or "chunked"
  redirect,    \* the status is 3xx
  left,        \* total - written, or remaining of the chunk
  dst,         \* what the writer got
  written,     \* the count to be returned
  result,      \* "none", "ok" or "error"
  split        \* ghost: a read for a line has ended between CR and LF

fixed == <<rsp, client, transport, room, whole, end>>
vars == <<fixed, wire, buf, acc, pc, mode, redirect, left, dst, written, result, split>>

Data == {"a", "b", "c"}
Digits == <<"0", "1", "2", "3">>
Lengths == <<"L0", "L1", "L2", "L3">>
CRLF == <<"CR", "LF">>

\* What a symbol of a size line or a Content-Length header is worth.
ValueOf(digits, symbol) == (CHOOSE k \in DOMAIN digits : digits[k] = symbol) - 1

Chunk(size, data) == <<size>> \o CRLF \o data \o CRLF

\* What a server sends: kind "length", "chunked", "close" or, with chunk sizes that no
\* data can have, "huge"; the pieces the body is made of; whether the server redirects;
\* by how much one header is longer; and the length of a trailer.
Text(r) ==
  LET status == IF r.redirect THEN "R" ELSE "S"
      body == FlattenSeq(r.pieces)
      pad == [k \in 1 .. r.pad |-> "X"]
      trailer == IF r.trailer = 0 THEN <<>> ELSE [k \in 1 .. r.trailer |-> "X"] \o CRLF
      Size(piece) == IF r.kind = "huge" THEN "H" ELSE Digits[Len(piece) + 1]
      Top(headers) == <<status>> \o CRLF \o pad \o
        FlattenSeq([k \in DOMAIN headers |-> <<headers[k]>> \o CRLF]) \o CRLF
  IN  CASE r.kind = "length" -> Top(<<"X", Lengths[Len(body) + 1]>>) \o body
        [] r.kind \in {"chunked", "huge"} -> Top(<<"T">>) \o
             FlattenSeq([k \in DOMAIN r.pieces |-> Chunk(Size(r.pieces[k]), r.pieces[k])]) \o
             <<"0">> \o CRLF \o trailer \o CRLF
        [] r.kind = "close" -> Top(<<"X">>) \o body

\* strings.TrimSpace at the end of a line.
TrimSpace(line) == IF line # <<>> /\ Last(line) = "CR" THEN Front(line) ELSE line

-----------------------------------------------------------------------------
Fail == pc' = "done" /\ result' = "error"
Succeed == pc' = "done" /\ result' = "ok"

\* The lengths a read from the connection may have.
ReadLens(max) == 1 .. Min({max, Len(wire)})

\* Where lineReader and the connection meet: which error is the end of a body?
\* TCP4Conn.Read returns errTCP4PeerClosed, known to package ministack only.
IsEOF == end = "close" /\ (client = "ministack" \/ transport = "tls")

-----------------------------------------------------------------------------
(* What is done with a line.                                               *)

\* The status line.
StatusLine(line) ==
  /\ IF Len(line) > 0 /\ line[1] \in {"S", "R"}
     THEN pc' = "header" /\ redirect' = (line[1] = "R") /\ UNCHANGED result
     ELSE Fail /\ UNCHANGED redirect
  /\ UNCHANGED <<mode, left>>

\* After the last header; chunked wins over Content-Length.
BeginBody ==
  /\ IF mode = "length" /\ left = 0 THEN Succeed
     ELSE pc' = (IF mode = "chunked" THEN "size" ELSE "body") /\ UNCHANGED result
  /\ UNCHANGED <<mode, left, redirect>>

HeaderLine(line) ==
  LET h == TrimSpace(line) IN
  IF line = <<>> THEN BeginBody
  ELSE /\ IF h = <<>> THEN Fail                             \* no colon in it
          ELSE UNCHANGED <<pc, result>>
       /\ mode' = IF h = <<"T">> THEN "chunked"
                  ELSE IF h # <<>> /\ h[1] \in Range(Lengths) /\ mode = "close" THEN "length" ELSE mode
       /\ left' = IF h # <<>> /\ h[1] \in Range(Lengths) THEN ValueOf(Lengths, h[1]) ELSE left
       /\ UNCHANGED redirect

\* The line with the size of a chunk.  int64(size) is negative from 2^63 on, and the
\* loop over the data is not entered.
SizeLine(line) ==
  LET h == TrimSpace(line) IN
  /\ IF h = <<"H">> THEN left' = 0 /\ pc' = "crlf" /\ UNCHANGED result
     ELSE IF Len(h) # 1 \/ h[1] \notin Range(Digits) THEN Fail /\ UNCHANGED left
     ELSE /\ left' = ValueOf(Digits, h[1])
          /\ pc' = IF left' = 0 THEN "trailer" ELSE "body"
          /\ UNCHANGED result
  /\ UNCHANGED <<mode, redirect>>

\* The trailer ends with an empty line.
TrailerLine(line) ==
  /\ IF line = <<>> THEN Succeed ELSE UNCHANGED <<pc, result>>
  /\ UNCHANGED <<mode, left, redirect>>

\* A redirect's body goes to io.Discard, except in orasoci, which hands it on.
Discards == redirect /\ client = "ministack"

UseLine(line) ==
  CASE pc = "status" -> StatusLine(line)
    [] pc = "header" -> HeaderLine(line)
    [] pc = "size" -> SizeLine(line)
    [] pc = "trailer" -> TrailerLine(line)
    [] pc = "crlf" -> pc' = "size" /\ UNCHANGED <<mode, left, redirect, result>>

-----------------------------------------------------------------------------
ReadsLine == pc \in {"status", "header", "size", "trailer", "crlf"}
HasLF == \E k \in DOMAIN buf : buf[k] = "LF"

\* ReadLine returns an error, which the trailer of a chunked body takes for its end.
LineFails == IF pc = "trailer" THEN Succeed ELSE Fail

\* ReadLine finds a line feed in the buffer: CR is taken off the part of the line
\* that is in the buffer.
LineFound ==
  /\ ReadsLine /\ HasLF
  /\ LET k == Min({j \in DOMAIN buf : buf[j] = "LF"})
         line == acc \o TrimSpace(SubSeq(buf, 1, k - 1))
     IN  /\ buf' = SubSeq(buf, k + 1, Len(buf))
         /\ IF Len(line) > LineMax THEN LineFails /\ UNCHANGED <<mode, left, redirect>>
            ELSE UseLine(line)
  /\ acc' = <<>>
  /\ UNCHANGED <<fixed, wire, dst, written, split>>

\* The part of a line kept is too long already.
OverCap == Len(acc \o buf) > LineMax

\* It does not, keeps what is there and fills the buffer anew.
LineFill ==
  /\ ReadsLine /\ ~HasLF
  /\ acc' = acc \o buf
  /\ IF OverCap THEN LineFails /\ UNCHANGED <<wire, buf, split>>
     ELSE \E n \in ReadLens(Buffer) :
            /\ buf' = SubSeq(wire, 1, n) /\ wire' = SubSeq(wire, n + 1, Len(wire))
            /\ split' = (split \/ (n < Len(wire) /\ wire[n] = "CR"))
            /\ UNCHANGED <<pc, result>>
  /\ UNCHANGED <<fixed, mode, redirect, left, dst, written>>

\* The connection ends instead.
LineEnds ==
  /\ ReadsLine /\ ~HasLF /\ wire = <<>> /\ ~OverCap
  /\ LineFails
  /\ acc' = acc \o buf /\ buf' = <<>>
  /\ UNCHANGED <<fixed, wire, mode, redirect, left, dst, written, split>>

\* What follows n more bytes of the body.
AfterBody(n, short) ==
  IF short THEN Fail
  ELSE IF mode = "close" \/ left - n > 0 THEN UNCHANGED <<pc, result>>
  ELSE IF mode = "length" THEN Succeed
  ELSE pc' = "crlf" /\ UNCHANGED result

\* How much a turn of the loop asks for.
Want == IF mode = "close" THEN Buffer ELSE Min({left, Buffer})

\* streamBoundedBody, streamIdentityBody and streamChunkedBody: one turn of the
\* loop, from lineReader's buffer if it holds anything; io.Discard takes all.
BodyRead ==
  /\ pc = "body"
  /\ \E n \in IF buf # <<>> THEN {Min({Want, Len(buf)})} ELSE ReadLens(Want) :
           LET data == SubSeq(buf \o wire, 1, n)
               fits == IF Discards THEN n ELSE Min({n, room - Len(dst)})
           IN  /\ buf' = IF buf # <<>> THEN SubSeq(buf, n + 1, Len(buf)) ELSE buf
               /\ wire' = IF buf # <<>> THEN wire ELSE SubSeq(wire, n + 1, Len(wire))
               /\ dst' = IF Discards THEN dst ELSE dst \o SubSeq(data, 1, fits)
               /\ written' = IF Discards THEN 0 ELSE written + fits
               /\ left' = IF mode = "close" THEN left ELSE left - n
               /\ AfterBody(n, fits < n)
  /\ UNCHANGED <<fixed, acc, mode, redirect, split>>

\* Mutant: the end of the connection ends every body well.
BodyEndsWell ==
  /\ pc = "body" /\ buf = <<>> /\ wire = <<>>
  /\ IF IsEOF THEN Succeed ELSE Fail
  /\ UNCHANGED <<fixed, wire, buf, acc, mode, redirect, left, dst, written, split>>

\* The connection ends: well for a body without a length, else too early.
BodyEnds ==
  /\ pc = "body" /\ buf = <<>> /\ wire = <<>>
  /\ IF mode = "close" /\ IsEOF THEN Succeed ELSE Fail
  /\ UNCHANGED <<fixed, wire, buf, acc, mode, redirect, left, dst, written, split>>

Init ==
  /\ rsp \in Responses /\ client \in Clients /\ transport \in Transports /\ room \in Rooms
  /\ \E n \in 0 .. Len(Text(rsp)) :
       wire = SubSeq(Text(rsp), 1, n) /\ whole = (n = Len(Text(rsp)))
  /\ end \in {"close", "error"}
  /\ pc = IF client = "get" THEN "read" ELSE "status"
  /\ buf = <<>> /\ acc = <<>> /\ mode = "close" /\ redirect = FALSE
  /\ left = 0 /\ dst = <<>> /\ written = 0 /\ result = "none" /\ split = FALSE

Step == LineFound \/ LineFill \/ LineEnds \/ BodyRead \/ BodyEnds

-----------------------------------------------------------------------------
Body == FlattenSeq(rsp.pieces)

\* Success means the whole body, when the response says where it ends, however the
\* connection was cut; without a length it means all that came before the close.
\* Nothing of a redirect's body reaches the writer.  At any time the writer holds a
\* beginning of the body, no byte of the framing, and as many as the caller is told.
\* Chunks whose size is 2^63 or more are the exception: they are skipped.
SuccessIsWhole ==
  /\ IsPrefix(dst, Body) /\ written = Len(dst)
  /\ result = "ok" /\ client # "get" =>
       IF Discards THEN dst = <<>>
       ELSE IF rsp.kind = "close" THEN end = "close" /\ buf = <<>> /\ wire = <<>> /\ (whole => dst = Body)
       ELSE rsp.kind # "huge" => dst = Body

\* A response that arrives whole is accepted whatever its framing and however it
\* was cut into reads, as long as the writer takes it and no header is too long.
\* Two exceptions are the code's: a read for a line that ends between CR and LF,
\* and in orasoci a body without a length over plain TCP.
WholeIsAccepted ==
  /\ pc = "done" /\ client # "get" /\ whole /\ rsp.kind # "huge" /\ end = "close" /\ ~split
  /\ Len(Body) <= room /\ rsp.pad < LineMax /\ (rsp.kind = "close" => IsEOF)
  => result = "ok"

\* Both clients deliver a body if and only if it is whole, but for the exceptions above
\* (streamBoundedBody, streamIdentityBody, streamChunkedBody and their copies in orasoci).
DeliveredIffWhole == SuccessIsWhole /\ WholeIsAccepted
=============================================================================
