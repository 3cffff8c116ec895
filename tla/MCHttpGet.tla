------------------------------- MODULE MCHttpGet -------------------------------
(* The three HTTP clients with bodies of up to three bytes, chunks whose size   *)
(* overflows, and trailers within and beyond the cap on lines; the last response *)
(* has a header beyond that cap and is larger than the cap on responses.         *)
EXTENDS HttpGet

Rsp(kind, pieces, redirected) == [kind |-> kind, pieces |-> pieces, redirect |-> redirected, pad |-> 0, trailer |-> 0]

MCResponses ==
  {Rsp("length", <<<<"a", "b", "c">>>>, FALSE), Rsp("length", <<>>, FALSE),
   Rsp("length", <<<<"a", "b">>>>, TRUE), Rsp("close", <<<<"a", "b">>>>, FALSE),
   Rsp("chunked", <<<<"a", "b">>, <<"c">>>>, FALSE), Rsp("chunked", <<>>, FALSE),
   Rsp("huge", <<<<"a">>>>, FALSE),
   [Rsp("chunked", <<<<"a">>>>, FALSE) EXCEPT !.trailer = 2], [Rsp("chunked", <<<<"a">>>>, FALSE) EXCEPT !.trailer = 7],
   [Rsp("close", <<<<"a">>>>, FALSE) EXCEPT !.pad = 16]}
=============================================================================
