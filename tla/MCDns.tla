--------------------------------- MODULE MCDns ---------------------------------
(* Dns with two callers and rxLoop; and DnsMessage over the replies of up to    *)
(* seven bytes, over longer ones whose names point to earlier ones, and over    *)
(* queries.  Only one of the two is in motion.                                  *)
EXTENDS Dns, DnsMessage

CONSTANTS p1, p2

VARIABLE part

MCWanted == [p \in Procs |-> IF p = p1 THEN {"n1"} ELSE {"n2"}]
MCConn == Procs \X (1 .. Queries)
MCDispatcher == Procs \cup {Rx}

\* 9 is the first byte of a pointer.
MCReplies ==
  {<<>>, <<1>>} \cup
  {<<q, a>> \o body : q \in 0 .. 1, a \in 0 .. 2, body \in UNION {[1 .. n -> {0, 1, 2, 9}] : n \in 0 .. 5}} \cup
  {<<1, 2, 1, 5, 0, 1, 9, x, t, 1, 7, 9, y, 1, l, 8>> : x, y \in {0, 2, 4, 6, 11, 13}, t \in 1 .. 2, l \in 0 .. 2}
MCQueried ==
  {<<<<>>>>, <<<<>>, <<>>>>, <<<<5>>, <<5, 6>>>>, <<<<5>>, <<6>>, <<>>>>, <<<<5>>, <<>>, <<6>>>>, <<<<5, 6, 7>>>>,
   <<<<5>>, <<6>>, <<7>>>>}

mcVars == <<part, dnsVars, msgVars>>

MCInit ==
  /\ part \in {"resolve", "message"}
  /\ DnsInit /\ MsgInit /\ (part = "resolve" => pkt = <<>>)

MCNext ==
  /\ UNCHANGED part
  /\ \/ part = "resolve" /\ DnsNext /\ UNCHANGED msgVars
     \/ part = "message" /\ MsgNext /\ UNCHANGED dnsVars

MCSpec ==
  /\ MCInit /\ [][MCNext]_mcVars
  /\ \A p \in Procs : WF_dnsVars(~panic /\ Step(p))
  /\ WF_msgVars(part = "message" /\ MsgNext)

\* Every call of ResolveA returns (its deadline), and so does the reading of every
\* message (the cap on pointers).
EveryCallEnds == CallEnds /\ ParseEnds
=============================================================================
