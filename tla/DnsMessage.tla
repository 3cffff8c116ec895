------------------------------ MODULE DnsMessage ------------------------------
(***************************************************************************)
(* The text of DNS messages (uefiboard/ministack/dns.go): encodeDNSName    *)
(* and buildDNSQuery, and parseDNSAnswerForA with parseDNSName, which      *)
(* follows the pointers of a compressed name.  One step is one turn of a   *)
(* loop; offsets count from 0.  The two numbers that say how many records  *)
(* there are stand for the header (Dns looks at the id and the flags), one *)
(* byte for QTYPE and QCLASS, and two for what follows the name of an      *)
(* answer: whether it is an IN A record, and RDLENGTH.                     *)
(***************************************************************************)
EXTENDS Naturals, Sequences, FiniteSets
LOCAL INSTANCE SequencesExt
LOCAL INSTANCE FiniteSetsExt

CONSTANTS
  Replies,         \* messages that arrive
  Queried,         \* names that are looked up: sequences of labels, themselves of bytes
  PointerByte,     \* the first byte of a pointer: both top bits are set
  ChainMax,        \* 16 pointers
  MaxLabel,        \* dnsMaxLabelLen
  MaxName,         \* dnsMaxNameLen
  AddrLen          \* the four bytes of an address

HeaderLen == 2
QuestionTail == 1
AnswerTail == 2
TypeA == 1
NoOffset == 1000000
NoName == <<>>

VARIABLES
  query,           \* the name in the query, if the message is one of ours
  pkt,
  step,            \* "record", "name", "tail" or "done"
  item,            \* records that have been passed
  off,             \* both functions' offset
  postPointer, chainLen, labels,   \* parseDNSName
  parsed,          \* "none", "ok", "empty", "format", "loop", or "long" for a query refused
  address          \* where the address is

msgVars == <<query, pkt, step, item, off, postPointer, chainLen, labels, parsed, address>>

Byte(k) == pkt[k + 1]
IsPointer(b) == b >= PointerByte
Questions == Byte(0)
Records == Byte(0) + Byte(1)

-----------------------------------------------------------------------------
\* The labels of a name, a dot at its end cut off.
Trimmed(n) == IF Len(n) > 1 /\ Last(n) = <<>> THEN Front(n) ELSE n

Encoding(n) ==
  IF n = <<<<>>>> THEN <<0>>
  ELSE FlattenSeq([k \in DOMAIN n |-> <<Len(n[k])>> \o n[k]]) \o <<0>>

encodeDNSName(n) ==
  LET code == Encoding(Trimmed(n)) IN
  IF Len(code) > MaxName \/ \E k \in DOMAIN n : Len(n[k]) > MaxLabel THEN <<>> ELSE code

buildDNSQuery(n) == <<1, 0>> \o encodeDNSName(n) \o <<TypeA>>

Returns(r) ==
  /\ step' = "done" /\ parsed' = r
  /\ UNCHANGED <<item, off, postPointer, chainLen, labels, address>>

-----------------------------------------------------------------------------
(* parseDNSName.                                                           *)

\* The zero at the end of a name: back to where the first pointer was.
Zero ==
  /\ off < Len(pkt) /\ Byte(off) = 0
  /\ off' = IF postPointer # NoOffset THEN postPointer ELSE off + 1
  /\ step' = "tail"
  /\ UNCHANGED <<item, postPointer, chainLen, labels, parsed, address>>

\* Mutant: the place to go back to is that of the last pointer.
PointerLast ==
  /\ off < Len(pkt) /\ IsPointer(Byte(off))
  /\ \/ off + 1 >= Len(pkt) /\ Returns("format")
     \/ off + 1 < Len(pkt) /\ chainLen + 1 > ChainMax /\ Returns("loop")
     \/ /\ off + 1 < Len(pkt) /\ chainLen + 1 <= ChainMax
        /\ postPointer' = off + 2
        /\ chainLen' = chainLen + 1 /\ off' = Byte(off + 1)
        /\ UNCHANGED <<step, item, labels, parsed, address>>

\* A pointer; its second byte is the offset, messages being short.
Pointer ==
  /\ off < Len(pkt) /\ IsPointer(Byte(off))
  /\ \/ off + 1 >= Len(pkt) /\ Returns("format")
     \/ off + 1 < Len(pkt) /\ chainLen + 1 > ChainMax /\ Returns("loop")
     \/ /\ off + 1 < Len(pkt) /\ chainLen + 1 <= ChainMax
        /\ postPointer' = IF postPointer = NoOffset THEN off + 2 ELSE postPointer
        /\ chainLen' = chainLen + 1 /\ off' = Byte(off + 1)
        /\ UNCHANGED <<step, item, labels, parsed, address>>

Label ==
  /\ off < Len(pkt) /\ Byte(off) # 0 /\ ~IsPointer(Byte(off))
  /\ LET next == off + 1 + Byte(off) IN
     \/ next > Len(pkt) /\ Returns("format")
     \/ /\ next <= Len(pkt)
        /\ labels' = Append(labels, SubSeq(pkt, off + 2, next)) /\ off' = next
        /\ UNCHANGED <<step, item, postPointer, chainLen, parsed, address>>

parseDNSName ==
  step = "name" /\ (Zero \/ Pointer \/ Label \/ (off >= Len(pkt) /\ Returns("format")))

-----------------------------------------------------------------------------
(* parseDNSAnswerForA.                                                     *)

\* The next record, if there is one.
Record ==
  /\ step = "record"
  /\ \/ Len(pkt) < HeaderLen /\ Returns("format")
     \/ Len(pkt) >= HeaderLen /\ item = Records /\ Returns("empty")
     \/ /\ Len(pkt) >= HeaderLen /\ item < Records
        /\ step' = "name" /\ postPointer' = NoOffset /\ chainLen' = 0 /\ labels' = <<>>
        /\ UNCHANGED <<item, off, parsed, address>>

\* What follows the name of a question is skipped.
SkipQuestion ==
  /\ step = "tail" /\ item < Questions
  /\ \/ off + QuestionTail > Len(pkt) /\ Returns("format")
     \/ /\ off + QuestionTail <= Len(pkt)
        /\ off' = off + QuestionTail /\ item' = item + 1 /\ step' = "record"
        /\ UNCHANGED <<postPointer, chainLen, labels, parsed, address>>

\* An answer: the first address ends the search.
ReadAnswer ==
  /\ step = "tail" /\ item >= Questions
  /\ LET data == off + AnswerTail
         fits == data <= Len(pkt) /\ data + Byte(off + 1) <= Len(pkt)
     IN \/ ~fits /\ Returns("format")
        \/ /\ fits
           /\ IF Byte(off) = TypeA /\ Byte(off + 1) = AddrLen
              THEN step' = "done" /\ parsed' = "ok" /\ address' = data /\ UNCHANGED <<off, item>>
              ELSE off' = data + Byte(off + 1) /\ item' = item + 1 /\ step' = "record" /\ UNCHANGED <<parsed, address>>
           /\ UNCHANGED <<postPointer, chainLen, labels>>

\* A reply, or a query of ours as its receiver reads it.
MsgInit ==
  /\ \/ query = NoName /\ pkt \in Replies /\ step = "record" /\ parsed = "none"
     \/ /\ query \in Queried /\ pkt = buildDNSQuery(query)
        /\ IF encodeDNSName(query) = <<>> THEN step = "done" /\ parsed = "long"
           ELSE step = "record" /\ parsed = "none"
  /\ item = 0 /\ off = HeaderLen /\ postPointer = NoOffset /\ chainLen = 0
  /\ labels = <<>> /\ address = 0

MsgNext ==
  (Record \/ parseDNSName \/ SkipQuestion \/ ReadAnswer) /\ UNCHANGED <<query, pkt>>

MsgSpec == MsgInit /\ [][MsgNext]_msgVars /\ WF_msgVars(MsgNext)

-----------------------------------------------------------------------------
(* The format: where a name ends and where each record begins.             *)

\* The part of a name that comes after the one at k.
After(k) ==
  IF k >= Len(pkt) THEN NoOffset
  ELSE IF IsPointer(Byte(k)) THEN IF k + 1 < Len(pkt) THEN Byte(k + 1) ELSE NoOffset
  ELSE IF k + Byte(k) + 1 <= Len(pkt) THEN k + Byte(k) + 1 ELSE NoOffset

\* A name reaches a zero over at most ChainMax pointers, and takes its place in the
\* message up to that zero or its first pointer.
NameEnd(k) ==
  LET PartsMax == (ChainMax + 1) * (Len(pkt) + 1)
      Part[n \in 0 .. PartsMax] == IF n = 0 THEN k ELSE After(Part[n - 1])
      zeros == {n \in 0 .. PartsMax : Part[n] < Len(pkt) /\ Byte(Part[n]) = 0}
      pointers == {n \in 0 .. Min(zeros) : IsPointer(Byte(Part[n]))}
  IN  IF zeros = {} \/ Cardinality(pointers) > ChainMax THEN NoOffset
      ELSE IF pointers = {} THEN Part[Min(zeros)] + 1 ELSE Part[Min(pointers)] + 2

\* The record after the one whose number is i and whose name ends at e.
RecordEnd(i, e) ==
  LET end == IF i < Questions THEN e + QuestionTail
             ELSE IF e + AnswerTail > Len(pkt) THEN NoOffset ELSE e + AnswerTail + Byte(e + 1)
  IN  IF end > Len(pkt) THEN NoOffset ELSE end

\* The answer is the address in the first A record, and is given if and only if all
\* that stands before it is well formed; "no answer" means that every record was read
\* and none is an A record.  Pointers may cross, lead into the header or in a circle,
\* and lengths may end anywhere (parseDNSAnswerForA, parseDNSName).  A query of ours
\* is read back by its receiver as the name that was asked for, unless that has an
\* empty label inside.
AnswerIsFirstA ==
  /\ step = "done" /\ Len(pkt) >= HeaderLen /\ parsed # "long" =>
       LET Begin[i \in 0 .. Records] ==
             IF i = 0 THEN HeaderLen ELSE RecordEnd(i - 1, NameEnd(Begin[i - 1]))
           A == {i \in Questions .. Records - 1 : Begin[i + 1] # NoOffset /\
                   LET e == NameEnd(Begin[i]) IN Byte(e) = TypeA /\ Byte(e + 1) = AddrLen}
       IN  /\ parsed = "ok" <=> A # {}
           /\ parsed = "ok" => address = NameEnd(Begin[Min(A)]) + AnswerTail
           /\ parsed = "empty" <=> A = {} /\ Begin[Records] # NoOffset
  /\ query # NoName /\ step = "tail" /\ (\A k \in DOMAIN Trimmed(query) : Trimmed(query)[k] # <<>>)
     => labels = Trimmed(query)

\* Reading ends on every message, whatever its pointers (the cap of 16 in parseDNSName).
ParseEnds == step = "name" ~> step = "done"
=============================================================================
