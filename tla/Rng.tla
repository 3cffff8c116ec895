--------------------------------- MODULE Rng ---------------------------------
(***************************************************************************)
(* The EFI_RNG_PROTOCOL publisher (uefiboard/rng_protocol.go and           *)
(* rng_protocol_tamago.go): PublishRNG, UnpublishRNG and UninstallAllRNG   *)
(* over the firmware's handle database, and what the handlers answer.      *)
(*                                                                         *)
(* The registry knows a protocol by its address only.  The memory of a     *)
(* protocol is held by publishedRNGs; once nothing there refers to it, its *)
(* address may be given to another one, and a handle that carries no       *)
(* protocol any more may be given out again by the firmware.  A consumer   *)
(* may call through any pointer it ever got, also between two firmware     *)
(* calls of a publish.                                                     *)
(***************************************************************************)
EXTENDS Naturals, FiniteSets

CONSTANTS
  RngSlots,     \* indices of rngRegistry
  Handles,      \* firmware handles
  Addresses,    \* addresses of Go-side protocols
  Lengths,      \* numbers of bytes asked for
  Period,       \* bound: states of the xorshift generator
  Null

Firmware == "firmware"   \* an interface of the firmware's own

ASSUME RngAssumption == Null \notin Addresses \cup {Firmware} /\ Firmware \notin Addresses

VARIABLES
  rngDb,           \* handle -> the RNG interface on it, or Null
  rngRegistry,     \* slot -> the address of its protocol, or Null
  publishedRNGs,   \* handle -> [proto, slot]
  rngOp,           \* the call under way: [pc, todo, proto, slot, handle]
  rngResult,       \* of the latest call
  rngLeft,         \* ghost: did the latest call leave an interface it tried to remove?
  rngLost,         \* ghost: has a removal taken away an interface of ours?
  rngDead,         \* ghost: addresses UnpublishRNG has taken out of use
  rngState,        \* rngXorshiftState, counted from the seed
  rngReply         \* the latest answer of GetRNG: [this, n, status]

rngVars == <<rngDb, rngRegistry, publishedRNGs, rngOp, rngResult, rngLeft, rngLost, rngDead, rngState, rngReply>>

NoState == [proto |-> Null, slot |-> 0]
RngIdle == [pc |-> "idle", todo |-> {}, proto |-> Null, slot |-> 0, handle |-> Null]
NoReply == [this |-> Null, n |-> 0, status |-> "none"]

Carrying == {h \in Handles : rngDb[h] # Null}

-----------------------------------------------------------------------------
\* The handlers.

\* The scan for a live publisher with this address.
Served(this) == this # Null /\ \E s \in RngSlots : rngRegistry[s] = this

\* readXorshiftTamago: one step of the generator for every eight bytes; it never
\* returns fewer bytes than were asked for.
Advanced(n) == (rngState + (n + 7) \div 8) % Period

\* rngGetRNGGo with a buffer for n bytes.
GetRNG(this, n) ==
  LET status == IF n = 0 THEN "invalidParameter" ELSE IF Served(this) THEN "success" ELSE "notFound"
  IN  /\ rngReply' = [this |-> this, n |-> n, status |-> status]
      /\ rngState' = IF status = "success" THEN Advanced(n) ELSE rngState
      /\ UNCHANGED <<rngDb, rngRegistry, publishedRNGs, rngOp, rngResult, rngLeft, rngLost, rngDead>>

\* rngGetInfoGo: the size of the list is told before the publisher is looked for.
GetInfo(this, room) ==
  /\ rngReply' = [this |-> this, n |-> 0, status |->
       IF ~room THEN "bufferTooSmall" ELSE IF Served(this) THEN "success" ELSE "notFound"]
  /\ UNCHANGED <<rngDb, rngRegistry, publishedRNGs, rngOp, rngResult, rngLeft, rngLost, rngDead, rngState>>

-----------------------------------------------------------------------------
\* PublishRNG and UninstallAllRNG begin with the handles that carry the protocol; a
\* LocateHandleBuffer that fails finds none.
Locate(kind, found) ==
  /\ rngOp.pc = "idle"
  /\ rngOp' = [RngIdle EXCEPT !.pc = kind, !.todo = IF found THEN Carrying ELSE {}]
  /\ rngLeft' = (~found /\ Carrying # {})
  /\ rngResult' = "none" /\ rngReply' = NoReply
  /\ UNCHANGED <<rngDb, rngRegistry, publishedRNGs, rngLost, rngDead, rngState>>

\* One of them loses its interface, unless HandleProtocol or the firmware refuses.
Yank(h, removed) ==
  /\ rngOp.pc \in {"publish", "uninstallAll"} /\ h \in rngOp.todo
  /\ rngOp' = [rngOp EXCEPT !.todo = @ \ {h}]
  /\ rngDb' = IF removed THEN [rngDb EXCEPT ![h] = Null] ELSE rngDb
  /\ rngLeft' = (rngLeft \/ ~removed)
  /\ rngLost' = (rngLost \/ (removed /\ rngDb[h] # Firmware))
  /\ rngReply' = NoReply
  /\ UNCHANGED <<rngRegistry, publishedRNGs, rngResult, rngDead, rngState>>

\* UninstallAllRNG returns.
Yanked ==
  /\ rngOp.pc = "uninstallAll" /\ rngOp.todo = {}
  /\ rngOp' = RngIdle /\ rngResult' = "ok"
  /\ UNCHANGED <<rngDb, rngRegistry, publishedRNGs, rngLeft, rngLost, rngDead, rngState, rngReply>>

\* The scan for the first free slot.
FreeRng == {s \in RngSlots : rngRegistry[s] = Null /\ \A u \in RngSlots : u < s => rngRegistry[u] # Null}

\* It takes the new protocol.
ReserveRng(p) ==
  /\ rngOp.pc = "publish" /\ rngOp.todo = {}
  /\ p \notin {publishedRNGs[h].proto : h \in Handles}
  /\ IF FreeRng = {} THEN rngOp' = RngIdle /\ rngResult' = "full" /\ UNCHANGED <<rngRegistry, rngDead>>
     ELSE \E s \in FreeRng :
            /\ rngRegistry' = [rngRegistry EXCEPT ![s] = p]
            /\ rngOp' = [rngOp EXCEPT !.pc = "install", !.proto = p, !.slot = s]
            /\ rngDead' = rngDead \ {p} /\ UNCHANGED rngResult
  /\ rngReply' = NoReply
  /\ UNCHANGED <<rngDb, publishedRNGs, rngLeft, rngLost, rngState>>

\* InstallProtocolInterface puts the protocol on a fresh handle.
InstallRng(h) ==
  /\ rngOp.pc = "install" /\ rngDb[h] = Null
  /\ rngDb' = [rngDb EXCEPT ![h] = rngOp.proto]
  /\ rngOp' = [rngOp EXCEPT !.pc = "record", !.handle = h]
  /\ rngReply' = NoReply
  /\ UNCHANGED <<rngRegistry, publishedRNGs, rngResult, rngLeft, rngLost, rngDead, rngState>>

InstallRngRefused ==
  /\ rngOp.pc = "install"
  /\ rngRegistry' = [rngRegistry EXCEPT ![rngOp.slot] = Null]
  /\ rngOp' = RngIdle /\ rngResult' = "error" /\ rngReply' = NoReply
  /\ UNCHANGED <<rngDb, publishedRNGs, rngLeft, rngLost, rngDead, rngState>>

RecordRng ==
  /\ rngOp.pc = "record"
  /\ publishedRNGs' = [publishedRNGs EXCEPT ![rngOp.handle] = [proto |-> rngOp.proto, slot |-> rngOp.slot]]
  /\ rngOp' = RngIdle /\ rngResult' = "published"
  /\ UNCHANGED <<rngDb, rngRegistry, rngLeft, rngLost, rngDead, rngState, rngReply>>

\* UnpublishRNG: the firmware removes the interface only if it is the one on the handle;
\* when it refuses, nothing changes.
UninstallRng(h) ==
  /\ rngOp.pc = "idle" /\ publishedRNGs[h] # NoState
  /\ rngDb[h] = publishedRNGs[h].proto
  /\ rngDb' = [rngDb EXCEPT ![h] = Null]
  /\ rngOp' = [RngIdle EXCEPT !.pc = "clear", !.handle = h]
  /\ rngResult' = "none" /\ rngReply' = NoReply
  /\ UNCHANGED <<rngRegistry, publishedRNGs, rngLeft, rngLost, rngDead, rngState>>

\* Mutant: the slot stays.
ClearRngStateOnly ==
  /\ rngOp.pc = "clear"
  /\ publishedRNGs' = [publishedRNGs EXCEPT ![rngOp.handle] = NoState]
  /\ rngDead' = rngDead \cup {publishedRNGs[rngOp.handle].proto}
  /\ rngOp' = RngIdle /\ rngResult' = "ok" /\ rngReply' = NoReply
  /\ UNCHANGED <<rngDb, rngRegistry, rngLeft, rngLost, rngState>>

ClearRng ==
  /\ rngOp.pc = "clear"
  /\ rngRegistry' = [rngRegistry EXCEPT ![publishedRNGs[rngOp.handle].slot] = Null]
  /\ publishedRNGs' = [publishedRNGs EXCEPT ![rngOp.handle] = NoState]
  /\ rngDead' = rngDead \cup {publishedRNGs[rngOp.handle].proto}
  /\ rngOp' = RngIdle /\ rngResult' = "ok" /\ rngReply' = NoReply
  /\ UNCHANGED <<rngDb, rngLeft, rngLost, rngState>>

RngInit ==
  /\ rngDb \in [Handles -> {Null, Firmware}]
  /\ rngRegistry = [s \in RngSlots |-> Null] /\ publishedRNGs = [h \in Handles |-> NoState]
  /\ rngOp = RngIdle /\ rngResult = "none" /\ rngLeft = FALSE /\ rngLost = FALSE /\ rngDead = {}
  /\ rngState = 0 /\ rngReply = NoReply

RngNext ==
  \/ \E found \in BOOLEAN : Locate("publish", found) \/ Locate("uninstallAll", found)
  \/ \E h \in Handles : (\E removed \in BOOLEAN : Yank(h, removed)) \/ InstallRng(h) \/ UninstallRng(h)
  \/ Yanked \/ InstallRngRefused \/ RecordRng \/ ClearRng
  \/ \E p \in Addresses :
       \/ ReserveRng(p)
       \/ \E n \in Lengths : GetRNG(p, n)
       \/ \E room \in BOOLEAN : GetInfo(p, room)

RngSpec == RngInit /\ [][RngNext]_rngVars

-----------------------------------------------------------------------------
\* What a consumer that looks for the protocol finds is served, from the moment the
\* firmware shows it until it has let go of it; "a stale `this` after UnpublishRNG
\* returns EFI_NOT_FOUND" (rng_protocol.go:223), as long as no removal by another call
\* has orphaned a slot; and after a publish "the only remaining
\* handle ... is ours" (rng_protocol_tamago.go:222), unless a removal was refused.
RngFoundIsServed ==
  /\ rngReply.this \in {rngDb[h] : h \in Handles} /\ rngReply.this # Null /\ rngReply.n > 0
       => rngReply.status = "success"
  /\ rngReply.this \in rngDead /\ ~rngLost => rngReply.status # "success"
  /\ rngResult = "published" /\ ~rngLeft => Cardinality(Carrying) = 1
=============================================================================
