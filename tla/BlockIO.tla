------------------------------- MODULE BlockIO -------------------------------
(***************************************************************************)
(* Disk images served to the firmware as EFI_BLOCK_IO_PROTOCOL             *)
(* (uefiboard/block_io_publish*.go): PublishBlockIO and UnpublishBlockIO,  *)
(* the fixed table of published images, and the handlers the firmware      *)
(* calls back.                                                             *)
(*                                                                         *)
(* An address is a model value.  The firmware may call a handler at any    *)
(* time with any address, also while a publish or unpublish is under way.  *)
(* Offsets are machine words: arithmetic is modulo Word, and ReadBlocks    *)
(* is told apart byte by byte.                                             *)
(***************************************************************************)
EXTENDS Naturals

CONSTANTS
  Addr,        \* addresses of protocol structs
  Slots,       \* 0 .. blockIOPublishRegistrySize - 1
  Images,      \* sizes of the images published, in bytes
  Word,        \* 2^64
  BlockSize,   \* BlockIOLogicalBlockSize
  Lbas, Sizes, \* arguments of ReadBlocks
  None

ASSUME WordAssumption == Word \in Nat \ {0}
ASSUME BlockSizeAssumption == BlockSize \in Nat \ {0}
ASSUME ArgsAssumption == Sizes \subseteq 0 .. Word - 1 /\ Lbas \subseteq Nat
ASSUME SlotsAssumption == Slots \subseteq Nat
ASSUME ImagesAssumption == Images \subseteq Nat
ASSUME NoneAssumption == None \notin Addr

VARIABLES
  reg,         \* blockIOPublishRegistry: slot -> [proto, size], proto None if free
  published,   \* publishedBlockIOs: protocols with a live Go-side state, with their slot
  installed,   \* protocols installed in the firmware
  size,        \* ghost: the size of the image behind each protocol
  op,          \* the publish or unpublish under way: [kind, proto, slot]
  reply        \* the latest ReadBlocks: [status, off, n, size]

vars == <<reg, published, installed, size, op, reply>>

Free == [proto |-> None, size |-> 0]
Idle == [kind |-> "none", proto |-> None, slot |-> 0]

-----------------------------------------------------------------------------
(* ReadBlocks as arithmetic.                                               *)

\* Unsigned addition of two words.
AddWord(a, b) == IF a + b < Word THEN a + b ELSE a + b - Word

\* The byte offset of a block, as computed.
Offset(lba) == (lba * BlockSize) % Word

\* Mutant: the overflow of off + bufferSize goes unnoticed.
ReadStatusNoWrap(total, off, n, null) ==
  IF n = 0 THEN "success"
  ELSE IF n % BlockSize # 0 THEN "badBufferSize"
  ELSE IF null \/ off > total \/ AddWord(off, n) > total THEN "invalidParameter"
  ELSE "success"

\* The checks of blockIOReadBlocksGo, for an image of total bytes.
ReadStatus(total, off, n, null) ==
  IF n = 0 THEN "success"
  ELSE IF n % BlockSize # 0 THEN "badBufferSize"
  ELSE IF null \/ off > total \/ AddWord(off, n) > total \/ AddWord(off, n) < off
       THEN "invalidParameter"
  ELSE "success"

-----------------------------------------------------------------------------
\* blockIOLookup.
Lookup(this) == {s \in Slots : reg[s].proto = this /\ this # None}

\* blockIOReadBlocksGo; the other handlers return NOT_FOUND or a constant.
ReadBlocks(this, lba, n, null) ==
  /\ reply' =
       IF Lookup(this) = {}
       THEN [status |-> "notFound", off |-> 0, n |-> 0, size |-> 0]
       ELSE LET e == reg[CHOOSE s \in Lookup(this) : TRUE]
            IN  [status |-> ReadStatus(e.size, Offset(lba), n, null),
                 off |-> Offset(lba), n |-> n, size |-> e.size]
  /\ UNCHANGED <<reg, published, installed, size, op>>

\* PublishBlockIO up to the firmware call: the first free slot is filled.
Reserve(p, total) ==
  /\ op = Idle
  /\ total > 0 /\ total % BlockSize = 0
  /\ \E s \in Slots :
       /\ reg[s].proto = None
       /\ \A t \in Slots : t < s => reg[t].proto # None
       /\ reg' = [reg EXCEPT ![s] = [proto |-> p, size |-> total]]
       /\ op' = [kind |-> "install", proto |-> p, slot |-> s]
       /\ size' = [size EXCEPT ![p] = total]
  /\ UNCHANGED <<published, installed, reply>>

\* The firmware installs the protocol; its drivers may call from here on.
Install ==
  /\ op.kind = "install"
  /\ installed' = installed \cup {op.proto}
  /\ op' = [op EXCEPT !.kind = "record"]
  /\ UNCHANGED <<reg, published, size, reply>>

\* Mutant: the error path keeps the slot.
InstallRefusedLeak ==
  /\ op.kind = "install"
  /\ op' = Idle
  /\ UNCHANGED <<reg, published, installed, size, reply>>

\* It refuses: the slot is given back.
InstallRefused ==
  /\ op.kind = "install"
  /\ reg' = [reg EXCEPT ![op.slot] = Free]
  /\ op' = Idle
  /\ UNCHANGED <<published, installed, size, reply>>

\* publishedBlockIOs keeps the Go-side state.
Record ==
  /\ op.kind = "record"
  /\ published' = published \cup {<<op.proto, op.slot>>}
  /\ op' = Idle
  /\ UNCHANGED <<reg, installed, size, reply>>

\* Mutant: the slot is cleared before the firmware has let go.
UninstallEarly(e) ==
  /\ op = Idle /\ e \in published
  /\ reg' = [reg EXCEPT ![e[2]] = Free]
  /\ op' = [kind |-> "clear", proto |-> e[1], slot |-> e[2]]
  /\ UNCHANGED <<published, installed, size, reply>>

\* UnpublishBlockIO of a published handle: the firmware agrees.  When it
\* refuses, or the handle is unknown, nothing changes.
Uninstall(e) ==
  /\ op = Idle /\ e \in published
  /\ installed' = installed \ {e[1]}
  /\ op' = [kind |-> "clear", proto |-> e[1], slot |-> e[2]]
  /\ UNCHANGED <<reg, published, size, reply>>

\* Slot and Go-side state are given up.
Clear ==
  /\ op.kind = "clear"
  /\ reg' = [reg EXCEPT ![op.slot] = Free]
  /\ published' = published \ {<<op.proto, op.slot>>}
  /\ op' = Idle
  /\ UNCHANGED <<installed, size, reply>>

\* The Go heap reuses an address only when nothing refers to it.
Live == {reg[s].proto : s \in Slots} \cup {e[1] : e \in published} \cup {op.proto}

Init ==
  /\ reg = [s \in Slots |-> Free] /\ published = {} /\ installed = {}
  /\ size = [p \in Addr |-> 0]
  /\ op = Idle
  /\ reply = [status |-> "success", off |-> 0, n |-> 0, size |-> 0]

Next ==
  \/ \E p \in Addr \ Live, total \in Images : Reserve(p, total)
  \/ Install \/ InstallRefused \/ Record
  \/ \E e \in published : Uninstall(e)
  \/ Clear
  \/ \E p \in Addr, lba \in Lbas, n \in Sizes, null \in BOOLEAN : ReadBlocks(p, lba, n, null)

Spec == Init /\ [][Next]_vars

-----------------------------------------------------------------------------
\* A protocol the firmware may call is always answered from its own image: it
\* has exactly one slot, with that image's size, during publish and unpublish
\* included ("Reserve a registry slot BEFORE the firmware install").
InstalledIsServed ==
  \A p \in installed : \E s \in Slots : Lookup(p) = {s} /\ reg[s].size = size[p]

\* A read that reports success copied bytes of the image only, whatever block
\* number and length were asked for (blockIOReadBlocksGo's copy loop).
ReadStaysInside ==
  reply.status = "success" /\ reply.n > 0 => reply.off + reply.n <= reply.size

\* A slot is in use only for a protocol that is published or being published, so the
\* table does not run out after refused installs and unpublished images: each of the
\* exits of PublishBlockIO and UnpublishBlockIO gives the slot back
\* (blockIOPublishRegistrySize slots for the lifetime of the machine).
NoSlotLost ==
  \A s \in Slots :
    reg[s].proto # None => <<reg[s].proto, s>> \in published \cup {<<op.proto, op.slot>>}
=============================================================================
