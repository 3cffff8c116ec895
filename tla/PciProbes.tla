------------------------------ MODULE PciProbes ------------------------------
(***************************************************************************)
(* The probes that walk the firmware's PCI handles: the PCI and the SNP    *)
(* enumeration and the DOOM demo (phase2_pcienum.go, phase2_snpenum.go,    *)
(* phase3_oci_doom_boot.go).  A device is what its configuration space     *)
(* says, and the firmware's driver that may be bound to it.  The walker of *)
(* capability lists, the virtio drivers and the game are external.         *)
(***************************************************************************)
EXTENDS Naturals, Sequences, FiniteSets

CONSTANT Buses    \* sequences of devices [kind, caps, driver] the firmware may list

\* A firmware that lists no handle ends each walk before it begins.
ASSUME PciAssumption ==
  Buses \subseteq Seq([kind : STRING, caps : {"none", "legacy", "modern"}, driver : BOOLEAN]) \ {<<>>}

VARIABLES
  bus,         \* the handles, in the firmware's order
  walk,        \* "pci", "snp", "wad", "detach", "find", "gpu", "sound", "input", "run", "end"
  at,          \* the handle the walk is at
  nets,        \* virtioNetCount
  shown,       \* SNP handles whose mode was printed
  stuck,       \* devices whose driver was left bound: unreadable, or not disconnected
  found,       \* kind -> the handle findVirtioDOOMDevices chose, 0 if none
  adapter      \* kind -> the handle its adapter drives, 0 for nil

pciVars == <<bus, walk, at, nets, shown, stuck, found, adapter>>

DoomKinds == {"gpu", "sound", "input"}
Virtio(d) == d.kind # "other"
Advance(next) == IF at < Len(bus) THEN at' = at + 1 /\ UNCHANGED walk ELSE at' = 1 /\ walk' = next

\* dumpVirtioCaps: a legacy device without a list counts, and one whose list yields a
\* capability; the walk of the list may fail and keep what it has collected.
CountsAsNet(d, collected) ==
  d.kind = "net" /\ (d.caps = "legacy" \/ (d.caps = "modern" /\ collected))

\* runPCIEnumProbe, dumpOnePciIO: one handle; one that cannot be read is passed over.
DumpOnePciIO ==
  /\ walk = "pci"
  /\ \E readable, collected \in BOOLEAN :
       nets' = IF readable /\ CountsAsNet(bus[at], collected) THEN nets + 1 ELSE nets
  /\ Advance("snp")
  /\ UNCHANGED <<bus, shown, stuck, found, adapter>>

\* runSNPEnumProbe, dumpOneSNP: a handle with an SNP and a mode structure is printed.
DumpOneSNP ==
  /\ walk = "snp"
  /\ \/ bus[at].kind = "net" /\ bus[at].driver /\ shown' = shown \cup {at}
     \/ UNCHANGED shown
  /\ Advance("wad")
  /\ UNCHANGED <<bus, nets, stuck, found, adapter>>

\* runOCIDOOMBootProbe: the WAD and the list of handles.
CheckWad ==
  /\ walk = "wad" /\ walk' \in {"detach", "end"}
  /\ UNCHANGED <<bus, at, nets, shown, stuck, found, adapter>>

\* Mutant: nothing is detached.
PreDetachNone ==
  /\ walk = "detach" /\ Advance("find")
  /\ UNCHANGED <<bus, nets, shown, stuck, found, adapter>>

\* preDetachVirtioHandles: DisconnectController on every virtio device; a failure is
\* logged, and a handle that cannot be read passed over.
PreDetach ==
  /\ walk = "detach"
  /\ \/ Virtio(bus[at]) /\ bus' = [bus EXCEPT ![at].driver = FALSE] /\ UNCHANGED stuck
     \/ bus[at].driver /\ stuck' = stuck \cup {at} /\ UNCHANGED bus
     \/ ~Virtio(bus[at]) /\ UNCHANGED <<bus, stuck>>
  /\ Advance("find")
  /\ UNCHANGED <<nets, shown, found, adapter>>

\* findVirtioDOOMDevices: the first readable device of each kind.
FindDevice ==
  /\ walk = "find"
  /\ LET k == bus[at].kind
     IN  \/ k \in DoomKinds /\ found[k] = 0 /\ found' = [found EXCEPT ![k] = at]
         \/ UNCHANGED found
  /\ Advance("gpu")
  /\ UNCHANGED <<bus, nets, shown, stuck, adapter>>

\* openGPU, openSound, openInput: an adapter, or nil on any failure.
OpenGPU ==
  /\ walk = "gpu" /\ walk' = "sound"
  /\ adapter' \in {adapter, [adapter EXCEPT !["gpu"] = found["gpu"]]}
  /\ UNCHANGED <<bus, at, nets, shown, stuck, found>>

OpenSound ==
  /\ walk = "sound" /\ walk' = "input"
  /\ adapter' \in {adapter, [adapter EXCEPT !["sound"] = found["sound"]]}
  /\ UNCHANGED <<bus, at, nets, shown, stuck, found>>

OpenInput ==
  /\ walk = "input" /\ walk' = "run"
  /\ adapter' \in {adapter, [adapter EXCEPT !["input"] = found["input"]]}
  /\ UNCHANGED <<bus, at, nets, shown, stuck, found>>

\* gore.Run, with whatever adapters there are; it may return.
GoreRun ==
  /\ walk = "run" /\ walk' = "end"
  /\ UNCHANGED <<bus, at, nets, shown, stuck, found, adapter>>

PciInit ==
  /\ bus \in Buses /\ walk = "pci" /\ at = 1 /\ nets = 0 /\ shown = {} /\ stuck = {}
  /\ found = [k \in DoomKinds |-> 0] /\ adapter = [k \in DoomKinds |-> 0]

PciNext ==
  \/ DumpOnePciIO \/ DumpOneSNP \/ CheckWad \/ PreDetach \/ FindDevice
  \/ OpenGPU \/ OpenSound \/ OpenInput \/ GoreRun

PciSpec == PciInit /\ [][PciNext]_pciVars

-----------------------------------------------------------------------------
\* A device that DOOM drives is driven by nothing else: the firmware's driver has been
\* disconnected before the adapter was opened ("gives us a clean PCI_IO surface"), unless the
\* firmware refused to; and no two adapters share a device.
OneDriver ==
  \A k \in DoomKinds : adapter[k] # 0 =>
    /\ bus[adapter[k]].kind = k
    /\ ~bus[adapter[k]].driver \/ adapter[k] \in stuck
=============================================================================
