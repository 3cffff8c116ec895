------------------------------ MODULE MCProbes ------------------------------
(* Instances of the probes, of the stub and of the kernel publisher for TLC.  *)
(* One group is built at a time; the variables of the others keep their first *)
(* value.  A disk that is not the scratch disk is listed before it, two       *)
(* devices of one kind are on some of the buses, and some payloads claim      *)
(* sizes that wrap or exceed the memory.  Two runs of the publisher overlap.  *)
EXTENDS BlkPrintk, NetProbes, VirtioTx, MemMap, Tpm, PciProbes, PackStub, OciPush

CONSTANTS d1, d2

VARIABLE build

MCDisks == <<d1, d2>>

MCLeases ==
  {[addr |-> "a", mask |-> TRUE, gw |-> TRUE, dns |-> TRUE],
   [addr |-> "b", mask |-> TRUE, gw |-> TRUE, dns |-> FALSE],
   [addr |-> "b", mask |-> TRUE, gw |-> FALSE, dns |-> TRUE],
   [addr |-> "b", mask |-> FALSE, gw |-> FALSE, dns |-> TRUE]}

\* Of the images of three probes, those in which dhcp4 may meet a late reply to ping.
MCImages == {i \in Images : Len(i) = 3 => i[2] = "dhcp4"}

Device(kind, caps, driver) == [kind |-> kind, caps |-> caps, driver |-> driver]
MCBuses ==
  {<<Device("other", "none", TRUE)>>,
   <<Device("net", "legacy", TRUE), Device("net", "modern", TRUE), Device("gpu", "modern", TRUE)>>,
   <<Device("gpu", "modern", TRUE), Device("input", "modern", FALSE), Device("gpu", "modern", TRUE),
     Device("sound", "modern", TRUE)>>}

Section(name, rsize, algo, compressed, uncompressed, out) ==
  [name |-> name, rsize |-> rsize, foff |-> 8, magic |-> TRUE, algo |-> algo,
   compressed |-> compressed, uncompressed |-> uncompressed, out |-> out, corrupt |-> FALSE]
Text == Section(".text", 4, "", 0, 0, 0)
Packed == Section(".payload", 6, "LZ4 ", 4, 9, 9)
MCSections ==
  {<<Packed>>, <<Text, Packed>>, <<Text>>, <<>>} \cup
  {<<Text, [Packed EXCEPT !.rsize = r, !.magic = g, !.algo = a, !.uncompressed = u, !.corrupt = c]>> :
     r \in {0, 1, 5, 6, 9}, g \in BOOLEAN, a \in {"FLAT", "????"}, u \in {0, 8, 9, 20, 30}, c \in BOOLEAN}
MCStubFiles ==
  {[size |-> n, pe |-> TRUE, path |-> <<"efi", "boot">>, sections |-> x] : n \in {0, 14}, x \in MCSections}
    \cup {[size |-> 14, pe |-> FALSE, path |-> <<"efi", "boot">>, sections |-> <<Packed>>]}
PathNode(kind, text) == [kind |-> kind, text |-> text]
DirNode == PathNode("file", <<"efi">>)
FileNode == PathNode("file", <<"boot">>)
OtherNode == PathNode("other", <<>>)
EndNode == PathNode("end", <<>>)
MCChains ==
  {<<PathNode("file", <<"efi", "boot">>), EndNode>>, <<OtherNode, DirNode, FileNode, EndNode>>,
   <<OtherNode, OtherNode, DirNode, FileNode>>, <<DirNode, PathNode("malformed", <<>>), FileNode>>, <<EndNode>>}

Kernel(prefix, stub, machine, id) == [prefix |-> prefix, stub |-> stub, machine |-> machine, id |-> id]
MCPackages ==
  {[members |-> <<>>, tar |-> <<>>],
   [members |-> <<"control", "data.tar">>, tar |-> <<Kernel("vmlinux", TRUE, 1, 1), Kernel("vmlinuz", TRUE, 1, 2)>>],
   [members |-> <<"data.tar">>, tar |-> <<Kernel("vmlinux", TRUE, 1, 3)>>],
   [members |-> <<"data.tar">>, tar |-> <<Kernel("Image", TRUE, 2, 4), Kernel("vmlinuz", TRUE, 1, 2)>>],
   [members |-> <<"data.tar">>, tar |-> <<Kernel("vmlinux", FALSE, 1, 5)>>],
   [members |-> <<"broken", "data.tar">>, tar |-> <<Kernel("vmlinuz", TRUE, 1, 2)>>]}

probeVars == <<build, vars, netVars, txVars, mmVars, tpmVars, pciVars, stubVars, pushVars>>

MCInit ==
  /\ build \in {"blkprintk", "net", "tx", "map", "tpm", "pci", "stub", "push"}
  /\ Init
  /\ NetInit /\ (IF build = "net" THEN image \in MCImages ELSE image = <<>>)
  /\ TxInit /\ (build # "tx" => honours = {})
  /\ MapInit /\ (build # "map" => fwMap = <<7>> /\ stride = DescriptorWords)
  /\ TpmInit /\ (build # "tpm" => tpmRuns = <<EventLogProbe>> /\ pcr[4] = <<>> /\ banks = {"SHA256"})
  /\ PciInit /\ (build # "pci" => Len(bus) = 1)
  /\ StubInit /\ (build # "stub" => stubFile.sections = <<>> /\ stubFile.size = 0 /\ Len(chain) = 1)
  /\ PushInit /\ (build # "push" => \A r \in Runs : package[r].members = <<>>)

MCNext ==
  /\ UNCHANGED build
  /\ \/ build = "blkprintk" /\ Next /\ UNCHANGED <<netVars, txVars, mmVars, tpmVars, pciVars, stubVars, pushVars>>
     \/ build = "net" /\ NetNext /\ UNCHANGED <<vars, txVars, mmVars, tpmVars, pciVars, stubVars, pushVars>>
     \/ build = "tx" /\ TxNext /\ UNCHANGED <<vars, netVars, mmVars, tpmVars, pciVars, stubVars, pushVars>>
     \/ build = "map" /\ MapNext /\ UNCHANGED <<vars, netVars, txVars, tpmVars, pciVars, stubVars, pushVars>>
     \/ build = "tpm" /\ TpmNext /\ UNCHANGED <<vars, netVars, txVars, mmVars, pciVars, stubVars, pushVars>>
     \/ build = "pci" /\ PciNext /\ UNCHANGED <<vars, netVars, txVars, mmVars, tpmVars, stubVars, pushVars>>
     \/ build = "stub" /\ StubNext /\ UNCHANGED <<vars, netVars, txVars, mmVars, tpmVars, pciVars, pushVars>>
     \/ build = "push" /\ PushNext /\ UNCHANGED <<vars, netVars, txVars, mmVars, tpmVars, pciVars, stubVars>>

MCSpec == MCInit /\ [][MCNext]_probeVars /\ NetFairness
=============================================================================
