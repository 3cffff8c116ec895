------------------------------- MODULE DiskBoot -------------------------------
(***************************************************************************)
(* Booting a disk image: the FreeBSD, NetBSD and OpenBSD probes            *)
(* (phase2_oci_freebsd_boot.go, phase3_oci_netbsd_boot.go,                 *)
(* phase3_oci_openbsd_boot.go), which run one after the other, on top of   *)
(* the block device publisher (BlockIO) and with the search for the boot   *)
(* volume (sfs_filter*.go, loadimage_sfs_tamago.go).                       *)
(*                                                                         *)
(* A device path is a sequence of nodes, and on the wire the bytes of the  *)
(* nodes and an END node.  The firmware refuses a second handle with a     *)
(* device path it already has (UEFI: EFI_ALREADY_STARTED); every image is  *)
(* published under the same one.                                           *)
(***************************************************************************)
EXTENDS BlockIO, Sequences, FiniteSetsExt

CONSTANTS
  Stock,       \* device paths, as nodes, of volumes that have nothing to do with us
  Partitions,  \* what the firmware may find on our disks: sequences of nodes
  LayerSizes,  \* sizes of the layer with the disk image
  MaxImage     \* freebsdBootMaxImageSize and the like

\* A layer padded to whole blocks.
Padded(n) == n + (IF n % BlockSize = 0 THEN 0 ELSE BlockSize - (n % BlockSize))

\* BlockIO's images include those that the probes publish.
ASSUME PaddedAssumption ==
  \A n \in LayerSizes : n <= MaxImage /\ Padded(n) > BlockSize => Padded(n) \in Images

VARIABLES
  queue,       \* the probes still to run
  todo,        \* stages left of the current one
  image,       \* size of the image in memory
  disk,        \* its block device, None before it is published
  vols,        \* volumes with EFI_SIMPLE_FILE_SYSTEM_PROTOCOL: [nodes, disk]
  child,       \* device path found by FindSFSChildOf
  loader,      \* [state, from]: the boot loader and the disk it was read from
  sfs,         \* disks whose UFS partition is published as a volume
  refused      \* ghost: the firmware refused to uninstall something of this probe

probeVars == <<queue, todo, image, disk, vols, child, loader, sfs, refused>>
diskVars == <<vars, probeVars>>

-----------------------------------------------------------------------------
(* Device paths.                                                           *)

EndNode == <<127, 255, 4, 0>>

\* A node: type, subtype, length (two bytes) and payload.
Node(type, sub, payload) == <<type, sub, 4 + Len(payload), 0>> \o payload

\* buildBlockIOPublishDevicePath: one vendor node, the GUID cut short.
DiskNodes == <<Node(4, 3, <<12>>)>>

\* devicePathBytes.
Flatten(nodes) == MapThenFoldSet(LAMBDA x, y : x \o y, <<>>, LAMBDA n : nodes[n], Min, DOMAIN nodes)
PathBytes(nodes) == Flatten(nodes) \o EndNode

\* devicePathPrefix, node by node.
DevicePathPrefix(prefix, full) ==
  LET end == Len(prefix) - 4
      Ends(path, p) == path[p + 1] = EndNode[1] /\ path[p + 2] = EndNode[2]
      match[p \in 0 .. end] ==
        IF p = end THEN p + 4 <= Len(full) /\ ~Ends(full, p)
        ELSE /\ p + 4 <= end /\ p + 4 <= Len(full)
             /\ LET n == prefix[p + 3] + 256 * prefix[p + 4] IN
                /\ n >= 4 /\ p + n <= end /\ p + n <= Len(full)
                /\ SubSeq(prefix, p + 1, p + n) = SubSeq(full, p + 1, p + n)
                /\ match[p + n]
  IN  Len(prefix) >= 4 /\ Ends(prefix, end) /\ end < Len(full) /\ match[0]

\* buildFilePathDevicePath: the file's node takes the place of END.
FilePath(parent, file) ==
  SubSeq(parent, 1, Len(parent) - 4) \o Node(4, 4, file) \o EndNode

\* The device paths of volumes.
VolumePaths == Stock \cup {DiskNodes \o part : part \in Partitions}

\* They are bytes on the wire, and the vendor node is ours alone: no device of the
\* machine is below it.
ASSUME PathAssumption ==
  /\ \A n \in VolumePaths : Flatten(n) \in Seq(Nat)
  /\ \A n \in Stock : ~DevicePathPrefix(PathBytes(DiskNodes), PathBytes(n))

-----------------------------------------------------------------------------
(* The probes.                                                             *)

\* Up to an image in memory, and from there to the loader and back.
FreeBsdImage == <<"lease", "manifest", "fetch">>
FreeBsdBoot ==
  <<"publish", "connect", "locate", "find", "load", "ufs", "start", "unpublish", "deferred">>
NetBsdImage == FreeBsdImage
NetBsdBoot == FreeBsdBoot
OpenBsdImage == FreeBsdImage
OpenBsdBoot == FreeBsdBoot

\* runPhase2Probe runs those that are built in.
Probes ==
  <<FreeBsdImage \o FreeBsdBoot, NetBsdImage \o NetBsdBoot, OpenBsdImage \o OpenBsdBoot>>

At(stage) == todo # <<>> /\ Head(todo) = stage
Done == todo' = Tail(todo)
Return == todo' = <<>>

NextProbe ==
  /\ todo = <<>> /\ queue # <<>>
  /\ \/ todo' = Head(queue)
     \/ todo' = <<>>                  \* not built in, or no reference configured
  /\ queue' = Tail(queue)
  /\ image' = 0 /\ disk' = None /\ child' = <<>> /\ refused' = FALSE
  /\ loader' = [state |-> "none", from |-> None]
  /\ UNCHANGED <<vars, vols, sfs>>

\* Network, lease, registry and manifest.
Prepare ==
  /\ At("lease") \/ At("manifest")
  /\ Done \/ Return
  /\ UNCHANGED <<vars, queue, image, disk, vols, child, loader, sfs, refused>>

\* The layer, verified, padded to whole blocks and with a GPT in its second block.
Fetch ==
  /\ At("fetch")
  /\ \/ Return /\ UNCHANGED image
     \/ \E n \in LayerSizes :
          /\ n <= MaxImage /\ Padded(n) > BlockSize
          /\ image' = Padded(n) /\ Done
  /\ UNCHANGED <<vars, queue, disk, vols, child, loader, sfs, refused>>

\* PublishBlockIO, in its three steps or refused.  With three probes and four slots
\* the table does not fill up.
Publish ==
  /\ At("publish") /\ disk = None
  /\ \E p \in Addr \ Live : Reserve(p, image) /\ disk' = p
  /\ UNCHANGED <<queue, todo, image, vols, child, loader, sfs, refused>>

PublishInstall ==
  /\ At("publish") /\ installed = {} /\ Install
  /\ UNCHANGED probeVars

PublishRefused ==
  /\ At("publish") /\ InstallRefused /\ Return
  /\ UNCHANGED <<queue, image, disk, vols, child, loader, sfs, refused>>

PublishRecord ==
  /\ At("publish") /\ Record /\ Done
  /\ UNCHANGED <<queue, image, disk, vols, child, loader, sfs, refused>>

\* ConnectController: the firmware's drivers bind and create volumes; some may be there
\* when it reports an error.
ConnectController ==
  /\ At("connect")
  /\ \E found \in SUBSET Partitions :
       vols' = vols \cup {[nodes |-> DiskNodes \o part, disk |-> disk] : part \in found}
  /\ Done \/ Return
  /\ UNCHANGED <<vars, queue, image, disk, child, loader, sfs, refused>>

\* LocateHandleBuffer: any volume at all?
LocateHandleBuffer ==
  /\ At("locate")
  /\ (vols # {} /\ Done) \/ Return
  /\ UNCHANGED <<vars, queue, image, disk, vols, child, loader, sfs, refused>>

\* Mutant: the first volume of the system.
FindAny ==
  /\ At("find")
  /\ \/ \E v \in vols : child' = PathBytes(v.nodes) /\ Done
     \/ vols = {} /\ Return /\ UNCHANGED child
  /\ UNCHANGED <<vars, queue, image, disk, vols, loader, sfs, refused>>

\* FindSFSChildOf: the first in an order of the firmware's.
FindSFSChildOf ==
  LET ours == {v \in vols : DevicePathPrefix(PathBytes(DiskNodes), PathBytes(v.nodes))} IN
  /\ At("find")
  /\ \/ \E v \in ours : child' = PathBytes(v.nodes) /\ Done
     \/ ours = {} /\ Return /\ UNCHANGED child
  /\ UNCHANGED <<vars, queue, image, disk, vols, loader, sfs, refused>>

\* LoadImageFromSFS: the firmware finds the volume by the path and reads the loader
\* from it.
LoadImageFromSFS ==
  /\ At("load")
  /\ \/ \E v \in vols :
          /\ FilePath(PathBytes(v.nodes), <<1>>) = FilePath(child, <<1>>)
          /\ loader' = [state |-> "loaded", from |-> v.disk] /\ Done
     \/ Return /\ UNCHANGED loader
  /\ UNCHANGED <<vars, queue, image, disk, vols, child, sfs, refused>>

\* findUFSPartitionBytes and PublishSFS; without a UFS partition the boot goes on.
PublishUfs ==
  /\ At("ufs") /\ Done
  /\ sfs' = sfs \/ sfs' = sfs \cup {disk}
  /\ UNCHANGED <<vars, queue, image, disk, vols, child, loader, refused>>

StartImage ==
  /\ At("start")
  /\ \/ /\ loader.state = "loaded"
        /\ loader' = [loader EXCEPT !.state = "running"] /\ UNCHANGED todo
     \/ /\ loader.state = "running"
        /\ loader' = [loader EXCEPT !.state = "returned"] /\ Done
  /\ UNCHANGED <<vars, queue, image, disk, vols, child, sfs, refused>>

\* UnpublishBlockIO; with the device its volumes disappear.
UnpublishDisk ==
  /\ At("unpublish")
  /\ \/ /\ \E e \in published : e[1] = disk /\ Uninstall(e)
        /\ vols' = {v \in vols : v.disk # disk}
        /\ UNCHANGED <<todo, refused>>
     \/ /\ Clear /\ Done
        /\ UNCHANGED <<vols, refused>>
     \/ /\ op = Idle /\ Done
        /\ refused' = TRUE
        /\ UNCHANGED <<vars, vols>>
  /\ UNCHANGED <<queue, image, disk, child, loader, sfs>>

\* The deferred UnpublishSFS, registered only when the volume was published.
UnpublishUfs ==
  /\ At("deferred") /\ Done
  /\ \/ sfs' = sfs \ {disk} /\ UNCHANGED refused
     \/ disk \in sfs /\ refused' = TRUE /\ UNCHANGED sfs
  /\ UNCHANGED <<vars, queue, image, disk, vols, child, loader>>

\* The firmware's drivers and the loader read, at any time.
FirmwareReads ==
  /\ \E p \in Addr, lba \in Lbas, n \in Sizes, null \in BOOLEAN : ReadBlocks(p, lba, n, null)
  /\ UNCHANGED probeVars

DiskInit ==
  /\ Init
  /\ queue = Probes /\ todo = <<>> /\ image = 0 /\ disk = None /\ child = <<>>
  /\ vols = {[nodes |-> n, disk |-> None] : n \in Stock}
  /\ loader = [state |-> "none", from |-> None] /\ sfs = {} /\ refused = FALSE

DiskNext ==
  \/ NextProbe \/ Prepare \/ Fetch
  \/ Publish \/ PublishInstall \/ PublishRefused \/ PublishRecord
  \/ ConnectController \/ LocateHandleBuffer \/ FindSFSChildOf \/ LoadImageFromSFS
  \/ PublishUfs \/ StartImage \/ UnpublishDisk \/ UnpublishUfs
  \/ FirmwareReads

DiskSpec == DiskInit /\ [][DiskNext]_diskVars

-----------------------------------------------------------------------------
\* The loader that runs was read from the image this probe fetched, not from a
\* volume of the machine or one left behind by an earlier probe ("picks, among ALL
\* handles [...], the one whose backing storage is the synthetic Block IO").  While
\* it runs its disk answers reads from that image and no other image is published;
\* after it has come back nothing is left of either, unless the firmware refused.
LoaderHasItsDisk ==
  /\ loader.state = "running" =>
       /\ loader.from = disk /\ installed = {disk}
       /\ \E s \in Lookup(disk) : reg[s].size = image
  /\ todo = <<>> /\ loader.state = "returned" /\ ~refused =>
       /\ disk \notin installed \cup sfs /\ Lookup(disk) = {}
       /\ \A v \in vols : v.disk # disk
=============================================================================
