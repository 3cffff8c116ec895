--------------------------- MODULE DiskBootProofs ---------------------------
(***************************************************************************)
(* The block device publisher, for every table size, word size, block size *)
(* and address space: the firmware always reaches the image behind the     *)
(* protocol it calls, no slot is lost, and a successful read stays inside  *)
(* the image.  The disk-image probes use the publisher only as BlockIO lets *)
(* its callers, so that all this holds while they run, and the loader they *)
(* start runs from the disk they published.                                *)
(***************************************************************************)
EXTENDS DiskBoot, SequenceTheorems, TLAPS

-----------------------------------------------------------------------------
(* The block device publisher.                                             *)

\* Shape of the state.
TypeOK ==
  /\ reg \in [Slots -> [proto : Addr \cup {None}, size : Nat]]
  /\ published \subseteq Addr \X Slots
  /\ installed \subseteq Addr
  /\ size \in [Addr -> Nat]
  /\ op \in [kind : {"none", "install", "record", "clear"}, proto : Addr \cup {None}, slot : Nat]

\* Every slot in use belongs to one protocol, and what is published or under
\* way holds its own slot.
Owned ==
  /\ \A s, t \in Slots : reg[s].proto = reg[t].proto /\ reg[s].proto # None => s = t
  /\ \A s \in Slots : reg[s].proto # None => reg[s].size = size[reg[s].proto]
  /\ \A e \in published : reg[e[2]].proto = e[1]
  /\ op.kind # "none" =>
       /\ op.proto \in Addr /\ op.slot \in Slots
       /\ reg[op.slot].proto = op.proto
  /\ op.kind = "none" => op = Idle
  /\ op.kind \in {"install", "record"} => <<op.proto, op.slot>> \notin published
  /\ op.kind = "clear" => <<op.proto, op.slot>> \in published

\* What the firmware holds is published or about to be recorded, and not being
\* cleared.
Held ==
  \A p \in installed :
    \/ op.kind = "record" /\ op.proto = p
    \/ \E s \in Slots : <<p, s>> \in published /\ ~(op.kind = "clear" /\ op.proto = p)

IInv == TypeOK /\ Owned /\ Held /\ NoSlotLost

-----------------------------------------------------------------------------
\* The empty table satisfies the invariant.
LEMMA InitInv == Init => IInv
BY NoneAssumption, SlotsAssumption DEF Init, IInv, TypeOK, Owned, Held, NoSlotLost, Free, Idle

\* PublishBlockIO filling the first free slot keeps the invariant.
LEMMA ReserveInv ==
  ASSUME IInv, NEW p \in Addr \ Live, NEW total \in Images, Reserve(p, total)
  PROVE  IInv'
<1> USE NoneAssumption, SlotsAssumption, ImagesAssumption
<1>1. PICK s \in Slots :
        /\ reg[s].proto = None
        /\ reg' = [reg EXCEPT ![s] = [proto |-> p, size |-> total]]
        /\ op' = [kind |-> "install", proto |-> p, slot |-> s]
        /\ size' = [size EXCEPT ![p] = total]
  BY Zenon DEF Reserve
<1>2. /\ op = Idle /\ UNCHANGED <<published, installed>>
      /\ \A t \in Slots : reg[t].proto # p
      /\ \A e \in published : e[1] # p
  BY DEF Reserve, Live
<1>3. TypeOK' BY <1>1, <1>2, Zenon DEF IInv, TypeOK
<1>4. \A t \in Slots : reg'[t] = IF t = s THEN [proto |-> p, size |-> total] ELSE reg[t]
  BY <1>1 DEF IInv, TypeOK
<1>5. \A q \in Addr : size'[q] = IF q = p THEN total ELSE size[q]
  BY <1>1 DEF IInv, TypeOK
<1>6. Owned' BY <1>1, <1>2, <1>4, <1>5 DEF IInv, Owned, Idle, TypeOK
<1>7. Held' BY <1>1, <1>2 DEF IInv, Held, Idle
<1>8. NoSlotLost' BY <1>1, <1>2, <1>4, Zenon DEF IInv, NoSlotLost, Idle, TypeOK
<1> QED BY <1>3, <1>6, <1>7, <1>8 DEF IInv

\* The firmware accepting the protocol keeps the invariant.
LEMMA InstallInv == ASSUME IInv, Install PROVE IInv'
<1> USE NoneAssumption
<1>1. op' = [op EXCEPT !.kind = "record"] /\ op.kind = "install"
      /\ installed' = installed \cup {op.proto} /\ UNCHANGED <<reg, published, size>>
  BY DEF Install
<1>2. op'.kind = "record" /\ op'.proto = op.proto /\ op'.slot = op.slot
  BY <1>1 DEF IInv, TypeOK
<1>3. TypeOK' BY <1>1, <1>2 DEF IInv, TypeOK, Owned
<1>4. Owned' BY <1>1, <1>2 DEF IInv, Owned
<1>5. Held' BY <1>1, <1>2 DEF IInv, Held
<1>6. NoSlotLost' BY <1>1, <1>2 DEF IInv, NoSlotLost
<1> QED BY <1>3, <1>4, <1>5, <1>6 DEF IInv

\* The firmware refusing it gives the slot back.
LEMMA InstallRefusedInv == ASSUME IInv, InstallRefused PROVE IInv'
<1> USE NoneAssumption, SlotsAssumption
<1>1. op.kind = "install" /\ reg' = [reg EXCEPT ![op.slot] = Free] /\ op' = Idle
      /\ UNCHANGED <<published, installed, size>>
  BY DEF InstallRefused
<1>2. op.slot \in Slots /\ op.proto \in Addr /\ reg[op.slot].proto = op.proto
      /\ <<op.proto, op.slot>> \notin published
  BY <1>1 DEF IInv, Owned
<1>3. \A t \in Slots : reg'[t] = IF t = op.slot THEN Free ELSE reg[t]
  BY <1>1, <1>2 DEF IInv, TypeOK
<1>4. TypeOK' BY <1>1, <1>2 DEF IInv, TypeOK, Free, Idle
<1>5. Owned'
  <2>1. \A e \in published : e[2] # op.slot
    BY <1>2 DEF IInv, Owned, TypeOK
  <2> QED BY <1>1, <1>2, <1>3, <2>1 DEF IInv, Owned, Free, Idle, TypeOK
<1>6. Held' BY <1>1 DEF IInv, Held, Idle
<1>7. NoSlotLost' BY <1>1, <1>2, <1>3 DEF IInv, NoSlotLost, Free, Idle
<1> QED BY <1>4, <1>5, <1>6, <1>7 DEF IInv

\* Recording the Go-side state keeps the invariant.
LEMMA RecordInv == ASSUME IInv, Record PROVE IInv'
<1> USE NoneAssumption, SlotsAssumption
<1>1. op.kind = "record" /\ published' = published \cup {<<op.proto, op.slot>>} /\ op' = Idle
      /\ UNCHANGED <<reg, installed, size>>
  BY DEF Record
<1>2. op.slot \in Slots /\ op.proto \in Addr /\ reg[op.slot].proto = op.proto
  BY <1>1 DEF IInv, Owned
<1>3. TypeOK' BY <1>1, <1>2 DEF IInv, TypeOK, Idle
<1>4. Owned' BY <1>1, <1>2 DEF IInv, Owned, Idle
<1>5. Held' BY <1>1, <1>2, Zenon DEF IInv, Held, Idle
<1>6. NoSlotLost' BY <1>1 DEF IInv, NoSlotLost
<1> QED BY <1>3, <1>4, <1>5, <1>6 DEF IInv

\* The firmware letting go of a published protocol keeps the invariant.
LEMMA UninstallInv == ASSUME IInv, NEW e \in published, Uninstall(e) PROVE IInv'
<1> USE NoneAssumption, SlotsAssumption
<1>0. e \in Addr \X Slots BY DEF IInv, TypeOK
<1>a. e[1] \in Addr /\ e[2] \in Slots /\ e = <<e[1], e[2]>> BY <1>0
<1>1. PICK p \in Addr, s \in Slots : e = <<p, s>>
  BY <1>a, Zenon
<1>2. op = Idle /\ installed' = installed \ {p} /\ op' = [kind |-> "clear", proto |-> p, slot |-> s]
      /\ UNCHANGED <<reg, published, size>>
  BY <1>1 DEF Uninstall
<1>3. TypeOK' BY <1>2, Zenon DEF IInv, TypeOK
<1>4. Owned' BY <1>1, <1>2 DEF IInv, Owned
<1>5. Held' BY <1>2 DEF IInv, Held, Idle
<1>6. NoSlotLost' BY <1>2 DEF IInv, NoSlotLost, Idle
<1> QED BY <1>3, <1>4, <1>5, <1>6 DEF IInv

\* Giving up slot and state keeps the invariant.
LEMMA ClearInv == ASSUME IInv, Clear PROVE IInv'
<1> USE NoneAssumption, SlotsAssumption
<1>1. op.kind = "clear" /\ reg' = [reg EXCEPT ![op.slot] = Free]
      /\ published' = published \ {<<op.proto, op.slot>>} /\ op' = Idle
      /\ UNCHANGED <<installed, size>>
  BY DEF Clear
<1>2. op.slot \in Slots /\ op.proto \in Addr /\ reg[op.slot].proto = op.proto
  BY <1>1 DEF IInv, Owned
<1>3. \A t \in Slots : reg'[t] = IF t = op.slot THEN Free ELSE reg[t]
  BY <1>1, <1>2 DEF IInv, TypeOK
<1>4. TypeOK' BY <1>1, <1>2 DEF IInv, TypeOK, Free, Idle
<1>5. Owned'
  <2>1. \A e \in published' : e[2] # op.slot
    BY <1>1, <1>2 DEF IInv, Owned, TypeOK
  <2> QED BY <1>1, <1>2, <1>3, <2>1 DEF IInv, Owned, Free, Idle, TypeOK
<1>6. Held' BY <1>1, <1>2 DEF IInv, Held, Idle
<1>7. NoSlotLost' BY <1>1, <1>2, <1>3 DEF IInv, NoSlotLost, Free, Idle
<1> QED BY <1>4, <1>5, <1>6, <1>7 DEF IInv

\* Every step keeps the invariant: handlers change nothing.
LEMMA NextInv == IInv /\ [Next]_vars => IInv'
<1> SUFFICES ASSUME IInv, [Next]_vars PROVE IInv'
  OBVIOUS
<1>1. ASSUME UNCHANGED <<reg, published, installed, size, op>> PROVE IInv'
  BY <1>1, Zenon DEF IInv, TypeOK, Owned, Held, NoSlotLost
<1>2. CASE \E p \in Addr, lba \in Lbas, n \in Sizes, null \in BOOLEAN : ReadBlocks(p, lba, n, null)
  BY <1>1, <1>2 DEF ReadBlocks
<1>3. CASE UNCHANGED vars BY <1>1, <1>3 DEF vars
<1> QED
  BY <1>2, <1>3, ReserveInv, InstallInv, InstallRefusedInv, RecordInv, UninstallInv, ClearInv DEF Next

\* What the firmware may call is answered from its own image and no slot is
\* lost, for any number of slots, images and addresses (PublishBlockIO,
\* UnpublishBlockIO, blockIOLookup).
THEOREM FirmwareIsServed == Spec => [](InstalledIsServed /\ NoSlotLost)
<1>1. IInv => InstalledIsServed /\ NoSlotLost
  <2> SUFFICES ASSUME IInv, NEW p \in installed
               PROVE  \E s \in Slots : Lookup(p) = {s} /\ reg[s].size = size[p]
    BY DEF InstalledIsServed, IInv
  <2>1. PICK s \in Slots : reg[s].proto = p /\ p # None
    BY NoneAssumption, Zenon DEF IInv, Held, Owned, TypeOK
  <2>2. Lookup(p) = {s} BY <2>1 DEF Lookup, IInv, Owned
  <2> QED BY <2>1, <2>2 DEF IInv, Owned
<1> QED BY InitInv, NextInv, <1>1, PTL DEF Spec

-----------------------------------------------------------------------------
\* The checks of blockIOReadBlocksGo rule out a copy past the image, for every
\* offset a multiplication may have wrapped to and every length.
LEMMA ChecksSuffice ==
  ASSUME NEW total \in Nat, NEW off \in Nat, NEW n \in 0 .. Word - 1, NEW null \in BOOLEAN,
         off < Word, ReadStatus(total, off, n, null) = "success", n > 0
  PROVE  off + n <= total
<1>1. ~(AddWord(off, n) > total) /\ ~(AddWord(off, n) < off)
  BY DEF ReadStatus
<1> QED BY <1>1, WordAssumption DEF AddWord

\* A computed offset is a machine word.
LEMMA OffsetIsWord == ASSUME NEW lba \in Nat PROVE Offset(lba) \in Nat /\ Offset(lba) < Word
<1>1. lba * BlockSize \in Nat BY BlockSizeAssumption
<1> QED BY <1>1, WordAssumption DEF Offset

\* A read reported successful stayed inside the image, for every word size and
\* block size (blockIOReadBlocksGo).
THEOREM ReadsStayInside == Spec => []ReadStaysInside
<1>1. Init => ReadStaysInside BY DEF Init, ReadStaysInside
<1>2. IInv /\ ReadStaysInside /\ [Next]_vars => ReadStaysInside'
  <2> SUFFICES ASSUME IInv, ReadStaysInside, [Next]_vars PROVE ReadStaysInside'
    OBVIOUS
  <2>1. ASSUME UNCHANGED reply PROVE ReadStaysInside'
    BY <2>1 DEF ReadStaysInside
  <2>2. ASSUME NEW p \in Addr, NEW lba \in Lbas, NEW n \in Sizes, NEW null \in BOOLEAN,
               ReadBlocks(p, lba, n, null)
        PROVE  ReadStaysInside'
    <3>1. CASE Lookup(p) = {} BY <2>2, <3>1 DEF ReadBlocks, ReadStaysInside
    <3>2. CASE Lookup(p) # {}
      <4> DEFINE e == reg[CHOOSE s \in Lookup(p) : TRUE]
      <4>1. e.size \in Nat BY <3>2 DEF Lookup, IInv, TypeOK
      <4>2. reply' = [status |-> ReadStatus(e.size, Offset(lba), n, null),
                      off |-> Offset(lba), n |-> n, size |-> e.size]
        BY <2>2, <3>2 DEF ReadBlocks
      <4>3. n \in 0 .. Word - 1 /\ Offset(lba) \in Nat /\ Offset(lba) < Word
        BY ArgsAssumption, OffsetIsWord
      <4> HIDE DEF e
      <4>4. ReadStatus(e.size, Offset(lba), n, null) = "success" /\ n > 0 => Offset(lba) + n <= e.size
        BY <4>1, <4>3, ChecksSuffice
      <4> QED BY <4>2, <4>4 DEF ReadStaysInside
    <3> QED BY <3>1, <3>2
  <2> QED
    BY <2>1, <2>2 DEF Next, vars, Reserve, Install, InstallRefused, Record, Uninstall, Clear
<1> QED BY <1>1, <1>2, InitInv, NextInv, PTL DEF Spec

-----------------------------------------------------------------------------
\* The image in memory is one that BlockIO knows.
ImageOK == image = 0 \/ image \in Images

\* NextProbe drops the image and Fetch pads a new one; nothing else touches it.
LEMMA ImageStaysOK == ImageOK /\ [DiskNext]_diskVars => ImageOK'
<1> SUFFICES ASSUME ImageOK, [DiskNext]_diskVars PROVE ImageOK'
  OBVIOUS
<1>1. CASE NextProbe BY <1>1 DEF NextProbe, ImageOK
<1>2. CASE Fetch
  <2>1. image' = image \/ \E n \in LayerSizes : n <= MaxImage /\ Padded(n) > BlockSize /\ image' = Padded(n)
    BY <1>2 DEF Fetch
  <2>2. ASSUME NEW n \in LayerSizes, n <= MaxImage, Padded(n) > BlockSize PROVE Padded(n) \in Images
    BY <2>2, PaddedAssumption
  <2> QED BY <2>1, <2>2 DEF ImageOK
<1>3. CASE image' = image BY <1>3 DEF ImageOK
<1>4. ASSUME DiskNext, ~NextProbe, ~Fetch PROVE image' = image
  BY <1>4 DEF DiskNext, Prepare, Publish, PublishInstall, PublishRefused, PublishRecord, ConnectController,
     LocateHandleBuffer, FindSFSChildOf, LoadImageFromSFS, PublishUfs, StartImage, UnpublishDisk, UnpublishUfs,
     FirmwareReads, probeVars
<1> QED BY <1>1, <1>2, <1>3, <1>4 DEF diskVars, probeVars

\* A step of a probe is a step of the publisher, or leaves the publisher alone.
LEMMA DiskStepIsPublisherStep == ImageOK /\ [DiskNext]_diskVars => [Next]_vars
<1> SUFFICES ASSUME ImageOK, [DiskNext]_diskVars PROVE [Next]_vars
  OBVIOUS
<1>1. CASE Publish
  <2>1. PICK p \in Addr \ Live : Reserve(p, image) BY <1>1 DEF Publish
  <2>2. image \in Images BY <2>1 DEF Reserve, ImageOK
  <2> QED BY <2>1, <2>2 DEF Next
<1>2. CASE PublishInstall BY <1>2 DEF PublishInstall, Next
<1>3. CASE PublishRefused BY <1>3 DEF PublishRefused, Next
<1>4. CASE PublishRecord BY <1>4 DEF PublishRecord, Next
<1>5. CASE UnpublishDisk BY <1>5 DEF UnpublishDisk, Next
<1>6. CASE FirmwareReads BY <1>6 DEF FirmwareReads, Next
<1>7. CASE UNCHANGED diskVars BY <1>7 DEF diskVars
<1>8. CASE NextProbe \/ Prepare \/ Fetch \/ ConnectController \/ LocateHandleBuffer \/ FindSFSChildOf
           \/ LoadImageFromSFS \/ PublishUfs \/ StartImage \/ UnpublishUfs
  BY <1>8 DEF NextProbe, Prepare, Fetch, ConnectController, LocateHandleBuffer, FindSFSChildOf,
     LoadImageFromSFS, PublishUfs, StartImage, UnpublishUfs
<1> QED BY <1>1, <1>2, <1>3, <1>4, <1>5, <1>6, <1>7, <1>8 DEF DiskNext

\* The three BSD probes use PublishBlockIO and UnpublishBlockIO as BlockIO lets any
\* caller, so what holds of every use of it holds while they run.
LEMMA ProbesUsePublisher == DiskSpec => Spec
<1>1. DiskInit => Init /\ ImageOK BY DEF DiskInit, ImageOK
<1> QED BY <1>1, ImageStaysOK, DiskStepIsPublisherStep, PTL DEF DiskSpec, Spec

\* While the BSD probes run, what the firmware may call is answered from its own
\* image, no slot is lost, and a successful read stays inside the image.
THEOREM ProbesAreServed == DiskSpec => [](InstalledIsServed /\ NoSlotLost) /\ []ReadStaysInside
BY ProbesUsePublisher, FirmwareIsServed, ReadsStayInside, PTL

-----------------------------------------------------------------------------
(* The loader and its disk.  A probe is at the stage that the number of    *)
(* stages it has left tells, and each stage finds what the ones before it  *)
(* left.                                                                   *)

\* The stages of each of the three probes.
Stages == {"lease", "manifest", "fetch", "publish", "connect", "locate", "find", "load",
           "ufs", "start", "unpublish", "deferred"}
Plan == FreeBsdImage \o FreeBsdBoot
Left == Len(todo)

PlanInv ==
  /\ todo \in Seq(Stages) /\ Left <= 12
  /\ \A k \in 1 .. Left : todo[k] = Plan[12 - Left + k]
  /\ queue \in Seq({Plan})

\* A volume is one of the machine or on an installed disk, and only one is installed.
VolInv ==
  /\ \A v \in vols : \/ v.disk = None /\ v.nodes \in Stock
                     \/ v.disk \in installed /\ v.nodes \in VolumePaths
  /\ \A p, q \in installed : p = q

\* The image is published and nothing is under way.
HasDisk == disk \in installed /\ size[disk] = image /\ op = Idle

\* From its publication to its end the probe has its disk.
PubInv ==
  /\ Left \in 10 .. 12 => disk = None /\ op = Idle
  /\ Left = 9 /\ disk = None => op = Idle
  /\ Left = 9 /\ disk # None =>
       /\ disk \in Addr /\ op.kind \in {"install", "record"} /\ op.proto = disk /\ size[disk] = image
       /\ op.kind = "record" => disk \in installed
  /\ Left \in 3 .. 8 => HasDisk
  /\ Left = 2 => HasDisk \/ (op.kind = "clear" /\ op.proto = disk /\ disk \notin installed)
  /\ Left <= 1 => op = Idle

\* The loader is read from that disk, and runs only while it is there.
LoaderInv ==
  /\ loader \in [state : {"none", "loaded", "running", "returned"}, from : Addr \cup {None}]
  /\ Left = 0 => loader.state \in {"none", "returned"}
  /\ Left \in 1 .. 2 => loader.state = "returned"
  /\ Left = 3 => loader.state \in {"loaded", "running"} /\ loader.from = disk
  /\ Left = 4 => loader.state = "loaded" /\ loader.from = disk
  /\ Left >= 5 => loader.state = "none"
  /\ Left = 5 => DevicePathPrefix(PathBytes(DiskNodes), child) /\ \E n \in VolumePaths : child = PathBytes(n)
  /\ loader.state = "returned" => disk \in Addr
  /\ loader.state = "returned" /\ ~refused /\ Left <= 1 => disk \notin installed /\ Lookup(disk) = {}
  /\ loader.state = "returned" /\ ~refused /\ Left = 0 => disk \notin sfs

DiskInv == PlanInv /\ VolInv /\ PubInv /\ LoaderInv

\* The stages by number.
LEMMA PlanStages ==
  /\ Plan \in Seq(Stages) /\ Len(Plan) = 12
  /\ Plan[1] = "lease" /\ Plan[2] = "manifest" /\ Plan[3] = "fetch" /\ Plan[4] = "publish"
  /\ Plan[5] = "connect" /\ Plan[6] = "locate" /\ Plan[7] = "find" /\ Plan[8] = "load"
  /\ Plan[9] = "ufs" /\ Plan[10] = "start" /\ Plan[11] = "unpublish" /\ Plan[12] = "deferred"
<1>1. /\ FreeBsdImage \in Seq(Stages) /\ Len(FreeBsdImage) = 3
      /\ FreeBsdImage[1] = "lease" /\ FreeBsdImage[2] = "manifest" /\ FreeBsdImage[3] = "fetch"
  BY DEF FreeBsdImage, Stages
<1>2. /\ FreeBsdBoot \in Seq(Stages) /\ Len(FreeBsdBoot) = 9
      /\ FreeBsdBoot[1] = "publish" /\ FreeBsdBoot[2] = "connect" /\ FreeBsdBoot[3] = "locate"
      /\ FreeBsdBoot[4] = "find" /\ FreeBsdBoot[5] = "load" /\ FreeBsdBoot[6] = "ufs"
      /\ FreeBsdBoot[7] = "start" /\ FreeBsdBoot[8] = "unpublish" /\ FreeBsdBoot[9] = "deferred"
  BY DEF FreeBsdBoot, Stages
<1>3. /\ Plan \in Seq(Stages) /\ Len(Plan) = 12
      /\ \A k \in 1 .. 12 : Plan[k] = IF k <= 3 THEN FreeBsdImage[k] ELSE FreeBsdBoot[k - 3]
  <2> DEFINE s == FreeBsdImage
             t == FreeBsdBoot
  <2> HIDE DEF s, t
  <2>1. s \in Seq(Stages) /\ t \in Seq(Stages) /\ Len(s) = 3 /\ Len(t) = 9
    BY <1>1, <1>2 DEF s, t
  <2>2. /\ s \o t \in Seq(Stages) /\ Len(s \o t) = Len(s) + Len(t)
        /\ \A k \in 1 .. Len(s) + Len(t) : (s \o t)[k] = IF k <= Len(s) THEN s[k] ELSE t[k - Len(s)]
    BY <2>1, ConcatProperties, Zenon
  <2>x. Len(s) + Len(t) = 12
    BY <2>1
  <2>3. /\ s \o t \in Seq(Stages) /\ Len(s \o t) = 12
        /\ \A k \in 1 .. 12 : (s \o t)[k] = IF k <= 3 THEN s[k] ELSE t[k - 3]
    <3>1. s \o t \in Seq(Stages) /\ Len(s \o t) = 12
      BY <2>2, <2>x
    <3>2. \A k \in 1 .. 12 : (s \o t)[k] = IF k <= Len(s) THEN s[k] ELSE t[k - Len(s)]
      BY <2>2, <2>x, Zenon
    <3> QED BY <2>1, <3>1, <3>2, Zenon
  <2> QED BY <2>3, Zenon DEF Plan, s, t
<1> QED BY <1>1, <1>2, <1>3

\* A stage is where it is in the plan.
LEMMA Places ==
  ASSUME PlanInv
  PROVE  /\ Left \in 0 .. 12 /\ (todo = <<>> <=> Left = 0)
         /\ (At("lease") => Left = 12) /\ (At("manifest") => Left = 11) /\ (At("fetch") => Left = 10)
         /\ (At("publish") => Left = 9) /\ (At("connect") => Left = 8) /\ (At("locate") => Left = 7)
         /\ (At("find") => Left = 6) /\ (At("load") => Left = 5) /\ (At("ufs") => Left = 4)
         /\ (At("start") => Left = 3) /\ (At("unpublish") => Left = 2) /\ (At("deferred") => Left = 1)
<1>1. Left \in 0 .. 12 /\ (todo = <<>> <=> Left = 0)
  <2>1. todo \in Seq(Stages) /\ Len(todo) \in Nat /\ Len(todo) <= 12
    BY DEF PlanInv, Left
  <2>2. todo = <<>> <=> Len(todo) = 0
    BY <2>1, EmptySeq
  <2>3. Left \in Nat /\ Left <= 12 /\ (todo = <<>> <=> Left = 0)
    BY <2>1, <2>2, Zenon DEF Left
  <2> QED BY <2>3
<1>2. ASSUME NEW st, At(st) PROVE Left \in 1 .. 12 /\ st = Plan[13 - Left]
  <2>1. Left # 0 /\ st = todo[1]
    BY <1>1, <1>2 DEF At, PlanInv
  <2>2. 1 \in 1 .. Left /\ 12 - Left + 1 = 13 - Left
    BY <1>1, <2>1
  <2> QED BY <1>1, <2>1, <2>2 DEF PlanInv
<1>3. ASSUME NEW k \in 1 .. 12, NEW m \in 1 .. 12, Plan[k] = Plan[m] PROVE k = m
  BY <1>3, PlanStages
<1>4. ASSUME NEW k \in 1 .. 12, At(Plan[k]) PROVE Left = 13 - k
  <2>1. Left \in 1 .. 12 /\ Plan[k] = Plan[13 - Left] /\ 13 - Left \in 1 .. 12
    BY <1>2, <1>4
  <2>2. k = 13 - Left
    BY <1>3, <2>1
  <2> QED BY <2>1, <2>2
<1> QED BY <1>1, <1>4, PlanStages

\* The next stage, ...
LEMMA DonePlan ==
  ASSUME PlanInv, todo # <<>>, Done, UNCHANGED queue PROVE PlanInv' /\ Left' = Left - 1
<1>1. /\ todo' \in Seq(Stages) /\ Len(todo') = Len(todo) - 1 /\ Len(todo) \in Nat
      /\ \A k \in 1 .. Len(todo') : todo'[k] = todo[k + 1]
  BY HeadTailProperties DEF PlanInv, Done
<1>2. ASSUME NEW k \in 1 .. Len(todo') PROVE todo'[k] = Plan[12 - Len(todo') + k]
  <2>1. k + 1 \in 1 .. Len(todo) /\ 12 - Len(todo) + (k + 1) = 12 - Len(todo') + k
    BY <1>1
  <2>2. todo[k + 1] = Plan[12 - Len(todo) + (k + 1)]
    BY <2>1 DEF PlanInv, Left
  <2> QED BY <1>1, <2>1, <2>2
<1> QED BY <1>1, <1>2 DEF PlanInv, Left

\* ... and the end of a probe.
LEMMA ReturnPlan == ASSUME PlanInv, Return, UNCHANGED queue PROVE PlanInv' /\ Left' = 0
BY DEF PlanInv, Left, Return

\* A file on a volume has a path of its own: buildFilePathDevicePath loses nothing but
\* END.
LEMMA FilePathTells ==
  ASSUME NEW m \in VolumePaths, NEW n \in VolumePaths, NEW file \in Seq(Nat),
         FilePath(PathBytes(m), file) = FilePath(PathBytes(n), file)
  PROVE  PathBytes(m) = PathBytes(n)
<1> DEFINE s == Flatten(m)
           t == Flatten(n)
           F == Node(4, 4, file)
<1>1. s \in Seq(Nat) /\ t \in Seq(Nat)
  BY PathAssumption
<1>2. F \in Seq(Nat)
  <2>1. <<4, 4, 4 + Len(file), 0>> \in Seq(Nat)
    <3>1. 4 + Len(file) \in Nat
      OBVIOUS
    <3> QED BY <3>1
  <2> QED BY <2>1, ConcatProperties DEF Node
<1>3. EndNode \in Seq(Nat) /\ Len(EndNode) = 4
  BY DEF EndNode
<1> HIDE DEF s, t, F
<1>4. ASSUME NEW u \in Seq(Nat)
      PROVE  /\ SubSeq(u \o EndNode, 1, Len(u \o EndNode) - 4) = u
             /\ Len((u \o F) \o EndNode) = Len(u) + Len(F) + 4
             /\ \A k \in 1 .. Len(u) : ((u \o F) \o EndNode)[k] = u[k]
  <2>1. /\ u \o EndNode \in Seq(Nat) /\ Len(u \o EndNode) = Len(u) + 4 /\ Len(u) \in Nat
        /\ \A k \in 1 .. Len(u) : (u \o EndNode)[k] = u[k]
    <3>1. /\ u \o EndNode \in Seq(Nat) /\ Len(u \o EndNode) = Len(u) + Len(EndNode)
          /\ \A k \in 1 .. Len(u) + Len(EndNode) :
               (u \o EndNode)[k] = IF k <= Len(u) THEN u[k] ELSE EndNode[k - Len(u)]
      BY <1>3, ConcatProperties, Zenon
    <3>2. \A k \in 1 .. Len(u) : k \in 1 .. Len(u) + Len(EndNode) /\ k <= Len(u)
      BY <1>3
    <3> QED BY <1>3, <3>1, <3>2
  <2>2. SubSeq(u \o EndNode, 1, Len(u \o EndNode) - 4) = u
    <3> DEFINE w == u \o EndNode
               z == SubSeq(w, 1, Len(u))
    <3> HIDE DEF w
    <3>1. w \in Seq(Nat) /\ Len(w) = Len(u) + 4 /\ \A k \in 1 .. Len(u) : w[k] = u[k]
      BY <2>1 DEF w
    <3>2. z \in Seq(Nat) /\ Len(z) = Len(u) /\ \A k \in 1 .. Len(u) : z[k] = w[k]
      BY <2>1, <3>1
    <3> HIDE DEF z
    <3>3. z = u
      BY <3>1, <3>2, SeqEqual
    <3>4. Len(w) - 4 = Len(u)
      BY <2>1, <3>1
    <3> QED BY <3>3, <3>4 DEF w, z
  <2>3. /\ u \o F \in Seq(Nat) /\ Len(u \o F) = Len(u) + Len(F) /\ Len(F) \in Nat
        /\ \A k \in 1 .. Len(u) : (u \o F)[k] = u[k]
    BY <1>2, ConcatProperties
  <2>4. /\ Len((u \o F) \o EndNode) = Len(u \o F) + 4
        /\ \A k \in 1 .. Len(u \o F) : ((u \o F) \o EndNode)[k] = (u \o F)[k]
    <3> DEFINE w == u \o F
    <3>1. w \in Seq(Nat) /\ Len(w) \in Nat
      BY <2>3
    <3> HIDE DEF w
    <3>2. /\ Len(w \o EndNode) = Len(w) + Len(EndNode)
          /\ \A k \in 1 .. Len(w) + Len(EndNode) :
               (w \o EndNode)[k] = IF k <= Len(w) THEN w[k] ELSE EndNode[k - Len(w)]
      BY <1>3, <3>1, ConcatProperties, Zenon
    <3>3. \A k \in 1 .. Len(w) : k \in 1 .. Len(w) + Len(EndNode) /\ k <= Len(w)
      BY <1>3, <3>1
    <3>4. Len(w \o EndNode) = Len(w) + 4 /\ \A k \in 1 .. Len(w) : (w \o EndNode)[k] = w[k]
      BY <1>3, <3>1, <3>2, <3>3
    <3> QED BY <3>4 DEF w
  <2> QED BY <2>1, <2>2, <2>3, <2>4
<1>5. (s \o F) \o EndNode = (t \o F) \o EndNode
  <2>1. ASSUME NEW u \in Seq(Nat) PROVE FilePath(u \o EndNode, file) = (u \o F) \o EndNode
    BY <1>4, Zenon DEF FilePath, F
  <2>2. FilePath(s \o EndNode, file) = FilePath(t \o EndNode, file)
    BY DEF PathBytes, s, t
  <2> QED BY <1>1, <2>1, <2>2, Zenon
<1>6. Len(s) = Len(t) /\ Len(s) \in Nat
  <2>1. Len(F) \in Nat /\ Len(s) \in Nat /\ Len(t) \in Nat
    BY <1>1, <1>2
  <2> QED BY <1>1, <1>4, <1>5, <2>1
<1>7. \A k \in 1 .. Len(s) : s[k] = t[k]
  BY <1>1, <1>4, <1>5, <1>6
<1>8. s = t
  BY <1>1, <1>6, <1>7, SeqEqual
<1> QED BY <1>8 DEF PathBytes, s, t

\* The next probe starts from nothing, ...
LEMMA NextProbeStep == ASSUME DiskInv, NextProbe PROVE DiskInv'
<1>0. /\ Left = 0 /\ op = Idle /\ UNCHANGED <<reg, published, installed, size, op, vols, sfs>>
      /\ disk' = None /\ loader' = [state |-> "none", from |-> None]
  <2>1. Left = 0
    BY Places DEF DiskInv, NextProbe
  <2> QED BY <2>1 DEF DiskInv, PubInv, NextProbe, vars
<1>1. PlanInv' /\ Left' \in {0, 12}
  <2>1. queue' \in Seq({Plan}) /\ Head(queue) = Plan
    BY HeadTailProperties DEF DiskInv, PlanInv, NextProbe
  <2>2. CASE todo' = <<>>
    BY <2>1, <2>2 DEF PlanInv, Left
  <2>3. CASE todo' = Plan
    <3>1. Left' = 12
      BY <2>3, PlanStages DEF Left
    <3>2. \A k \in 1 .. 12 : 12 - 12 + k = k
      OBVIOUS
    <3>3. \A k \in 1 .. Left' : todo'[k] = Plan[12 - Left' + k]
      BY <2>3, <3>1, <3>2
    <3> QED BY <2>1, <2>3, <3>1, <3>3, PlanStages DEF PlanInv
  <2> QED BY <2>1, <2>2, <2>3 DEF NextProbe
<1>2. VolInv'
  BY <1>0 DEF DiskInv, VolInv
<1>3. PubInv'
  BY <1>0, <1>1 DEF PubInv
<1>4. LoaderInv'
  BY <1>0, <1>1 DEF LoaderInv
<1> QED BY <1>1, <1>2, <1>3, <1>4 DEF DiskInv

\* ... fetches its image, ...
LEMMA FetchStep == ASSUME DiskInv, Prepare \/ Fetch PROVE DiskInv'
<1>0. /\ Left \in 10 .. 12 /\ todo # <<>> /\ UNCHANGED <<queue, installed, op, disk, vols, child, loader, sfs, refused>>
      /\ Done \/ Return
  <2>1. Left \in 10 .. 12
    BY Places DEF DiskInv, Prepare, Fetch
  <2> QED BY <2>1 DEF Prepare, Fetch, vars, At
<1>1. PlanInv' /\ Left' \in {0, Left - 1}
  BY <1>0, DonePlan, ReturnPlan DEF DiskInv
<1>2. VolInv'
  BY <1>0 DEF DiskInv, VolInv
<1>3. PubInv'
  BY <1>0, <1>1 DEF DiskInv, PubInv
<1>4. LoaderInv'
  BY <1>0, <1>1 DEF DiskInv, LoaderInv
<1> QED BY <1>1, <1>2, <1>3, <1>4 DEF DiskInv

\* ... and publishes it: the firmware accepts one disk at a time under the path of ours.
LEMMA PublishStep ==
  ASSUME DiskInv, IInv, Publish \/ PublishInstall \/ PublishRefused \/ PublishRecord PROVE DiskInv'
<1>0. Left = 9 /\ todo # <<>> /\ UNCHANGED <<queue, image, vols, child, loader, sfs, refused>> /\ op.proto \in Addr \cup {None}
  <2>1. Left = 9
    BY Places DEF DiskInv, Publish, PublishInstall, PublishRefused, PublishRecord
  <2> QED BY <2>1 DEF Publish, PublishInstall, PublishRefused, PublishRecord, probeVars, At, IInv, TypeOK
<1>1. CASE Publish
  <2>1. PICK p \in Addr : disk' = p /\ Reserve(p, image) /\ disk = None /\ UNCHANGED todo
    BY <1>1 DEF Publish
  <2>2. op'.kind = "install" /\ op'.proto = p /\ size'[p] = image /\ UNCHANGED installed
    BY <2>1 DEF Reserve, IInv, TypeOK
  <2>3. PlanInv' /\ Left' = 9
    BY <1>0, <2>1, Zenon DEF DiskInv, PlanInv, Left
  <2>4. VolInv'
    BY <1>0, <2>2 DEF DiskInv, VolInv
  <2>5. PubInv'
    BY <1>0, <2>1, <2>2, <2>3, NoneAssumption DEF PubInv
  <2>6. LoaderInv'
    BY <1>0, <2>3 DEF DiskInv, LoaderInv
  <2> QED BY <2>3, <2>4, <2>5, <2>6 DEF DiskInv
<1>2. CASE PublishInstall
  <2>1. /\ op.kind = "install" /\ op'.kind = "record" /\ op'.proto = op.proto /\ installed = {}
        /\ installed' = {op.proto} /\ UNCHANGED <<size, todo, disk>>
    <3>1. /\ op.kind = "install" /\ op' = [op EXCEPT !.kind = "record"] /\ installed = {}
          /\ installed' = installed \cup {op.proto} /\ UNCHANGED <<size, todo, disk>>
      BY <1>2 DEF PublishInstall, Install, probeVars
    <3>2. op'.kind = "record" /\ op'.proto = op.proto
      BY <3>1 DEF IInv, TypeOK
    <3> QED BY <3>1, <3>2
  <2>2. disk # None /\ op.proto = disk
    BY <1>0, <2>1 DEF DiskInv, PubInv, Idle
  <2>3. PlanInv' /\ Left' = 9
    BY <1>0, <2>1, Zenon DEF DiskInv, PlanInv, Left
  <2>4. VolInv'
    BY <1>0, <2>1 DEF DiskInv, VolInv
  <2>5. PubInv'
    BY <1>0, <2>1, <2>2, <2>3 DEF DiskInv, PubInv
  <2>6. LoaderInv'
    BY <1>0, <2>1, <2>3 DEF DiskInv, LoaderInv
  <2> QED BY <2>3, <2>4, <2>5, <2>6 DEF DiskInv
<1>3. CASE PublishRefused
  <2>1. op' = Idle /\ Return /\ UNCHANGED <<installed, disk>>
    BY <1>3 DEF PublishRefused, InstallRefused
  <2>2. PlanInv' /\ Left' = 0
    BY <1>0, <2>1, ReturnPlan DEF DiskInv
  <2>3. VolInv'
    BY <1>0, <2>1 DEF DiskInv, VolInv
  <2>4. PubInv'
    BY <2>1, <2>2 DEF PubInv
  <2>5. LoaderInv'
    BY <1>0, <2>2 DEF DiskInv, LoaderInv
  <2> QED BY <2>2, <2>3, <2>4, <2>5 DEF DiskInv
<1>4. CASE PublishRecord
  <2>1. op' = Idle /\ op.kind = "record" /\ Done /\ UNCHANGED <<installed, size, disk>>
    BY <1>4 DEF PublishRecord, Record
  <2>2. disk \in installed /\ size[disk] = image
    BY <1>0, <2>1 DEF DiskInv, PubInv, Idle
  <2>3. PlanInv' /\ Left' = 8
    BY <1>0, <2>1, DonePlan DEF DiskInv
  <2>4. VolInv'
    BY <1>0, <2>1 DEF DiskInv, VolInv
  <2>5. PubInv'
    BY <1>0, <2>1, <2>2, <2>3 DEF PubInv, HasDisk
  <2>6. LoaderInv'
    BY <1>0, <2>3 DEF DiskInv, LoaderInv
  <2> QED BY <2>3, <2>4, <2>5, <2>6 DEF DiskInv
<1> QED BY <1>1, <1>2, <1>3, <1>4

\* The volumes that appear are on our disk, and the one found is below our node.
LEMMA FindStep ==
  ASSUME DiskInv, ConnectController \/ LocateHandleBuffer \/ FindSFSChildOf PROVE DiskInv'
<1>0. /\ Left \in 6 .. 8 /\ todo # <<>>
      /\ UNCHANGED <<reg, published, installed, size, op, queue, image, disk, loader, sfs, refused>>
  <2>1. Left \in 6 .. 8
    BY Places DEF DiskInv, ConnectController, LocateHandleBuffer, FindSFSChildOf
  <2>2. todo # <<>>
    BY DEF ConnectController, LocateHandleBuffer, FindSFSChildOf, At
  <2>3. UNCHANGED <<reg, published, installed, size, op, queue, image, disk, loader, sfs, refused>>
    BY DEF ConnectController, LocateHandleBuffer, FindSFSChildOf, vars
  <2> QED BY <2>1, <2>2, <2>3
<1>1. PlanInv' /\ Left' \in {0, Left - 1}
  <2>1. Done \/ Return
    BY DEF ConnectController, LocateHandleBuffer, FindSFSChildOf
  <2> QED BY <1>0, <2>1, DonePlan, ReturnPlan DEF DiskInv
<1>2. VolInv'
  <2>1. CASE UNCHANGED vols
    BY <1>0, <2>1 DEF DiskInv, VolInv
  <2>2. CASE ConnectController /\ vols' # vols
    <3>1. PICK found \in SUBSET Partitions :
            vols' = vols \cup {[nodes |-> DiskNodes \o part, disk |-> disk] : part \in found}
      BY <2>2, Zenon DEF ConnectController
    <3>2. disk \in installed
      BY <1>0 DEF DiskInv, PubInv, HasDisk
    <3>3. \A part \in found : DiskNodes \o part \in VolumePaths
      BY DEF VolumePaths
    <3>4. ASSUME NEW v \in vols'
          PROVE  \/ v.disk = None /\ v.nodes \in Stock
                 \/ v.disk \in installed /\ v.nodes \in VolumePaths
      <4>1. CASE v \in vols
        BY <4>1 DEF DiskInv, VolInv
      <4>2. CASE \E part \in found : v = [nodes |-> DiskNodes \o part, disk |-> disk]
        BY <3>2, <3>3, <4>2
      <4> QED BY <3>1, <4>1, <4>2
    <3> QED BY <1>0, <3>4 DEF DiskInv, VolInv
  <2> QED BY <2>1, <2>2 DEF LocateHandleBuffer, FindSFSChildOf
<1>3. PubInv'
  BY <1>0, <1>1 DEF DiskInv, PubInv, HasDisk
<1>4. LoaderInv'
  <2>1. loader.state = "none"
    BY <1>0 DEF DiskInv, LoaderInv
  <2>2. Left' = 5 => DevicePathPrefix(PathBytes(DiskNodes), child') /\ \E n \in VolumePaths : child' = PathBytes(n)
    <3> SUFFICES ASSUME Left' = 5
                 PROVE  DevicePathPrefix(PathBytes(DiskNodes), child') /\ \E n \in VolumePaths : child' = PathBytes(n)
      OBVIOUS
    <3>1. Left = 6
      BY <1>0, <1>1
    <3>2. FindSFSChildOf
      BY <3>1, Places DEF DiskInv, ConnectController, LocateHandleBuffer
    <3>3. ~Return
      <4>1. Return => Left' = 0
        BY <1>0, ReturnPlan DEF DiskInv
      <4> QED BY <4>1
    <3>4. PICK v \in vols : /\ DevicePathPrefix(PathBytes(DiskNodes), PathBytes(v.nodes))
                            /\ child' = PathBytes(v.nodes)
      BY <3>2, <3>3 DEF FindSFSChildOf
    <3>5. v.nodes \in VolumePaths
      BY DEF DiskInv, VolInv, VolumePaths
    <3> QED BY <3>4, <3>5
  <2> QED BY <1>0, <1>1, <2>1, <2>2 DEF DiskInv, LoaderInv
<1> QED BY <1>1, <1>2, <1>3, <1>4 DEF DiskInv

\* The loader comes from the disk: no other volume has the path that was found.
LEMMA LoadStep == ASSUME DiskInv, IInv, LoadImageFromSFS PROVE DiskInv'
<1>0. /\ Left = 5 /\ todo # <<>>
      /\ UNCHANGED <<reg, published, installed, size, op, queue, image, disk, vols, sfs, refused>>
  <2>1. Left = 5
    BY Places DEF DiskInv, LoadImageFromSFS
  <2> QED BY <2>1 DEF LoadImageFromSFS, vars, At
<1>1. PlanInv' /\ Left' \in {0, Left - 1}
  <2>1. Done \/ Return
    BY DEF LoadImageFromSFS
  <2> QED BY <1>0, <2>1, DonePlan, ReturnPlan DEF DiskInv
<1>2. VolInv'
  BY <1>0 DEF DiskInv, VolInv
<1>3. PubInv'
  BY <1>0, <1>1 DEF DiskInv, PubInv, HasDisk
<1>4. CASE Return /\ UNCHANGED loader
  <2>1. Left' = 0 /\ loader.state = "none"
    BY <1>0, <1>4, ReturnPlan DEF DiskInv, LoaderInv
  <2>2. LoaderInv'
    BY <1>0, <1>4, <2>1 DEF DiskInv, LoaderInv
  <2> QED BY <1>1, <1>2, <1>3, <2>2 DEF DiskInv
<1>5. CASE \E v \in vols : /\ FilePath(PathBytes(v.nodes), <<1>>) = FilePath(child, <<1>>)
                           /\ loader' = [state |-> "loaded", from |-> v.disk] /\ Done
  <2>1. PICK v \in vols : /\ FilePath(PathBytes(v.nodes), <<1>>) = FilePath(child, <<1>>)
                          /\ loader' = [state |-> "loaded", from |-> v.disk] /\ Done
    BY <1>5
  <2>2. Left' = 4
    BY <1>0, <2>1, DonePlan DEF DiskInv
  <2>3. PICK n \in VolumePaths : child = PathBytes(n)
    BY <1>0 DEF DiskInv, LoaderInv
  <2>4. v.nodes \in VolumePaths
    BY DEF DiskInv, VolInv, VolumePaths
  <2>5. DevicePathPrefix(PathBytes(DiskNodes), PathBytes(v.nodes))
    <3>1. PathBytes(v.nodes) = child
      <4>1. <<1>> \in Seq(Nat)
        OBVIOUS
      <4> QED BY <2>1, <2>3, <2>4, <4>1, FilePathTells, Zenon
    <3> QED BY <1>0, <3>1 DEF DiskInv, LoaderInv
  <2>6. v.nodes \notin Stock
    BY <2>5, PathAssumption
  <2>7. v.disk = disk /\ disk \in installed
    BY <1>0, <2>6 DEF DiskInv, VolInv, PubInv, HasDisk
  <2>8. /\ loader'.state = "loaded" /\ loader'.from = disk
        /\ loader' \in [state : {"none", "loaded", "running", "returned"}, from : Addr \cup {None}]
    BY <2>1, <2>7 DEF IInv, TypeOK
  <2>9. LoaderInv'
    BY <1>0, <2>1, <2>2, <2>7, <2>8 DEF LoaderInv
  <2> QED BY <1>1, <1>2, <1>3, <2>9 DEF DiskInv
<1> QED BY <1>4, <1>5 DEF LoadImageFromSFS

\* The volume for the loader's own file system leaves the disk alone.
LEMMA UfsStep == ASSUME DiskInv, PublishUfs PROVE DiskInv'
<1>1. /\ Left = 4 /\ todo # <<>> /\ Done
      /\ UNCHANGED <<reg, published, installed, size, op, queue, image, disk, vols, child, loader, refused>>
  <2>1. Left = 4
    BY Places DEF DiskInv, PublishUfs
  <2> QED BY <2>1 DEF PublishUfs, vars, At
<1>2. PlanInv' /\ Left' = 3
  BY <1>1, DonePlan DEF DiskInv
<1>3. VolInv'
  BY <1>1 DEF DiskInv, VolInv
<1>4. PubInv'
  BY <1>1, <1>2 DEF DiskInv, PubInv, HasDisk
<1>5. LoaderInv'
  BY <1>1, <1>2 DEF DiskInv, LoaderInv
<1> QED BY <1>2, <1>3, <1>4, <1>5 DEF DiskInv

\* Starting the loader and coming back from it.
LEMMA StartImageStep == ASSUME DiskInv, IInv, StartImage PROVE DiskInv'
<1>1. /\ Left = 3 /\ todo # <<>>
      /\ UNCHANGED <<reg, published, installed, size, op, queue, image, disk, vols, child, sfs, refused>>
  <2>1. Left = 3
    BY Places DEF DiskInv, StartImage
  <2> QED BY <2>1 DEF StartImage, vars, At
<1>2. VolInv'
  BY <1>1 DEF DiskInv, VolInv
<1>3. disk \in Addr /\ loader.from = disk
  BY <1>1 DEF DiskInv, PubInv, HasDisk, LoaderInv, IInv, TypeOK
<1>4. CASE loader' = [loader EXCEPT !.state = "running"] /\ UNCHANGED todo
  <2>1. /\ loader'.state = "running" /\ loader'.from = disk
        /\ loader' \in [state : {"none", "loaded", "running", "returned"}, from : Addr \cup {None}]
    BY <1>3, <1>4 DEF DiskInv, LoaderInv
  <2>2. PlanInv' /\ Left' = 3
    BY <1>1, <1>4, Zenon DEF DiskInv, PlanInv, Left
  <2>3. PubInv'
    BY <1>1, <2>2 DEF DiskInv, PubInv, HasDisk
  <2>4. LoaderInv'
    BY <1>1, <2>1, <2>2 DEF LoaderInv
  <2> QED BY <1>2, <2>2, <2>3, <2>4 DEF DiskInv
<1>5. CASE loader' = [loader EXCEPT !.state = "returned"] /\ Done
  <2>1. /\ loader'.state = "returned"
        /\ loader' \in [state : {"none", "loaded", "running", "returned"}, from : Addr \cup {None}]
    BY <1>5 DEF DiskInv, LoaderInv
  <2>2. PlanInv' /\ Left' = 2
    BY <1>1, <1>5, DonePlan DEF DiskInv
  <2>3. PubInv'
    BY <1>1, <2>2 DEF DiskInv, PubInv, HasDisk
  <2>4. LoaderInv'
    BY <1>1, <1>3, <2>1, <2>2 DEF LoaderInv
  <2> QED BY <1>2, <2>2, <2>3, <2>4 DEF DiskInv
<1> QED BY <1>4, <1>5 DEF StartImage

\* Taking the disk back takes its volumes and its slot, unless the firmware refuses.
LEMMA UnpublishStep == ASSUME DiskInv, IInv, UnpublishDisk PROVE DiskInv'
<1>0. Left = 2 /\ todo # <<>> /\ UNCHANGED <<queue, image, disk, child, loader, sfs>>
  <2>1. Left = 2
    BY Places DEF DiskInv, UnpublishDisk
  <2> QED BY <2>1 DEF UnpublishDisk, At
<1>1. loader.state = "returned" /\ disk \in Addr
  BY <1>0 DEF DiskInv, LoaderInv
<1>2. CASE \E e \in published : e[1] = disk /\ Uninstall(e) /\ vols' = {v \in vols : v.disk # disk}
                                /\ UNCHANGED <<todo, refused>>
  <2>1. /\ installed' = installed \ {disk} /\ op'.kind = "clear" /\ op'.proto = disk
        /\ vols' = {v \in vols : v.disk # disk} /\ UNCHANGED <<todo, refused, reg>>
    BY <1>2 DEF Uninstall
  <2>2. PlanInv' /\ Left' = 2
    BY <1>0, <2>1, Zenon DEF DiskInv, PlanInv, Left
  <2>3. VolInv'
    BY <2>1 DEF DiskInv, VolInv
  <2>4. PubInv'
    BY <1>0, <2>1, <2>2 DEF PubInv
  <2>5. LoaderInv'
    BY <1>0, <2>1, <2>2 DEF DiskInv, LoaderInv
  <2> QED BY <2>2, <2>3, <2>4, <2>5 DEF DiskInv
<1>3. CASE Clear /\ Done /\ UNCHANGED <<vols, refused>>
  <2>1. /\ op.kind = "clear" /\ reg' = [reg EXCEPT ![op.slot] = Free] /\ op' = Idle
        /\ UNCHANGED <<installed, vols, refused>>
    BY <1>3 DEF Clear
  <2>2. op.proto = disk /\ disk \notin installed
    BY <1>0, <2>1 DEF DiskInv, PubInv, HasDisk, Idle
  <2>3. \A s \in Slots : reg'[s].proto # disk
    <3> SUFFICES ASSUME NEW s \in Slots PROVE reg'[s].proto # disk
      OBVIOUS
    <3>1. op.slot \in Slots /\ reg[op.slot].proto = disk
      BY <2>1, <2>2 DEF IInv, Owned
    <3>2. CASE s = op.slot
      <4>1. reg'[s] = Free
        BY <2>1, <3>1, <3>2 DEF IInv, TypeOK
      <4> QED BY <1>1, <4>1, NoneAssumption DEF Free
    <3>3. CASE s # op.slot
      <4>1. reg'[s] = reg[s]
        BY <2>1, <3>1, <3>3 DEF IInv, TypeOK
      <4>2. disk # None
        BY <1>1, NoneAssumption
      <4> QED BY <3>1, <3>3, <4>1, <4>2 DEF IInv, Owned
    <3> QED BY <3>2, <3>3
  <2>4. Lookup(disk)' = {}
    BY <1>0, <2>3 DEF Lookup
  <2>5. PlanInv' /\ Left' = 1
    BY <1>0, <1>3, DonePlan DEF DiskInv
  <2>6. VolInv'
    BY <2>1 DEF DiskInv, VolInv
  <2>7. PubInv'
    BY <2>1, <2>5 DEF PubInv
  <2>8. LoaderInv'
    BY <1>0, <1>1, <2>1, <2>2, <2>4, <2>5 DEF DiskInv, LoaderInv
  <2> QED BY <2>5, <2>6, <2>7, <2>8 DEF DiskInv
<1>4. CASE op = Idle /\ Done /\ refused' = TRUE /\ UNCHANGED <<vars, vols>>
  <2>1. PlanInv' /\ Left' = 1
    BY <1>0, <1>4, DonePlan DEF DiskInv
  <2>2. VolInv'
    BY <1>4 DEF DiskInv, VolInv, vars
  <2>3. PubInv'
    BY <1>4, <2>1 DEF PubInv, vars
  <2>4. LoaderInv'
    BY <1>0, <1>1, <1>4, <2>1 DEF DiskInv, LoaderInv
  <2> QED BY <2>1, <2>2, <2>3, <2>4 DEF DiskInv
<1> QED BY <1>2, <1>3, <1>4, Zenon DEF UnpublishDisk

\* The deferred UnpublishSFS comes last.
LEMMA DeferredStep == ASSUME DiskInv, UnpublishUfs PROVE DiskInv'
<1>1. /\ Left = 1 /\ todo # <<>> /\ Done
      /\ UNCHANGED <<reg, published, installed, size, op, queue, image, disk, vols, child, loader>>
      /\ disk \notin sfs' \/ refused' = TRUE
      /\ refused' = refused \/ refused' = TRUE
  <2>1. Left = 1
    BY Places DEF DiskInv, UnpublishUfs
  <2> QED BY <2>1 DEF UnpublishUfs, vars, At
<1>2. PlanInv' /\ Left' = 0
  BY <1>1, DonePlan DEF DiskInv
<1>3. VolInv'
  BY <1>1 DEF DiskInv, VolInv
<1>4. PubInv'
  BY <1>1, <1>2 DEF DiskInv, PubInv
<1>5. Lookup(disk)' = Lookup(disk)
  BY <1>1 DEF Lookup
<1>6. LoaderInv'
  BY <1>1, <1>2, <1>5 DEF DiskInv, LoaderInv
<1> QED BY <1>2, <1>3, <1>4, <1>6 DEF DiskInv

\* Reads change nothing.
LEMMA SameDisk ==
  ASSUME DiskInv, UNCHANGED <<reg, published, installed, size, op, probeVars>> PROVE DiskInv'
<1>1. UNCHANGED <<reg, published, installed, size, op, queue, todo, image, disk, vols, child, loader, sfs, refused>>
  BY DEF probeVars
<1>2. PlanInv' /\ Left' = Left
  BY <1>1 DEF DiskInv, PlanInv, Left
<1>3. VolInv' /\ PubInv'
  BY <1>1, <1>2 DEF DiskInv, VolInv, PubInv, HasDisk
<1>4. LoaderInv'
  BY <1>1, <1>2 DEF DiskInv, LoaderInv, Lookup
<1> QED BY <1>2, <1>3, <1>4 DEF DiskInv

\* Nothing is published and no loader read before the first probe.
LEMMA DiskStarts == DiskInit => DiskInv
<1> SUFFICES ASSUME DiskInit PROVE DiskInv
  OBVIOUS
<1>1. PlanInv /\ Left = 0
  <2>1. queue \in Seq({Plan})
    BY DEF DiskInit, Probes, Plan, NetBsdImage, NetBsdBoot, OpenBsdImage, OpenBsdBoot
  <2> QED BY <2>1 DEF DiskInit, PlanInv, Left
<1>2. VolInv
  BY DEF DiskInit, Init, VolInv
<1>3. PubInv
  BY <1>1 DEF DiskInit, Init, PubInv
<1>4. LoaderInv
  BY <1>1 DEF DiskInit, LoaderInv
<1> QED BY <1>1, <1>2, <1>3, <1>4 DEF DiskInv

\* The loader that runs was read from the image its probe fetched, which answers its
\* reads and is the only one published; once it has come back nothing is left of the
\* disk or its volumes, unless the firmware refused (the disk-image probes,
\* FindSFSChildOf, LoadImageFromSFS, UnpublishBlockIO).
THEOREM LoaderRunsFromItsDisk == DiskSpec => []LoaderHasItsDisk
<1>1. DiskInit => IInv /\ ImageOK
  BY InitInv DEF DiskInit, ImageOK
<1>2. IInv /\ ImageOK /\ [DiskNext]_diskVars => IInv' /\ ImageOK'
  BY NextInv, ImageStaysOK, DiskStepIsPublisherStep
<1>3. DiskInv /\ IInv /\ [DiskNext]_diskVars => DiskInv'
  <2> SUFFICES ASSUME DiskInv, IInv, [DiskNext]_diskVars PROVE DiskInv'
    OBVIOUS
  <2>1. CASE FirmwareReads
    <3>1. UNCHANGED <<reg, published, installed, size, op, probeVars>>
      BY <2>1 DEF FirmwareReads, ReadBlocks
    <3> QED BY <3>1, SameDisk
  <2>2. CASE UNCHANGED diskVars
    BY <2>2, SameDisk DEF diskVars, vars
  <2> QED BY <2>1, <2>2, NextProbeStep, FetchStep, PublishStep, FindStep, LoadStep, UfsStep, StartImageStep,
          UnpublishStep, DeferredStep DEF DiskNext
<1>4. DiskInv /\ IInv => LoaderHasItsDisk
  <2> SUFFICES ASSUME DiskInv, IInv PROVE LoaderHasItsDisk
    OBVIOUS
  <2>1. Left \in 0 .. 12 /\ (todo = <<>> <=> Left = 0)
    BY Places DEF DiskInv
  <2>2. ASSUME loader.state = "running"
        PROVE  /\ loader.from = disk /\ installed = {disk}
               /\ \E s \in Lookup(disk) : reg[s].size = image
    <3>1. Left = 3
      BY <2>1, <2>2 DEF DiskInv, LoaderInv
    <3>2. loader.from = disk /\ disk \in installed /\ size[disk] = image /\ installed = {disk}
      BY <3>1 DEF DiskInv, LoaderInv, PubInv, HasDisk, VolInv
    <3>3. PICK s \in Slots : reg[s].proto = disk /\ disk # None
      BY <3>2, NoneAssumption, Zenon DEF IInv, Held, Owned, TypeOK
    <3>4. s \in Lookup(disk) /\ reg[s].size = size[disk]
      BY <3>3 DEF Lookup, IInv, Owned
    <3> QED BY <3>2, <3>4
  <2>3. ASSUME todo = <<>>, loader.state = "returned", ~refused
        PROVE  /\ disk \notin installed \cup sfs /\ Lookup(disk) = {}
               /\ \A v \in vols : v.disk # disk
    <3>1. disk \in Addr /\ disk \notin installed /\ Lookup(disk) = {} /\ disk \notin sfs
      BY <2>1, <2>3 DEF DiskInv, LoaderInv
    <3>2. \A v \in vols : v.disk # disk
      BY <3>1, NoneAssumption DEF DiskInv, VolInv
    <3> QED BY <3>1, <3>2
  <2> QED BY <2>2, <2>3 DEF LoaderHasItsDisk
<1> QED BY <1>1, <1>2, <1>3, <1>4, DiskStarts, PTL DEF DiskSpec
=============================================================================
