-------------------------- MODULE PublisherProofs --------------------------
(***************************************************************************)
(* What the publishers of firmware protocols keep, for tables of any size, *)
(* any number of volumes, files and handles, and calls of the firmware at  *)
(* any moment: Sfs and Rng.                                                *)
(***************************************************************************)
EXTENDS Sfs, Rng, FiniteSetTheorems, TLAPS

-----------------------------------------------------------------------------
(* The file system publisher.                                              *)

VolRec == [proto : Vols \cup {None}, root : Files \cup {None}]
FileRec ==
  [proto : Files \cup {None}, owner : Vols \cup {None}, path : {<<>>} \cup DOMAIN Tree, dir : BOOLEAN,
   pos : Nat, body : {"none", "loaded", "error"}, listed : BOOLEAN, next : Nat]

OpRecord ==
  [kind : {"none", "install", "record", "clear"}, vol : Vols \cup {None}, slot : VolSlots \cup {0},
   root : FileSlots \cup {0}]

SfsType ==
  /\ vols \in [VolSlots -> VolRec] /\ files \in [FileSlots -> FileRec]
  /\ due \in [Files -> Nat]
  /\ published \subseteq Vols \X VolSlots /\ installed \subseteq Vols
  /\ op.kind # "none" => op.vol \in Vols /\ op.slot \in VolSlots
  /\ op.kind = "install" => op.root \in FileSlots
  /\ op \in OpRecord

\* Slot t of the table of files is the root of the volume in slot s.
RootOf(t, s) ==
  /\ files[t].proto = vols[s].root /\ files[t].proto # None /\ files[t].owner = vols[s].proto
  /\ files[t].path = <<>> /\ files[t].dir

\* An address is in one slot at most, a volume has its root, a file its volume.
TablesInv ==
  /\ \A s, u \in VolSlots : vols[s].proto = vols[u].proto /\ vols[s].proto # None => s = u
  /\ \A t, u \in FileSlots : files[t].proto = files[u].proto /\ files[t].proto # None => t = u
  /\ \A s \in VolSlots : vols[s].proto # None => \E t \in FileSlots : RootOf(t, s)
  /\ \A t \in InUse : \E s \in VolSlots : vols[s].proto = files[t].owner /\ files[t].owner # None

\* Where a publish or unpublish has got to.
OpInv ==
  /\ \A v \in installed : \E s \in VolSlots : vols[s].proto = v
  /\ \A e \in published : vols[e[2]].proto = e[1]
  /\ op.kind # "none" => vols[op.slot].proto = op.vol
  /\ op.kind \in {"install", "clear"} => op.vol \notin installed
  /\ op.kind = "install" =>
       /\ RootOf(op.root, op.slot) /\ \A t \in InUse : files[t].owner = op.vol => t = op.root
       /\ \A e \in published : e[1] # op.vol

\* The next Read of a file starts where the latest one ended.
DueInv ==
  /\ \A t \in InUse : due[files[t].proto] = IF files[t].dir THEN files[t].next ELSE files[t].pos
  /\ ReadsInOrder

SfsInv == SfsType /\ TablesInv /\ OpInv /\ DueInv

\* A call that leaves every file in its slot, whatever it does to its position.
LEMMA SameFiles ==
  ASSUME SfsInv, UNCHANGED <<vols, published, installed, op>>, files' \in [FileSlots -> FileRec],
         \A t \in FileSlots : /\ files'[t].proto = files[t].proto /\ files'[t].owner = files[t].owner
                              /\ files'[t].path = files[t].path /\ files'[t].dir = files[t].dir
  PROVE  TablesInv' /\ OpInv' /\ InUse' = InUse
<1>1. InUse' = InUse
  BY DEF InUse
<1>2. ASSUME NEW t \in FileSlots, NEW s \in VolSlots PROVE RootOf(t, s)' <=> RootOf(t, s)
  BY DEF RootOf
<1>3. TablesInv'
  BY <1>1, <1>2 DEF SfsInv, TablesInv, InUse
<1>4. OpInv'
  <2>1. op.kind = "install" => op.root \in FileSlots /\ op.slot \in VolSlots
    BY DEF SfsInv, SfsType
  <2>2. op.kind = "install" => RootOf(op.root, op.slot)'
    BY <1>2, <2>1 DEF SfsInv, OpInv, RootOf
  <2> QED BY <1>1, <2>2 DEF SfsInv, OpInv, InUse
<1> QED BY <1>1, <1>3, <1>4

\* A call that touches no table.
LEMMA NoChange ==
  ASSUME SfsInv, UNCHANGED <<vols, files, published, installed, op, due>>, ReadsInOrder'
  PROVE  SfsInv'
<1>1. TablesInv' /\ OpInv' /\ InUse' = InUse
  BY SameFiles DEF SfsInv, SfsType
<1>2. SfsType'
  BY DEF SfsInv, SfsType
<1>3. DueInv'
  BY <1>1 DEF SfsInv, DueInv
<1> QED BY <1>1, <1>2, <1>3 DEF SfsInv

\* A Read, SetPosition or failure on the file in slot s: the file and what is due move
\* together (sfsFileReadGo, sfsFileSetPositionGo).
LEMMA MoveStep ==
  ASSUME SfsInv, NEW s \in InUse, UNCHANGED <<vols, published, installed, op>>,
         NEW f \in FileRec, files' = [files EXCEPT ![s] = f], f.proto = files[s].proto, f.owner = files[s].owner,
         f.path = files[s].path, f.dir = files[s].dir,
         NEW d, d = IF f.dir THEN f.next ELSE f.pos, due' = [due EXCEPT ![f.proto] = d],
         ReadsInOrder'
  PROVE  SfsInv'
<1>1. s \in FileSlots /\ files \in [FileSlots -> FileRec] /\ due \in [Files -> Nat] /\ files[s].proto \in Files
  BY DEF InUse, SfsInv, SfsType, FileRec
<1>2. /\ files' \in [FileSlots -> FileRec] /\ files'[s] = f
      /\ \A t \in FileSlots : t # s => files'[t] = files[t]
  BY <1>1
<1>3. TablesInv' /\ OpInv' /\ InUse' = InUse
  BY <1>2, SameFiles
<1>4. d \in Nat
  BY DEF FileRec
<1>5. SfsType'
  BY <1>1, <1>2, <1>4 DEF SfsInv, SfsType
<1>6. ASSUME NEW t \in InUse PROVE due'[files'[t].proto] = IF files'[t].dir THEN files'[t].next ELSE files'[t].pos
  <2>1. t \in FileSlots /\ files[t].proto # None /\ files[t].proto \in Files
    BY <1>1 DEF InUse, FileRec
  <2>2. CASE t = s
    BY <1>1, <1>2, <2>2
  <2>3. CASE t # s
    <3>1. files[t].proto # files[s].proto
      BY <1>1, <2>1, <2>3 DEF SfsInv, TablesInv
    <3>2. due[files[t].proto] = IF files[t].dir THEN files[t].next ELSE files[t].pos
      BY DEF SfsInv, DueInv
    <3> QED BY <1>1, <1>2, <2>1, <2>3, <3>1, <3>2
  <2> QED BY <2>2, <2>3
<1> QED BY <1>3, <1>5, <1>6 DEF SfsInv, DueInv

\* A handle is closed; the root of a volume never is (sfsFileCloseGo, sfsFileDeleteGo).
LEMMA CloseStep ==
  ASSUME SfsInv, NEW s \in Callable, files' = Closed(s), UNCHANGED <<vols, published, installed, op, due>>,
         ReadsInOrder'
  PROVE  SfsInv'
<1>1. CASE IsRoot(s)
  BY <1>1, NoChange DEF Closed
<1>2. CASE ~IsRoot(s)
  <2>1. /\ s \in FileSlots /\ s \in InUse /\ vols \in [VolSlots -> VolRec] /\ files \in [FileSlots -> FileRec]
        /\ op.kind = "install" => files[s].owner # op.vol
    BY DEF Callable, InUse, SfsInv, SfsType
  <2>2. files' = [files EXCEPT ![s] = NoFile] /\ NoFile \in FileRec /\ NoFile.proto = None
    BY <1>2 DEF Closed, NoFile, FileRec
  <2>3. /\ files' \in [FileSlots -> FileRec] /\ files'[s] = NoFile
        /\ \A t \in FileSlots : t # s => files'[t] = files[t]
    BY <2>1, <2>2
  <2>4. InUse' = InUse \ {s}
    BY <2>1, <2>2, <2>3 DEF InUse
  <2>5. ASSUME NEW t \in FileSlots, NEW v \in VolSlots, RootOf(t, v), vols[v].proto # None PROVE t # s /\ RootOf(t, v)'
    <3>1. t # s
      BY <1>2, <2>5 DEF RootOf, IsRoot, VolAt
    <3> QED BY <2>3, <2>5, <3>1 DEF RootOf
  <2>6. SfsType'
    BY <2>3 DEF SfsInv, SfsType
  <2>7. TablesInv'
    <3>1. \A v \in VolSlots : vols[v].proto # None => \E t \in FileSlots : RootOf(t, v)'
      BY <2>5 DEF SfsInv, TablesInv
    <3>2. \A t, u \in FileSlots : files'[t].proto = files'[u].proto /\ files'[t].proto # None => t = u
      BY <2>2, <2>3 DEF SfsInv, TablesInv
    <3>3. \A t \in InUse' : \E v \in VolSlots : vols[v].proto = files'[t].owner /\ files'[t].owner # None
      BY <2>3, <2>4 DEF SfsInv, TablesInv, InUse
    <3> QED BY <3>1, <3>2, <3>3 DEF SfsInv, TablesInv, RootOf
  <2>8. OpInv'
    <3>1. op.kind = "install" => op.root \in FileSlots /\ op.slot \in VolSlots /\ RootOf(op.root, op.slot) /\ vols[op.slot].proto # None
      BY SfsAssumption DEF SfsInv, SfsType, OpInv
    <3>2. op.kind = "install" => RootOf(op.root, op.slot)'
      BY <2>5, <3>1 DEF RootOf
    <3>3. op.kind = "install" => \A t \in InUse' : files'[t].owner = op.vol => t = op.root
      BY <2>3, <2>4 DEF SfsInv, OpInv, InUse
    <3> QED BY <3>2, <3>3 DEF SfsInv, OpInv
  <2>9. DueInv'
    BY <2>3, <2>4 DEF SfsInv, DueInv, InUse
  <2> QED BY <2>6, <2>7, <2>8, <2>9 DEF SfsInv
<1> QED BY <1>1, <1>2

\* The entry of a new file.
LEMMA OpenFileType ==
  ASSUME NEW f \in Files, NEW v \in Vols, NEW path \in {<<>>} \cup DOMAIN Tree, NEW dir \in BOOLEAN
  PROVE  LET r == OpenFile(f, v, path, dir) IN
         r \in FileRec /\ r.proto = f /\ r.owner = v /\ r.path = path /\ r.dir = dir /\ r.pos = 0 /\ r.next = 0
  BY Zenon DEF OpenFile, NoFile, FileRec

\* A slot found free holds nothing, and a fresh address is in no slot.
LEMMA FreshFile ==
  ASSUME SfsType, NEW t \in FreeFile, NEW new \in FreshFiles
  PROVE  /\ t \in FileSlots /\ t \notin InUse /\ new \in Files /\ new # None
         /\ \A u \in FileSlots : files[u].proto # new
  BY SfsAssumption DEF FreeFile, FreshFiles, InUse

\* What Open has found out when it succeeds.
LEMMA OpenSucceeds ==
  ASSUME NEW s, NEW name, NEW mode, OpenStatus(s, name, mode) = "success"
  PROVE  VolAt(files[s].owner) # {} /\ FreeFile # {} /\ JoinPath(files[s].path, name) \in DOMAIN Tree
<1>1. VolAt(files[s].owner) # {}
  BY Zenon DEF OpenStatus
<1>2. FreeFile # {}
  BY Zenon DEF OpenStatus
<1>3. JoinPath(files[s].path, name) \in DOMAIN Tree
  BY Zenon DEF OpenStatus
<1> QED BY <1>1, <1>2, <1>3

\* Open: one more file on a volume that is in the table and not being published
\* (sfsFileOpenGo).
LEMMA OpenStep ==
  ASSUME SfsInv, NEW s \in Callable, NEW name \in Names, NEW mode, NEW new \in FreshFiles, Open(s, name, mode, new)
  PROVE  SfsInv'
<1>0. ReadsInOrder'
  BY DEF Open, Answer, ReadsInOrder
<1> DEFINE full == JoinPath(files[s].path, name)
           v == files[s].owner
           t == CHOOSE t \in FreeFile : TRUE
           f == OpenFile(new, v, full, Tree[full].dir)
<1>1. VolAt(v) # {} /\ t \in FreeFile /\ full \in DOMAIN Tree
  BY OpenSucceeds DEF Open
<1>2. /\ t \in FileSlots /\ t \notin InUse /\ new \in Files /\ new # None
      /\ \A u \in FileSlots : files[u].proto # new
  BY <1>1, FreshFile DEF SfsInv
<1>3. s \in FileSlots /\ files \in [FileSlots -> FileRec] /\ due \in [Files -> Nat]
      /\ (op.kind = "install" => v # op.vol)
  BY DEF Callable, InUse, SfsInv, SfsType
<1>4. v \in Vols /\ \E u \in VolSlots : vols[u].proto = v /\ v # None
  BY <1>1, <1>3 DEF VolAt, FileRec
<1>5. /\ f \in FileRec /\ f.proto = new /\ f.owner = v /\ f.pos = 0 /\ f.next = 0
  BY <1>1, <1>2, <1>4, OpenFileType, SfsAssumption
<1>6. /\ files' = [files EXCEPT ![t] = f] /\ due' = [due EXCEPT ![new] = 0]
      /\ UNCHANGED <<vols, published, installed, op>>
  BY DEF Open
<1> HIDE DEF full, v, t, f
<1>7. /\ files' \in [FileSlots -> FileRec] /\ files'[t] = f
      /\ \A u \in FileSlots : u # t => files'[u] = files[u]
  BY <1>2, <1>3, <1>5, <1>6
<1>8. InUse' = InUse \cup {t}
  BY <1>2, <1>5, <1>7 DEF InUse
<1>9. ASSUME NEW u \in FileSlots, NEW w \in VolSlots, RootOf(u, w) PROVE u # t /\ RootOf(u, w)'
  <2>1. u # t
    BY <1>2, <1>9 DEF RootOf, InUse
  <2> QED BY <1>6, <1>7, <1>9, <2>1 DEF RootOf
<1>10. SfsType'
  <2>1. due' \in [Files -> Nat]
    BY <1>2, <1>3, <1>6
  <2> QED BY <1>6, <1>7, <2>1 DEF SfsInv, SfsType
<1>11. TablesInv'
  <2>1. \A w \in VolSlots : vols'[w].proto # None => \E u \in FileSlots : RootOf(u, w)'
    BY <1>6, <1>9 DEF SfsInv, TablesInv
  <2>2. \A u, w \in FileSlots : files'[u].proto = files'[w].proto /\ files'[u].proto # None => u = w
    BY <1>2, <1>5, <1>7 DEF SfsInv, TablesInv
  <2>3. \A u \in InUse' : \E w \in VolSlots : vols'[w].proto = files'[u].owner /\ files'[u].owner # None
    BY <1>4, <1>5, <1>6, <1>7, <1>8 DEF SfsInv, TablesInv, InUse
  <2> QED BY <1>6, <2>1, <2>2, <2>3 DEF SfsInv, TablesInv, RootOf
<1>12. OpInv'
  <2>1. op.kind = "install" => op.root \in FileSlots /\ op.slot \in VolSlots /\ RootOf(op.root, op.slot)
    BY DEF SfsInv, SfsType, OpInv
  <2>2. op.kind = "install" => RootOf(op.root, op.slot)'
    BY <1>6, <1>9, <2>1 DEF RootOf
  <2>3. op.kind = "install" => \A u \in InUse' : files'[u].owner = op.vol => u = op.root
    BY <1>3, <1>5, <1>7, <1>8 DEF SfsInv, OpInv, InUse
  <2> QED BY <1>6, <2>2, <2>3 DEF SfsInv, OpInv
<1>13. ASSUME NEW u \in InUse' PROVE due'[files'[u].proto] = IF files'[u].dir THEN files'[u].next ELSE files'[u].pos
  <2>1. CASE u = t
    BY <1>2, <1>3, <1>5, <1>6, <1>7, <2>1
  <2>2. CASE u # t
    <3>1. u \in InUse /\ u \in FileSlots /\ files'[u] = files[u] /\ files[u].proto # new
      BY <1>2, <1>7, <1>8, <2>2 DEF InUse
    <3>2. files[u].proto \in Files
      BY <1>3, <3>1 DEF InUse, FileRec
    <3>3. due'[files[u].proto] = due[files[u].proto]
      BY <1>3, <1>6, <3>1, <3>2
    <3> QED BY <3>1, <3>3 DEF SfsInv, DueInv
  <2> QED BY <2>1, <2>2
<1> QED BY <1>0, <1>10, <1>11, <1>12, <1>13 DEF SfsInv, DueInv

\* PublishSFS takes a slot for a new volume and one for its root.
LEMMA ReserveStep ==
  ASSUME SfsInv, NEW v \in FreshVols, NEW root \in FreshFiles, Reserve(v, root)
  PROVE  SfsInv'
<1>1. PICK s \in VolSlots, t \in FreeFile :
         /\ vols[s].proto = None
         /\ vols' = [vols EXCEPT ![s] = [proto |-> v, root |-> root]]
         /\ files' = [files EXCEPT ![t] = OpenFile(root, v, <<>>, TRUE)]
         /\ op' = [kind |-> "install", vol |-> v, slot |-> s, root |-> t]
  BY Zenon DEF Reserve
<1> DEFINE f == OpenFile(root, v, <<>>, TRUE)
<1>2. /\ due' = [due EXCEPT ![root] = 0] /\ UNCHANGED <<published, installed, reply>> /\ op = Idle
  BY DEF Reserve
<1>3. /\ t \in FileSlots /\ t \notin InUse /\ root \in Files /\ root # None
      /\ \A u \in FileSlots : files[u].proto # root
  BY FreshFile DEF SfsInv
<1>4. v \in Vols /\ v # None /\ \A u \in VolSlots : vols[u].proto # v
  BY SfsAssumption DEF FreshVols
<1>5. /\ vols \in [VolSlots -> VolRec] /\ files \in [FileSlots -> FileRec] /\ due \in [Files -> Nat]
      /\ published \subseteq Vols \X VolSlots /\ installed \subseteq Vols
  BY DEF SfsInv, SfsType
<1>6. f \in FileRec /\ f.proto = root /\ f.owner = v /\ f.path = <<>> /\ f.dir = TRUE /\ f.pos = 0 /\ f.next = 0
  <2>1. <<>> \in {<<>>} \cup DOMAIN Tree /\ TRUE \in BOOLEAN
    OBVIOUS
  <2>2. root \in Files /\ v \in Vols
    BY <1>3, <1>4
  <2> QED BY <2>1, <2>2, Zenon DEF OpenFile, NoFile, FileRec
<1> HIDE DEF f
<1>7. /\ files' \in [FileSlots -> FileRec] /\ files'[t] = f /\ \A u \in FileSlots : u # t => files'[u] = files[u]
  BY <1>1, <1>3, <1>5, <1>6, Zenon DEF f
<1>8. /\ vols' \in [VolSlots -> VolRec] /\ vols'[s].proto = v /\ vols'[s].root = root
      /\ \A u \in VolSlots : u # s => vols'[u] = vols[u]
  BY <1>1, <1>3, <1>4, <1>5 DEF VolRec
<1>9. op'.kind = "install" /\ op'.vol = v /\ op'.slot = s /\ op'.root = t
  BY <1>1
<1>10. InUse' = InUse \cup {t}
  BY <1>3, <1>6, <1>7 DEF InUse
<1>11. ASSUME NEW u \in FileSlots, NEW w \in VolSlots, RootOf(u, w), vols[w].proto # None PROVE u # t /\ RootOf(u, w)'
  <2>1. u # t /\ w # s
    BY <1>1, <1>3, <1>11 DEF RootOf, InUse
  <2> QED BY <1>7, <1>8, <1>11, <2>1 DEF RootOf
<1>12. RootOf(t, s)'
  BY <1>3, <1>6, <1>7, <1>8, <1>9 DEF RootOf
<1>13. SfsType'
  <2>1. due' \in [Files -> Nat]
    BY <1>2, <1>3, <1>5
  <2> QED BY <1>1, <1>2, <1>3, <1>4, <1>5, <1>7, <1>8, <1>9, <2>1, Zenon DEF SfsType, OpRecord
<1>14. TablesInv'
  <2>1. \A u, w \in VolSlots : vols'[u].proto = vols'[w].proto /\ vols'[u].proto # None => u = w
    BY <1>4, <1>8 DEF SfsInv, TablesInv
  <2>2. \A u, w \in FileSlots : files'[u].proto = files'[w].proto /\ files'[u].proto # None => u = w
    BY <1>3, <1>6, <1>7 DEF SfsInv, TablesInv
  <2>3. \A w \in VolSlots : vols'[w].proto # None => \E u \in FileSlots : RootOf(u, w)'
    BY <1>3, <1>8, <1>11, <1>12 DEF SfsInv, TablesInv
  <2>4. ASSUME NEW u \in InUse' PROVE \E w \in VolSlots : vols'[w].proto = files'[u].owner /\ files'[u].owner # None
    <3>1. CASE u = t
      BY <1>4, <1>6, <1>7, <1>8, <3>1
    <3>2. CASE u # t
      <4>1. u \in InUse /\ u \in FileSlots /\ files'[u] = files[u]
        BY <1>7, <1>10, <3>2 DEF InUse
      <4>2. PICK w \in VolSlots : vols[w].proto = files[u].owner /\ files[u].owner # None
        BY <4>1 DEF SfsInv, TablesInv
      <4>3. w # s
        BY <1>1, <4>2
      <4> QED BY <1>8, <4>1, <4>2, <4>3
    <3> QED BY <3>1, <3>2
  <2> QED BY <2>1, <2>2, <2>3, <2>4 DEF TablesInv
<1>15. OpInv'
  <2>1. \A w \in installed : w # v /\ \E u \in VolSlots : u # s /\ vols[u].proto = w
    BY <1>1, <1>4, <1>5, SfsAssumption DEF SfsInv, OpInv
  <2>2. ASSUME NEW e \in published PROVE e[1] \in Vols /\ e[2] \in VolSlots /\ e[2] # s /\ vols[e[2]].proto = e[1]
    <3>1. e[1] \in Vols /\ e[2] \in VolSlots /\ vols[e[2]].proto = e[1]
      BY <1>5 DEF SfsInv, OpInv
    <3> QED BY <1>1, <3>1, SfsAssumption
  <2>3. \A u \in InUse' : files'[u].owner = v => u = t
    <3>1. ASSUME NEW u \in InUse', u # t PROVE files'[u].owner # v
      <4>1. u \in InUse /\ u \in FileSlots /\ files'[u] = files[u]
        BY <1>7, <1>10, <3>1 DEF InUse
      <4>2. PICK w \in VolSlots : vols[w].proto = files[u].owner
        BY <4>1 DEF SfsInv, TablesInv
      <4> QED BY <1>4, <4>1, <4>2
    <3> QED BY <3>1
  <2>4. \A e \in published : e[1] # v
    BY <1>4, <2>2
  <2>5. RootOf(op.root, op.slot)'
    BY <1>9, <1>12 DEF RootOf
  <2> QED BY <1>2, <1>8, <1>9, <2>1, <2>2, <2>3, <2>4, <2>5 DEF OpInv
<1>16. ASSUME NEW u \in InUse' PROVE due'[files'[u].proto] = IF files'[u].dir THEN files'[u].next ELSE files'[u].pos
  <2>1. CASE u = t
    BY <1>2, <1>3, <1>5, <1>6, <1>7, <2>1
  <2>2. CASE u # t
    <3>1. u \in InUse /\ u \in FileSlots /\ files'[u] = files[u] /\ files[u].proto # root
      BY <1>3, <1>7, <1>10, <2>2 DEF InUse
    <3>2. files[u].proto \in Files
      BY <1>5, <3>1 DEF InUse, FileRec
    <3>3. due'[files[u].proto] = due[files[u].proto]
      BY <1>2, <1>5, <3>1, <3>2
    <3> QED BY <3>1, <3>3 DEF SfsInv, DueInv
  <2> QED BY <2>1, <2>2
<1>17. ReadsInOrder'
  BY <1>2 DEF SfsInv, DueInv, ReadsInOrder
<1> QED BY <1>13, <1>14, <1>15, <1>16, <1>17 DEF SfsInv, DueInv

\* A volume and all its files leave the tables: the install was refused, or an unpublish
\* comes to its end.
LEMMA GiveUpStep ==
  ASSUME SfsInv, NEW v, NEW s \in VolSlots, v \in Vols, vols[s].proto = v, v \notin installed,
         vols' = [vols EXCEPT ![s] = NoVol],
         files' \in [FileSlots -> FileRec],
         \A u \in InUse : files'[u] = IF files[u].owner = v THEN NoFile ELSE files[u],
         \A u \in FileSlots \ InUse : files'[u].proto = None,
         \A e \in published' : e \in published /\ e[1] # v,
         op' = Idle, UNCHANGED <<installed, due, reply>>
  PROVE  SfsInv'
<1>1. /\ vols \in [VolSlots -> VolRec] /\ files \in [FileSlots -> FileRec]
      /\ published \subseteq Vols \X VolSlots /\ v # None
  BY SfsAssumption DEF SfsInv, SfsType
<1>2. /\ vols' \in [VolSlots -> VolRec] /\ vols'[s].proto = None
      /\ \A u \in VolSlots : u # s => vols'[u] = vols[u]
  BY <1>1 DEF VolRec, NoVol
<1>3. op'.kind = "none" /\ NoFile.proto = None
  BY DEF Idle, NoFile
<1>4. InUse' = {u \in InUse : files[u].owner # v}
  BY <1>3 DEF InUse
<1>5. \A u \in InUse' : u \in InUse /\ u \in FileSlots /\ files'[u] = files[u] /\ files[u].owner # v
  BY <1>4 DEF InUse
<1>6. SfsType'
  BY <1>1, <1>2, <1>3 DEF SfsInv, SfsType, OpRecord, Idle
<1>7. TablesInv'
  <2>1. \A u, w \in VolSlots : vols'[u].proto = vols'[w].proto /\ vols'[u].proto # None => u = w
    BY <1>2 DEF SfsInv, TablesInv
  <2>2. \A u, w \in FileSlots : files'[u].proto = files'[w].proto /\ files'[u].proto # None => u = w
    BY <1>3 DEF SfsInv, TablesInv
  <2>3. ASSUME NEW w \in VolSlots, vols'[w].proto # None PROVE \E u \in FileSlots : RootOf(u, w)'
    <3>1. w # s /\ vols'[w] = vols[w]
      BY <1>2, <2>3
    <3>2. vols[w].proto # v
      BY <1>1, <2>3, <3>1 DEF SfsInv, TablesInv
    <3>3. PICK u \in FileSlots : RootOf(u, w)
      BY <2>3, <3>1 DEF SfsInv, TablesInv
    <3>4. files'[u] = files[u]
      BY <3>2, <3>3 DEF RootOf, InUse
    <3> QED BY <3>1, <3>3, <3>4 DEF RootOf
  <2>4. ASSUME NEW u \in InUse' PROVE \E w \in VolSlots : vols'[w].proto = files'[u].owner /\ files'[u].owner # None
    <3>1. PICK w \in VolSlots : vols[w].proto = files[u].owner /\ files[u].owner # None
      BY <1>5 DEF SfsInv, TablesInv
    <3>2. w # s
      BY <1>5, <3>1
    <3> QED BY <1>2, <1>5, <3>1, <3>2
  <2> QED BY <2>1, <2>2, <2>3, <2>4 DEF TablesInv
<1>8. OpInv'
  <2>1. ASSUME NEW w \in installed PROVE \E u \in VolSlots : vols'[u].proto = w
    <3>1. PICK u \in VolSlots : vols[u].proto = w
      BY DEF SfsInv, OpInv
    <3>2. u # s
      BY <3>1
    <3> QED BY <1>2, <3>1, <3>2
  <2>2. ASSUME NEW e \in published' PROVE vols'[e[2]].proto = e[1]
    <3>1. e \in published /\ e[1] # v /\ e[2] \in VolSlots /\ vols[e[2]].proto = e[1]
      BY <1>1 DEF SfsInv, OpInv
    <3>2. e[2] # s
      BY <3>1
    <3> QED BY <1>2, <3>1, <3>2
  <2> QED BY <1>3, <2>1, <2>2 DEF OpInv
<1>9. DueInv'
  BY <1>5 DEF SfsInv, DueInv, ReadsInOrder
<1> QED BY <1>6, <1>7, <1>8, <1>9 DEF SfsInv

\* No file is open and nothing is published at the start.
LEMMA SfsStart == Init => SfsInv
<1> SUFFICES ASSUME Init PROVE SfsInv
  OBVIOUS
<1>1. NoVol \in VolRec /\ NoVol.proto = None /\ NoFile \in FileRec /\ NoFile.proto = None
  BY DEF NoVol, NoFile, VolRec, FileRec
<1>2. Idle \in OpRecord /\ Idle.kind = "none"
  BY DEF Idle, OpRecord
<1>3. SfsType
  BY <1>1, <1>2 DEF Init, SfsType
<1>4. InUse = {}
  BY <1>1 DEF Init, InUse
<1>5. TablesInv /\ OpInv
  BY <1>1, <1>2, <1>4 DEF Init, TablesInv, OpInv
<1>6. DueInv
  BY <1>4 DEF Init, DueInv, ReadsInOrder
<1> QED BY <1>3, <1>5, <1>6 DEF SfsInv

\* The invariant says what was promised about handles and volumes.
LEMMA SfsInvImplies == SfsInv => HandlesMatchVolumes
<1> SUFFICES ASSUME SfsInv PROVE HandlesMatchVolumes
  OBVIOUS
<1>1. ASSUME NEW v \in installed
      PROVE  \E s \in VolAt(v) : \E t \in FileAt(vols[s].root) :
               files[t].owner = v /\ files[t].path = <<>> /\ files[t].dir
  <2>1. v # None
    BY SfsAssumption DEF SfsInv, SfsType
  <2>2. PICK s \in VolSlots : vols[s].proto = v
    BY DEF SfsInv, OpInv
  <2>3. PICK t \in FileSlots : RootOf(t, s)
    BY <2>1, <2>2 DEF SfsInv, TablesInv
  <2>4. s \in VolAt(v) /\ t \in FileAt(vols[s].root)
    BY <2>1, <2>2, <2>3 DEF VolAt, FileAt, RootOf
  <2> QED BY <2>2, <2>3, <2>4 DEF RootOf
<1>2. \A s \in InUse : VolAt(files[s].owner) # {}
  BY DEF SfsInv, TablesInv, VolAt
<1> QED BY <1>1, <1>2 DEF HandlesMatchVolumes

\* Every call of the firmware keeps the invariant.
LEMMA CallbackStep ==
  ASSUME SfsInv, Callback
  PROVE  SfsInv'
<1>0. files \in [FileSlots -> FileRec] /\ due \in [Files -> Nat]
  BY DEF SfsInv, SfsType
<1>1. ASSUME NEW v \in Vols, OpenVolume(v) PROVE SfsInv'
  <2>1. ReadsInOrder'
    BY <1>1 DEF OpenVolume, Answer, ReadsInOrder
  <2> QED BY <1>1, <2>1, NoChange DEF OpenVolume
<1>2. ASSUME NEW s \in Callable, OpenRefused(s) \/ OpenFails(s) \/ WriteRefused(s) \/ CallRefused(s)
      PROVE  SfsInv'
  <2>1. ReadsInOrder'
    BY <1>2 DEF OpenRefused, OpenFails, WriteRefused, CallRefused, Answer, ReadsInOrder
  <2> QED BY <1>2, <2>1, NoChange DEF OpenRefused, OpenFails, WriteRefused, CallRefused
<1>3. ASSUME NEW s \in Callable, Close(s) \/ Delete(s) PROVE SfsInv'
  <2>1. ReadsInOrder'
    BY <1>3 DEF Close, Delete, Answer, ReadsInOrder
  <2> QED BY <1>3, <2>1, CloseStep DEF Close, Delete
<1>4. ASSUME NEW s \in Callable
      PROVE  /\ s \in InUse /\ s \in FileSlots /\ files[s] \in FileRec /\ files[s].proto \in Files
             /\ due[files[s].proto] = IF files[s].dir THEN files[s].next ELSE files[s].pos
  <2>1. s \in InUse /\ s \in FileSlots /\ files[s] \in FileRec /\ files[s].proto \in Files
    BY <1>0 DEF Callable, InUse, FileRec
  <2> QED BY <2>1 DEF SfsInv, DueInv
<1>5. ASSUME NEW s \in Callable, LoadFails(s) PROVE SfsInv'
  <2> DEFINE f == [files[s] EXCEPT !.body = "error"]
  <2>1. ReadsInOrder' /\ UNCHANGED <<vols, published, installed, op, due>>
    BY <1>5 DEF LoadFails, Answer, ReadsInOrder
  <2>2. CASE files[s].dir
    BY <1>5, <2>1, <2>2, NoChange DEF LoadFails
  <2>3. CASE ~files[s].dir
    <3>1. files' = [files EXCEPT ![s] = f]
      BY <1>5, <2>3 DEF LoadFails
    <3>2. /\ f \in FileRec /\ f.proto = files[s].proto /\ f.owner = files[s].owner /\ f.path = files[s].path
          /\ f.dir = files[s].dir /\ f.next = files[s].next /\ f.pos = files[s].pos
      BY <1>4 DEF FileRec
    <3>3. due' = [due EXCEPT ![f.proto] = IF f.dir THEN f.next ELSE f.pos]
      BY <1>0, <1>4, <2>1, <3>2
    <3> HIDE DEF f
    <3> QED BY <1>4, <2>1, <3>1, <3>2, <3>3, MoveStep, Zenon
  <2> QED BY <2>2, <2>3
<1>6. ASSUME NEW s \in Callable, GetPosition(s) PROVE SfsInv'
  <2>1. ReadsInOrder'
    BY <1>4, <1>6 DEF GetPosition, AnswerAt, ReadsInOrder
  <2> QED BY <1>6, <2>1, NoChange DEF GetPosition
<1>7. ASSUME NEW s \in Callable, NEW n \in Sizes, ReadDir(s, n) PROVE SfsInv'
  <2> DEFINE gives == files[s].next < Len(Tree[files[s].path].names) /\ n > 0
             d == IF gives THEN files[s].next + 1 ELSE files[s].next
             f == [files[s] EXCEPT !.listed = TRUE, !.next = d]
  <2>1. files[s].dir /\ due[files[s].proto] = files[s].next /\ files[s].next \in Nat
    BY <1>4, <1>7 DEF ReadDir, FileRec
  <2>2. ReadsInOrder' /\ UNCHANGED <<vols, published, installed, op>>
    BY <1>7, <2>1 DEF ReadDir, AnswerAt, ReadsInOrder
  <2>3. d \in Nat
    BY <2>1
  <2>4. files' = [files EXCEPT ![s] = f]
    BY <1>0, <1>4, <1>7, Zenon DEF ReadDir, FileRec
  <2>5. due' = [due EXCEPT ![files[s].proto] = d]
    BY <1>7, <2>1 DEF ReadDir
  <2> HIDE DEF d, gives
  <2>6. /\ f \in FileRec /\ f.proto = files[s].proto /\ f.owner = files[s].owner /\ f.path = files[s].path
        /\ f.dir = files[s].dir /\ f.next = d
    BY <1>4, <2>3, Zenon DEF FileRec
  <2> HIDE DEF f
  <2> QED BY <1>4, <2>1, <2>2, <2>4, <2>5, <2>6, MoveStep, Zenon
<1>8. ASSUME NEW s \in Callable, NEW size \in Sizes, ReadFile(s, size) PROVE SfsInv'
  <2> DEFINE n == Wanted(Tree[files[s].path].size, files[s].pos, size)
             d == files[s].pos + n
             f == [files[s] EXCEPT !.body = "loaded", !.pos = d]
  <2>1. ~files[s].dir /\ due[files[s].proto] = files[s].pos /\ files[s].pos \in Nat
    BY <1>4, <1>8 DEF ReadFile, FileRec
  <2>2. ReadsInOrder' /\ UNCHANGED <<vols, published, installed, op>>
    BY <1>8, <2>1 DEF ReadFile, AnswerAt, ReadsInOrder
  <2>3. n \in Nat
    BY <1>4, <2>1, SfsAssumption DEF FileRec, Wanted
  <2>4. files' = [files EXCEPT ![s] = f]
    BY <1>0, <1>4, <1>8, Zenon DEF ReadFile, FileRec
  <2>5. due' = [due EXCEPT ![files[s].proto] = d]
    BY <1>8, <2>1 DEF ReadFile
  <2>6. d \in Nat
    BY <2>1, <2>3
  <2> HIDE DEF n, d
  <2>7. /\ f \in FileRec /\ f.proto = files[s].proto /\ f.owner = files[s].owner /\ f.path = files[s].path
        /\ f.dir = files[s].dir /\ f.pos = d
    BY <1>4, <2>6, Zenon DEF FileRec
  <2> HIDE DEF f
  <2> QED BY <1>4, <2>1, <2>2, <2>4, <2>5, <2>7, MoveStep, Zenon
<1>9. ASSUME NEW s \in Callable, NEW pos \in Positions \cup {End}, SetPosition(s, pos) PROVE SfsInv'
  <2> DEFINE to == IF pos = End THEN Tree[files[s].path].size ELSE pos
             f == IF files[s].dir THEN [files[s] EXCEPT !.next = 0]
                  ELSE [files[s] EXCEPT !.pos = to, !.body = IF pos = End THEN "loaded" ELSE @]
  <2>1. ReadsInOrder' /\ UNCHANGED <<vols, published, installed, op>>
    BY <1>9 DEF SetPosition, Answer, ReadsInOrder
  <2>2. to \in Nat /\ (files[s].dir => to = 0)
    BY <1>4, <1>9, SfsAssumption DEF FileRec, SetPosition
  <2>3. files' = [files EXCEPT ![s] = f]
    BY <1>0, <1>4, <1>9, Zenon DEF SetPosition, FileRec
  <2>4. due' = [due EXCEPT ![files[s].proto] = to]
    BY <1>9 DEF SetPosition
  <2> HIDE DEF to
  <2>5. /\ f \in FileRec /\ f.proto = files[s].proto /\ f.owner = files[s].owner /\ f.path = files[s].path
        /\ f.dir = files[s].dir /\ to = IF f.dir THEN f.next ELSE f.pos
    BY <1>4, <2>2, Zenon DEF FileRec
  <2> HIDE DEF f
  <2> QED BY <1>4, <2>1, <2>3, <2>4, <2>5, MoveStep, Zenon
<1>10. ASSUME NEW s \in Callable, NEW name \in Names, NEW mode, NEW new \in FreshFiles, Open(s, name, mode, new)
       PROVE  SfsInv'
  BY <1>10, OpenStep
<1>11. ASSUME NEW s \in Callable, ReadNowhere(s) PROVE SfsInv'
  <2> DEFINE f == IF files[s].dir THEN [files[s] EXCEPT !.listed = TRUE] ELSE [files[s] EXCEPT !.body = "loaded"]
  <2>1. ReadsInOrder' /\ UNCHANGED <<vols, published, installed, op, due>>
    BY <1>11 DEF ReadNowhere, Answer, ReadsInOrder
  <2>2. files' = [files EXCEPT ![s] = f]
    BY <1>0, <1>4, <1>11, Zenon DEF ReadNowhere, FileRec
  <2>3. /\ f \in FileRec /\ f.proto = files[s].proto /\ f.owner = files[s].owner /\ f.path = files[s].path
        /\ f.dir = files[s].dir /\ f.next = files[s].next /\ f.pos = files[s].pos
    BY <1>4, Zenon DEF FileRec
  <2>4. due' = [due EXCEPT ![f.proto] = IF f.dir THEN f.next ELSE f.pos]
    BY <1>0, <1>4, <2>1, <2>3
  <2> HIDE DEF f
  <2> QED BY <1>4, <2>1, <2>2, <2>3, <2>4, MoveStep, Zenon
<1> QED BY <1>1, <1>2, <1>3, <1>5, <1>6, <1>7, <1>8, <1>9, <1>10, <1>11 DEF Callback

\* Every step keeps the invariant of the file system publisher.
LEMMA SfsStep ==
  SfsInv /\ [Next]_sfsVars => SfsInv'
<1> SUFFICES ASSUME SfsInv, [Next]_sfsVars PROVE SfsInv'
  OBVIOUS
<1>0. /\ vols \in [VolSlots -> VolRec] /\ files \in [FileSlots -> FileRec] /\ due \in [Files -> Nat]
      /\ published \subseteq Vols \X VolSlots /\ installed \subseteq Vols
      /\ op.kind # "none" => op.vol \in Vols /\ op.slot \in VolSlots
  BY DEF SfsInv, SfsType
<1>1. CASE UNCHANGED sfsVars
  BY <1>1, NoChange DEF sfsVars, SfsInv, DueInv, ReadsInOrder
<1>2. ASSUME NEW v \in FreshVols, NEW root \in FreshFiles, Reserve(v, root) PROVE SfsInv'
  BY <1>2, ReserveStep
<1>3. CASE Install
  <2>1. /\ op.kind = "install" /\ UNCHANGED <<vols, files, published, reply, due>>
        /\ installed' = installed \cup {op.vol} /\ op' = [op EXCEPT !.kind = "record"]
        /\ op.vol \in Vols /\ op.slot \in VolSlots /\ vols[op.slot].proto = op.vol
    BY <1>3 DEF Install, SfsInv, SfsType, OpInv
  <2>2. op \in [kind : {"install"}, vol : Vols, slot : VolSlots, root : FileSlots]
    BY <2>1 DEF SfsInv, SfsType, OpRecord
  <2>3. op'.kind = "record" /\ op'.vol = op.vol /\ op'.slot = op.slot
    BY <2>1, <2>2
  <2>4. SfsType'
    BY <2>1, <2>2, <2>3 DEF SfsInv, SfsType, OpRecord
  <2>5. TablesInv' /\ DueInv'
    BY <2>1 DEF SfsInv, TablesInv, DueInv, ReadsInOrder, InUse, RootOf
  <2>6. OpInv'
    BY <2>1, <2>3 DEF SfsInv, OpInv
  <2> QED BY <2>4, <2>5, <2>6 DEF SfsInv
<1>4. CASE InstallRefused
  <2>1. /\ op.kind = "install" /\ op.vol \in Vols /\ op.slot \in VolSlots /\ op.root \in FileSlots
        /\ vols[op.slot].proto = op.vol /\ op.vol \notin installed
        /\ RootOf(op.root, op.slot) /\ \A t \in InUse : files[t].owner = op.vol => t = op.root
        /\ \A e \in published : e[1] # op.vol
    BY <1>4 DEF InstallRefused, SfsInv, SfsType, OpInv
  <2>2. /\ vols' = [vols EXCEPT ![op.slot] = NoVol] /\ files' = [files EXCEPT ![op.root] = NoFile] /\ op' = Idle
        /\ UNCHANGED <<published, installed, reply, due>>
    BY <1>4 DEF InstallRefused
  <2>3. op.root \in InUse /\ files[op.root].owner = op.vol
    BY <2>1 DEF RootOf, InUse
  <2>4. files' \in [FileSlots -> FileRec]
    BY <1>0, <2>1, <2>2 DEF NoFile, FileRec
  <2>5. /\ \A u \in InUse : files'[u] = IF files[u].owner = op.vol THEN NoFile ELSE files[u]
        /\ \A u \in FileSlots \ InUse : files'[u].proto = None
    BY <1>0, <2>1, <2>2, <2>3 DEF InUse
  <2> QED BY <2>1, <2>2, <2>4, <2>5, GiveUpStep, Zenon
<1>5. CASE Record
  <2>1. /\ op.kind = "record" /\ UNCHANGED <<vols, files, installed, reply, due>>
        /\ published' = published \cup {<<op.vol, op.slot>>} /\ op' = Idle
        /\ op.vol \in Vols /\ op.slot \in VolSlots /\ vols[op.slot].proto = op.vol
    BY <1>5 DEF Record, SfsInv, SfsType, OpInv
  <2>2. op'.kind = "none"
    BY <2>1 DEF Idle
  <2>3. SfsType'
    BY <2>1, <2>2 DEF SfsInv, SfsType, OpRecord, Idle
  <2>4. TablesInv' /\ DueInv'
    BY <2>1 DEF SfsInv, TablesInv, DueInv, ReadsInOrder, InUse, RootOf
  <2>5. OpInv'
    BY <2>1, <2>2 DEF SfsInv, OpInv
  <2> QED BY <2>3, <2>4, <2>5 DEF SfsInv
<1>6. ASSUME NEW e \in published, Uninstall(e) PROVE SfsInv'
  <2>1. /\ installed' = installed \ {e[1]} /\ op' = [Idle EXCEPT !.kind = "clear", !.vol = e[1], !.slot = e[2]]
        /\ UNCHANGED <<vols, files, published, reply, due>>
    BY <1>6 DEF Uninstall
  <2>2. e[1] \in Vols /\ e[2] \in VolSlots /\ vols[e[2]].proto = e[1]
    BY <1>0 DEF SfsInv, OpInv
  <2>3. op'.kind = "clear" /\ op'.vol = e[1] /\ op'.slot = e[2] /\ op' \in OpRecord
    BY <2>1, <2>2, Zenon DEF Idle, OpRecord
  <2>4. SfsType'
    BY <2>1, <2>2, <2>3 DEF SfsInv, SfsType
  <2>5. TablesInv' /\ DueInv'
    BY <2>1 DEF SfsInv, TablesInv, DueInv, ReadsInOrder, InUse, RootOf
  <2>6. OpInv'
    BY <2>1, <2>2, <2>3 DEF SfsInv, OpInv
  <2> QED BY <2>4, <2>5, <2>6 DEF SfsInv
<1>7. CASE Clear
  <2>1. /\ op.kind = "clear" /\ op.vol \in Vols /\ op.slot \in VolSlots /\ op.vol # None
        /\ vols[op.slot].proto = op.vol /\ op.vol \notin installed
    BY <1>7, SfsAssumption DEF Clear, SfsInv, SfsType, OpInv
  <2>2. /\ vols' = [vols EXCEPT ![op.slot] = NoVol] /\ op' = Idle
        /\ files' = [s \in FileSlots |-> IF files[s].owner = op.vol THEN NoFile ELSE files[s]]
        /\ published' = published \ {<<op.vol, op.slot>>} /\ UNCHANGED <<installed, reply, due>>
    BY <1>7 DEF Clear
  <2>3. files' \in [FileSlots -> FileRec]
    BY <1>0, <2>2 DEF NoFile, FileRec
  <2>5. /\ \A u \in InUse : files'[u] = IF files[u].owner = op.vol THEN NoFile ELSE files[u]
        /\ \A u \in FileSlots \ InUse : files'[u].proto = None
    BY <2>2 DEF InUse, NoFile
  <2>6. ASSUME NEW e \in published' PROVE e \in published /\ e[1] # op.vol
    <3>1. e \in published /\ e # <<op.vol, op.slot>> /\ e[1] \in Vols /\ e[2] \in VolSlots /\ e = <<e[1], e[2]>>
      BY <1>0, <2>2, <2>6
    <3>2. vols[e[2]].proto = e[1]
      BY <3>1 DEF SfsInv, OpInv
    <3>3. e[1] = op.vol => e[2] = op.slot
      BY <2>1, <3>1, <3>2 DEF SfsInv, TablesInv
    <3> QED BY <3>1, <3>3
  <2> QED BY <2>1, <2>2, <2>3, <2>5, <2>6, GiveUpStep, Zenon
<1>8. CASE Callback
  BY <1>8, CallbackStep
<1> QED BY <1>1, <1>2, <1>3, <1>4, <1>5, <1>6, <1>7, <1>8 DEF Next

\* As long as the firmware can see a volume its root handle works, and no open file
\* outlives its volume: for tables of any size, any tree of files, and calls of the
\* firmware between any two steps of PublishSFS and UnpublishSFS.
THEOREM HandlesOutliveNoVolume == Spec => []HandlesMatchVolumes
<1>1. Init => SfsInv
  BY SfsStart
<1>2. SfsInv => HandlesMatchVolumes
  BY SfsInvImplies
<1> QED BY <1>1, <1>2, SfsStep, PTL DEF Spec

\* The reads of a handle return its bytes or entries in order, none twice and none left
\* out, whatever is done with the other handles.
THEOREM HandlesReadInOrder == Spec => []ReadsInOrder
<1>1. Init => SfsInv
  BY SfsStart
<1>2. SfsInv => ReadsInOrder
  BY DEF SfsInv, DueInv
<1> QED BY <1>1, <1>2, SfsStep, PTL DEF Spec

-----------------------------------------------------------------------------
(* The publisher of EFI_RNG_PROTOCOL.                                      *)

RngType ==
  /\ rngDb \in [Handles -> Addresses \cup {Null, Firmware}]
  /\ rngRegistry \in [RngSlots -> Addresses \cup {Null}]
  /\ publishedRNGs \in [Handles -> {NoState} \cup [proto : Addresses, slot : RngSlots]]
  /\ rngOp \in [pc : {"idle", "publish", "uninstallAll", "install", "record", "clear"}, todo : SUBSET Handles,
                proto : Addresses \cup {Null}, slot : RngSlots \cup {0}, handle : Handles \cup {Null}]
  /\ rngOp.pc \in {"install", "record"} => rngOp.proto \in Addresses /\ rngOp.slot \in RngSlots
  /\ rngOp.pc \in {"record", "clear"} => rngOp.handle \in Handles
  /\ rngLeft \in BOOLEAN /\ rngLost \in BOOLEAN /\ rngDead \subseteq Addresses

\* Every published state has its own slot and address; so has the one being published.
SlotsInv ==
  /\ \A h \in Handles : publishedRNGs[h] # NoState => rngRegistry[publishedRNGs[h].slot] = publishedRNGs[h].proto
  /\ \A h, g \in Handles : publishedRNGs[h].proto = publishedRNGs[g].proto /\ publishedRNGs[h] # NoState => h = g
  /\ rngOp.pc \in {"install", "record"} =>
       rngRegistry[rngOp.slot] = rngOp.proto /\ \A h \in Handles : publishedRNGs[h].proto # rngOp.proto
  /\ rngOp.pc = "record" => rngDb[rngOp.handle] = rngOp.proto
  /\ rngOp.pc = "clear" => publishedRNGs[rngOp.handle] # NoState /\ rngDb[rngOp.handle] = Null
  /\ \A h \in Handles : rngDb[h] \in Addresses =>
       publishedRNGs[h].proto = rngDb[h] \/ (rngOp.pc = "record" /\ rngOp.handle = h)

\* Until a removal takes an interface of ours away nothing is orphaned.
KeptInv ==
  ~rngLost =>
    /\ \A h \in Handles : publishedRNGs[h] # NoState =>
         rngDb[h] = publishedRNGs[h].proto \/ (rngOp.pc = "clear" /\ rngOp.handle = h)
    /\ \A s \in RngSlots : rngRegistry[s] # Null =>
         \/ \E h \in Handles : publishedRNGs[h].proto = rngRegistry[s] /\ publishedRNGs[h].slot = s
         \/ rngOp.pc \in {"install", "record"} /\ rngOp.slot = s
    /\ \A p \in rngDead, s \in RngSlots : rngRegistry[s] # p

\* Which handles carry the protocol in the course of a publish.
CarryInv ==
  /\ ~rngLeft /\ rngOp.pc = "publish" => Carrying \subseteq rngOp.todo
  /\ ~rngLeft /\ rngOp.pc = "install" => Carrying = {}
  /\ ~rngLeft /\ rngOp.pc = "record" => Carrying = {rngOp.handle}
  /\ rngResult = "published" => rngOp.pc = "idle" /\ (~rngLeft => \E h \in Handles : Carrying = {h})

RepliesInv ==
  /\ \A h \in Handles : rngReply.this = rngDb[h] /\ rngReply.this # Null /\ rngReply.n > 0
       => rngReply.status = "success"
  /\ rngReply.this \in rngDead /\ ~rngLost => rngReply.status # "success"

RngInv == RngType /\ SlotsInv /\ KeptInv /\ CarryInv /\ RepliesInv

\* A state in NoState has no address.
LEMMA StateFacts ==
  ASSUME RngType, NEW h \in Handles
  PROVE  /\ publishedRNGs[h] = NoState => publishedRNGs[h].proto = Null
         /\ publishedRNGs[h] # NoState => publishedRNGs[h].proto \in Addresses /\ publishedRNGs[h].slot \in RngSlots
         /\ publishedRNGs[h].proto # Null => publishedRNGs[h] # NoState
  BY RngAssumption DEF RngType, NoState

\* The answer is forgotten.
LEMMA Forgotten ==
  ASSUME rngReply' = NoReply, RngType'
  PROVE  RepliesInv'
  BY RngAssumption DEF NoReply, RepliesInv, RngType

\* A publish or an uninstall of all begins with the handles found.
LEMMA LocateStep ==
  ASSUME RngInv, NEW kind \in {"publish", "uninstallAll"}, NEW found \in BOOLEAN, Locate(kind, found)
  PROVE  RngInv'
<1> USE DEF RngInv
<1>1. /\ rngOp.pc = "idle" /\ rngResult' = "none" /\ rngReply' = NoReply
      /\ UNCHANGED <<rngDb, rngRegistry, publishedRNGs, rngLost, rngDead, rngState>>
  BY DEF Locate
<1>2. rngOp'.pc = kind /\ rngOp'.todo = IF found THEN Carrying ELSE {}
  BY DEF Locate, RngIdle
<1>3. RngType'
  <2>1. rngOp' \in [pc : {"publish", "uninstallAll"}, todo : SUBSET Handles, proto : {Null}, slot : {0}, handle : {Null}]
    BY Zenon DEF Locate, RngIdle, Carrying
  <2>2. rngLeft' \in BOOLEAN
    BY Zenon DEF Locate
  <2> QED BY <1>1, <1>2, <2>1, <2>2 DEF RngType
<1>4. SlotsInv' /\ KeptInv'
  BY <1>1, <1>2 DEF SlotsInv, KeptInv
<1>5. CarryInv'
  <2>1. ~rngLeft' => found \/ Carrying = {}
    BY Zenon DEF Locate
  <2>2. Carrying' = Carrying
    BY <1>1 DEF Carrying
  <2> QED BY <1>1, <1>2, <2>1, <2>2 DEF CarryInv
<1> QED BY <1>1, <1>3, <1>4, <1>5, Forgotten

\* One interface is removed, or stays.
LEMMA YankStep ==
  ASSUME RngInv, NEW h \in Handles, NEW removed \in BOOLEAN, Yank(h, removed)
  PROVE  RngInv'
<1> USE DEF RngInv
<1>1. /\ rngOp.pc \in {"publish", "uninstallAll"} /\ h \in rngOp.todo /\ rngReply' = NoReply
      /\ UNCHANGED <<rngRegistry, publishedRNGs, rngResult, rngDead, rngState>>
      /\ rngDb' = IF removed THEN [rngDb EXCEPT ![h] = Null] ELSE rngDb
  BY DEF Yank
<1>2. rngOp'.pc = rngOp.pc /\ rngOp'.todo = rngOp.todo \ {h}
  BY DEF Yank, RngType
<1>3. \A g \in Handles : rngDb'[g] = IF removed /\ g = h THEN Null ELSE rngDb[g]
  BY <1>1 DEF RngType
<1>4. RngType'
  <2>1. rngOp' \in [pc : {"publish", "uninstallAll"}, todo : SUBSET Handles, proto : Addresses \cup {Null},
                    slot : RngSlots \cup {0}, handle : Handles \cup {Null}]
    BY <1>1 DEF Yank, RngType
  <2>2. rngLeft' \in BOOLEAN /\ rngLost' \in BOOLEAN
    BY Zenon DEF Yank
  <2>3. rngDb' \in [Handles -> Addresses \cup {Null, Firmware}]
    BY <1>1 DEF RngType
  <2> QED BY <1>1, <1>2, <2>1, <2>2, <2>3 DEF RngType
<1>5. SlotsInv'
  BY <1>1, <1>2, <1>3, RngAssumption DEF SlotsInv
<1>6. KeptInv'
  <2>1. ~rngLost' => ~rngLost /\ (removed => rngDb[h] = Firmware)
    BY Zenon DEF Yank
  <2>2. ~rngLost' /\ removed => publishedRNGs[h] = NoState
    BY <1>1, <2>1, StateFacts, RngAssumption DEF KeptInv
  <2> QED BY <1>1, <1>2, <1>3, <2>1, <2>2 DEF KeptInv
<1>7. CarryInv'
  <2>1. ~rngLeft' => ~rngLeft /\ removed
    BY Zenon DEF Yank
  <2>2. removed => Carrying' = Carrying \ {h}
    BY <1>3 DEF Carrying
  <2> QED BY <1>1, <1>2, <2>1, <2>2 DEF CarryInv
<1> QED BY <1>1, <1>4, <1>5, <1>6, <1>7, Forgotten

\* UninstallAllRNG returns.
LEMMA YankedStep ==
  ASSUME RngInv, Yanked
  PROVE  RngInv'
<1> USE DEF RngInv
<1>1. rngOp' = RngIdle /\ RngIdle.pc = "idle" /\ rngOp.pc = "uninstallAll" /\ rngResult' = "ok"
  BY DEF Yanked, RngIdle
<1>2. UNCHANGED <<rngDb, rngRegistry, publishedRNGs, rngLeft, rngLost, rngDead, rngState, rngReply>>
  BY DEF Yanked
<1>3. RngType'
  BY <1>1, <1>2 DEF RngType, RngIdle
<1>4. SlotsInv' /\ KeptInv' /\ CarryInv'
  BY <1>1, <1>2 DEF SlotsInv, KeptInv, CarryInv, Carrying
<1>5. RepliesInv'
  BY <1>2 DEF RepliesInv
<1> QED BY <1>3, <1>4, <1>5

\* The new protocol takes a free slot, or there is none.
LEMMA ReserveRngStep ==
  ASSUME RngInv, NEW p \in Addresses, ReserveRng(p)
  PROVE  RngInv'
<1> USE DEF RngInv
<1>1. /\ rngOp.pc = "publish" /\ rngOp.todo = {} /\ rngReply' = NoReply
      /\ \A h \in Handles : publishedRNGs[h].proto # p
      /\ UNCHANGED <<rngDb, publishedRNGs, rngLeft, rngLost, rngState>>
  BY Zenon DEF ReserveRng
<1>2. CASE FreeRng = {}
  <2>1. rngOp' = RngIdle /\ RngIdle.pc = "idle" /\ rngResult' = "full" /\ UNCHANGED <<rngRegistry, rngDead>>
    BY <1>2 DEF ReserveRng, RngIdle
  <2>2. RngType'
    BY <1>1, <2>1 DEF RngType, RngIdle
  <2>3. SlotsInv' /\ KeptInv' /\ CarryInv'
    BY <1>1, <2>1 DEF SlotsInv, KeptInv, CarryInv
  <2> QED BY <1>1, <2>2, <2>3, Forgotten
<1>3. CASE FreeRng # {}
  <2>1. PICK s \in FreeRng :
          /\ rngRegistry' = [rngRegistry EXCEPT ![s] = p]
          /\ rngOp' = [rngOp EXCEPT !.pc = "install", !.proto = p, !.slot = s]
          /\ rngDead' = rngDead \ {p} /\ UNCHANGED rngResult
    BY <1>3, Zenon DEF ReserveRng
  <2>2. s \in RngSlots /\ rngRegistry[s] = Null
    BY DEF FreeRng
  <2>3. \A u \in RngSlots : rngRegistry'[u] = IF u = s THEN p ELSE rngRegistry[u]
    BY <2>1, <2>2 DEF RngType
  <2>4. /\ rngOp' \in [pc : {"install"}, todo : SUBSET Handles, proto : Addresses, slot : RngSlots,
                       handle : Handles \cup {Null}]
        /\ rngOp'.pc = "install" /\ rngOp'.proto = p /\ rngOp'.slot = s
    BY <2>1, <2>2, Zenon DEF RngType
  <2>5. RngType'
    <3>1. rngRegistry' \in [RngSlots -> Addresses \cup {Null}]
      BY <2>1, <2>2 DEF RngType
    <3> QED BY <1>1, <2>1, <2>4, <3>1 DEF RngType
  <2>6. SlotsInv'
    <3>1. ASSUME NEW h \in Handles, publishedRNGs[h] # NoState
          PROVE  rngRegistry'[publishedRNGs[h].slot] = publishedRNGs[h].proto
      <4>1. /\ publishedRNGs[h].slot \in RngSlots /\ publishedRNGs[h].proto \in Addresses
            /\ rngRegistry[publishedRNGs[h].slot] = publishedRNGs[h].proto
        BY <3>1, StateFacts DEF SlotsInv
      <4> QED BY <2>2, <2>3, <4>1, RngAssumption
    <3>2. \A h \in Handles : rngDb[h] \in Addresses => publishedRNGs[h].proto = rngDb[h]
      BY <1>1 DEF SlotsInv
    <3>3. \A h, g \in Handles : publishedRNGs[h].proto = publishedRNGs[g].proto /\ publishedRNGs[h] # NoState => h = g
      BY DEF SlotsInv
    <3> QED BY <1>1, <2>2, <2>3, <2>4, <3>1, <3>2, <3>3 DEF SlotsInv
  <2>7. KeptInv'
    BY <1>1, <2>1, <2>3, <2>4 DEF KeptInv
  <2>8. CarryInv'
    BY <1>1, <2>1, <2>4 DEF CarryInv, Carrying
  <2> QED BY <1>1, <2>5, <2>6, <2>7, <2>8, Forgotten
<1> QED BY <1>2, <1>3

\* The firmware shows the new protocol on a handle that carried nothing.
LEMMA InstallRngStep ==
  ASSUME RngInv, NEW h \in Handles, InstallRng(h)
  PROVE  RngInv'
<1> USE DEF RngInv
<1>1. /\ rngOp.pc = "install" /\ rngDb[h] = Null /\ rngReply' = NoReply
      /\ rngDb' = [rngDb EXCEPT ![h] = rngOp.proto]
      /\ UNCHANGED <<rngRegistry, publishedRNGs, rngResult, rngLeft, rngLost, rngDead, rngState>>
  BY DEF InstallRng
<1>2. /\ rngOp' \in [pc : {"record"}, todo : SUBSET Handles, proto : Addresses, slot : RngSlots, handle : Handles]
      /\ rngOp'.pc = "record" /\ rngOp'.proto = rngOp.proto /\ rngOp'.slot = rngOp.slot /\ rngOp'.handle = h
  BY <1>1, Zenon DEF InstallRng, RngType
<1>3. rngOp.proto \in Addresses /\ \A g \in Handles : rngDb'[g] = IF g = h THEN rngOp.proto ELSE rngDb[g]
  BY <1>1 DEF RngType
<1>4. RngType'
  <2>1. rngDb' \in [Handles -> Addresses \cup {Null, Firmware}]
    BY <1>1, <1>3 DEF RngType
  <2> QED BY <1>1, <1>2, <2>1 DEF RngType
<1>5. SlotsInv'
  BY <1>1, <1>2, <1>3 DEF SlotsInv
<1>6. KeptInv'
  <2>1. ~rngLost => publishedRNGs[h] = NoState
    BY <1>1, StateFacts, RngAssumption DEF KeptInv
  <2> QED BY <1>1, <1>2, <1>3, <2>1 DEF KeptInv
<1>7. CarryInv'
  <2>1. Carrying' = Carrying \cup {h}
    BY <1>3, RngAssumption DEF Carrying
  <2> QED BY <1>1, <1>2, <2>1 DEF CarryInv
<1> QED BY <1>1, <1>4, <1>5, <1>6, <1>7, Forgotten

\* The install is refused: the slot is free again.
LEMMA RefusedStep ==
  ASSUME RngInv, InstallRngRefused
  PROVE  RngInv'
<1> USE DEF RngInv
<1>1. /\ rngOp.pc = "install" /\ rngReply' = NoReply /\ rngResult' = "error"
      /\ rngRegistry' = [rngRegistry EXCEPT ![rngOp.slot] = Null]
      /\ UNCHANGED <<rngDb, publishedRNGs, rngLeft, rngLost, rngDead, rngState>>
  BY DEF InstallRngRefused
<1>2. rngOp' = RngIdle /\ RngIdle.pc = "idle"
  BY DEF InstallRngRefused, RngIdle
<1>3. \A u \in RngSlots : rngRegistry'[u] = IF u = rngOp.slot THEN Null ELSE rngRegistry[u]
  BY <1>1 DEF RngType
<1>4. RngType'
  <2>1. rngRegistry' \in [RngSlots -> Addresses \cup {Null}]
    BY <1>1 DEF RngType
  <2> QED BY <1>1, <1>2, <2>1 DEF RngType, RngIdle
<1>5. SlotsInv'
  <2>1. ASSUME NEW g \in Handles, publishedRNGs[g] # NoState
        PROVE  rngRegistry'[publishedRNGs[g].slot] = publishedRNGs[g].proto
    <3>1. publishedRNGs[g].slot \in RngSlots /\ rngRegistry[publishedRNGs[g].slot] = publishedRNGs[g].proto
      BY <2>1, StateFacts DEF SlotsInv
    <3>2. rngRegistry[rngOp.slot] = rngOp.proto /\ publishedRNGs[g].proto # rngOp.proto
      BY <1>1 DEF SlotsInv
    <3> QED BY <1>3, <3>1, <3>2
  <2> QED BY <1>1, <1>2, <2>1 DEF SlotsInv
<1>6. KeptInv'
  BY <1>1, <1>2, <1>3, RngAssumption DEF KeptInv, RngType
<1>7. CarryInv'
  BY <1>1, <1>2 DEF CarryInv
<1> QED BY <1>1, <1>4, <1>5, <1>6, <1>7, Forgotten

\* PublishRNG records the protocol and returns.
LEMMA RecordRngStep ==
  ASSUME RngInv, RecordRng
  PROVE  RngInv'
<1> USE DEF RngInv
<1> DEFINE st == [proto |-> rngOp.proto, slot |-> rngOp.slot]
<1>1. /\ rngOp.pc = "record" /\ rngResult' = "published"
      /\ publishedRNGs' = [publishedRNGs EXCEPT ![rngOp.handle] = st]
      /\ UNCHANGED <<rngDb, rngRegistry, rngLeft, rngLost, rngDead, rngState, rngReply>>
  BY DEF RecordRng
<1>2. rngOp' = RngIdle /\ RngIdle.pc = "idle"
  BY DEF RecordRng, RngIdle
<1>3. rngOp.handle \in Handles /\ rngOp.proto \in Addresses /\ rngOp.slot \in RngSlots
  BY <1>1 DEF RngType
<1>4. st \in [proto : Addresses, slot : RngSlots] /\ st.proto = rngOp.proto /\ st.slot = rngOp.slot
  BY <1>3
<1> HIDE DEF st
<1>5. \A g \in Handles : publishedRNGs'[g] = IF g = rngOp.handle THEN st ELSE publishedRNGs[g]
  BY <1>1, <1>3 DEF RngType
<1>6. RngType'
  <2>1. publishedRNGs' \in [Handles -> {NoState} \cup [proto : Addresses, slot : RngSlots]]
    BY <1>1, <1>3, <1>4 DEF RngType
  <2> QED BY <1>1, <1>2, <2>1 DEF RngType, RngIdle
<1>7. SlotsInv'
  <2>1. rngRegistry[rngOp.slot] = rngOp.proto /\ rngDb[rngOp.handle] = rngOp.proto
        /\ \A g \in Handles : publishedRNGs[g].proto # rngOp.proto
    BY <1>1 DEF SlotsInv
  <2>2. \A g \in Handles : publishedRNGs'[g] # NoState => rngRegistry[publishedRNGs'[g].slot] = publishedRNGs'[g].proto
    BY <1>4, <1>5, <2>1 DEF SlotsInv
  <2>3. \A h, g \in Handles : publishedRNGs'[h].proto = publishedRNGs'[g].proto /\ publishedRNGs'[h] # NoState => h = g
    BY <1>4, <1>5, <2>1 DEF SlotsInv
  <2>4. \A h \in Handles : rngDb[h] \in Addresses => publishedRNGs'[h].proto = rngDb[h]
    BY <1>4, <1>5, <2>1 DEF SlotsInv
  <2> QED BY <1>1, <1>2, <2>2, <2>3, <2>4 DEF SlotsInv
<1>8. KeptInv'
  <2>1. SUFFICES ASSUME ~rngLost PROVE KeptInv'
    BY <1>1 DEF KeptInv
  <2>2. publishedRNGs[rngOp.handle] = NoState
    BY <1>1, <1>3, <2>1 DEF KeptInv, SlotsInv
  <2>3. publishedRNGs[rngOp.handle].proto = Null
    BY <1>3, <2>2, StateFacts
  <2>4. \A h \in Handles : publishedRNGs'[h] # NoState => rngDb[h] = publishedRNGs'[h].proto
    BY <1>1, <1>4, <1>5, <2>1 DEF KeptInv, SlotsInv
  <2>5. ASSUME NEW s \in RngSlots, rngRegistry[s] # Null
        PROVE  \E h \in Handles : publishedRNGs'[h].proto = rngRegistry[s] /\ publishedRNGs'[h].slot = s
    <3>1. CASE rngOp.slot = s
      BY <1>1, <1>3, <1>4, <1>5, <3>1 DEF SlotsInv
    <3>2. CASE rngOp.slot # s
      <4>1. PICK h \in Handles : publishedRNGs[h].proto = rngRegistry[s] /\ publishedRNGs[h].slot = s
        BY <2>1, <2>5, <3>2 DEF KeptInv
      <4> QED BY <1>5, <2>3, <2>5, <4>1
    <3> QED BY <3>1, <3>2
  <2> QED BY <1>1, <1>2, <2>1, <2>4, <2>5 DEF KeptInv
<1>9. CarryInv'
  BY <1>1, <1>2, <1>3 DEF CarryInv, Carrying
<1>10. RepliesInv'
  BY <1>1 DEF RepliesInv
<1> QED BY <1>6, <1>7, <1>8, <1>9, <1>10

\* The firmware lets go of the protocol of a handle.
LEMMA UninstallRngStep ==
  ASSUME RngInv, NEW h \in Handles, UninstallRng(h)
  PROVE  RngInv'
<1> USE DEF RngInv
<1>1. /\ rngOp.pc = "idle" /\ publishedRNGs[h] # NoState /\ rngResult' = "none" /\ rngReply' = NoReply
      /\ rngDb' = [rngDb EXCEPT ![h] = Null]
      /\ UNCHANGED <<rngRegistry, publishedRNGs, rngLeft, rngLost, rngDead, rngState>>
  BY DEF UninstallRng
<1>2. rngOp' = [pc |-> "clear", todo |-> {}, proto |-> Null, slot |-> 0, handle |-> h]
  BY Zenon DEF UninstallRng, RngIdle
<1>3. rngOp'.pc = "clear" /\ rngOp'.handle = h
  BY <1>2
<1>4. \A g \in Handles : rngDb'[g] = IF g = h THEN Null ELSE rngDb[g]
  BY <1>1 DEF RngType
<1>5. RngType'
  <2>1. rngDb' \in [Handles -> Addresses \cup {Null, Firmware}]
    BY <1>1 DEF RngType
  <2> QED BY <1>1, <1>2, <1>3, <2>1 DEF RngType
<1>6. SlotsInv'
  BY <1>1, <1>3, <1>4, RngAssumption DEF SlotsInv
<1>7. KeptInv'
  BY <1>1, <1>3, <1>4 DEF KeptInv
<1>8. CarryInv'
  BY <1>1, <1>3 DEF CarryInv
<1> QED BY <1>1, <1>5, <1>6, <1>7, <1>8, Forgotten

\* UnpublishRNG gives the slot up and forgets the protocol.
LEMMA ClearRngStep ==
  ASSUME RngInv, ClearRng
  PROVE  RngInv'
<1> USE DEF RngInv
<1> DEFINE h == rngOp.handle
<1>1. /\ rngOp.pc = "clear" /\ rngResult' = "ok" /\ rngReply' = NoReply
      /\ rngRegistry' = [rngRegistry EXCEPT ![publishedRNGs[h].slot] = Null]
      /\ publishedRNGs' = [publishedRNGs EXCEPT ![h] = NoState]
      /\ rngDead' = rngDead \cup {publishedRNGs[h].proto}
      /\ UNCHANGED <<rngDb, rngLeft, rngLost, rngState>>
  BY DEF ClearRng
<1>2. rngOp' = RngIdle /\ RngIdle.pc = "idle"
  BY DEF ClearRng, RngIdle
<1>3. /\ h \in Handles /\ publishedRNGs[h] # NoState /\ rngDb[h] = Null
      /\ publishedRNGs[h].slot \in RngSlots /\ publishedRNGs[h].proto \in Addresses
      /\ rngRegistry[publishedRNGs[h].slot] = publishedRNGs[h].proto
  BY <1>1, StateFacts DEF RngType, SlotsInv
<1> HIDE DEF h
<1>4. \A g \in Handles : publishedRNGs'[g] = IF g = h THEN NoState ELSE publishedRNGs[g]
  BY <1>1, <1>3 DEF RngType
<1>5. \A u \in RngSlots : rngRegistry'[u] = IF u = publishedRNGs[h].slot THEN Null ELSE rngRegistry[u]
  BY <1>1, <1>3 DEF RngType
<1>6. RngType'
  <2>1. publishedRNGs' \in [Handles -> {NoState} \cup [proto : Addresses, slot : RngSlots]]
    BY <1>1, <1>3 DEF RngType
  <2>2. rngRegistry' \in [RngSlots -> Addresses \cup {Null}] /\ rngDead' \subseteq Addresses
    BY <1>1, <1>3 DEF RngType
  <2> QED BY <1>1, <1>2, <2>1, <2>2 DEF RngType, RngIdle
<1>7. ASSUME NEW g \in Handles, g # h, publishedRNGs[g] # NoState
      PROVE  /\ publishedRNGs[g].slot \in RngSlots /\ publishedRNGs[g].slot # publishedRNGs[h].slot
             /\ rngRegistry[publishedRNGs[g].slot] = publishedRNGs[g].proto
  <2>1. publishedRNGs[g].slot \in RngSlots /\ rngRegistry[publishedRNGs[g].slot] = publishedRNGs[g].proto
    BY <1>7, StateFacts DEF SlotsInv
  <2>2. publishedRNGs[g].proto # publishedRNGs[h].proto
    BY <1>3, <1>7 DEF SlotsInv
  <2> QED BY <1>3, <2>1, <2>2
<1>8. SlotsInv'
  <2>1. \A g \in Handles : publishedRNGs'[g] # NoState => rngRegistry'[publishedRNGs'[g].slot] = publishedRNGs'[g].proto
    BY <1>4, <1>5, <1>7
  <2>2. \A f, g \in Handles : publishedRNGs'[f].proto = publishedRNGs'[g].proto /\ publishedRNGs'[f] # NoState => f = g
    <3>1. NoState.proto = Null
      BY DEF NoState
    <3>2. ASSUME NEW f \in Handles, publishedRNGs'[f] # NoState PROVE publishedRNGs'[f] = publishedRNGs[f] /\ publishedRNGs[f].proto # Null
      BY <1>4, <3>2, StateFacts, RngAssumption
    <3>3. ASSUME NEW f \in Handles, NEW g \in Handles, publishedRNGs'[f].proto = publishedRNGs'[g].proto,
                 publishedRNGs'[f] # NoState
          PROVE  f = g
      <4>1. publishedRNGs'[f] = publishedRNGs[f] /\ publishedRNGs[f].proto # Null /\ publishedRNGs[f] # NoState
        BY <3>2, <3>3
      <4>2. publishedRNGs'[g] # NoState
        BY <3>1, <3>3, <4>1
      <4>3. publishedRNGs'[g] = publishedRNGs[g]
        BY <3>2, <4>2
      <4> QED BY <3>3, <4>1, <4>3 DEF SlotsInv
    <3> QED BY <3>3
  <2>3. \A g \in Handles : rngDb[g] \in Addresses => publishedRNGs'[g].proto = rngDb[g]
    BY <1>1, <1>3, <1>4, RngAssumption DEF SlotsInv
  <2> QED BY <1>1, <1>2, <2>1, <2>2, <2>3 DEF SlotsInv
<1>9. KeptInv'
  <2>1. SUFFICES ASSUME ~rngLost PROVE KeptInv'
    BY <1>1 DEF KeptInv
  <2>2. \A g \in Handles : publishedRNGs'[g] # NoState => rngDb[g] = publishedRNGs'[g].proto
    BY <1>1, <1>4, <2>1 DEF KeptInv, h
  <2>3. ASSUME NEW s \in RngSlots, rngRegistry'[s] # Null
        PROVE  /\ s # publishedRNGs[h].slot /\ rngRegistry'[s] = rngRegistry[s]
               /\ \E g \in Handles : g # h /\ publishedRNGs[g].proto = rngRegistry[s] /\ publishedRNGs[g].slot = s
    <3>1. s # publishedRNGs[h].slot /\ rngRegistry'[s] = rngRegistry[s]
      BY <1>5, <2>3
    <3> QED BY <1>1, <2>1, <2>3, <3>1 DEF KeptInv
  <2>4. \A s \in RngSlots : rngRegistry'[s] # Null =>
          \E g \in Handles : publishedRNGs'[g].proto = rngRegistry'[s] /\ publishedRNGs'[g].slot = s
    BY <1>4, <2>3
  <2>5. ASSUME NEW p \in rngDead', NEW s \in RngSlots PROVE rngRegistry'[s] # p
    <3>1. p # Null
      BY <1>6, RngAssumption DEF RngType
    <3>2. CASE rngRegistry'[s] = Null
      BY <3>1, <3>2
    <3>3. CASE rngRegistry'[s] # Null
      <4>1. PICK g \in Handles : g # h /\ publishedRNGs[g].proto = rngRegistry[s] /\ publishedRNGs[g].slot = s
        BY <2>3, <3>3
      <4>2. rngRegistry'[s] = rngRegistry[s] /\ publishedRNGs[g].proto # Null
        BY <2>3, <3>3, <4>1
      <4>3. publishedRNGs[g].proto # publishedRNGs[h].proto
        BY <1>3, <4>1 DEF SlotsInv
      <4>4. p \in rngDead => rngRegistry[s] # p
        BY <2>1 DEF KeptInv
      <4> QED BY <1>1, <4>1, <4>2, <4>3, <4>4
    <3> QED BY <3>2, <3>3
  <2> QED BY <1>1, <1>2, <2>2, <2>4, <2>5 DEF KeptInv
<1>10. CarryInv'
  BY <1>1, <1>2 DEF CarryInv
<1> QED BY <1>1, <1>6, <1>8, <1>9, <1>10, Forgotten

\* The handlers: what is on a handle has a slot, what is dead has none.
LEMMA AnswerStep ==
  ASSUME RngInv, NEW p \in Addresses, NEW n, rngReply'.this = p, rngReply'.n = n,
         n > 0 => (rngReply'.status = "success" <=> Served(p)),
         rngReply'.status = "success" => Served(p),
         UNCHANGED <<rngDb, rngRegistry, publishedRNGs, rngOp, rngResult, rngLeft, rngLost, rngDead>>
  PROVE  RngInv'
<1> USE DEF RngInv
<1>1. RngType' /\ SlotsInv' /\ KeptInv' /\ CarryInv'
  BY DEF RngType, SlotsInv, KeptInv, CarryInv, Carrying
<1>2. ASSUME NEW h \in Handles, rngDb[h] = p PROVE Served(p)
  <2>1. CASE publishedRNGs[h].proto = p
    <3>1. publishedRNGs[h] # NoState /\ publishedRNGs[h].slot \in RngSlots
      BY <2>1, StateFacts, RngAssumption
    <3> QED BY <2>1, <3>1, RngAssumption DEF Served, SlotsInv
  <2>2. CASE rngOp.pc = "record" /\ rngOp.handle = h
    BY <1>2, <2>2, RngAssumption DEF Served, SlotsInv, RngType
  <2> QED BY <1>2, <2>1, <2>2 DEF SlotsInv
<1>3. p \in rngDead /\ ~rngLost => ~Served(p)
  BY DEF KeptInv, Served
<1> QED BY <1>1, <1>2, <1>3 DEF RepliesInv

\* Every step keeps the invariant of the publisher.
LEMMA RngStep == RngInv /\ [RngNext]_rngVars => RngInv'
<1> SUFFICES ASSUME RngInv, [RngNext]_rngVars PROVE RngInv'
  OBVIOUS
<1>1. CASE UNCHANGED rngVars
  BY <1>1 DEF rngVars, RngInv, RngType, SlotsInv, KeptInv, CarryInv, Carrying, RepliesInv
<1>2. ASSUME NEW found \in BOOLEAN, Locate("publish", found) \/ Locate("uninstallAll", found) PROVE RngInv'
  BY <1>2, LocateStep
<1>3. ASSUME NEW h \in Handles, (\E removed \in BOOLEAN : Yank(h, removed)) \/ InstallRng(h) \/ UninstallRng(h)
      PROVE  RngInv'
  BY <1>3, YankStep, InstallRngStep, UninstallRngStep
<1>4. CASE Yanked \/ InstallRngRefused \/ RecordRng \/ ClearRng
  BY <1>4, YankedStep, RefusedStep, RecordRngStep, ClearRngStep
<1>5. ASSUME NEW p \in Addresses, ReserveRng(p) PROVE RngInv'
  BY <1>5, ReserveRngStep
<1>6. ASSUME NEW p \in Addresses, NEW n \in Lengths, GetRNG(p, n) PROVE RngInv'
  <2>1. /\ rngReply'.this = p /\ rngReply'.n = n
        /\ rngReply'.status = IF n = 0 THEN "invalidParameter" ELSE IF Served(p) THEN "success" ELSE "notFound"
        /\ UNCHANGED <<rngDb, rngRegistry, publishedRNGs, rngOp, rngResult, rngLeft, rngLost, rngDead>>
    BY <1>6 DEF GetRNG
  <2>2. n > 0 => n # 0
    OBVIOUS
  <2>3. (n > 0 => (rngReply'.status = "success" <=> Served(p))) /\ (rngReply'.status = "success" => Served(p))
    BY <2>1, <2>2
  <2> QED BY <2>1, <2>3, AnswerStep
<1>7. ASSUME NEW p \in Addresses, NEW room \in BOOLEAN, GetInfo(p, room) PROVE RngInv'
  <2>1. /\ rngReply'.this = p /\ rngReply'.n = 0 /\ (rngReply'.status = "success" => Served(p))
        /\ UNCHANGED <<rngDb, rngRegistry, publishedRNGs, rngOp, rngResult, rngLeft, rngLost, rngDead>>
    BY <1>7 DEF GetInfo
  <2>2. ~(0 > 0)
    OBVIOUS
  <2> QED BY <2>1, <2>2, AnswerStep
<1> QED BY <1>1, <1>2, <1>3, <1>4, <1>5, <1>6, <1>7 DEF RngNext

\* What a consumer finds is served until the firmware has let go of it, an address that
\* UnpublishRNG took out of use is not, and after a publish only our handle carries the
\* protocol: for registries of any size and any number of handles.
THEOREM RngServesWhatIsFound == RngSpec => []RngFoundIsServed
<1>1. RngInit => RngInv
  <2> SUFFICES ASSUME RngInit PROVE RngInv
    OBVIOUS
  <2>1. NoState.proto = Null /\ RngIdle.pc = "idle" /\ NoReply.this = Null
    BY DEF NoState, RngIdle, NoReply
  <2>2. RngType
    BY Zenon DEF RngInit, RngType, RngIdle
  <2>3. SlotsInv /\ KeptInv /\ CarryInv
    BY <2>1, RngAssumption DEF RngInit, SlotsInv, KeptInv, CarryInv
  <2>4. RepliesInv
    BY <2>1 DEF RngInit, RepliesInv
  <2> QED BY <2>2, <2>3, <2>4 DEF RngInv
<1>2. RngInv => RngFoundIsServed
  <2> SUFFICES ASSUME RngInv PROVE RngFoundIsServed
    OBVIOUS
  <2>1. rngResult = "published" /\ ~rngLeft => Cardinality(Carrying) = 1
    BY FS_Singleton, Zenon DEF RngInv, CarryInv
  <2> QED BY <2>1 DEF RngInv, RepliesInv, RngFoundIsServed
<1> QED BY <1>1, <1>2, RngStep, PTL DEF RngSpec

=============================================================================
