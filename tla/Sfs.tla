--------------------------------- MODULE Sfs ---------------------------------
(***************************************************************************)
(* A read-only file system served to the firmware as                       *)
(* EFI_SIMPLE_FILE_SYSTEM_PROTOCOL (uefiboard/sfs_publish*.go): PublishSFS *)
(* and UnpublishSFS, the fixed tables of volumes and of open files, and    *)
(* the handlers of EFI_FILE_PROTOCOL.                                      *)
(*                                                                         *)
(* Once it can see a volume the firmware may call a handler at any time,   *)
(* also from within the install and uninstall calls.  A path is a sequence *)
(* of names; Tree is the file system behind the volumes, its calls may     *)
(* fail (FsErrors).                                                        *)
(***************************************************************************)
EXTENDS Naturals, Sequences, FiniteSetsExt

CONSTANTS
  Vols,        \* addresses of EFI_SIMPLE_FILE_SYSTEM_PROTOCOL structs
  Files,       \* addresses of EFI_FILE_PROTOCOL structs
  VolSlots,    \* 0 .. sfsPublishRegistrySize - 1
  FileSlots,   \* 0 .. sfsFileHandleRegistrySize - 1
  Tree,        \* path -> [dir, size, names]
  Names,       \* file names passed to Open: [abs, parts]
  Sizes,       \* buffer sizes passed to Read
  Positions,   \* positions passed to SetPosition
  End,         \* sfsPositionEnd
  FsErrors,    \* may the backing file system fail?
  None

ASSUME SfsAssumption ==
  /\ None \notin Vols \cup Files
  /\ Sizes \subseteq Nat /\ Positions \subseteq Nat /\ End \in Nat \ {0}
  /\ <<>> \in DOMAIN Tree
  /\ \A path \in DOMAIN Tree :
       Tree[path].dir \in BOOLEAN /\ Tree[path].size \in Nat /\ Len(Tree[path].names) \in Nat

VARIABLES
  vols,        \* sfsPublishRegistry: slot -> [proto, root]
  files,       \* sfsFileHandleRegistry: slot -> the open file
  published,   \* publishedSFS: volume -> slot, a set of pairs
  installed,   \* volumes installed in the firmware
  op,          \* the publish or unpublish under way: [kind, vol, slot, root]
  reply,       \* the latest answer: [call, status, off, n, due]
  due          \* ghost: file -> where its next Read has to start

sfsVars == <<vols, files, published, installed, op, reply, due>>

NoVol == [proto |-> None, root |-> None]
NoFile == [proto |-> None, owner |-> None, path |-> <<>>, dir |-> FALSE, pos |-> 0,
           body |-> "none", listed |-> FALSE, next |-> 0]
Idle == [kind |-> "none", vol |-> None, slot |-> 0, root |-> 0]

\* The entry of a newly opened file.
OpenFile(f, v, path, dir) ==
  [NoFile EXCEPT !.proto = f, !.owner = v, !.path = path, !.dir = dir]

\* sfsPublishLookup, sfsFileHandleLookup: the slots found, none or one.
VolAt(v) == {s \in VolSlots : vols[s].proto = v /\ v # None}
FileAt(f) == {s \in FileSlots : files[s].proto = f /\ f # None}

\* sfsAllocFileHandle: the first free slot.
FreeFile == {s \in FileSlots : files[s].proto = None
                               /\ \A t \in FileSlots : t < s => files[t].proto # None}

\* sfsJoinPath.
JoinPath(cur, name) ==
  LET Apply(p, stack) ==
        CASE p \in {"", "."} -> stack
          [] p = ".." -> IF stack = <<>> THEN stack ELSE SubSeq(stack, 1, Len(stack) - 1)
          [] OTHER -> Append(stack, p)
  IN  MapThenFoldSet(Apply, IF name.abs THEN <<>> ELSE cur, LAMBDA n : name.parts[n], Max, DOMAIN name.parts)

Answer(call, status) ==
  reply' = [call |-> call, status |-> status, off |-> 0, n |-> 0, due |-> 0]

\* The answer of a Read or GetPosition of f.
AnswerAt(f, call, status, off, n) ==
  reply' = [call |-> call, status |-> status, off |-> off, n |-> n, due |-> due[f]]

-----------------------------------------------------------------------------
\* sfsOpenVolumeGo hands out vols[s].root, the one root handle of the volume.
OpenVolume(v) ==
  /\ v \in installed /\ VolAt(v) # {}
  /\ Answer("openVolume", "success")
  /\ UNCHANGED <<vols, files, published, installed, op, due>>

\* What an open mode asks for: to read, also or only to write or create, or nothing.
OpenModes == {"read", "write", "none"}

\* A file name of length 0, or none at all.
EmptyName == [abs |-> FALSE, parts |-> <<>>]

\* sfsFileOpenGo with somewhere to put the handle: what it returns before it takes a slot.
OpenStatus(s, name, mode) ==
  IF VolAt(files[s].owner) = {} THEN "notFound"
  ELSE IF mode = "write" THEN "writeProtected"
  ELSE IF mode # "read" \/ name = EmptyName THEN "invalidParameter"
  ELSE IF JoinPath(files[s].path, name) \notin DOMAIN Tree THEN "notFound"
  ELSE IF FreeFile = {} THEN "outOfResources"
  ELSE "success"

\* sfsFileOpenGo on an open file; new is the address of the handle made.
Open(s, name, mode, new) ==
  LET full == JoinPath(files[s].path, name) IN
  /\ OpenStatus(s, name, mode) = "success"
  /\ files' = [files EXCEPT ![CHOOSE t \in FreeFile : TRUE] =
                 OpenFile(new, files[s].owner, full, Tree[full].dir)]
  /\ due' = [due EXCEPT ![new] = 0]
  /\ Answer("open", "success")
  /\ UNCHANGED <<vols, published, installed, op>>

OpenRefused(s) ==
  /\ \E status \in {OpenStatus(s, name, mode) : name \in Names, mode \in OpenModes} :
       status # "success" /\ Answer("open", status)
  /\ UNCHANGED <<vols, files, published, installed, op, due>>

\* The backing Stat fails.
OpenFails(s) ==
  /\ FsErrors
  /\ Answer("open", "notFound")
  /\ UNCHANGED <<vols, files, published, installed, op, due>>

\* Is slot s the root of its volume?
IsRoot(s) == \E v \in VolAt(files[s].owner) : vols[v].root = files[s].proto

\* Mutant: the root is closed like any other file.
ClosedAny(s) == [files EXCEPT ![s] = NoFile]

\* The table after sfsFileCloseGo: the root stays.
Closed(s) == IF IsRoot(s) THEN files ELSE [files EXCEPT ![s] = NoFile]

\* sfsFileCloseGo.
Close(s) ==
  /\ files' = Closed(s)
  /\ Answer("close", "success")
  /\ UNCHANGED <<vols, published, installed, op, due>>

\* sfsFileDeleteGo: a warning, and the handle is closed.
Delete(s) ==
  /\ files' = Closed(s)
  /\ Answer("delete", "warnDeleteFailure")
  /\ UNCHANGED <<vols, published, installed, op, due>>

\* Mutant: the entry counts as returned although it did not fit.
ReadDirSkip(s, size) ==
  LET f == files[s]
      more == f.next < Len(Tree[f.path].names)
  IN  /\ f.dir /\ VolAt(f.owner) # {}
      /\ files' = [files EXCEPT ![s].listed = TRUE, ![s].next = IF more THEN @ + 1 ELSE @]
      /\ due' = [due EXCEPT ![f.proto] = IF more /\ size > 0 THEN @ + 1 ELSE @]
      /\ AnswerAt(f.proto, "read", IF more /\ size = 0 THEN "bufferTooSmall" ELSE "success",
                  f.next, IF more /\ size > 0 THEN 1 ELSE 0)
      /\ UNCHANGED <<vols, published, installed, op>>

\* sfsFileReadGo on a directory: one entry a call; any size but 0 is enough.
ReadDir(s, size) ==
  LET f == files[s]
      more == f.next < Len(Tree[f.path].names)
      gives == more /\ size > 0
  IN  /\ f.dir /\ VolAt(f.owner) # {}
      /\ files' = [files EXCEPT ![s].listed = TRUE, ![s].next = IF gives THEN @ + 1 ELSE @]
      /\ due' = [due EXCEPT ![f.proto] = IF gives THEN @ + 1 ELSE @]
      /\ AnswerAt(f.proto, "read", IF more /\ ~gives THEN "bufferTooSmall" ELSE "success",
                  f.next, IF gives THEN 1 ELSE 0)
      /\ UNCHANGED <<vols, published, installed, op>>

\* sfsFileReadGo without a buffer for what it found: it is loaded all the same.
ReadNowhere(s) ==
  LET f == files[s] IN
  /\ f.body # "error" /\ VolAt(f.owner) # {}
  /\ files' = IF f.dir THEN [files EXCEPT ![s].listed = TRUE] ELSE [files EXCEPT ![s].body = "loaded"]
  /\ Answer("read", "invalidParameter")
  /\ UNCHANGED <<vols, published, installed, op, due>>

\* How much a Read of a file at pos returns.
Wanted(len, pos, size) ==
  LET remaining == IF pos < len THEN len - pos ELSE 0
  IN  IF size > remaining THEN remaining ELSE size

\* sfsFileReadGo on a file; the body is loaded once.
ReadFile(s, size) ==
  LET f == files[s]
      n == Wanted(Tree[f.path].size, f.pos, size)
  IN  /\ ~f.dir /\ f.body # "error" /\ VolAt(f.owner) # {}
      /\ files' = [files EXCEPT ![s].body = "loaded", ![s].pos = @ + n]
      /\ due' = [due EXCEPT ![f.proto] = @ + n]
      /\ AnswerAt(f.proto, "read", "success", f.pos, n)
      /\ UNCHANGED <<vols, published, installed, op>>

\* ListDir or ReadFile of the file system fails, now or, for a file, earlier; in
\* Read or in SetPosition(End).
LoadFails(s) ==
  LET f == files[s] IN
  /\ IF f.dir THEN FsErrors /\ ~f.listed
     ELSE f.body = "error" \/ (FsErrors /\ f.body = "none")
  /\ VolAt(f.owner) # {}
  /\ files' = IF f.dir THEN files ELSE [files EXCEPT ![s].body = "error"]
  /\ Answer("read", "deviceError")
  /\ UNCHANGED <<vols, published, installed, op, due>>

\* sfsFileSetPositionGo: End loads the body, a directory can only be rewound.
SetPosition(s, pos) ==
  LET f == files[s]
      to == IF pos = End THEN Tree[f.path].size ELSE pos
  IN  /\ IF f.dir THEN pos = 0 ELSE VolAt(f.owner) # {} /\ (pos = End => f.body # "error")
      /\ files' = IF f.dir THEN [files EXCEPT ![s].next = 0]
                  ELSE [files EXCEPT ![s].pos = to, ![s].body = IF pos = End THEN "loaded" ELSE @]
      /\ due' = [due EXCEPT ![f.proto] = to]
      /\ Answer("setPosition", "success")
      /\ UNCHANGED <<vols, published, installed, op>>

\* sfsFileGetPositionGo.
GetPosition(s) ==
  /\ ~files[s].dir
  /\ AnswerAt(files[s].proto, "getPosition", "success", files[s].pos, 0)
  /\ UNCHANGED <<vols, files, published, installed, op, due>>

\* sfsFileWriteGo and sfsFileSetInfoGo.
WriteRefused(s) ==
  /\ Answer("write", "writeProtected")
  /\ UNCHANGED <<vols, files, published, installed, op, due>>

\* A NULL pointer for a handle, a size or a position, and a position in a directory
\* other than its start: nothing is done.
CallRefused(s) ==
  /\ \/ VolAt(files[s].owner) # {} /\ Answer("open", "invalidParameter")
     \/ files[s].dir /\ Answer("position", "unsupported")
  /\ UNCHANGED <<vols, files, published, installed, op, due>>

-----------------------------------------------------------------------------
\* PublishSFS up to the firmware call: a slot for the volume and one for its root.
Reserve(v, root) ==
  /\ op = Idle
  /\ \E s \in VolSlots, t \in FreeFile :
       /\ vols[s].proto = None /\ \A u \in VolSlots : u < s => vols[u].proto # None
       /\ vols' = [vols EXCEPT ![s] = [proto |-> v, root |-> root]]
       /\ files' = [files EXCEPT ![t] = OpenFile(root, v, <<>>, TRUE)]
       /\ op' = [kind |-> "install", vol |-> v, slot |-> s, root |-> t]
  /\ due' = [due EXCEPT ![root] = 0]
  /\ UNCHANGED <<published, installed, reply>>

Install ==
  /\ op.kind = "install"
  /\ installed' = installed \cup {op.vol}
  /\ op' = [op EXCEPT !.kind = "record"]
  /\ UNCHANGED <<vols, files, published, reply, due>>

\* Refused: both slots are given back.
InstallRefused ==
  /\ op.kind = "install"
  /\ vols' = [vols EXCEPT ![op.slot] = NoVol]
  /\ files' = [files EXCEPT ![op.root] = NoFile]
  /\ op' = Idle
  /\ UNCHANGED <<published, installed, reply, due>>

Record ==
  /\ op.kind = "record"
  /\ published' = published \cup {<<op.vol, op.slot>>}
  /\ op' = Idle
  /\ UNCHANGED <<vols, files, installed, reply, due>>

\* UnpublishSFS: the firmware lets go.  If it refuses nothing changes.
Uninstall(e) ==
  /\ op = Idle
  /\ installed' = installed \ {e[1]}
  /\ op' = [Idle EXCEPT !.kind = "clear", !.vol = e[1], !.slot = e[2]]
  /\ UNCHANGED <<vols, files, published, reply, due>>

\* The volume, its root and every file still open on it are given up.
Clear ==
  /\ op.kind = "clear"
  /\ vols' = [vols EXCEPT ![op.slot] = NoVol]
  /\ files' = [s \in FileSlots |-> IF files[s].owner = op.vol THEN NoFile ELSE files[s]]
  /\ published' = published \ {<<op.vol, op.slot>>}
  /\ op' = Idle
  /\ UNCHANGED <<installed, reply, due>>

\* An address is given to a new struct only when no table refers to it.
FreshFiles == Files \ {files[s].proto : s \in FileSlots}
FreshVols == Vols \ ({vols[s].proto : s \in VolSlots} \cup {op.vol})
InUse == {s \in FileSlots : files[s].proto # None}

\* The files the firmware can call: not the root of a volume it does not have yet.
Callable == {s \in InUse : op.kind = "install" => files[s].owner # op.vol}

Init ==
  /\ vols = [s \in VolSlots |-> NoVol] /\ files = [s \in FileSlots |-> NoFile]
  /\ published = {} /\ installed = {} /\ op = Idle
  /\ due = [f \in Files |-> 0]
  /\ reply = [call |-> "none", status |-> "success", off |-> 0, n |-> 0, due |-> 0]

Callback ==
  \/ \E v \in Vols : OpenVolume(v)
  \/ \E s \in Callable :
       \/ \E name \in Names, mode \in OpenModes, new \in FreshFiles : Open(s, name, mode, new)
       \/ OpenRefused(s) \/ OpenFails(s) \/ Close(s) \/ Delete(s) \/ LoadFails(s)
       \/ GetPosition(s) \/ WriteRefused(s) \/ CallRefused(s) \/ ReadNowhere(s)
       \/ \E n \in Sizes : ReadDir(s, n) \/ ReadFile(s, n)
       \/ \E p \in Positions \cup {End} : SetPosition(s, p)

Next ==
  \/ \E v \in FreshVols, root \in FreshFiles : Reserve(v, root)
  \/ Install \/ InstallRefused \/ Record \/ (\E e \in published : Uninstall(e)) \/ Clear
  \/ Callback

Spec == Init /\ [][Next]_sfsVars

-----------------------------------------------------------------------------
\* As long as the firmware can see a volume, its root handle works, whatever was
\* closed or deleted ("OpenVolume's pointer must stay live across loader.efi's
\* reads").  No open file outlives its volume: what is in the table belongs to a
\* volume that is published or being published (PublishSFS, UnpublishSFS).
HandlesMatchVolumes ==
  /\ \A v \in installed : \E s \in VolAt(v) : \E t \in FileAt(vols[s].root) :
       files[t].owner = v /\ files[t].path = <<>> /\ files[t].dir
  /\ \A s \in InUse : VolAt(files[s].owner) # {}

\* The reads of a handle return the bytes of its file, or the entries of its
\* directory, one after the other: none twice, none left out, whatever is done
\* with other handles and however small the buffers are.  GetPosition agrees.
ReadsInOrder ==
  reply.call \in {"read", "getPosition"} /\ reply.status = "success" => reply.off = reply.due
=============================================================================
