------------------------------ MODULE PackStub ------------------------------
(***************************************************************************)
(* The self-extracting stub (cmd/efipackstub/main.go): it finds its own    *)
(* file on the volume it was loaded from, reads it, takes the packed image *)
(* out of the .payload section, decompresses it and starts it.  Every      *)
(* firmware call may fail, and the file may be any of StubFiles.           *)
(*                                                                         *)
(* Sizes are words of Word values, because the size of the unpacked image  *)
(* is taken from the file and rounded up to pages.  A section is given by  *)
(* the fields of its header and of the payload header behind it; out is    *)
(* how many bytes the body decompresses to.                                *)
(***************************************************************************)
EXTENDS Naturals, Sequences, FiniteSetsExt

CONSTANTS
  StubFiles,       \* [size, pe, path, sections]
  StubChains,      \* device paths of the loaded image: [kind, text] nodes
  MaxNodes,        \* maxNodes of buildPath16
  HeaderSize,      \* payloadHeaderSize
  PageSize,        \* efiPageSize
  FreeMemory,      \* pages the firmware can give; sizes whose int is negative are beyond it
  Word             \* values of a uintptr

\* Sizes in a file are words of 64 bits, of which one page is a small part.
ASSUME StubAssumption ==
  /\ Word \in Nat /\ PageSize \in Nat /\ FreeMemory \in Nat /\ 0 < PageSize /\ PageSize <= Word
  /\ \A f \in StubFiles :
       /\ f = [size |-> f.size, pe |-> f.pe, path |-> f.path, sections |-> f.sections]
       /\ f.pe \in BOOLEAN /\ f.sections \in Seq({f.sections[i] : i \in DOMAIN f.sections})
       /\ \A i \in DOMAIN f.sections : f.sections[i].uncompressed \in 0 .. Word - 1

VARIABLES
  stubPc, stubFile, chain,
  opened,          \* EFI_FILE_PROTOCOL handles that are open
  stubPages,       \* pages allocated for the unpacked image
  started,         \* StartImage has been called
  stubStatus       \* what run returns

stubVars == <<stubPc, stubFile, chain, opened, stubPages, started, stubStatus>>

Goto(pc) == stubPc' = pc /\ UNCHANGED stubStatus
Abort == stubPc' = "done" /\ stubStatus' = "aborted"

\* buildPath16: the texts of the file path nodes before the end of the chain, a
\* malformed node or the cap.
buildPath16(nodes) ==
  LET stops == {i \in DOMAIN nodes : nodes[i].kind \in {"end", "malformed"} \/ i > MaxNodes}
      walked == IF stops = {} THEN nodes ELSE SubSeq(nodes, 1, Min(stops) - 1)
      kept == SelectSeq(walked, LAMBDA x : x.kind = "file")
  IN  MapThenFoldSet(LAMBDA x, y : x \o y, <<>>, LAMBDA i : kept[i].text, Min, DOMAIN kept)

-----------------------------------------------------------------------------
\* readOwnFile.

\* Steps 1 and 2: the loaded image, the file system of its device and its root.
OpenVolume ==
  /\ stubPc = "start"
  /\ \/ Abort /\ UNCHANGED opened
     \/ opened' = {"root"} /\ Goto("open")
  /\ UNCHANGED <<stubFile, chain, stubPages, started>>

\* Steps 3 and 4: without a path, or when Open fails, the root is closed.  A path that
\* was cut short names a directory, which opens but is no PE file.
OpenOwnFile ==
  /\ stubPc = "open"
  /\ LET path == buildPath16(chain) IN
     \/ opened' = {} /\ Abort /\ UNCHANGED stubFile
     \/ /\ path # <<>> /\ Len(path) <= Len(stubFile.path)
        /\ path = SubSeq(stubFile.path, 1, Len(path))
        /\ opened' = opened \cup {"file"} /\ Goto("size")
        /\ stubFile' = [stubFile EXCEPT !.pe = @ /\ path = stubFile.path]
  /\ UNCHANGED <<chain, stubPages, started>>

\* Step 5: both calls of GetInfo; a failure and an empty file end the run.
getFileSize ==
  /\ stubPc = "size"
  /\ \/ Abort /\ opened' = {}
     \/ stubFile.size > 0 /\ Goto("read") /\ UNCHANGED opened
  /\ UNCHANGED <<stubFile, chain, stubPages, started>>

\* Steps 7 and 8: Read fills n bytes; the handles are closed before the result is
\* looked at, and a short read is refused.
ReadOwnFile ==
  /\ stubPc = "read"
  /\ opened' = {}
  /\ \/ Abort
     \/ \E n \in 0 .. stubFile.size : IF n = stubFile.size THEN Goto("parse") ELSE Abort
  /\ UNCHANGED <<stubFile, chain, stubPages, started>>

-----------------------------------------------------------------------------
\* findPayloadOnDisk: the first section of that name, if it lies inside the file and
\* starts with the magic.
Named == {i \in DOMAIN stubFile.sections : stubFile.sections[i].name = ".payload"}
Payload == stubFile.sections[Min(Named)]
findPayloadOnDisk ==
  /\ stubFile.pe /\ Named # {}
  /\ Payload.rsize > 0 /\ Payload.foff + Payload.rsize <= stubFile.size
  /\ Payload.magic

\* The header of the payload.
HeaderOK ==
  /\ Payload.rsize >= HeaderSize
  /\ Payload.algo \in {"FLAT", "LZFS", "LZ4 "}
  /\ Payload.rsize - HeaderSize >= Payload.compressed
  /\ Payload.uncompressed # 0

ParseStub ==
  /\ stubPc = "parse"
  /\ IF findPayloadOnDisk /\ HeaderOK THEN Goto("alloc") ELSE Abort
  /\ UNCHANGED <<stubFile, chain, opened, stubPages, started>>

\* The sum wraps before it is divided; no pages are allocated for a count of zero,
\* and the address is then zero.
PageCount == ((Payload.uncompressed + PageSize - 1) % Word) \div PageSize

\* Mutant: a result of zero is taken for an address.
AllocateAny ==
  /\ stubPc = "alloc"
  /\ \/ Abort /\ UNCHANGED stubPages
     \/ PageCount <= FreeMemory /\ stubPages' = PageCount /\ Goto("decode")
  /\ UNCHANGED <<stubFile, chain, opened, started>>

Allocate ==
  /\ stubPc = "alloc"
  /\ \/ Abort /\ UNCHANGED stubPages
     \/ PageCount \in 1 .. FreeMemory /\ stubPages' = PageCount /\ Goto("decode")
  /\ UNCHANGED <<stubFile, chain, opened, started>>

\* decodePayload, flateDecode: each decoder must produce exactly the announced bytes.
decodePayload == ~Payload.corrupt /\ Payload.out = Payload.uncompressed

Decode ==
  /\ stubPc = "decode"
  /\ IF decodePayload THEN Goto("load") ELSE Abort
  /\ UNCHANGED <<stubFile, chain, opened, stubPages, started>>

Load ==
  /\ stubPc = "load"
  /\ (Abort \/ Goto("run"))
  /\ UNCHANGED <<stubFile, chain, opened, stubPages, started>>

\* StartImage returns with the child's status, and run with it.
Start ==
  /\ stubPc = "run"
  /\ started' = TRUE
  /\ stubPc' = "done" /\ stubStatus' \in {"success", "aborted", "error"}
  /\ UNCHANGED <<stubFile, chain, opened, stubPages>>

StubInit ==
  /\ stubPc = "start" /\ stubFile \in StubFiles /\ chain \in StubChains
  /\ opened = {} /\ stubPages = 0 /\ started = FALSE /\ stubStatus = "none"

StubNext ==
  \/ OpenVolume \/ OpenOwnFile \/ getFileSize \/ ReadOwnFile
  \/ ParseStub \/ Allocate \/ Decode \/ Load \/ Start

StubSpec == StubInit /\ [][StubNext]_stubVars

-----------------------------------------------------------------------------
\* An image is started only if it is everything the payload of the stub's own file
\* unpacks to and it lies in memory that was allocated for it, whatever sizes the file
\* claims; otherwise run reports failure.  The file and its volume are closed on every
\* way out of readOwnFile (run, readOwnFile, decodePayload).
StubStartsWhole ==
  /\ stubPc \in {"decode", "load", "run"} => stubPages * PageSize >= Payload.uncompressed
  /\ started => ~Payload.corrupt /\ Payload.out = Payload.uncompressed /\ buildPath16(chain) = stubFile.path
  /\ stubStatus = "success" => started
  /\ stubPc \notin {"open", "size", "read"} => opened = {}
=============================================================================
