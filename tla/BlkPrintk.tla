----------------------------- MODULE BlkPrintk -----------------------------
(***************************************************************************)
(* The Block IO print sink: probe output collected in a ring in memory     *)
(* and written as one frame to a scratch disk, from which the host reads   *)
(* it after the machine has stopped (uefiboard/blkprintk.go,               *)
(* blkprintk_tamago.go, phase2_blkprintk.go, cmd/blkprintk-recover).       *)
(*                                                                         *)
(* A printed byte is represented by its ordinal in the run, 0 is a byte    *)
(* never written.  The frame is a header cell, holding the write count and *)
(* the payload length, and Cap payload cells; it reaches the disk block by *)
(* block, and the machine may stop between any two blocks.                 *)
(***************************************************************************)
EXTENDS Integers, Sequences, FiniteSets

CONSTANTS
  Cap,         \* BlkRingPayloadCapacity
  AutoFlush,   \* BlkAutoFlushBytes
  BlockCells,  \* cells of the frame in one disk block
  Disks,       \* the Block IO handles in the order the firmware lists them
  Usable,      \* those with media, writable, not a partition, of a size that fits
  Scratch,     \* the one the host has seeded with BlkPrintkScratchMagic
  MaxBytes,    \* bytes printed in one run
  MaxBoots,    \* runs
  None

\* BindBlockIO refuses a block size that does not divide the frame.
ASSUME BlkAssumption ==
  /\ Cap \in Nat /\ Cap > 0
  /\ AutoFlush \in Nat /\ AutoFlush > 0
  /\ BlockCells \in Nat /\ BlockCells > 0 /\ (Cap + 1) % BlockCells = 0
  /\ MaxBytes \in Nat /\ MaxBoots \in Nat

VARIABLES
  payload, head, total,   \* the ring
  writeCount,             \* flushes begun
  pendingAutoFlush,       \* bytes since the last flush that succeeded
  sink,                   \* the disk BlkSink is bound to, or None
  pc,                     \* "boot", "idle", or in Flush: "flush", "write", "sync"
  phase,                  \* "probes", or in the teardown: "sentinel", then "final"
  frame, todo,            \* the frame being written and the blocks still to go
  disk,                   \* contents of each disk
  boot,                   \* ghost: number of this run
  writer,                 \* ghost: the run that first wrote a header, 0 if none
  saved,                  \* ghost: total at the last flush that succeeded
  failed                  \* ghost: the latest flush failed

ring == <<payload, head, total, writeCount, pendingAutoFlush>>
flush == <<frame, todo>>
ghosts == <<writer, saved, failed>>
vars == <<ring, sink, pc, phase, flush, disk, boot, ghosts>>

DiskSet == {Disks[i] : i \in 1 .. Len(Disks)}
Header(kind, count, len) == [kind |-> kind, count |-> count, len |-> len]
Shorter(a, b) == IF a < b THEN a ELSE b

Wrapped == total > Cap

\* Copies payload[:head] into as many zero bytes as have been printed or, once
\* wrapped, payload[head:] and then payload[:head].
PayloadBytes ==
  [i \in 1 .. Shorter(total, Cap) |->
     IF Wrapped THEN payload[IF i <= Cap - head THEN head + i - 1 ELSE head + i - 1 - Cap]
     ELSE IF i <= head THEN payload[i - 1] ELSE 0]

\* Mutant: the length is the number of bytes ever printed.
SerializeTotal(cnt) ==
  [i \in 0 .. Cap |->
     IF i = 0 THEN Header("frame", cnt, total)
     ELSE IF i <= Shorter(total, Cap) THEN PayloadBytes[i] ELSE 0]

\* The frame that carries the write count cnt.
Serialize(cnt) ==
  [i \in 0 .. Cap |->
     IF i = 0 THEN Header("frame", cnt, Shorter(total, Cap))
     ELSE IF i <= Shorter(total, Cap) THEN PayloadBytes[i] ELSE 0]

Blocks == 0 .. (Cap + 1) \div BlockCells - 1
Cells(b) == b * BlockCells .. (b + 1) * BlockCells - 1

\* cmd/blkprintk-seed writes the magic and zeros.
Seeded(d) == [i \in 0 .. Cap |-> IF i > 0 THEN 0 ELSE Header(IF d = Scratch THEN "magic" ELSE "other", 0, 0)]

\* cmd/blkprintk-recover with DecodeBlkRingFrame: refuses a disk that still
\* carries the magic and a length beyond the capacity, accepts anything else.
Recoverable(d) == disk[d][0].kind = "frame" /\ disk[d][0].len <= Cap
RecoveredCount(d) == disk[d][0].count
RecoveredPayload(d) == [i \in 1 .. disk[d][0].len |-> disk[d][i]]

-----------------------------------------------------------------------------
\* A disk runBlkPrintkSetup accepts: matchesScratchMagic on its first block.
Candidate(d, readable) == d \in Usable \cap readable /\ disk[d][0].kind = "magic"

\* runBlkPrintkSetup binds the first candidate; a handle whose protocol, media
\* record or first block cannot be read is passed over.
Setup ==
  /\ pc = "boot"
  /\ \E readable \in SUBSET DiskSet :
       \/ /\ \A d \in DiskSet : ~Candidate(d, readable)
          /\ sink' = None
       \/ \E i \in 1 .. Len(Disks) :
            /\ Candidate(Disks[i], readable)
            /\ \A j \in 1 .. i - 1 : ~Candidate(Disks[j], readable)
            /\ sink' = Disks[i]
  /\ pc' = "idle"
  /\ UNCHANGED <<ring, phase, flush, disk, boot, ghosts>>

\* Append of the next byte.
AppendByte ==
  /\ payload' = [payload EXCEPT ![head] = total + 1]
  /\ head' = IF head + 1 = Cap THEN 0 ELSE head + 1
  /\ total' = total + 1
  /\ pendingAutoFlush' = pendingAutoFlush + 1

\* Mutant: one byte late.
AutoFlushLate(n) == n > AutoFlush

AutoFlushReady(n) == n >= AutoFlush

\* Flush up to the call of WriteBlocks: count, then serialize.
FlushBegin ==
  /\ pc = "flush"
  /\ writeCount' = writeCount + 1
  /\ frame' = Serialize(writeCount + 1)
  /\ todo' = Blocks
  /\ pc' = "write"
  /\ UNCHANGED <<payload, head, total, pendingAutoFlush, sink, phase, disk, boot, ghosts>>

\* BlkPrintk: the sentinel flushes at once, any other byte at the threshold.
BlkPrintk(sentinel) ==
  /\ pc = "idle" /\ sink # None /\ total < MaxBytes
  /\ AppendByte
  /\ pc' = IF sentinel \/ AutoFlushReady(pendingAutoFlush + 1) THEN "flush" ELSE "idle"
  /\ UNCHANGED <<writeCount, sink, flush, disk, boot, ghosts>>

\* A byte the probes print, before the teardown or after it.
Output ==
  /\ phase # "sentinel"
  /\ \E sentinel \in BOOLEAN : BlkPrintk(sentinel)
  /\ UNCHANGED phase

\* runBlkPrintkTeardown prints the sentinel and, once that flush has returned,
\* flushes again.
Teardown == phase = "probes" /\ BlkPrintk(TRUE) /\ phase' = "sentinel"

FinalFlush ==
  /\ phase = "sentinel" /\ pc = "idle"
  /\ pc' = "flush" /\ phase' = "final"
  /\ UNCHANGED <<ring, sink, flush, disk, boot, ghosts>>

\* WriteBlocks, in the order the device likes.
WriteBlock(b) ==
  /\ pc = "write" /\ b \in todo
  /\ disk' = [disk EXCEPT ![sink] = [i \in 0 .. Cap |-> IF i \in Cells(b) THEN frame[i] ELSE @[i]]]
  /\ todo' = todo \ {b}
  /\ writer' = IF b = 0 /\ writer = 0 THEN boot ELSE writer
  /\ UNCHANGED <<ring, sink, pc, phase, frame, boot, saved, failed>>

WriteDone ==
  /\ pc = "write" /\ todo = {}
  /\ pc' = "sync"
  /\ UNCHANGED <<ring, sink, phase, flush, disk, boot, ghosts>>

\* WriteBlocks or FlushBlocks reports an error, which BlkPrintk swallows.
FlushFail ==
  /\ pc \in {"write", "sync"}
  /\ pc' = "idle"
  /\ failed' = TRUE
  /\ UNCHANGED <<ring, sink, phase, flush, disk, boot, writer, saved>>

\* FlushBlocks succeeds: ResetAutoFlush.
FlushDone ==
  /\ pc = "sync"
  /\ pendingAutoFlush' = 0
  /\ pc' = "idle"
  /\ saved' = total /\ failed' = FALSE
  /\ UNCHANGED <<payload, head, total, writeCount, sink, phase, flush, disk, boot, writer>>

\* The machine stops, at any moment, and is started again on the same disks:
\* NewBlkRingBuffer, BlkSink not set.
Reboot ==
  /\ boot < MaxBoots
  /\ boot' = boot + 1
  /\ payload' = [i \in 0 .. Cap - 1 |-> 0]
  /\ head' = 0 /\ total' = 0 /\ writeCount' = 0 /\ pendingAutoFlush' = 0
  /\ sink' = None /\ pc' = "boot" /\ phase' = "probes"
  /\ saved' = 0 /\ failed' = FALSE
  /\ UNCHANGED <<flush, disk, writer>>

Init ==
  /\ payload = [i \in 0 .. Cap - 1 |-> 0]
  /\ head = 0 /\ total = 0 /\ writeCount = 0 /\ pendingAutoFlush = 0
  /\ sink = None /\ pc = "boot" /\ phase = "probes"
  /\ saved = 0 /\ failed = FALSE
  /\ frame = Seeded(None) /\ todo = {}
  /\ disk = [d \in DiskSet |-> Seeded(d)]
  /\ boot = 1 /\ writer = 0

Next ==
  \/ Setup \/ Output \/ Teardown \/ FinalFlush \/ FlushBegin
  \/ \E b \in Blocks : WriteBlock(b)
  \/ WriteDone \/ FlushFail \/ FlushDone \/ Reboot

Spec == Init /\ [][Next]_vars

-----------------------------------------------------------------------------
\* The types of the state.
TypeOK ==
  /\ payload \in [0 .. Cap - 1 -> Nat] /\ head \in 0 .. Cap - 1 /\ total \in Nat
  /\ writeCount \in Nat /\ pendingAutoFlush \in Nat
  /\ sink \in DiskSet \cup {None}
  /\ pc \in {"boot", "idle", "flush", "write", "sync"} /\ phase \in {"probes", "sentinel", "final"}
  /\ todo \subseteq Blocks /\ saved \in Nat /\ failed \in BOOLEAN
  /\ boot \in Nat /\ writer \in Nat

\* The last n bytes of the first t printed, oldest first.
LastBytes(t, n) == [i \in 1 .. n |-> t - n + i]

\* PayloadBytes "in chronological order (oldest first)" (blkprintk.go:199): what
\* is serialized is exactly the latest bytes printed, as many as the ring holds.
ChronologicalPayload == PayloadBytes = LastBytes(total, Shorter(total, Cap))

\* The same except when the ring is exactly full, where the code does not do it.
ChronologicalUnlessFull == total # Cap => ChronologicalPayload

\* A flush that succeeded is what the host recovers, from then until the next
\* flush: the bytes printed up to it and the number of the flush (Flush,
\* DecodeBlkRingFrame).  Excluded is a ring that was exactly full (PayloadBytes).
FlushedIsRecovered ==
  pc = "idle" /\ ~failed /\ writeCount > 0 /\ saved # Cap =>
    /\ Recoverable(sink)
    /\ RecoveredCount(sink) = writeCount
    /\ RecoveredPayload(sink) = LastBytes(saved, Shorter(saved, Cap))

\* Wherever the machine stops between two flushes, the latest of which succeeded, the
\* host recovers all that the ring still held but fewer than AutoFlush bytes at the end
\* (BlkPrintk, AutoFlushReady, ResetAutoFlush).  Excluded is a flush of a ring that was
\* exactly full: its payload is all zeros (PayloadBytes), and every byte printed until
\* the next flush is lost.
LossBounded ==
  pc = "idle" /\ ~failed /\ saved # Cap =>
    \A byte \in 1 .. total :
      total - Cap < byte /\ byte <= total - (AutoFlush - 1) =>
        Recoverable(sink) /\ \E i \in DOMAIN RecoveredPayload(sink) : RecoveredPayload(sink)[i] = byte
=============================================================================
