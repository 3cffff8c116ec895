---------------------------- MODULE ProbesProofs ----------------------------
(***************************************************************************)
(* Proofs about the print sink, the probes of devices and memory, and the  *)
(* self-extracting stub, for every capacity, threshold, block size and set *)
(* of disks, every list of PCI handles, queue size, memory map and file.   *)
(***************************************************************************)
EXTENDS BlkPrintk, PciProbes, VirtioTx, MemMap, PackStub, FiniteSetTheorems, SequenceTheorems, TLAPS

-----------------------------------------------------------------------------
(* The print sink.                                                         *)

(* Where each byte of the ring is: below the head the latest ones, from the *)
(* head on, once the ring has been filled, the ones before them.            *)
RingType ==
  /\ payload \in [0 .. Cap - 1 -> Nat] /\ head \in Nat /\ total \in Nat
  /\ head < Cap

RingOrder ==
  /\ total < Cap => head = total
  /\ \A i \in 0 .. head - 1 : payload[i] = total - head + i + 1
  /\ total >= Cap => \A i \in head .. Cap - 1 : payload[i] = total - head - Cap + i + 1

RingInv == RingType /\ RingOrder

(* What has not been written since the last success is what is pending, and *)
(* a success has been counted.                                              *)
LossInv ==
  /\ total \in Nat /\ saved \in Nat /\ pendingAutoFlush \in Nat
  /\ total = saved + pendingAutoFlush
  /\ pc = "boot" => pendingAutoFlush = 0
  /\ pc = "idle" => failed \/ pendingAutoFlush < AutoFlush
  /\ writeCount \in Nat /\ (saved > 0 \/ pc \in {"write", "sync"} => writeCount > 0)

-----------------------------------------------------------------------------
\* One byte moves the head by one place, round the end, and keeps the order
\* (Append).
LEMMA AppendRing == RingInv /\ AppendByte => RingInv'
<1> SUFFICES ASSUME RingInv, AppendByte PROVE RingInv'
  OBVIOUS
<1>0. \A i \in 0 .. Cap - 1 : payload'[i] = IF i = head THEN total + 1 ELSE payload[i]
  <2>1. payload' = [payload EXCEPT ![head] = total + 1] /\ payload \in [0 .. Cap - 1 -> Nat]
    BY DEF AppendByte, RingInv, RingType
  <2> QED BY <2>1 DEF RingInv
<1>1. RingType'
  BY BlkAssumption DEF RingInv, RingType, AppendByte
<1>2. CASE head + 1 = Cap
  <2>1. head' = 0 /\ total' = total + 1
    BY <1>2 DEF AppendByte
  <2>2. total >= head
    BY BlkAssumption DEF RingInv, RingType, RingOrder
  <2>4. \A i \in 0 .. Cap - 1 : payload'[i] = total' - Cap + i + 1
    BY <1>2, <2>1, <1>0, BlkAssumption DEF RingInv, RingType, RingOrder
  <2>5. RingOrder'
    BY <1>2, <2>1, <2>2, <2>4, BlkAssumption DEF RingInv, RingType, RingOrder
  <2> QED BY <1>1, <2>5 DEF RingInv
<1>3. CASE head + 1 # Cap
  <2>1. head' = head + 1 /\ total' = total + 1
    BY <1>3 DEF AppendByte
  <2>4. ASSUME NEW i \in 0 .. head' - 1 PROVE payload'[i] = total' - head' + i + 1
    <3>1. i \in 0 .. Cap - 1 /\ i \in Int /\ (i = head \/ i \in 0 .. head - 1)
      BY <2>1, BlkAssumption DEF RingInv, RingType
    <3>2. payload'[i] = IF i = head THEN total + 1 ELSE payload[i]
      BY <3>1, <1>0
    <3>3. CASE i = head
      BY <3>3, <3>2, <2>1 DEF RingInv, RingType
    <3>4. CASE i \in 0 .. head - 1
      BY <3>4, <3>2, <2>1 DEF RingInv, RingType, RingOrder
    <3> QED BY <3>1, <3>3, <3>4
  <2>5. total' >= Cap => \A i \in head' .. Cap - 1 : payload'[i] = total' - head' - Cap + i + 1
    <3>1. total' >= Cap => total >= Cap
      BY <1>3, <2>1, BlkAssumption DEF RingInv, RingType, RingOrder
    <3> QED BY <3>1, <2>1, <1>0, BlkAssumption DEF RingInv, RingType, RingOrder
  <2>6. total' < Cap => head' = total'
    BY <2>1, BlkAssumption DEF RingInv, RingType, RingOrder
  <2> QED BY <1>1, <2>4, <2>5, <2>6 DEF RingInv, RingOrder
<1> QED BY <1>2, <1>3

\* A step that leaves the ring alone keeps its order.
LEMMA SameRing ==
  ASSUME RingInv, UNCHANGED <<payload, head, total>> PROVE RingInv'
BY DEF RingInv, RingType, RingOrder

\* A fresh ring has nothing to order (NewBlkRingBuffer).
LEMMA FreshRing ==
  payload = [i \in 0 .. Cap - 1 |-> 0] /\ head = 0 /\ total = 0 => RingInv
BY BlkAssumption DEF RingInv, RingType, RingOrder

\* Every step keeps the ring in order.
LEMMA RingStep == RingInv /\ [Next]_vars => RingInv'
<1> SUFFICES ASSUME RingInv, [Next]_vars PROVE RingInv'
  OBVIOUS
<1>1. CASE Setup
  BY <1>1, SameRing DEF Setup, ring
<1>2. CASE Output
  BY <1>2, AppendRing DEF Output, BlkPrintk
<1>3. CASE Teardown
  BY <1>3, AppendRing DEF Teardown, BlkPrintk
<1>4. CASE FinalFlush
  BY <1>4, SameRing DEF FinalFlush, ring
<1>5. CASE FlushBegin
  BY <1>5, SameRing DEF FlushBegin
<1>6. CASE \E b \in Blocks : WriteBlock(b)
  BY <1>6, SameRing DEF WriteBlock, ring
<1>7. CASE WriteDone
  BY <1>7, SameRing DEF WriteDone, ring
<1>8. CASE FlushFail
  BY <1>8, SameRing DEF FlushFail, ring
<1>9. CASE FlushDone
  BY <1>9, SameRing DEF FlushDone
<1>10. CASE Reboot
  <2>1. payload' = [i \in 0 .. Cap - 1 |-> 0] /\ head' = 0 /\ total' = 0
    BY <1>10 DEF Reboot
  <2> QED BY <2>1, BlkAssumption DEF RingInv, RingType, RingOrder
<1>11. CASE UNCHANGED vars
  BY <1>11, SameRing DEF vars, ring
<1> QED BY <1>1, <1>2, <1>3, <1>4, <1>5, <1>6, <1>7, <1>8, <1>9, <1>10, <1>11 DEF Next

\* The order of the ring is the order of the serialized bytes (PayloadBytes).
LEMMA RingGivesOrder == RingInv => ChronologicalUnlessFull
<1> SUFFICES ASSUME RingInv, total # Cap PROVE PayloadBytes = LastBytes(total, Shorter(total, Cap))
  BY DEF ChronologicalUnlessFull, ChronologicalPayload
<1> DEFINE n == Shorter(total, Cap)
<1>1. n \in Nat /\ n <= Cap /\ n <= total
  BY BlkAssumption DEF RingInv, RingType, Shorter
<1>2. ASSUME NEW i \in 1 .. n PROVE PayloadBytes[i] = total - n + i
  <2>1. CASE Wrapped
    <3>1. n = Cap /\ total > Cap
      BY <2>1, BlkAssumption DEF Wrapped, Shorter, RingInv, RingType
    <3>2. PayloadBytes[i] = payload[IF i <= Cap - head THEN head + i - 1 ELSE head + i - 1 - Cap]
      BY <2>1 DEF PayloadBytes
    <3>3. CASE i <= Cap - head
      <4>1. head + i - 1 \in head .. Cap - 1
        BY <3>3, <3>1, BlkAssumption DEF RingInv, RingType
      <4> QED BY <3>1, <3>2, <3>3, <4>1, BlkAssumption DEF RingInv, RingType, RingOrder
    <3>4. CASE ~(i <= Cap - head)
      <4>1. head + i - 1 - Cap \in 0 .. head - 1
        BY <3>4, <3>1, BlkAssumption DEF RingInv, RingType
      <4> QED BY <3>1, <3>2, <3>4, <4>1, BlkAssumption DEF RingInv, RingType, RingOrder
    <3> QED BY <3>3, <3>4
  <2>2. CASE ~Wrapped
    <3>1. n = total /\ head = total
      BY <2>2, BlkAssumption DEF Wrapped, Shorter, RingInv, RingType, RingOrder
    <3>2. PayloadBytes[i] = payload[i - 1] /\ i - 1 \in 0 .. head - 1
      BY <2>2, <3>1, <1>1 DEF PayloadBytes, RingInv, RingType
    <3> QED BY <3>1, <3>2, <1>1 DEF RingInv, RingType, RingOrder
  <2> QED BY <2>1, <2>2
<1>3. PayloadBytes = [i \in 1 .. n |-> PayloadBytes[i]]
  BY DEF PayloadBytes
<1>4. LastBytes(total, n) = [i \in 1 .. n |-> total - n + i]
  BY DEF LastBytes
<1> HIDE DEF n
<1>5. [i \in 1 .. n |-> PayloadBytes[i]] = [i \in 1 .. n |-> total - n + i]
  BY <1>2
<1> QED BY <1>3, <1>4, <1>5 DEF n

-----------------------------------------------------------------------------
\* Whatever is printed and however often the machine stops, what Serialize puts
\* into a frame is the latest bytes printed, oldest first, as many as the ring
\* holds - except at the moment the ring is exactly full.
THEOREM PayloadIsChronological == Spec => []ChronologicalUnlessFull
<1>1. Init => RingInv
  BY FreshRing DEF Init
<1> QED BY <1>1, RingStep, RingGivesOrder, PTL DEF Spec

(* A frame f of flush number cnt holds the latest of the first tot bytes.   *)
FrameOf(f, cnt, tot) ==
  /\ f[0] = Header("frame", cnt, Shorter(tot, Cap))
  /\ tot # Cap => \A i \in 1 .. Shorter(tot, Cap) : f[i] = tot - Shorter(tot, Cap) + i

(* Where the frame is: in memory while it is written, on the disk in every  *)
(* cell whose block is done, and all of it there after a success.           *)
DiskInv ==
  /\ DOMAIN disk = DiskSet /\ sink \in DiskSet \cup {None} /\ writeCount \in Nat /\ saved \in Nat
  /\ pc = "boot" => writeCount = 0 /\ phase = "probes"
  /\ pc \in {"flush", "write", "sync"} \/ phase # "probes" => sink \in DiskSet
  /\ pc \in {"write", "sync"} => FrameOf(frame, writeCount, total)
  /\ pc = "write" => \A i \in 0 .. Cap : (\A b \in todo : i \notin Cells(b)) => disk[sink][i] = frame[i]
  /\ pc = "sync" => \A i \in 0 .. Cap : disk[sink][i] = frame[i]
  /\ pc = "idle" /\ ~failed /\ writeCount > 0 => FrameOf(disk[sink], writeCount, saved)

\* Every cell of the frame is in one of the blocks written, because the size of a block
\* divides that of the frame (BindBlockIO).
LEMMA BlocksCover == \A i \in 0 .. Cap : \E b \in Blocks : i \in Cells(b)
<1> SUFFICES ASSUME NEW i \in 0 .. Cap PROVE \E b \in Blocks : i \in Cells(b)
  OBVIOUS
<1> DEFINE n == Cap + 1
           k == n \div BlockCells
           b == i \div BlockCells
<1>0. Cap \in Nat /\ BlockCells \in Nat /\ BlockCells > 0 /\ i \in Nat /\ i < n /\ n \in Nat /\ n % BlockCells = 0
  BY BlkAssumption
<1> HIDE DEF n
<1>1. k \in Nat /\ n = k * BlockCells
  BY <1>0
<1>2. b \in Nat /\ b * BlockCells <= i /\ i < (b + 1) * BlockCells
  BY <1>0
<1> HIDE DEF k, b
<1>3. b < k
  <2>1. SUFFICES ASSUME k <= b PROVE FALSE
    BY <1>1, <1>2
  <2>2. PICK m \in Nat : b = k + m
    <3>1. b - k \in Nat /\ b = k + (b - k)
      BY <1>1, <1>2, <2>1
    <3> QED BY <3>1
  <2>3. b * BlockCells = k * BlockCells + m * BlockCells /\ m * BlockCells \in Nat /\ k * BlockCells \in Nat
    BY <1>0, <1>1, <2>2
  <2> QED BY <1>0, <1>1, <1>2, <2>3
<1>4. i \in Cells(b)
  <2>1. b * BlockCells \in Nat /\ (b + 1) * BlockCells \in Nat
    BY <1>0, <1>2
  <2> QED BY <1>0, <1>2, <2>1 DEF Cells
<1>5. b \in Blocks
  BY <1>1, <1>2, <1>3 DEF Blocks, k, n
<1> QED BY <1>4, <1>5

\* What Serialize puts into a frame (Serialize, PayloadBytes).
LEMMA SerializeGivesFrame ==
  ASSUME RingInv, NEW cnt PROVE FrameOf(Serialize(cnt), cnt, total)
<1> DEFINE n == Shorter(total, Cap)
<1>0. n \in Nat /\ n <= Cap /\ Cap \in Nat
  BY BlkAssumption DEF RingInv, RingType, Shorter
<1>1. Serialize(cnt)[0] = Header("frame", cnt, n)
  BY <1>0 DEF Serialize
<1>2. ASSUME total # Cap, NEW i \in 1 .. n PROVE Serialize(cnt)[i] = total - n + i
  <2>1. PayloadBytes = [j \in 1 .. n |-> total - n + j]
    BY <1>2, RingGivesOrder DEF ChronologicalUnlessFull, ChronologicalPayload, LastBytes
  <2> HIDE DEF n
  <2>2. i \in 0 .. Cap /\ i # 0 /\ i <= n
    BY <1>0
  <2>3. Serialize(cnt)[i] = PayloadBytes[i]
    BY <2>2 DEF Serialize, n
  <2> QED BY <2>1, <2>3
<1> QED BY <1>1, <1>2 DEF FrameOf

\* Every step keeps the frame where the invariant says (Flush, WriteBlocks).
LEMMA DiskStep == RingInv /\ DiskInv /\ [Next]_vars => DiskInv'
<1> SUFFICES ASSUME RingInv, DiskInv, [Next]_vars PROVE DiskInv'
  OBVIOUS
<1>1. CASE Setup
  <2>1. sink' \in DiskSet \cup {None}
    BY <1>1 DEF Setup, DiskSet
  <2> QED BY <1>1, <2>1 DEF DiskInv, Setup, ring, flush, ghosts, FrameOf
<1>2. ASSUME NEW s \in BOOLEAN, BlkPrintk(s), phase' \in {phase, "sentinel"} PROVE DiskInv'
  <2>1. sink \in DiskSet /\ pc = "idle" /\ pc' \in {"idle", "flush"}
    BY <1>2 DEF BlkPrintk, DiskInv
  <2> QED BY <1>2, <2>1 DEF DiskInv, BlkPrintk, AppendByte, flush, ghosts, FrameOf
<1>3. CASE FinalFlush
  BY <1>3 DEF DiskInv, FinalFlush, ring, flush, ghosts
<1>4. CASE FlushBegin
  <2>1. FrameOf(Serialize(writeCount + 1), writeCount + 1, total)
    BY SerializeGivesFrame
  <2>2. /\ frame' = Serialize(writeCount + 1) /\ writeCount' = writeCount + 1 /\ todo' = Blocks /\ pc' = "write" /\ pc = "flush"
        /\ UNCHANGED <<total, sink, phase, disk, saved>>
    BY <1>4 DEF FlushBegin, ghosts
  <2>3. FrameOf(frame, writeCount, total)'
    BY <2>1, <2>2 DEF FrameOf
  <2> QED BY <2>2, <2>3, BlocksCover DEF DiskInv
<1>5. ASSUME NEW b \in Blocks, WriteBlock(b) PROVE DiskInv'
  <2>1. /\ pc = "write" /\ b \in todo /\ todo' = todo \ {b} /\ sink \in DiskSet /\ DOMAIN disk = DiskSet
        /\ disk' = [disk EXCEPT ![sink] = [i \in 0 .. Cap |-> IF i \in Cells(b) THEN frame[i] ELSE @[i]]]
        /\ UNCHANGED <<total, writeCount, sink, pc, phase, frame, saved, failed>>
    BY <1>5 DEF WriteBlock, DiskInv, ring
  <2>2. DOMAIN disk' = DiskSet /\ \A i \in 0 .. Cap : disk'[sink][i] = IF i \in Cells(b) THEN frame[i] ELSE disk[sink][i]
    BY <2>1
  <2>3. \A i \in 0 .. Cap : (\A c \in todo' : i \notin Cells(c)) => disk'[sink][i] = frame[i]
    <3> SUFFICES ASSUME NEW i \in 0 .. Cap, \A c \in todo' : i \notin Cells(c) PROVE disk'[sink][i] = frame[i]
      OBVIOUS
    <3>1. CASE i \in Cells(b)
      BY <2>2, <3>1
    <3>2. CASE i \notin Cells(b)
      <4>1. \A c \in todo : i \notin Cells(c)
        BY <2>1, <3>2
      <4> QED BY <2>1, <2>2, <3>2, <4>1 DEF DiskInv
    <3> QED BY <3>1, <3>2
  <2>4. FrameOf(frame, writeCount, total)'
    BY <2>1 DEF DiskInv, FrameOf
  <2> QED BY <2>1, <2>2, <2>3, <2>4 DEF DiskInv, Cells
<1>6. CASE WriteDone
  <2>1. \A i \in 0 .. Cap : disk[sink][i] = frame[i]
    BY <1>6 DEF WriteDone, DiskInv
  <2> QED BY <1>6, <2>1 DEF DiskInv, WriteDone, ring, flush, ghosts, FrameOf
<1>7. CASE FlushFail
  BY <1>7 DEF DiskInv, FlushFail, ring, flush
<1>8. CASE FlushDone
  <2>1. /\ pc = "sync" /\ pc' = "idle" /\ saved' = total /\ failed' = FALSE
        /\ UNCHANGED <<writeCount, sink, phase, disk>>
    BY <1>8 DEF FlushDone
  <2>2. Shorter(total, Cap) \in Nat /\ Shorter(total, Cap) <= Cap /\ total \in Nat /\ Cap \in Nat
    BY BlkAssumption DEF RingInv, RingType, Shorter
  <2>3. FrameOf(disk[sink], writeCount, saved)'
    <3>1. FrameOf(frame, writeCount, total) /\ \A i \in 0 .. Cap : disk[sink][i] = frame[i]
      BY <2>1 DEF DiskInv
    <3>2. \A i \in 1 .. Shorter(total, Cap) : i \in 0 .. Cap
      BY <2>2
    <3>3. 0 \in 0 .. Cap
      BY <2>2
    <3> QED BY <2>1, <3>1, <3>2, <3>3 DEF FrameOf
  <2> QED BY <2>1, <2>2, <2>3 DEF DiskInv
<1>9. CASE Reboot
  BY <1>9 DEF DiskInv, Reboot, flush
<1>10. CASE UNCHANGED vars
  BY <1>10 DEF DiskInv, vars, ring, flush, ghosts, FrameOf, Cells
<1> QED BY <1>1, <1>2, <1>3, <1>4, <1>5, <1>6, <1>7, <1>8, <1>9, <1>10, Zenon DEF Next, Output, Teardown

\* A flush that failed is the only reason for AutoFlush bytes or more to be in
\* memory alone (BlkPrintk, Flush).
LEMMA LossStep == LossInv /\ [Next]_vars => LossInv'
<1> SUFFICES ASSUME LossInv, [Next]_vars PROVE LossInv'
  OBVIOUS
<1>1. CASE Setup
  BY <1>1, BlkAssumption DEF LossInv, Setup, ring, ghosts
<1>2. ASSUME NEW s \in BOOLEAN, BlkPrintk(s) PROVE LossInv'
  BY <1>2, BlkAssumption DEF LossInv, BlkPrintk, AppendByte, AutoFlushReady, ghosts
<1>3. CASE FinalFlush
  BY <1>3 DEF LossInv, FinalFlush, ring, ghosts
<1>4. CASE FlushBegin
  BY <1>4 DEF LossInv, FlushBegin, ghosts
<1>5. CASE \E b \in Blocks : WriteBlock(b)
  BY <1>5 DEF LossInv, WriteBlock, ring
<1>6. CASE WriteDone
  BY <1>6 DEF LossInv, WriteDone, ring, ghosts
<1>7. CASE FlushFail
  BY <1>7 DEF LossInv, FlushFail, ring
<1>8. CASE FlushDone
  BY <1>8, BlkAssumption DEF LossInv, FlushDone
<1>9. CASE Reboot
  BY <1>9 DEF LossInv, Reboot
<1>10. CASE UNCHANGED vars
  BY <1>10 DEF LossInv, vars, ring, ghosts
<1> QED BY <1>1, <1>2, <1>3, <1>4, <1>5, <1>6, <1>7, <1>8, <1>9, <1>10, Zenon DEF Next, Output, Teardown

\* The frame is where the invariant says, and so the host finds it (DecodeBlkRingFrame).
LEMMA FrameIsRecovered == DiskInv => FlushedIsRecovered
<1> SUFFICES ASSUME DiskInv, pc = "idle", ~failed, writeCount > 0, saved # Cap
             PROVE  /\ Recoverable(sink)
                    /\ RecoveredCount(sink) = writeCount
                    /\ RecoveredPayload(sink) = LastBytes(saved, Shorter(saved, Cap))
  BY DEF FlushedIsRecovered
<1> DEFINE n == Shorter(saved, Cap)
<1>1. n \in Nat /\ n <= Cap
  BY BlkAssumption DEF DiskInv, Shorter
<1>2. disk[sink][0] = Header("frame", writeCount, n) /\ \A i \in 1 .. n : disk[sink][i] = saved - n + i
  BY DEF DiskInv, FrameOf
<1> HIDE DEF n
<1>3. disk[sink][0].kind = "frame" /\ disk[sink][0].count = writeCount /\ disk[sink][0].len = n
  BY <1>2 DEF Header
<1>4. [i \in 1 .. n |-> disk[sink][i]] = [i \in 1 .. n |-> saved - n + i]
  BY <1>2
<1> QED BY <1>1, <1>3, <1>4 DEF Recoverable, RecoveredCount, RecoveredPayload, LastBytes, n

\* Wherever the machine stops between two flushes, in whatever order the device wrote
\* the blocks, for every ring and block size: the host recovers the latest bytes of the
\* last flush that succeeded, and its number.
THEOREM FlushIsRecovered == Spec => []FlushedIsRecovered
<1>1. Init => RingInv /\ DiskInv
  BY FreshRing DEF Init, DiskInv
<1>2. RingInv /\ DiskInv => FlushedIsRecovered
  BY FrameIsRecovered
<1>3. RingInv /\ DiskInv /\ [Next]_vars => (RingInv /\ DiskInv)'
  BY RingStep, DiskStep
<1> QED BY <1>1, <1>2, <1>3, PTL DEF Spec

\* Wherever the machine stops after a flush that succeeded, for every ring, threshold
\* and block size: of what the ring still held the host recovers all but fewer than
\* AutoFlush bytes, unless that flush found the ring exactly full (BlkPrintk, Flush).
THEOREM LossIsBounded == Spec => []LossBounded
<1>1. Init => RingInv /\ DiskInv /\ LossInv
  BY FreshRing, BlkAssumption DEF Init, DiskInv, LossInv
<1>2. RingInv /\ DiskInv /\ LossInv /\ [Next]_vars => (RingInv /\ DiskInv /\ LossInv)'
  BY RingStep, DiskStep, LossStep
<1>3. RingInv /\ DiskInv /\ LossInv => LossBounded
  <2> SUFFICES ASSUME DiskInv, LossInv, pc = "idle", ~failed, saved # Cap,
                      NEW byte \in 1 .. total, total - Cap < byte, byte <= total - (AutoFlush - 1)
               PROVE  Recoverable(sink) /\ \E i \in DOMAIN RecoveredPayload(sink) : RecoveredPayload(sink)[i] = byte
    BY DEF LossBounded
  <2> DEFINE n == Shorter(saved, Cap)
             i == byte - (saved - n)
  <2>1. /\ total \in Nat /\ saved \in Nat /\ pendingAutoFlush \in Nat /\ total = saved + pendingAutoFlush
        /\ pendingAutoFlush < AutoFlush /\ Cap \in Nat /\ AutoFlush \in Nat /\ byte \in Nat /\ byte > 0
    BY BlkAssumption DEF LossInv
  <2>2. byte <= saved /\ saved > 0 /\ writeCount > 0
    BY <2>1 DEF LossInv
  <2>3. Recoverable(sink) /\ RecoveredPayload(sink) = [j \in 1 .. n |-> saved - n + j]
    BY <2>2, FrameIsRecovered DEF FlushedIsRecovered, LastBytes
  <2>4. i \in 1 .. n /\ saved - n + i = byte
    BY <2>1, <2>2 DEF Shorter
  <2> HIDE DEF n, i
  <2> QED BY <2>3, <2>4
<1> QED BY <1>1, <1>2, <1>3, PTL DEF Spec

-----------------------------------------------------------------------------
(* The walks over the PCI handles.                                         *)

DeviceRec == [kind : STRING, caps : {"none", "legacy", "modern"}, driver : BOOLEAN]

\* Nothing of the firmware's drives device j, as far as the probe could help it.
Released(j) == Virtio(bus[j]) => ~bus[j].driver \/ j \in stuck

PciInv ==
  /\ bus \in Seq(DeviceRec) /\ at \in 1 .. Len(bus)
  /\ found \in [DoomKinds -> Nat] /\ adapter \in [DoomKinds -> Nat]
  /\ walk = "wad" => at = 1
  /\ walk = "detach" => \A j \in 1 .. at - 1 : Released(j)
  /\ walk \in {"find", "gpu", "sound", "input", "run"} => \A j \in 1 .. Len(bus) : Released(j)
  /\ walk \in {"pci", "snp", "wad", "detach"} => \A k \in DoomKinds : found[k] = 0
  /\ \A k \in DoomKinds :
       /\ found[k] # 0 => found[k] \in 1 .. Len(bus) /\ bus[found[k]].kind = k /\ Released(found[k])
       /\ adapter[k] \in {0, found[k]}

\* A step that only moves the walk keeps what has been found.
LEMMA WalkStep ==
  ASSUME PciInv, UNCHANGED <<bus, stuck, found, adapter>>, at' \in 1 .. Len(bus),
         walk' = "wad" => at' = 1,
         walk' = "detach" => at' = 1,
         walk' \in {"find", "gpu", "sound", "input", "run"} => walk \in {"find", "gpu", "sound", "input", "run"},
         walk' \in {"pci", "snp", "wad", "detach"} => walk \in {"pci", "snp", "wad", "detach"}
  PROVE  PciInv'
<1>1. \A j : Released(j)' <=> Released(j)
  BY DEF Released
<1>2. Len(bus) \in Nat
  BY DEF PciInv
<1>3. \A k \in DoomKinds :
        /\ found'[k] # 0 => found'[k] \in 1 .. Len(bus') /\ bus'[found'[k]].kind = k /\ Released(found[k])'
        /\ adapter'[k] \in {0, found'[k]}
  BY <1>1 DEF PciInv
<1>4. walk' \in {"find", "gpu", "sound", "input", "run"} => \A j \in 1 .. Len(bus) : Released(j)'
  BY <1>1 DEF PciInv
<1>5. walk' = "detach" => \A j \in 1 .. at' - 1 : Released(j)'
  BY <1>2
<1>6. walk' \in {"pci", "snp", "wad", "detach"} => \A k \in DoomKinds : found[k] = 0
  BY DEF PciInv
<1> HIDE DEF Released
<1> QED BY <1>2, <1>3, <1>4, <1>5, <1>6, Zenon DEF PciInv

\* The loops over the handles end at the last one.
LEMMA AdvanceStep ==
  ASSUME PciInv, NEW next, Advance(next)
  PROVE  /\ at' \in 1 .. Len(bus)
         /\ \/ walk' = walk /\ at' = at + 1 /\ at < Len(bus)
            \/ walk' = next /\ at' = 1 /\ at = Len(bus)
<1>1. Len(bus) \in Nat /\ at \in Nat /\ 1 <= at /\ at <= Len(bus)
  BY DEF PciInv
<1> QED BY <1>1 DEF Advance

\* Every step keeps the invariant: drivers are disconnected before devices are looked
\* for, and only then are adapters opened (runOCIDOOMBootProbe).
LEMMA PciStep == PciInv /\ [PciNext]_pciVars => PciInv'
<1> SUFFICES ASSUME PciInv, [PciNext]_pciVars PROVE PciInv'
  OBVIOUS
<1>0. Len(bus) \in Nat /\ at \in Nat /\ 1 <= at /\ at <= Len(bus)
  BY DEF PciInv
<1>1. CASE DumpOnePciIO
  <2>1. walk = "pci" /\ Advance("snp") /\ UNCHANGED <<bus, stuck, found, adapter>>
    BY <1>1 DEF DumpOnePciIO
  <2> QED BY <2>1, AdvanceStep, WalkStep
<1>2. CASE DumpOneSNP
  <2>1. walk = "snp" /\ Advance("wad") /\ UNCHANGED <<bus, stuck, found, adapter>>
    BY <1>2 DEF DumpOneSNP
  <2> QED BY <2>1, AdvanceStep, WalkStep
<1>3. CASE CheckWad
  BY <1>0, <1>3, WalkStep DEF CheckWad, PciInv
<1>4. CASE PreDetach
  <2>1. walk = "detach" /\ Advance("find") /\ UNCHANGED <<found, adapter>>
    BY <1>4 DEF PreDetach
  <2>2. \/ bus' = [bus EXCEPT ![at].driver = FALSE] /\ UNCHANGED stuck
        \/ stuck' = stuck \cup {at} /\ UNCHANGED bus
        \/ ~Virtio(bus[at]) /\ UNCHANGED <<bus, stuck>>
    BY <1>4 DEF PreDetach
  <2>3. bus \in Seq(DeviceRec) /\ bus[at] \in DeviceRec
    BY <1>0 DEF PciInv
  <2>4. [bus[at] EXCEPT !.driver = FALSE] \in DeviceRec
    BY <2>3, Zenon DEF DeviceRec
  <2> DEFINE d == [bus[at] EXCEPT !.driver = FALSE]
  <2>a. d \in DeviceRec /\ d.driver = FALSE
    BY <2>3, Zenon DEF DeviceRec
  <2> HIDE DEF d
  <2>b. \/ bus' = [bus EXCEPT ![at] = d] /\ UNCHANGED stuck
        \/ stuck' = stuck \cup {at} /\ UNCHANGED bus
        \/ ~Virtio(bus[at]) /\ UNCHANGED <<bus, stuck>>
    BY <2>2 DEF d
  <2>5. bus' \in Seq(DeviceRec) /\ Len(bus') = Len(bus)
    BY <1>0, <2>3, <2>a, <2>b
  <2>6. at' \in 1 .. Len(bus)
    BY <2>1, AdvanceStep
  <2>7. bus'[at].driver = FALSE \/ at \in stuck' \/ ~Virtio(bus'[at])
    BY <1>0, <2>3, <2>a, <2>b
  <2>c. ASSUME NEW j \in 1 .. Len(bus), j # at, Released(j) PROVE Released(j)'
    <3>1. bus'[j] = bus[j] /\ (j \in stuck => j \in stuck')
      BY <1>0, <2>3, <2>b, <2>c
    <3> QED BY <2>c, <3>1 DEF Released
  <2>8. \A j \in 1 .. at : Released(j)'
    <3>1. ASSUME NEW j, j = at PROVE Released(j)'
      <4>1. bus'[j].driver = FALSE \/ j \in stuck' \/ ~Virtio(bus'[j])
        BY <2>7, <3>1
      <4> QED BY <4>1 DEF Released
    <3> QED BY <1>0, <2>1, <2>c, <3>1 DEF PciInv
  <2>9. \A k \in DoomKinds : found'[k] = 0
    BY <2>1 DEF PciInv
  <2>10. CASE walk' = walk /\ at' = at + 1 /\ at < Len(bus)
    BY <1>0, <2>1, <2>5, <2>8, <2>9, <2>10 DEF PciInv
  <2>11. CASE walk' = "find" /\ at' = 1 /\ at = Len(bus)
    BY <1>0, <2>1, <2>5, <2>8, <2>9, <2>11 DEF PciInv
  <2> QED BY <2>1, <2>10, <2>11, AdvanceStep
<1>5. CASE FindDevice
  <2> DEFINE k == bus[at].kind
  <2>1. walk = "find" /\ Advance("gpu") /\ UNCHANGED <<bus, stuck, adapter>>
    BY <1>5 DEF FindDevice
  <2>2. CASE k \in DoomKinds /\ found[k] = 0 /\ found' = [found EXCEPT ![k] = at]
    <3>1. found' \in [DoomKinds -> Nat] /\ \A x \in DoomKinds : found'[x] = IF x = k THEN at ELSE found[x]
      BY <1>0, <2>2 DEF PciInv
    <3>2. Released(at) /\ \A j \in 1 .. Len(bus) : Released(j)' <=> Released(j)
      BY <1>0, <2>1 DEF PciInv, Released
    <3>3. adapter[k] = 0
      BY <2>2 DEF PciInv
    <3>4. ASSUME NEW x \in DoomKinds
          PROVE  /\ found'[x] # 0 => found'[x] \in 1 .. Len(bus) /\ bus[found'[x]].kind = x /\ Released(found'[x])
                 /\ adapter[x] \in {0, found'[x]}
      BY <1>0, <2>2, <3>1, <3>2, <3>3 DEF PciInv
    <3>5. at' \in 1 .. Len(bus) /\ walk' \in {"find", "gpu"}
      BY <2>1, AdvanceStep
    <3> HIDE DEF k
    <3> QED BY <2>1, <3>1, <3>2, <3>4, <3>5, Zenon DEF PciInv
  <2>3. CASE UNCHANGED found
    BY <2>1, <2>3, AdvanceStep, WalkStep
  <2> QED BY <1>5, <2>2, <2>3 DEF FindDevice
<1>6. ASSUME NEW k \in DoomKinds, adapter' \in {adapter, [adapter EXCEPT ![k] = found[k]]},
             UNCHANGED <<bus, at, stuck, found>>, walk \in {"gpu", "sound", "input"}, walk' \in {"sound", "input", "run"}
      PROVE  PciInv'
  <2>0. /\ adapter \in [DoomKinds -> Nat] /\ found \in [DoomKinds -> Nat]
        /\ \A x \in DoomKinds : adapter[x] \in {0, found[x]}
    BY DEF PciInv
  <2>1. adapter' \in [DoomKinds -> Nat] /\ \A x \in DoomKinds : adapter'[x] \in {0, found[x]}
    <3>1. CASE adapter' = adapter
      BY <2>0, <3>1
    <3>2. CASE adapter' = [adapter EXCEPT ![k] = found[k]]
      BY <1>6, <2>0, <3>2
    <3> QED BY <1>6, <3>1, <3>2
  <2> QED BY <1>6, <2>1 DEF PciInv, Released
<1>7. CASE OpenGPU \/ OpenSound \/ OpenInput
  BY <1>6, <1>7 DEF OpenGPU, OpenSound, OpenInput, DoomKinds
<1>8. CASE GoreRun
  BY <1>0, <1>8, WalkStep DEF GoreRun
<1>9. CASE UNCHANGED pciVars
  BY <1>9 DEF pciVars, PciInv, Released
<1> QED BY <1>1, <1>2, <1>3, <1>4, <1>5, <1>7, <1>8, <1>9 DEF PciNext

\* Whatever the handles are and whichever calls fail, a device that DOOM drives is one
\* of the right kind from which the firmware's driver was disconnected, or could not be.
THEOREM DoomDrivesAlone == PciSpec => []OneDriver
<1>1. PciInit => PciInv
  <2> SUFFICES ASSUME PciInit PROVE PciInv
    OBVIOUS
  <2>1. bus \in Seq(DeviceRec) /\ bus # <<>>
    BY PciAssumption DEF PciInit, DeviceRec
  <2>2. Len(bus) \in Nat /\ Len(bus) # 0
    BY <2>1
  <2> QED BY <2>1, <2>2 DEF PciInit, PciInv
<1>2. PciInv => OneDriver
  BY DEF PciInv, OneDriver, Released, Virtio, DoomKinds
<1> QED BY <1>1, <1>2, PciStep, PTL DEF PciSpec

-----------------------------------------------------------------------------
(* The transmit queues.                                                    *)

Queue == [free : SUBSET Nat, avail : Seq(Nat), used : Seq(Nat)]

\* No descriptor is in two places.
Apart(q) ==
  /\ \A i, j \in DOMAIN q.avail : q.avail[i] = q.avail[j] => i = j
  /\ \A i, j \in DOMAIN q.used : q.used[i] = q.used[j] => i = j
  /\ \A i \in DOMAIN q.avail : q.avail[i] \notin q.free
  /\ \A j \in DOMAIN q.used : q.used[j] \notin q.free
  /\ \A i \in DOMAIN q.avail, j \in DOMAIN q.used : q.avail[i] # q.used[j]

TxInv ==
  /\ txq \in [1..2 -> Queue] /\ reported \in [1..2 -> Nat] /\ taken \in [1..2 -> Nat]
  /\ \A h \in 1..2 : Apart(txq[h]) /\ reported[h] + Len(txq[h].used) = taken[h]

\* A free descriptor is made available (AddBuffer).
LEMMA PostApart ==
  ASSUME NEW q \in Queue, Apart(q), NEW d \in q.free,
         NEW r, r = [q EXCEPT !.free = @ \ {d}, !.avail = Append(@, d)]
  PROVE  r \in Queue /\ Apart(r) /\ r.used = q.used
<1>1. q.avail \in Seq(Nat) /\ q.used \in Seq(Nat) /\ q.free \in SUBSET Nat /\ d \in Nat
  BY DEF Queue
<1>2. r.free = q.free \ {d} /\ r.avail = Append(q.avail, d) /\ r.used = q.used /\ r \in Queue
  <2>1. Append(q.avail, d) \in Seq(Nat) /\ q.free \ {d} \in SUBSET Nat
    BY <1>1
  <2>2. r.free = q.free \ {d} /\ r.avail = Append(q.avail, d) /\ r.used = q.used
    BY DEF Queue
  <2> HIDE DEF Queue
  <2> QED BY <1>1, <2>1, <2>2, Zenon DEF Queue
<1>3. /\ DOMAIN r.avail = 1 .. Len(q.avail) + 1 /\ r.avail[Len(q.avail) + 1] = d /\ Len(q.avail) \in Nat
      /\ DOMAIN q.avail = 1 .. Len(q.avail)
      /\ \A i \in DOMAIN q.avail : r.avail[i] = q.avail[i]
  BY <1>1, <1>2
<1>4. \A i \in DOMAIN r.avail : i = Len(q.avail) + 1 \/ i \in DOMAIN q.avail
  BY <1>3
<1>5. \A i, j \in DOMAIN r.avail : r.avail[i] = r.avail[j] => i = j
  BY <1>3, <1>4 DEF Apart
<1>6. \A i \in DOMAIN r.avail : r.avail[i] \notin r.free
  BY <1>2, <1>3, <1>4 DEF Apart
<1>7. \A i \in DOMAIN r.avail, j \in DOMAIN r.used : r.avail[i] # r.used[j]
  BY <1>2, <1>3, <1>4 DEF Apart
<1> QED BY <1>2, <1>5, <1>6, <1>7 DEF Apart

\* The device uses the first available descriptor.
LEMMA TakeApart ==
  ASSUME NEW q \in Queue, Apart(q), q.avail # <<>>,
         NEW r, r = [q EXCEPT !.avail = Tail(@), !.used = Append(@, Head(q.avail))]
  PROVE  r \in Queue /\ Apart(r) /\ Len(r.used) = Len(q.used) + 1
<1> DEFINE d == Head(q.avail)
<1>1. q.avail \in Seq(Nat) /\ q.used \in Seq(Nat) /\ q.free \in SUBSET Nat
  BY DEF Queue
<1>2. d \in Nat /\ d = q.avail[1] /\ 1 \in DOMAIN q.avail /\ Tail(q.avail) \in Seq(Nat) /\ Len(q.avail) \in Nat \ {0}
  BY <1>1
<1>3. r.free = q.free /\ r.avail = Tail(q.avail) /\ r.used = Append(q.used, d) /\ r \in Queue
  <2>1. Append(q.used, d) \in Seq(Nat)
    BY <1>1, <1>2
  <2>2. r.free = q.free /\ r.avail = Tail(q.avail) /\ r.used = Append(q.used, d)
    BY DEF Queue
  <2> QED BY <1>1, <1>2, <2>1, <2>2, Zenon DEF Queue
<1> HIDE DEF d
<1>4. \A i \in DOMAIN r.avail : i + 1 \in DOMAIN q.avail /\ r.avail[i] = q.avail[i + 1] /\ i + 1 # 1 /\ i \in Nat
  BY <1>1, <1>2, <1>3
<1>5. /\ \A j \in DOMAIN r.used : j = Len(q.used) + 1 \/ j \in DOMAIN q.used
      /\ r.used[Len(q.used) + 1] = d /\ \A j \in DOMAIN q.used : r.used[j] = q.used[j]
      /\ Len(r.used) = Len(q.used) + 1
  BY <1>1, <1>2, <1>3
<1>6. \A i, j \in DOMAIN r.avail : r.avail[i] = r.avail[j] => i = j
  <2>1. ASSUME NEW i \in DOMAIN r.avail, NEW j \in DOMAIN r.avail, r.avail[i] = r.avail[j] PROVE i + 1 = j + 1
    BY <1>4, <2>1 DEF Apart
  <2> QED BY <1>4, <2>1
<1>7. \A j \in DOMAIN q.used : q.used[j] # d
  BY <1>2 DEF Apart
<1>8. \A i, j \in DOMAIN r.used : r.used[i] = r.used[j] => i = j
  BY <1>5, <1>7 DEF Apart
<1>9. \A i \in DOMAIN r.avail : r.avail[i] # d /\ r.avail[i] \notin r.free
  BY <1>2, <1>3, <1>4 DEF Apart
<1>10. \A j \in DOMAIN r.used : r.used[j] \notin r.free
  BY <1>2, <1>3, <1>5 DEF Apart
<1>11. \A i \in DOMAIN r.avail, j \in DOMAIN r.used : r.avail[i] # r.used[j]
  BY <1>4, <1>5, <1>9 DEF Apart
<1> QED BY <1>3, <1>5, <1>6, <1>8, <1>9, <1>10, <1>11 DEF Apart

\* A completion is reclaimed, whichever it is (PollUsed).
LEMMA ReclaimApart ==
  ASSUME NEW q \in Queue, Apart(q), q.used # <<>>,
         NEW r, r = [q EXCEPT !.used = Tail(@), !.free = @ \cup {Head(q.used)}]
  PROVE  r \in Queue /\ Apart(r) /\ Len(r.used) + 1 = Len(q.used)
<1> DEFINE d == Head(q.used)
<1>1. q.avail \in Seq(Nat) /\ q.used \in Seq(Nat) /\ q.free \in SUBSET Nat
  BY DEF Queue
<1>2. d \in Nat /\ d = q.used[1] /\ 1 \in DOMAIN q.used /\ Tail(q.used) \in Seq(Nat) /\ Len(q.used) \in Nat \ {0}
  BY <1>1
<1>3. r.free = q.free \cup {d} /\ r.avail = q.avail /\ r.used = Tail(q.used) /\ r \in Queue
  BY <1>1, <1>2, Zenon DEF Queue
<1> HIDE DEF d
<1>4. /\ \A i \in DOMAIN r.used : i + 1 \in DOMAIN q.used /\ r.used[i] = q.used[i + 1] /\ i + 1 # 1 /\ i \in Nat
      /\ Len(r.used) + 1 = Len(q.used)
  BY <1>1, <1>2, <1>3
<1>5. \A i, j \in DOMAIN r.used : r.used[i] = r.used[j] => i = j
  <2>1. ASSUME NEW i \in DOMAIN r.used, NEW j \in DOMAIN r.used, r.used[i] = r.used[j] PROVE i + 1 = j + 1
    BY <1>4, <2>1 DEF Apart
  <2> QED BY <1>4, <2>1
<1>6. \A i \in DOMAIN r.used : r.used[i] # d /\ r.used[i] \notin r.free
  BY <1>2, <1>3, <1>4 DEF Apart
<1>7. \A i \in DOMAIN r.avail : r.avail[i] \notin r.free
  BY <1>2, <1>3 DEF Apart
<1>8. \A i \in DOMAIN r.avail, j \in DOMAIN r.used : r.avail[i] # r.used[j]
  BY <1>3, <1>4 DEF Apart
<1> QED BY <1>3, <1>4, <1>5, <1>6, <1>7, <1>8 DEF Apart

\* One queue changes, if the handle is one of the two.
LEMMA QueueStep ==
  ASSUME TxInv, NEW h, NEW r, txq' = [txq EXCEPT ![h] = r], NEW a, NEW b,
         reported' = [reported EXCEPT ![h] = a], taken' = [taken EXCEPT ![h] = b],
         h \in 1..2 => r \in Queue /\ Apart(r) /\ a \in Nat /\ b \in Nat /\ a + Len(r.used) = b
  PROVE  TxInv'
<1>1. CASE h \in 1..2
  <2>1. \A g \in 1..2 : g # h => txq'[g] = txq[g] /\ reported'[g] = reported[g] /\ taken'[g] = taken[g]
    BY <1>1 DEF TxInv
  <2>2. txq'[h] = r /\ reported'[h] = a /\ taken'[h] = b
    BY <1>1 DEF TxInv
  <2>3. txq' \in [1..2 -> Queue] /\ reported' \in [1..2 -> Nat] /\ taken' \in [1..2 -> Nat]
    BY <1>1 DEF TxInv
  <2> QED BY <1>1, <2>1, <2>2, <2>3 DEF TxInv
<1>2. CASE h \notin 1..2
  <2>1. txq' = txq /\ reported' = reported /\ taken' = taken
    BY <1>2 DEF TxInv
  <2> QED BY <2>1, Zenon DEF TxInv
<1> QED BY <1>1, <1>2

\* Every step keeps the descriptors apart (TransmitFrame, transmitFrameDiag, notifySweep).
LEMMA TxStep == TxInv /\ [TxNext]_txVars => TxInv'
<1> SUFFICES ASSUME TxInv, [TxNext]_txVars PROVE TxInv'
  OBVIOUS
<1>0. txq \in [1..2 -> Queue] /\ reported \in [1..2 -> Nat] /\ taken \in [1..2 -> Nat]
  BY DEF TxInv
<1>1. ASSUME UNCHANGED <<txq, reported, taken>> PROVE TxInv'
  BY <1>1 DEF TxInv
<1>2. ASSUME NEW h, NEW shape, Post(h, shape), UNCHANGED <<reported, taken>> PROVE TxInv'
  <2>1. PICK d \in txq[h].free : txq' = [txq EXCEPT ![h].free = @ \ {d}, ![h].avail = Append(@, d)]
    BY <1>2, Zenon DEF Post
  <2> DEFINE r == [txq[h] EXCEPT !.free = @ \ {d}, !.avail = Append(@, d)]
  <2>2. txq' = [txq EXCEPT ![h] = r]
    BY <2>1, Zenon
  <2>3. h \in 1..2 => r \in Queue /\ Apart(r) /\ r.used = txq[h].used
    BY <1>0, PostApart, Zenon DEF TxInv
  <2> HIDE DEF r
  <2>4. reported' = [reported EXCEPT ![h] = reported[h]] /\ taken' = [taken EXCEPT ![h] = taken[h]]
    BY <1>0, <1>2
  <2>5. h \in 1..2 => reported[h] \in Nat /\ taken[h] \in Nat /\ reported[h] + Len(r.used) = taken[h]
    BY <1>0, <2>3 DEF TxInv
  <2> QED BY <2>2, <2>3, <2>4, <2>5, QueueStep, Zenon
<1>3. CASE Transmit
  BY <1>1, <1>2, <1>3 DEF Transmit, NoBuffer
<1>4. CASE NotifySweep
  BY <1>1, <1>2, <1>4 DEF NotifySweep, NoBuffer
<1>5. CASE DeviceTakes
  <2> DEFINE r == [txq[serving] EXCEPT !.avail = Tail(@), !.used = Append(@, Head(txq[serving].avail))]
  <2>1. txq[serving].avail # <<>> /\ taken' = [taken EXCEPT ![serving] = taken[serving] + 1] /\ UNCHANGED reported
    BY <1>5 DEF DeviceTakes
  <2>2. txq' = [txq EXCEPT ![serving] = r]
    BY <1>5, Zenon DEF DeviceTakes
  <2>3. serving \in 1..2 => r \in Queue /\ Apart(r) /\ Len(r.used) = Len(txq[serving].used) + 1
    BY <1>0, <2>1, TakeApart, Zenon DEF TxInv
  <2> HIDE DEF r
  <2>4. reported' = [reported EXCEPT ![serving] = reported[serving]]
    BY <1>0, <2>1
  <2>5. serving \in 1..2 => /\ reported[serving] \in Nat /\ taken[serving] + 1 \in Nat
                            /\ reported[serving] + Len(r.used) = taken[serving] + 1
    <3>1. serving \in 1..2 => Len(txq[serving].used) \in Nat
      BY <1>0 DEF Queue
    <3>2. serving \in 1..2 => reported[serving] \in Nat /\ taken[serving] \in Nat
      BY <1>0
    <3>3. serving \in 1..2 => reported[serving] + Len(txq[serving].used) = taken[serving]
      BY <1>0, Zenon DEF TxInv
    <3>4. ASSUME serving \in 1..2
          PROVE  /\ reported[serving] \in Nat /\ taken[serving] + 1 \in Nat
                 /\ reported[serving] + Len(r.used) = taken[serving] + 1
      <4> DEFINE a == reported[serving]
      <4> DEFINE b == Len(txq[serving].used)
      <4> DEFINE c == taken[serving]
      <4>1. a \in Nat /\ b \in Nat /\ c \in Nat /\ a + b = c
        BY <3>1, <3>2, <3>3, <3>4
      <4>2. Len(r.used) = b + 1
        BY <2>3, <3>4
      <4> HIDE DEF a, b, c
      <4>3. c + 1 \in Nat /\ a + (b + 1) = c + 1
        BY <4>1
      <4> QED BY <4>1, <4>2, <4>3, Zenon DEF a, c
    <3> QED BY <3>4
  <2> QED BY <2>1, <2>2, <2>3, <2>4, <2>5, QueueStep, Zenon
<1>6. CASE PollUsed
  <2> DEFINE h == posted.q
             r == [txq[h] EXCEPT !.used = Tail(@), !.free = @ \cup {Head(txq[h].used)}]
  <2>1. txq[h].used # <<>> /\ reported' = [reported EXCEPT ![h] = reported[h] + 1] /\ UNCHANGED taken
    BY <1>6 DEF PollUsed
  <2>2. txq' = [txq EXCEPT ![h] = r]
    BY <1>6, Zenon DEF PollUsed
  <2>3. h \in 1..2 => r \in Queue /\ Apart(r) /\ Len(r.used) + 1 = Len(txq[h].used)
    BY <1>0, <2>1, ReclaimApart, Zenon DEF TxInv
  <2> HIDE DEF h, r
  <2>4. taken' = [taken EXCEPT ![h] = taken[h]]
    BY <1>0, <2>1
  <2>5. h \in 1..2 => reported[h] + 1 \in Nat /\ taken[h] \in Nat /\ reported[h] + 1 + Len(r.used) = taken[h]
    <3>1. h \in 1..2 => Len(r.used) \in Nat
      BY <2>3 DEF Queue
    <3>2. h \in 1..2 => reported[h] \in Nat /\ taken[h] \in Nat /\ reported[h] + Len(txq[h].used) = taken[h]
      BY <1>0 DEF TxInv
    <3> QED BY <2>3, <3>1, <3>2
  <2> QED BY <2>1, <2>2, <2>3, <2>4, <2>5, QueueStep, Zenon
<1>7. CASE LocateNet \/ DiagConfig \/ OpenNet \/ PollTimesOut \/ FrameArrives \/ ReceiveFrame \/ UNCHANGED txVars
  BY <1>1, <1>7 DEF LocateNet, DiagConfig, OpenNet, PollTimesOut, FrameArrives, ReceiveFrame, txVars
<1> QED BY <1>3, <1>4, <1>5, <1>6, <1>7 DEF TxNext

\* However late the device takes a buffer, whichever doorbell it honours and whatever
\* reset comes between, no descriptor is free while the device may use it, none is in a
\* queue twice, and no transmission is reported that did not happen.
THEOREM DescriptorsStayOwned == TxSpec => []DescriptorsOwned
<1>1. TxInit => TxInv
  <2>1. FreshQueue \in Queue /\ FreshQueue.avail = <<>> /\ FreshQueue.used = <<>>
    <3>1. 1 .. QueueSize \in SUBSET Nat
      OBVIOUS
    <3>2. <<>> \in Seq(Nat)
      OBVIOUS
    <3> QED BY <3>1, <3>2, Zenon DEF FreshQueue, Queue
  <2>2. Apart(FreshQueue)
    BY <2>1 DEF Apart
  <2> QED BY <2>1, <2>2 DEF TxInit, TxInv
<1>2. TxInv => DescriptorsOwned
  <2> SUFFICES ASSUME TxInv, NEW h \in 1..2
               PROVE  LET busy == txq[h].avail \o txq[h].used
                      IN  /\ Range(busy) \cap txq[h].free = {}
                          /\ IsInjective(busy)
                          /\ reported[h] <= taken[h]
    BY DEF DescriptorsOwned
  <2> DEFINE q == txq[h]
             busy == q.avail \o q.used
  <2>1. q.avail \in Seq(Nat) /\ q.used \in Seq(Nat) /\ reported[h] \in Nat /\ taken[h] \in Nat /\ Apart(q)
        /\ reported[h] + Len(q.used) = taken[h]
    BY DEF TxInv, Queue
  <2>2. reported[h] <= taken[h]
    BY <2>1
  <2> HIDE DEF q
  <2>3. /\ DOMAIN busy = 1 .. Len(q.avail) + Len(q.used) /\ Len(q.avail) \in Nat /\ Len(q.used) \in Nat
        /\ \A i \in DOMAIN busy :
             IF i <= Len(q.avail) THEN i \in DOMAIN q.avail /\ busy[i] = q.avail[i]
             ELSE i - Len(q.avail) \in DOMAIN q.used /\ busy[i] = q.used[i - Len(q.avail)]
    <3>1. /\ Len(q.avail) \in Nat /\ Len(q.used) \in Nat
          /\ DOMAIN q.avail = 1 .. Len(q.avail) /\ DOMAIN q.used = 1 .. Len(q.used)
      BY <2>1
    <3>2. /\ Len(busy) = Len(q.avail) + Len(q.used) /\ busy \in Seq(Nat)
          /\ \A i \in 1 .. Len(q.avail) + Len(q.used) :
               busy[i] = IF i <= Len(q.avail) THEN q.avail[i] ELSE q.used[i - Len(q.avail)]
      BY <2>1, ConcatProperties, Zenon
    <3> HIDE DEF busy
    <3>3. DOMAIN busy = 1 .. Len(q.avail) + Len(q.used)
      BY <3>1, <3>2
    <3>a. \A a, b \in Nat : \A i \in 1 .. a + b :
            (i <= a => i \in 1 .. a) /\ (~(i <= a) => i - a \in 1 .. b)
      OBVIOUS
    <3>4. ASSUME NEW i \in 1 .. Len(q.avail) + Len(q.used), i <= Len(q.avail)
          PROVE  i \in DOMAIN q.avail /\ busy[i] = q.avail[i]
      <4>1. i \in DOMAIN q.avail
        BY <3>1, <3>4, <3>a
      <4>2. busy[i] = q.avail[i]
        BY <3>2, <3>4, Zenon
      <4> QED BY <4>1, <4>2
    <3>5. ASSUME NEW i \in 1 .. Len(q.avail) + Len(q.used), ~(i <= Len(q.avail))
          PROVE  i - Len(q.avail) \in DOMAIN q.used /\ busy[i] = q.used[i - Len(q.avail)]
      <4>1. i - Len(q.avail) \in DOMAIN q.used
        BY <3>1, <3>5, <3>a, Zenon
      <4>2. busy[i] = q.used[i - Len(q.avail)]
        BY <3>2, <3>5, Zenon
      <4> QED BY <4>1, <4>2
    <3> QED BY <3>1, <3>3, <3>4, <3>5, Zenon
  <2> HIDE DEF busy
  <2>4. Range(busy) \cap q.free = {}
    <3>1. ASSUME NEW i \in DOMAIN busy PROVE busy[i] \notin q.free
      BY <2>1, <2>3, Zenon DEF Apart
    <3> QED BY <3>1 DEF Range
  <2>5. ASSUME NEW i \in DOMAIN busy, NEW j \in DOMAIN busy, busy[i] = busy[j] PROVE i = j
    <3>1. i \in Nat /\ j \in Nat
      BY <2>3
    <3>2. (i <= Len(q.avail)) <=> (j <= Len(q.avail))
      BY <2>1, <2>3, <2>5, Zenon DEF Apart
    <3>3. CASE i <= Len(q.avail)
      BY <2>1, <2>3, <2>5, <3>2, <3>3, Zenon DEF Apart
    <3>4. CASE ~(i <= Len(q.avail))
      <4>1. i - Len(q.avail) = j - Len(q.avail)
        BY <2>1, <2>3, <2>5, <3>2, <3>4, Zenon DEF Apart
      <4> QED BY <2>3, <3>1, <4>1
    <3> QED BY <3>3, <3>4
  <2>6. IsInjective(busy)
    BY <2>5 DEF IsInjective
  <2> QED BY <2>2, <2>4, <2>6 DEF busy, q
<1> QED BY <1>1, <1>2, TxStep, PTL DEF TxSpec

-----------------------------------------------------------------------------
(* The memory map.                                                         *)

Types == {7, NTypes + 4}

(* While the loop goes on, the buffer holds the map of the latest call and  *)
(* the slack, and every growth so far has been beyond the slack.            *)
MapInv ==
  /\ fwMap \in Seq(Types) /\ stride \in Nat /\ descSize \in Nat /\ attempt \in Nat /\ calm \in BOOLEAN
  /\ mmPc \in {"probe", "call", "sum", "done"}
  /\ mmPc \in {"probe", "call"} => ~calm /\ mapResult = "none"
  /\ mmPc = "call" => bufSize = Len(fwMap) * stride + Slack * descSize
  /\ mapResult = "too small" => ~calm
  /\ mmPc = "sum" => mapResult \in {"ok", "empty"}
  /\ mapResult = "ok" => descriptors = (IF stride < DescriptorWords THEN <<>> ELSE fwMap)
  /\ mapResult = "ok" /\ mmPc = "done" => Len(descriptors) = pages[7] + pages[NTypes]

\* What the firmware adds to its map comes after the old entries.
LEMMA GrownMap ==
  ASSUME fwMap \in Seq(Types), NEW m \in Grown
  PROVE  m \in Seq(Types) /\ Len(m) \in Nat /\ Len(fwMap) <= Len(m)
<1>1. CASE m = fwMap
  BY <1>1
<1>2. ASSUME NEW n \in 1 .. MaxGrowth, NEW t \in Types, m = fwMap \o [i \in 1 .. n |-> t]
      PROVE  m \in Seq(Types) /\ Len(m) \in Nat /\ Len(fwMap) <= Len(m)
  <2> DEFINE added == [i \in 1 .. n |-> t]
  <2>1. n \in Nat
    BY MapAssumption
  <2>2. added \in Seq(Types) /\ Len(added) = n
    BY <2>1
  <2> HIDE DEF added
  <2>3. m = fwMap \o added
    BY <1>2 DEF added
  <2>4. m \in Seq(Types) /\ Len(m) = Len(fwMap) + Len(added)
    BY <2>2, <2>3, ConcatProperties, Zenon
  <2> QED BY <2>1, <2>2, <2>4
<1>3. m = fwMap \/ \E n \in 1 .. MaxGrowth, t \in Types : m = fwMap \o [i \in 1 .. n |-> t]
  <2>1. m = fwMap \/ \E n \in 1 .. MaxGrowth, t \in Types : m = Longer(n, t)
    BY DEF Grown, Types
  <2> QED BY <2>1, Zenon DEF Longer
<1> QED BY <1>1, <1>2, <1>3, Zenon

\* Every page is in one of the totals: a type is one of the known ones or counts as
\* unknown (the loop of the M0 probe).
LEMMA PagesAddUp ==
  ASSUME NEW d \in Seq(Types)
  PROVE  Len(d) = Cardinality({i \in DOMAIN d : d[i] = 7}) + Cardinality({i \in DOMAIN d : d[i] >= NTypes})
<1> DEFINE free == {i \in DOMAIN d : d[i] = 7}
           unknown == {i \in DOMAIN d : d[i] >= NTypes}
<1>1. Len(d) \in Nat /\ DOMAIN d = 1 .. Len(d)
  OBVIOUS
<1>2. \A i \in DOMAIN d : d[i] = 7 \/ d[i] = NTypes + 4
  BY DEF Types
<1>3. free \cup unknown = 1 .. Len(d) /\ free \cap unknown = {}
  BY <1>1, <1>2 DEF NTypes
<1>4. IsFiniteSet(1 .. Len(d)) /\ Cardinality(1 .. Len(d)) = Len(d)
  <2>1. 1 .. Len(d) = 1 .. Len(d) /\ 1 \in Int /\ Len(d) \in Int
    BY <1>1
  <2>2. /\ IsFiniteSet(1 .. Len(d))
        /\ Cardinality(1 .. Len(d)) = IF 1 > Len(d) THEN 0 ELSE Len(d) - 1 + 1
    BY <2>1, FS_Interval
  <2> QED BY <1>1, <2>2
<1> HIDE DEF free, unknown
<1>5. IsFiniteSet(free) /\ IsFiniteSet(unknown)
  BY <1>3, <1>4, FS_Subset
<1>6. /\ Cardinality(free \cup unknown) = Cardinality(free) + Cardinality(unknown) - Cardinality(free \cap unknown)
      /\ Cardinality(free) \in Nat /\ Cardinality(unknown) \in Nat
  BY <1>5, FS_Union, FS_CardinalityType
<1>7. Cardinality({}) = 0
  BY FS_EmptySet
<1>8. Cardinality(free \cup unknown) = Len(d) /\ Cardinality(free \cap unknown) = 0
  BY <1>3, <1>4, <1>7, Zenon
<1>9. Len(d) = Cardinality(free) + Cardinality(unknown)
  BY <1>6, <1>8
<1> QED BY <1>9 DEF free, unknown

\* Every step of GetMemoryMap and of the probe keeps the invariant.
LEMMA MapStep == MapInv /\ [MapNext]_mmVars => MapInv'
<1> SUFFICES ASSUME MapInv, [MapNext]_mmVars PROVE MapInv'
  OBVIOUS
<1>0. fwMap \in Seq(Types) /\ Len(fwMap) \in Nat /\ stride \in Nat
  <2>1. fwMap \in Seq(Types) /\ stride \in Nat
    BY Zenon DEF MapInv
  <2> QED BY <2>1, LenProperties
<1>1. CASE ProbeSize
  <2>1. CASE /\ fwMap' \in Grown /\ descSize' \in {stride, DescriptorWords}
             /\ bufSize' = SlackSize(SizeOf(fwMap'), descSize')
             /\ mmPc' = "call" /\ UNCHANGED mapResult
    <3>1. fwMap' \in Seq(Types)
      BY <1>0, <2>1, GrownMap
    <3>2. bufSize' = Len(fwMap') * stride + Slack * descSize' /\ descSize' \in Nat
      BY <1>0, <2>1 DEF SlackSize, SizeOf, DescriptorWords
    <3> QED BY <1>1, <2>1, <3>1, <3>2 DEF ProbeSize, MapInv
  <2>2. CASE \/ mmPc' = "sum" /\ mapResult' = "empty" /\ UNCHANGED <<fwMap, descSize, bufSize>>
             \/ mmPc' = "done" /\ mapResult' = "error" /\ UNCHANGED <<fwMap, descSize, bufSize>>
    BY <1>1, <2>2 DEF ProbeSize, MapInv
  <2> QED BY <1>1, <2>1, <2>2 DEF ProbeSize
<1>2. CASE CallMap
  <2>1. fwMap' \in Seq(Types) /\ Len(fwMap') \in Nat /\ Len(fwMap) <= Len(fwMap')
    BY <1>0, <1>2, GrownMap, Zenon DEF CallMap
  <2>2. mmPc = "call" /\ ~calm /\ mapResult = "none" /\ bufSize = Len(fwMap) * stride + Slack * descSize
        /\ descSize \in Nat /\ attempt \in Nat /\ attempt' = attempt + 1 /\ UNCHANGED <<stride, pages>>
    BY <1>2, Zenon DEF CallMap, MapInv
  <2>3. CASE SizeOf(fwMap') <= bufSize
    <3>1. /\ descriptors' = ParseMemoryMap(fwMap') /\ descSize' = stride
          /\ mmPc' = "sum" /\ mapResult' = "ok"
      BY <1>2, <2>3 DEF CallMap
    <3>2. calm' \in BOOLEAN
      BY <1>2, Zenon DEF CallMap
    <3> QED BY <1>0, <2>1, <2>2, <3>1, <3>2 DEF MapInv, ParseMemoryMap
  <2>4. CASE ~(SizeOf(fwMap') <= bufSize)
    <3>1. /\ bufSize' = SlackSize(SizeOf(fwMap'), descSize') /\ descSize' \in {stride, descSize}
          /\ mmPc' = (IF attempt' = 4 THEN "done" ELSE "call")
          /\ mapResult' = (IF attempt' = 4 THEN "too small" ELSE "none")
      BY <1>2, <2>4, Zenon DEF CallMap
    <3>2. ~(Len(fwMap') * stride <= Len(fwMap) * stride + Slack * descSize)
      BY <2>2, <2>4 DEF SizeOf
    <3>3. \A a, b, c, s, d \in Nat : b <= a + c /\ s <= d => b * s <= a * s + c * d
      <4> TAKE a, b, c, s, d \in Nat
      <4>1. ASSUME b <= a + c, s <= d PROVE b * s <= a * s + c * d
        <5> DEFINE k == a + c - b
                   e == d - s
        <5>1. k \in Nat /\ a + c = b + k /\ e \in Nat /\ d = s + e
          BY <4>1
        <5>2. a * s + c * s = b * s + k * s /\ c * d = c * s + c * e
          BY <5>1
        <5>3. k * s \in Nat /\ b * s \in Nat /\ c * s \in Nat /\ c * e \in Nat /\ a * s \in Nat
          BY <5>1
        <5> HIDE DEF k, e
        <5> QED BY <5>2, <5>3
      <4> QED BY <4>1
    <3>4. ~(Len(fwMap') - Len(fwMap) <= Slack /\ descSize >= stride)
      BY <1>0, <2>1, <2>2, <3>2, <3>3 DEF Slack
    <3>5. calm' = FALSE
      BY <1>2, <2>2, <3>4, Zenon DEF CallMap
    <3>6. bufSize' = Len(fwMap') * stride' + Slack * descSize' /\ descSize' \in Nat
      BY <1>0, <2>2, <3>1, Zenon DEF SlackSize, SizeOf
    <3>7. attempt' \in Nat /\ stride' \in Nat
      BY <1>0, <2>2
    <3>8. \/ mmPc' = "done" /\ mapResult' = "too small"
          \/ mmPc' = "call" /\ mapResult' = "none"
      BY <3>1, Zenon
    <3> QED BY <2>1, <3>5, <3>6, <3>7, <3>8, Zenon DEF MapInv
  <2> QED BY <2>3, <2>4
<1>3. CASE SumPages
  <2>0. CASE mapResult = "empty"
    BY <1>3, <2>0 DEF SumPages, MapInv
  <2> SUFFICES ASSUME mapResult = "ok" PROVE MapInv'
    BY <1>3, <2>0 DEF SumPages, MapInv
  <2>1. mapResult = "ok" /\ descriptors = (IF stride < DescriptorWords THEN <<>> ELSE fwMap)
    BY <1>3 DEF SumPages, MapInv
  <2>2. descriptors \in Seq(Types)
    BY <1>0, <2>1
  <2>3. /\ pages'[7] = Cardinality({i \in DOMAIN descriptors : descriptors[i] = 7})
        /\ pages'[NTypes] = Cardinality({i \in DOMAIN descriptors : descriptors[i] >= NTypes})
    BY <1>3 DEF SumPages, NTypes
  <2>4. Len(descriptors) = pages'[7] + pages'[NTypes]
    BY <2>2, <2>3, PagesAddUp
  <2> QED BY <1>3, <2>1, <2>4 DEF SumPages, MapInv
<1>4. CASE UNCHANGED mmVars
  BY <1>4, Zenon DEF mmVars, MapInv
<1>5. CASE CallFails
  BY <1>5 DEF CallFails, MapInv
<1> QED BY <1>1, <1>2, <1>3, <1>4, <1>5 DEF MapNext

\* For any descriptor size and however the map grows between the calls: GetMemoryMap
\* gives up only if it outgrew the slack every time, and returns the whole map.
THEOREM MapComesWhole == MapSpec => []MapIsWhole
<1>1. MapInit => MapInv
  <2> SUFFICES ASSUME MapInit PROVE MapInv
    OBVIOUS
  <2>1. fwMap \in Seq(Types)
    <3>1. 7 \in Types /\ NTypes + 4 \in Types
      BY DEF Types
    <3>2. \A a, b \in Types : <<a>> \in Seq(Types) /\ <<a, b>> \in Seq(Types)
      OBVIOUS
    <3>3. <<7>> \in Seq(Types) /\ <<7, NTypes + 4>> \in Seq(Types)
      BY <3>1, <3>2
    <3> QED BY <3>3, Zenon DEF MapInit
  <2> QED BY <2>1, MapAssumption, Zenon DEF MapInit, MapInv
<1>2. MapInv => MapIsWhole
  <2> SUFFICES ASSUME MapInv PROVE MapIsWhole
    OBVIOUS
  <2>1. stride >= DescriptorWords => ~(stride < DescriptorWords)
    <3>1. stride \in Nat
      BY Zenon DEF MapInv
    <3> QED BY <3>1 DEF DescriptorWords
  <2>2. mapResult = "ok" /\ stride >= DescriptorWords => descriptors = fwMap
    BY <2>1 DEF MapInv
  <2>3. /\ mapResult = "too small" => ~calm
        /\ mapResult = "ok" /\ mmPc = "done" => Len(descriptors) = pages[7] + pages[NTypes]
    BY Zenon DEF MapInv
  <2> QED BY <2>2, <2>3, Zenon DEF MapIsWhole
<1> QED BY <1>1, <1>2, MapStep, PTL DEF MapSpec

-----------------------------------------------------------------------------
(* The self-extracting stub.                                               *)

Less == {p \in Nat \X Nat : p[1] < p[2]}

\* The library's well-founded order, as a set of pairs.
LEMMA LessRelation == Less = OpToRel(<, Nat)
  BY Zenon DEF OpToRel, Less

\* Min of a non-empty set of natural numbers is its least element (findPayloadOnDisk,
\* which takes the first section of its name).
LEMMA LeastIsIn ==
  ASSUME NEW T \in SUBSET Nat, T # {}
  PROVE  Min(T) \in T /\ \A y \in T : Min(T) <= y
<1>1. PICK x \in T : \A y \in T : <<y, x>> \notin Less
  BY NatLessThanWellFounded, WFMin, LessRelation, Zenon
<1>2. \A a, b \in Nat : a < b => <<a, b>> \in Less
  BY DEF Less
<1>3. ASSUME NEW y \in T PROVE x <= y
  <2>1. x \in Nat /\ y \in Nat
    OBVIOUS
  <2>2. ~(y < x)
    BY <1>1, <1>2, <2>1, Zenon
  <2> QED BY <2>1, <2>2
<1> QED BY <1>3, Zenon DEF Min

\* A count of pages that is not zero covers the size it was computed from, although the
\* sum may wrap: a sum that wraps is less than a page and its count is zero.
LEMMA PagesCover ==
  ASSUME NEW u \in Nat, u < Word
  PROVE  LET n == ((u + PageSize - 1) % Word) \div PageSize
         IN  n \in Nat /\ (n > 0 => n * PageSize >= u)
<1>0. Word \in Nat /\ PageSize \in Nat /\ 0 < PageSize /\ PageSize <= Word
  BY StubAssumption
<1> DEFINE x == u + PageSize - 1
<1>1. x \in Nat
  BY <1>0
<1>2. CASE x < Word
  <2>1. x % Word = x
    BY <1>0, <1>1, <1>2
  <2> DEFINE n == x \div PageSize
  <2>2. n \in Nat
    BY <1>0, <1>1
  <2>3. x < (n + 1) * PageSize
    BY <1>0, <1>1
  <2> HIDE DEF n
  <2>4. (n + 1) * PageSize = n * PageSize + PageSize /\ n * PageSize \in Nat
    BY <1>0, <2>2
  <2>5. n * PageSize >= u
    BY <1>0, <2>3, <2>4
  <2> QED BY <2>1, <2>2, <2>5 DEF n
<1>3. CASE x >= Word
  <2>1. x - Word \in Nat /\ x - Word < PageSize /\ x - Word < Word /\ x = (x - Word) + Word
    BY <1>0, <1>1, <1>3
  <2>2. x % Word = x - Word
    BY <1>0, <2>1
  <2>3. (x - Word) \div PageSize = 0
    BY <1>0, <2>1
  <2> QED BY <2>2, <2>3
<1> QED BY <1>0, <1>1, <1>2, <1>3

(* What is known of the file at each step.  The path is settled when it is  *)
(* opened, the payload when it is found, the pages when they are allocated. *)
StubInv ==
  /\ stubFile = [size |-> stubFile.size, pe |-> stubFile.pe, path |-> stubFile.path, sections |-> stubFile.sections]
  /\ stubFile.pe \in BOOLEAN /\ started \in BOOLEAN /\ DOMAIN stubFile.sections \subseteq Nat
  /\ \A n \in DOMAIN stubFile.sections : stubFile.sections[n].uncompressed \in 0 .. Word - 1
  /\ stubPc \in {"size", "read", "parse"} /\ stubFile.pe => buildPath16(chain) = stubFile.path
  /\ stubPc \in {"alloc", "decode", "load", "run"} => Named # {} /\ buildPath16(chain) = stubFile.path
  /\ stubPc \in {"load", "run"} => decodePayload
  /\ stubPc # "done" => ~started /\ stubStatus = "none"
  /\ StubStartsWhole

\* Every step of the stub keeps the invariant (run, readOwnFile).
LEMMA StubStep == StubInv /\ [StubNext]_stubVars => StubInv'
<1> SUFFICES ASSUME StubInv, [StubNext]_stubVars PROVE StubInv'
  OBVIOUS
<1>a. UNCHANGED stubFile => Payload' = Payload /\ Named' = Named
  BY DEF Payload, Named
<1>b. UNCHANGED chain => buildPath16(chain)' = buildPath16(chain)
  OBVIOUS
<1>1. CASE OpenVolume
  BY <1>1, <1>a, <1>b DEF OpenVolume, StubInv, StubStartsWhole, Abort, Goto
<1>2. CASE OpenOwnFile
  <2> DEFINE path == buildPath16(chain)
  <2>1. path' = path /\ UNCHANGED <<chain, stubPages, started>> /\ stubPc = "open" /\ ~started /\ stubStatus = "none"
    BY <1>2, <1>b DEF OpenOwnFile, StubInv
  <2> HIDE DEF path
  <2>2. CASE opened' = {} /\ Abort /\ UNCHANGED stubFile
    BY <2>1, <2>2, <1>a, <1>b DEF StubInv, StubStartsWhole, Abort
  <2>3. CASE /\ opened' = opened \cup {"file"} /\ Goto("size")
             /\ stubFile' = [stubFile EXCEPT !.pe = @ /\ path = stubFile.path]
    <3> DEFINE isPe == stubFile.pe /\ path = stubFile.path
    <3>1. stubFile' = [size |-> stubFile.size, pe |-> isPe, path |-> stubFile.path, sections |-> stubFile.sections]
      BY <2>3 DEF StubInv
    <3>2. isPe \in BOOLEAN /\ (isPe => path = stubFile.path)
      BY DEF StubInv
    <3> HIDE DEF isPe
    <3>3. /\ stubFile'.size = stubFile.size /\ stubFile'.pe = isPe /\ stubFile'.path = stubFile.path
          /\ stubFile'.sections = stubFile.sections
      BY <3>1
    <3> QED BY <2>1, <2>3, <3>1, <3>2, <3>3 DEF StubInv, StubStartsWhole, Goto, path
  <2> QED BY <1>2, <2>2, <2>3 DEF OpenOwnFile, path
<1>3. CASE getFileSize
  BY <1>3, <1>a, <1>b DEF getFileSize, StubInv, StubStartsWhole, Abort, Goto
<1>4. CASE ReadOwnFile
  BY <1>4, <1>a, <1>b DEF ReadOwnFile, StubInv, StubStartsWhole, Abort, Goto
<1>5. CASE ParseStub
  BY <1>5, <1>a, <1>b DEF ParseStub, StubInv, StubStartsWhole, Abort, Goto, findPayloadOnDisk
<1>6. CASE Allocate
  <2>1. CASE Abort /\ UNCHANGED stubPages
    BY <1>6, <1>a, <1>b, <2>1 DEF Allocate, StubInv, StubStartsWhole, Abort
  <2>2. CASE PageCount \in 1 .. FreeMemory /\ stubPages' = PageCount /\ Goto("decode")
    <3>1. Named # {} /\ Named \subseteq Nat /\ Named \subseteq DOMAIN stubFile.sections
      BY <1>6 DEF Allocate, StubInv, Named
    <3>2. Min(Named) \in DOMAIN stubFile.sections
      BY <3>1, LeastIsIn, Zenon
    <3>3. Payload.uncompressed \in 0 .. Word - 1
      BY <3>2 DEF StubInv, Payload
    <3>4. Payload.uncompressed \in Nat /\ Payload.uncompressed < Word
      BY <3>3, StubAssumption
    <3>5. stubPages' * PageSize >= Payload.uncompressed
      BY <2>2, <3>4, PagesCover, StubAssumption DEF PageCount
    <3> QED BY <1>6, <1>a, <1>b, <2>2, <3>5 DEF Allocate, StubInv, StubStartsWhole, Goto
  <2> QED BY <1>6, <2>1, <2>2 DEF Allocate
<1>7. CASE Decode
  BY <1>7, <1>a, <1>b DEF Decode, StubInv, StubStartsWhole, Abort, Goto, decodePayload
<1>8. CASE Load
  BY <1>8, <1>a, <1>b DEF Load, StubInv, StubStartsWhole, Abort, Goto, decodePayload
<1>9. CASE Start
  BY <1>9, <1>a, <1>b DEF Start, StubInv, StubStartsWhole, decodePayload
<1>10. CASE UNCHANGED stubVars
  BY <1>10, <1>a, <1>b DEF stubVars, StubInv, StubStartsWhole, decodePayload
<1> QED BY <1>1, <1>2, <1>3, <1>4, <1>5, <1>6, <1>7, <1>8, <1>9, <1>10 DEF StubNext

\* For any file, any device path and any sizes the file claims: the stub starts only
\* what its own payload unpacks to, in memory allocated for all of it, and leaves no
\* file open.
THEOREM StubIsWhole == StubSpec => []StubStartsWhole
<1>1. StubInit => StubInv
  <2> SUFFICES ASSUME StubInit PROVE StubInv
    OBVIOUS
  <2>1. stubFile \in StubFiles
    BY DEF StubInit
  <2>2. DOMAIN stubFile.sections = 1 .. Len(stubFile.sections) /\ Len(stubFile.sections) \in Nat
    BY <2>1, StubAssumption
  <2>3. /\ stubFile = [size |-> stubFile.size, pe |-> stubFile.pe, path |-> stubFile.path, sections |-> stubFile.sections]
        /\ stubFile.pe \in BOOLEAN /\ DOMAIN stubFile.sections \subseteq Nat
        /\ \A n \in DOMAIN stubFile.sections : stubFile.sections[n].uncompressed \in 0 .. Word - 1
    <3>1. \A f \in StubFiles :
            /\ f = [size |-> f.size, pe |-> f.pe, path |-> f.path, sections |-> f.sections]
            /\ f.pe \in BOOLEAN /\ \A n \in DOMAIN f.sections : f.sections[n].uncompressed \in 0 .. Word - 1
      BY StubAssumption, Zenon
    <3>2. DOMAIN stubFile.sections \subseteq Nat
      BY <2>2
    <3> QED BY <2>1, <3>1, <3>2, Zenon
  <2> QED BY <2>3, Zenon DEF StubInit, StubInv, StubStartsWhole
<1>2. StubInv => StubStartsWhole
  BY DEF StubInv
<1> QED BY <1>1, <1>2, StubStep, PTL DEF StubSpec
=============================================================================
