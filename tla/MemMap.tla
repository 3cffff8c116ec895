-------------------------------- MODULE MemMap --------------------------------
(***************************************************************************)
(* The memory map of the firmware: GetMemoryMap, parseMemoryMap and the M0 *)
(* probe (uefiboard/memorymap_tamago.go, memorymap.go, phase2_probe.go).   *)
(* The map may grow between any two calls of the firmware, which has to    *)
(* allocate to serve them.  A descriptor is its type and covers one page;  *)
(* sizes are in words of eight bytes.                                      *)
(***************************************************************************)
EXTENDS Naturals, Sequences, FiniteSets

CONSTANTS
  Strides,     \* descriptor sizes of the firmwares considered
  MaxGrowth    \* bound on the entries the map grows by between two calls

ASSUME MapAssumption == Strides \subseteq Nat /\ MaxGrowth \in Nat

VARIABLES
  mmPc,        \* "probe", "call", "sum", "done"
  fwMap,       \* the firmware's map: a sequence of types
  stride,      \* its DescriptorSize
  descSize,    \* what the caller takes for it
  bufSize, attempt,
  descriptors, \* what parseMemoryMap returned
  pages,       \* the probe's totals: a type -> pages, 16 for unknown types
  mapResult,   \* "none", "ok", "empty", "too small", "error"
  calm         \* ghost: some call of the loop came after a growth by Slack entries or less

mmVars == <<mmPc, fwMap, stride, descSize, bufSize, attempt, descriptors, pages, mapResult, calm>>

DescriptorWords == 5      \* efiMemoryDescriptorSize
Slack == 4                \* entries
NTypes == 16

\* External: the firmware's own allocations, before it serves a call.
Longer(n, t) == fwMap \o [i \in 1..n |-> t]
Grown == {fwMap} \cup {Longer(n, t) : n \in 1..MaxGrowth, t \in {7, NTypes + 4}}

SizeOf(map) == Len(map) * stride

\* Mutant: the retry asks for exactly what the firmware reported.
SlackSizeNone(size, desc) == size

\* bufSize := size + 4*descSize.
SlackSize(size, desc) == size + Slack * desc

\* parseMemoryMap of a buffer that holds the map.
ParseMemoryMap(map) ==
  IF stride < DescriptorWords THEN <<>> ELSE map

\* The sizing call.  The firmware may leave DescriptorSize at 0, which stands for the
\* usual size; it may report an empty map, or fail.
ProbeSize ==
  /\ mmPc = "probe"
  /\ \/ /\ fwMap' \in Grown /\ descSize' \in {stride, DescriptorWords}
        /\ bufSize' = SlackSize(SizeOf(fwMap'), descSize')
        /\ mmPc' = "call" /\ UNCHANGED mapResult
     \/ /\ mmPc' = "sum" /\ mapResult' = "empty" /\ UNCHANGED <<fwMap, descSize, bufSize>>
     \/ /\ mmPc' = "done" /\ mapResult' = "error" /\ UNCHANGED <<fwMap, descSize, bufSize>>
  /\ UNCHANGED <<stride, attempt, descriptors, pages, calm>>

\* One round of the loop.
CallMap ==
  /\ mmPc = "call"
  /\ fwMap' \in Grown
  /\ calm' = (calm \/ (Len(fwMap') - Len(fwMap) <= Slack /\ descSize >= stride))
  /\ attempt' = attempt + 1
  /\ IF SizeOf(fwMap') <= bufSize
     THEN /\ descriptors' = ParseMemoryMap(fwMap') /\ descSize' = stride
          /\ mmPc' = "sum" /\ mapResult' = "ok" /\ UNCHANGED bufSize
     ELSE /\ descSize' \in {stride, descSize}
          /\ bufSize' = SlackSize(SizeOf(fwMap'), descSize')
          /\ mmPc' = IF attempt' = 4 THEN "done" ELSE "call"
          /\ mapResult' = IF attempt' = 4 THEN "too small" ELSE "none"
          /\ UNCHANGED descriptors
  /\ UNCHANGED <<stride, pages>>

\* The call fails with another status.
CallFails ==
  /\ mmPc = "call" /\ mmPc' = "done" /\ mapResult' = "error"
  /\ UNCHANGED <<fwMap, stride, descSize, bufSize, attempt, descriptors, pages, calm>>

\* The probe adds up the pages of each type.
SumPages ==
  /\ mmPc = "sum" /\ mmPc' = "done"
  /\ pages' = [t \in 0..NTypes |->
       Cardinality({i \in DOMAIN descriptors :
         IF t < NTypes THEN descriptors[i] = t ELSE descriptors[i] >= NTypes})]
  /\ UNCHANGED <<fwMap, stride, descSize, bufSize, attempt, descriptors, mapResult, calm>>

MapInit ==
  /\ mmPc = "probe" /\ fwMap \in {<<7>>, <<7, NTypes + 4>>} /\ stride \in Strides
  /\ descSize = 0 /\ bufSize = 0 /\ attempt = 0 /\ descriptors = <<>> /\ pages = [t \in 0..NTypes |-> 0]
  /\ mapResult = "none" /\ calm = FALSE

MapNext == ProbeSize \/ CallMap \/ CallFails \/ SumPages

MapSpec == MapInit /\ [][MapNext]_mmVars

-----------------------------------------------------------------------------
\* GetMemoryMap gives up only on a map that grew by more than four entries ("4 entries
\* is generous", memorymap_tamago.go) before every one of its calls, or where the size
\* of an entry it had assumed was too small, and a map it returns is the firmware's
\* whole map, every page of it in one of the probe's totals.
MapIsWhole ==
  /\ mapResult = "too small" => ~calm
  /\ mapResult = "ok" /\ stride >= DescriptorWords => descriptors = fwMap
  /\ mapResult = "ok" /\ mmPc = "done" =>
       Len(descriptors) = pages[7] + pages[NTypes]
=============================================================================
