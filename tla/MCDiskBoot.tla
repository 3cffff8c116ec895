------------------------------ MODULE MCDiskBoot ------------------------------
(* DiskBoot with volumes whose device paths come close to ours, and words of   *)
(* four bits for the reads.                                                   *)
EXTENDS DiskBoot, TLC

CONSTANTS p1, p2, p3
Symmetry == Permutations({p1, p2, p3})

HD(n) == Node(4, 1, <<n>>)

MCPartitions == {<<HD(1)>>, <<>>}

MCStock ==
  {<<Node(1, 1, <<>>), HD(1)>>,          \* a disk behind a controller
   <<Node(4, 3, <<13>>), HD(1)>>,        \* another vendor's device
   <<Node(4, 3, <<12, 4>>)>>}            \* a longer node that begins like ours
=============================================================================
