-------------------------------- MODULE MCSfs --------------------------------
(* The publishers of firmware protocols for TLC: Sfs with a root of two        *)
(* entries, a file of three bytes and an empty subdirectory, or Rng.           *)
EXTENDS Sfs, Rng, TLC

CONSTANTS f1, f2, f3, v1, v2
Symmetry == Permutations({f1, f2, f3}) \cup Permutations({v1, v2})

MCTree ==
  (<<>> :> [dir |-> TRUE, size |-> 0, names |-> <<"a", "d">>]) @@
  (<<"a">> :> [dir |-> FALSE, size |-> 3, names |-> <<>>]) @@
  (<<"d">> :> [dir |-> TRUE, size |-> 0, names |-> <<>>])

MCNames ==
  {[abs |-> FALSE, parts |-> <<"d", ".", "b">>], [abs |-> TRUE, parts |-> <<"", "d">>],
   [abs |-> FALSE, parts |-> <<"..", "a">>], EmptyName}

VARIABLE publisher     \* the one whose calls are explored

MCInit ==
  /\ Init /\ RngInit /\ publisher \in {"sfs", "rng"}
  /\ publisher = "sfs" => Carrying = {}

MCNext ==
  /\ UNCHANGED publisher
  /\ \/ publisher = "sfs" /\ Next /\ UNCHANGED rngVars
     \/ publisher = "rng" /\ RngNext /\ UNCHANGED sfsVars

MCSpec == MCInit /\ [][MCNext]_<<publisher, sfsVars, rngVars>>
=============================================================================
