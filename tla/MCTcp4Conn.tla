----------------------------- MODULE MCTcp4Conn -----------------------------
(***************************************************************************)
(* Instances of Tcp4Conn for TLC.  Both sequence spaces start just below   *)
(* the wrap-around so that it happens inside the transfer.                 *)
(***************************************************************************)
EXTENDS Tcp4Conn

\* The peer's stream: byte i has value i, so a misplaced byte is visible.
Stream2 == [i \in 1 .. 2 |-> i]

=============================================================================
