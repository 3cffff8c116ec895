------------------------------ MODULE MCRxPump ------------------------------
(* Instances of RxPump: a neighbour and a host that cannot be reached.      *)
EXTENDS RxPump

CONSTANTS p1, p2, gw, lost

MCNextHop == [h \in Host |-> IF h = lost THEN NoRoute ELSE h]
=============================================================================
