------------------------------- MODULE MCSlots -------------------------------
(* A small instance of Slots for TLC: two slots in a period of 21 ms.       *)
EXTENDS Slots, TLC

CONSTANTS n1, n2

Nodes == {n1, n2}
Symmetry == Permutations(Nodes)
=============================================================================
