----------------------------- MODULE MCNetwork ------------------------------
(* Small instances of Network for TLC. *)
EXTENDS Network, TLC

CONSTANTS n1, n2

OneNode == {n1}
TwoNodes == {n1, n2}
Symmetry == Permutations(Mac)
=============================================================================
