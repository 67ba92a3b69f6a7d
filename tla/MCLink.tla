------------------------------- MODULE MCLink -------------------------------
(* Small instances of Link for TLC. *)
EXTENDS Link, TLC

CONSTANTS s1, s2, s3

TwoStations == {s1, s2}
ThreeStations == {s1, s2, s3}
Symmetry == Permutations(Station)
=============================================================================
