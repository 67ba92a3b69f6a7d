------------------------------- MODULE MCSink -------------------------------
(* Small instances of Sink for TLC. *)
EXTENDS Sink

CONSTANTS n1, n2

Nodes == {n1, n2}
=============================================================================
