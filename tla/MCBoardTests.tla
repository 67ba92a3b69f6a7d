---------------------------- MODULE MCBoardTests ----------------------------
(* Two boards of BoardTests for TLC. *)
EXTENDS BoardTests

Boards == {tester, target}
=============================================================================
