------------------------------- MODULE MCBoard -------------------------------
(* A small instance of Board for TLC: a byte of one bit, a word of four.     *)
EXTENDS Board

SomeStamps == {12, 29, 254}
=============================================================================
