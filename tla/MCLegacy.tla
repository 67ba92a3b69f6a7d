------------------------------ MODULE MCLegacy ------------------------------
(* Two boards of Legacy for TLC. *)
EXTENDS Legacy

Address(b) == [i \in 0 .. 5 |-> IF i = 5 THEN b ELSE 170]
Boards == {Address(1), Address(2)}
Listener == Address(2)
Headers == {[i \in 0 .. 9 |-> i + 69]}
(* Two bytes; the most that the sender's assertion allows, more than its   *)
(* buffer has room for and with a sum that SHORT = 400 does not hold; and  *)
(* a byte more.                                                            *)
SomeData == {[i \in 0 .. 1 |-> 150 + i],
             [i \in 0 .. BUF_LEN - HEADER_OFFSET - 1 |-> 15],
             [i \in 0 .. BUF_LEN - HEADER_OFFSET |-> 15]}
SomeStack == {[i \in 0 .. BUF_LEN - 1 |-> b] : b \in {0, 255}}
=============================================================================
