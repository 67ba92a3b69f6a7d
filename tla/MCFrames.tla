------------------------------ MODULE MCFrames ------------------------------
(* An instance of Frames for TLC: the offsets of the program, with buffers   *)
(* just long enough for the answer to a request for the system time.         *)
EXTENDS Frames

(* Two boards; the second one's address has the letters of an ack in it.     *)
Sender == [i \in 0 .. 5 |-> 16 * i + 1]
Listener == [i \in 0 .. 5 |-> IF i < 3 THEN ack[i] ELSE 0]
Macs == {Sender, Listener}

IpOf(last) == [i \in 0 .. 3 |-> IF i < 3 THEN 255 ELSE last]
Ips == {IpOf(1), IpOf(97)}

(* A request 'S', an ack and a request for an address as data, and data at   *)
(* the limit.                                                                *)
Datas == {[i \in 0 .. 1 |-> IF i = 0 THEN 83 ELSE 0], ack, requestString,
          [i \in 0 .. 14 |-> 255 - i], [i \in 0 .. 15 |-> 1]}
=============================================================================
