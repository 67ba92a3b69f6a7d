------------------------------- MODULE Lease --------------------------------
(***************************************************************************)
(* What the sink promises about addresses, without its loop, its table     *)
(* layout or its clean-up schedule: an address is leased to one node at a  *)
(* time, contact renews the lease, and a lease ends only when its holder   *)
(* has been silent for more than TTL and at the latest after Limit.        *)
(***************************************************************************)
EXTENDS Integers

CONSTANTS
  Pool,      \* the addresses that can be leased
  Node,      \* the nodes that can hold one
  Nobody,    \* the holder of a free address
  TTL,       \* silence a holder is always allowed
  Limit,     \* silence after which it has lost the address
  Start      \* time at which the service starts

VARIABLES holder, heard, now

vars == <<holder, heard, now>>

Init ==
  /\ holder = [i \in Pool |-> Nobody]
  /\ heard = [i \in Pool |-> 0]
  /\ now = Start

(* Several requests of one node may be granted an address each.            *)
Grant(i, n) ==
  /\ holder[i] = Nobody
  /\ holder' = [holder EXCEPT ![i] = n]
  /\ heard' = [heard EXCEPT ![i] = now]
  /\ UNCHANGED now

Renew(i) ==
  /\ holder[i] # Nobody
  /\ heard' = [heard EXCEPT ![i] = now]
  /\ UNCHANGED <<holder, now>>

Expire(S) ==
  /\ \A i \in S : holder[i] # Nobody /\ now - heard[i] > TTL
  /\ holder' = [i \in Pool |-> IF i \in S THEN Nobody ELSE holder[i]]
  /\ heard' = [i \in Pool |-> IF i \in S THEN 0 ELSE heard[i]]
  /\ UNCHANGED now

Tick ==
  /\ \A i \in Pool : holder[i] # Nobody => now - heard[i] < Limit
  /\ now' = now + 1
  /\ UNCHANGED <<holder, heard>>

Next ==
  \/ \E i \in Pool, n \in Node : Grant(i, n)
  \/ \E i \in Pool : Renew(i)
  \/ \E S \in SUBSET Pool : Expire(S)
  \/ Tick

Spec == Init /\ [][Next]_vars
=============================================================================
