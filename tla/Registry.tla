------------------------------ MODULE Registry ------------------------------
(***************************************************************************)
(* What the network promises about addresses over a medium that loses and  *)
(* delays, with boards that restart: the sink's register gives an address  *)
(* to one node at a time; contact keeps it; a node holds only what was     *)
(* sent to it while the address was its own; and the register takes an     *)
(* address back only from a node it has not heard, or by forgetting        *)
(* everything.  Nobody tells a node that its address was taken back.       *)
(*                                                                         *)
(* Lease promises the same of the sink alone, with the times.              *)
(***************************************************************************)

CONSTANTS
  Board,     \* the nodes
  Address,   \* the addresses that can be registered
  Nobody,    \* the owner of a free address
  Unset      \* what a node without an address holds

VARIABLES
  owner,     \* the register
  heard,     \* addresses in contact since the last clean-up
  held,      \* the address each node has
  coming,    \* <<node, address>>: messages that tell the node of the address
  revoked    \* <<node, address>>: taken back since the node started

vars == <<owner, heard, held, coming, revoked>>

Init ==
  /\ owner = [i \in Address |-> Nobody]
  /\ heard = {}
  /\ held = [n \in Board |-> Unset]
  /\ coming = {}
  /\ revoked = {}

(* Messages may get lost in every step, and only the register sends them.  *)
Sends(n, i) == coming' \subseteq coming \cup {<<n, i>>}
Loses == coming' \subseteq coming

Lose == Loses /\ UNCHANGED <<owner, heard, held, revoked>>

(* A node may ask again and be granted one more address.                   *)
Grant(n, i) ==
  /\ owner[i] = Nobody
  /\ owner' = [owner EXCEPT ![i] = n]
  /\ Sends(n, i)
  /\ UNCHANGED <<heard, held, revoked>>

(* The register hears the owner, and may answer.                           *)
Contact(n, i) ==
  /\ owner[i] = n
  /\ heard' = heard \cup {i}
  /\ Sends(n, i)
  /\ UNCHANGED <<owner, held, revoked>>

(* An address may count as heard for more than one clean-up.               *)
CleanUp(S) ==
  /\ \A i \in S : owner[i] # Nobody /\ i \notin heard
  /\ owner' = [i \in Address |-> IF i \in S THEN Nobody ELSE owner[i]]
  /\ heard' \subseteq heard
  /\ revoked' = revoked \cup {<<owner[i], i>> : i \in S}
  /\ UNCHANGED <<held, coming>>

(* A node takes an address from a message, or loses the one it has by      *)
(* something it takes for such a message.                                  *)
Take(n) ==
  /\ \E i \in Address \cup {Unset} :
       /\ i = Unset \/ <<n, i>> \in coming
       /\ held' = [held EXCEPT ![n] = i]
  /\ Loses
  /\ UNCHANGED <<owner, heard, revoked>>

(* A node starts anew; what can still come to it is its own.               *)
NodeRestarts(n) ==
  /\ held' = [held EXCEPT ![n] = Unset]
  /\ Loses
  /\ \A i \in Address : <<n, i>> \in coming' => owner[i] = n
  /\ revoked' = revoked \ ({n} \X Address)
  /\ UNCHANGED <<owner, heard>>

RegisterRestarts ==
  /\ owner' = [i \in Address |-> Nobody]
  /\ heard' = {}
  /\ Loses
  /\ revoked' =
       revoked \cup {<<owner[i], i>> : i \in {j \in Address : owner[j] # Nobody}}
  /\ UNCHANGED held

Next ==
  \/ Lose
  \/ \E n \in Board : Take(n) \/ NodeRestarts(n)
  \/ \E n \in Board, i \in Address : Grant(n, i) \/ Contact(n, i)
  \/ \E S \in SUBSET Address : CleanUp(S)
  \/ RegisterRestarts

Spec == Init /\ [][Next]_vars
=============================================================================
