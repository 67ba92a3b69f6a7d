-------------------------- MODULE TranslationTable --------------------------
(***************************************************************************)
(* translation_utility.c: the table that translates the last byte of an IP *)
(* address to a MAC address.  The first three bytes of every address of    *)
(* the system are 0xff, so an address is its last byte.  A table is a      *)
(* function from addresses to the six bytes stored there, kept as an       *)
(* element of Mac or one of the special values below.  The operators are   *)
(* pure; the modules that own a table give the variable.                   *)
(***************************************************************************)
EXTENDS Integers, FiniteSets, FiniteSetsExt

CONSTANTS
  TABLE_SIZE,      \* entries of macTable: 256 in the program
  Mac,             \* MAC addresses of the sensing nodes
  NullMac,         \* six zero bytes: the entry is free
  BroadcastMac     \* six 0xff bytes

ASSUME TableSizeAssumption == TABLE_SIZE \in Nat /\ TABLE_SIZE >= 4

ASSUME MacAssumption ==
  /\ NullMac \notin Mac
  /\ BroadcastMac \notin Mac
  /\ NullMac # BroadcastMac

Address == 0 .. TABLE_SIZE - 1

(* Address 1 is the sink, 0 is never issued and the last one is broadcast. *)
Pool == 2 .. TABLE_SIZE - 2

(* The addresses the search of resolve_mac_to_ip visits. *)
Searched == 1 .. TABLE_SIZE - 2

None == -1

init_trans_table ==
  [i \in Address |-> IF i = TABLE_SIZE - 1 THEN BroadcastMac ELSE NullMac]

FreeIn(table) == {i \in Pool : table[i] = NullMac}

(* The search starts at the low end, so it returns the lowest free one. *)
find_free_ip(table) ==
  IF FreeIn(table) = {} THEN None ELSE Min(FreeIn(table))

add_ip_mac_entry(table, ip, mac) == [table EXCEPT ![ip] = mac]

remove_ip_mac_entries(table, ips) ==
  [i \in Address |-> IF i \in ips THEN NullMac ELSE table[i]]

(* resolve_ip_to_mac: RESOLVE_SUCCESS, and the address it then stores. *)
ResolvesIp(table, ip) == table[ip] # NullMac

(* resolve_mac_to_ip: RESOLVE_SUCCESS. *)
ResolvesMac(table, mac) == \E i \in Searched : table[i] = mac
=============================================================================
