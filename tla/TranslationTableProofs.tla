----------------------- MODULE TranslationTableProofs -----------------------
(* Facts about the operators of TranslationTable, for tables of any size.  *)
EXTENDS TranslationTable, FiniteSetTheorems, TLAPS

(* A set of natural numbers has a least element, and Min is it.            *)
LEMMA MinOfNaturals ==
  ASSUME NEW S \in SUBSET Nat, S # {}
  PROVE  Min(S) \in S /\ \A y \in S : Min(S) =< y
<1> DEFINE Down(n) == 0 .. n
           Downs == {Down(n) : n \in S}
<1>1. PICK D \in Downs :
        \A C \in Downs : ~ (<<C, D>> \in StrictSubsetOrdering(Nat))
  <2>1. Downs \subseteq FiniteSubsetsOf(Nat)
    <3>1. SUFFICES ASSUME NEW n \in S PROVE Down(n) \in FiniteSubsetsOf(Nat)
      OBVIOUS
    <3>2. IsFiniteSet(0 .. n)
      BY FS_Interval
    <3>3. 0 .. n \in SUBSET Nat
      OBVIOUS
    <3>4. QED
      BY <3>2, <3>3 DEF FiniteSubsetsOf
  <2>2. Downs # {}
    OBVIOUS
  <2>3. IsWellFoundedOn(StrictSubsetOrdering(Nat), FiniteSubsetsOf(Nat))
    BY FS_StrictSubsetOrderingWellFounded
  <2> HIDE DEF Downs
  <2>4. QED
    BY <2>1, <2>2, <2>3, WFMin
<1>2. PICK x \in S : D = Down(x)
  BY <1>1
<1>3. \A y \in S : x =< y
  <2>1. SUFFICES ASSUME NEW y \in S, y < x PROVE FALSE
    OBVIOUS
  <2>2. Down(y) \subseteq Down(x)
    BY <2>1
  <2>3. x \in Down(x) /\ x \notin Down(y)
    BY <2>1
  <2>4. Down(y) \in SUBSET Nat /\ Down(x) \in SUBSET Nat
    OBVIOUS
  <2>5. <<Down(y), Down(x)>> \in StrictSubsetOrdering(Nat)
    BY <2>2, <2>3, <2>4 DEF StrictSubsetOrdering
  <2>6. QED
    BY <1>1, <1>2, <2>5
<1>4. \E z \in S : \A y \in S : z =< y
  BY <1>3
<1>5. QED
  BY <1>4 DEF Min

(* find_free_ip answers -1 or a free address of the pool.                  *)
LEMMA FindFreeIpIsFree ==
  ASSUME NEW table, find_free_ip(table) # None
  PROVE  /\ find_free_ip(table) \in Pool
         /\ table[find_free_ip(table)] = NullMac
<1>1. FreeIn(table) # {}
  BY DEF find_free_ip
<1>2. FreeIn(table) \in SUBSET Nat
  BY TableSizeAssumption DEF FreeIn, Pool
<1>3. find_free_ip(table) \in FreeIn(table)
  BY <1>1, <1>2, MinOfNaturals DEF find_free_ip
<1>4. QED
  BY <1>3 DEF FreeIn

(* It answers -1 only when no address of the pool is free.                 *)
LEMMA FindFreeIpFinds ==
  ASSUME NEW table, NEW i \in Pool, table[i] = NullMac
  PROVE  find_free_ip(table) # None
<1>1. i \in FreeIn(table)
  BY DEF FreeIn
<1>2. FreeIn(table) \in SUBSET Nat
  BY TableSizeAssumption DEF FreeIn, Pool
<1>3. find_free_ip(table) \in Nat
  BY <1>1, <1>2, MinOfNaturals DEF find_free_ip
<1>4. QED
  BY <1>3 DEF None
=============================================================================
