---------------------------- MODULE TablesProofs ----------------------------
(***************************************************************************)
(* Facts about tables: the ids that are given out, and what an insert or a *)
(* delete leaves.                                                          *)
(***************************************************************************)
EXTENDS Tables, WellFoundedInduction, TLAPS

\* A set of ids has a least one, and a largest.
LEMMA LeastExists ==
    ASSUME NEW S \in SUBSET Nat, S # {}
    PROVE  \E m \in S : \A k \in S : m <= k
<1> DEFINE R == {ss \in Nat \X Nat : ss[1] < ss[2]}
<1>1. IsWellFoundedOn(R, Nat)
  BY NatLessThanWellFounded DEF OpToRel
<1>2. \A y, z \in Nat : y < z => <<y, z>> \in R
  OBVIOUS
<1>3. PICK m \in S : \A k \in S : ~(<<k, m>> \in R)
  <2> HIDE DEF R
  <2> QED
    BY <1>1, WFMin
<1>4. ASSUME NEW k \in S PROVE m <= k
  <2>1. ~(k < m)
    BY <1>2, <1>3
  <2> QED
    BY <2>1
<1> QED
  BY <1>4

LEMMA LargestExists ==
    ASSUME NEW N \in Nat, NEW S \in SUBSET (1 .. N), S # {}
    PROVE  \E m \in S : \A k \in S : k <= m
<1> DEFINE T == {N - k : k \in S}
<1>1. T \subseteq Nat /\ T # {}
  <2>1. ASSUME NEW k \in S PROVE N - k \in Nat
    OBVIOUS
  <2> QED
    BY <2>1
<1>2. PICK x \in T : \A y \in T : x <= y
  <2> HIDE DEF T
  <2> QED
    BY <1>1, LeastExists
<1>3. PICK m \in S : x = N - m
  OBVIOUS
<1>4. ASSUME NEW k \in S PROVE k <= m
  <2>1. x <= N - k
    BY <1>2
  <2> QED
    BY <2>1, <1>3
<1> QED
  BY <1>4

\* An id that is given out is not in use.
LEMMA NextIdFresh ==
    ASSUME NEW N \in Nat, NEW table, DOMAIN table \subseteq 1 .. N
    PROVE  NextId(table) \in Nat \ {0} /\ NextId(table) \notin DOMAIN table
<1>1. CASE DOMAIN table = {}
  BY <1>1 DEF NextId
<1>2. CASE DOMAIN table # {}
  <2>1. \E m \in DOMAIN table : \A k \in DOMAIN table : k <= m
    BY <1>2, LargestExists
  <2>2. Largest(DOMAIN table) \in DOMAIN table /\ \A k \in DOMAIN table : k <= Largest(DOMAIN table)
    BY <2>1 DEF Largest
  <2> QED
    BY <1>2, <2>2 DEF NextId
<1> QED
  BY <1>1, <1>2

\* A row that is inserted or updated, and one that is deleted.
LEMMA WithRow ==
    ASSUME NEW table, NEW id, NEW row
    PROVE  /\ DOMAIN With(table, id, row) = DOMAIN table \cup {id}
           /\ With(table, id, row)[id] = row
           /\ \A k \in DOMAIN table \ {id} : With(table, id, row)[k] = table[k]
           /\ With(table, id, row) = [k \in DOMAIN With(table, id, row) |-> With(table, id, row)[k]]
BY DEF With

LEMMA WithoutRow ==
    ASSUME NEW table, NEW id
    PROVE  /\ DOMAIN Without(table, id) = DOMAIN table \ {id}
           /\ \A k \in DOMAIN table \ {id} : Without(table, id)[k] = table[k]
           /\ Without(table, id) = [k \in DOMAIN Without(table, id) |-> Without(table, id)[k]]
BY DEF Without
=============================================================================
