---------------------------- MODULE ExtremaLemmas ----------------------------
(***************************************************************************)
(* A set of integers has a least and a greatest element: what the proofs    *)
(* need of every CHOOSE of the first or the last bar, settlement, epoch ... *)
(***************************************************************************)
EXTENDS Integers, WellFoundedInduction, TLAPS

\* Every non-empty set of naturals has a least element (the library's least-number principle
\* is about a predicate, this is about a set).
LEMMA MinExists ==
  ASSUME NEW S \in SUBSET Nat, S # {}
  PROVE  \E m \in S : \A x \in S : m <= x
  <1>. DEFINE Below == {p \in Nat \X Nat : p[1] < p[2]}
  <1>1. PICK t \in S : \A y \in S : ~ (<<y, t>> \in OpToRel(<, Nat))
    BY NatLessThanWellFounded, WFMin
  <1>2. OpToRel(<, Nat) = Below
    BY Zenon DEF OpToRel
  <1>3. \A y \in S : ~ (<<y, t>> \in Below)
    BY <1>1, <1>2, Zenon
  <1>4. ASSUME NEW y \in S PROVE t <= y
    <2>1. SUFFICES ASSUME y < t PROVE <<y, t>> \in Below
      BY <1>3
    <2>. QED BY <2>1
  <1>. QED BY <1>4

\* Every non-empty set of integers with an upper bound has a greatest element.
LEMMA MaxExists ==
  ASSUME NEW S \in SUBSET Int, S # {}, NEW n \in Int, \A x \in S : x <= n
  PROVE  \E m \in S : \A x \in S : x <= m
  <1>. DEFINE T == {k \in Nat : n - k \in S}
  <1>1. PICK s \in S : TRUE
    OBVIOUS
  <1>2. n - s \in Nat /\ n - (n - s) = s /\ n - s \in T
    OBVIOUS
  <1>3. PICK t \in T : \A y \in T : t <= y
    BY <1>2, MinExists
  <1>4. ASSUME NEW x \in S PROVE x <= n - t
    <2>1. n - x \in T
      OBVIOUS
    <2>. QED BY <1>3, <2>1
  <1>. QED BY <1>3, <1>4
==============================================================================
