------------------------------ MODULE NatLemmas -----------------------------
(***************************************************************************)
(* The least-number principle, stated for a set of naturals rather than   *)
(* for a predicate parameter: the provers instantiate a set, not an        *)
(* operator.  The proofs about the chain and the executor (ChainProofs,    *)
(* ExecutorProofs) argue from a least counterexample with it.              *)
(***************************************************************************)
EXTENDS Integers, FiniteSets, Functions, FiniteSetTheorems,
        WellFoundedInduction, TLAPS

\* Strictly less than on the naturals, as a set of pairs.
NatLess == {ss \in Nat \X Nat : ss[1] < ss[2]}

LEMMA NatLessWellFounded == IsWellFoundedOn(NatLess, Nat)
<1>1. OpToRel(<, Nat) = NatLess
  BY Zenon DEF OpToRel, NatLess
<1>. QED
  BY <1>1, NatLessThanWellFounded, Zenon

(* Every non-empty set of naturals has a least element. *)
LEMMA LeastNat ==
  ASSUME NEW S \in SUBSET Nat, S # {}
  PROVE  \E m \in S : \A k \in S : m <= k
<1>1. PICK m \in S : \A y \in S : ~(<<y, m>> \in NatLess)
  BY NatLessWellFounded, WFMin
<1>2. \A k \in S : m <= k
  <2> TAKE k \in S
  <2>1. <<k, m>> \in Nat \X Nat /\ ~(<<k, m>> \in NatLess)
    BY <1>1
  <2>2. ~(k < m)
    BY <2>1, Zenon DEF NatLess
  <2>. QED
    BY <2>2
<1>. QED
  BY <1>2
=============================================================================
