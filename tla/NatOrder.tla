------------------------------ MODULE NatOrder ------------------------------
(***************************************************************************)
(* Least and greatest elements of sets of naturals, the form in which the  *)
(* proofs use induction.                                                   *)
(***************************************************************************)
EXTENDS Integers, TLAPS, WellFoundedInduction

\* Every nonempty set of naturals has a least element.
LEMMA LeastNat ==
  ASSUME NEW T, T \subseteq Nat, T # {}
  PROVE  \E x \in T : \A y \in T : x <= y
<1>1. \E x \in T : \A y \in T : ~(<<y, x>> \in OpToRel(<, Nat))
  BY WFMin, NatLessThanWellFounded, Zenon
<1>2. PICK x \in T : \A y \in T : ~(<<y, x>> \in OpToRel(<, Nat))
  BY <1>1, Zenon
<1>3. ASSUME NEW y \in T
      PROVE  x <= y
  <2>1. x \in Nat /\ y \in Nat
    OBVIOUS
  <2>2. y < x => <<y, x>> \in OpToRel(<, Nat)
    BY <2>1 DEF OpToRel
  <2>3. ~(y < x)
    BY <1>2, <2>2, Zenon
  <2> QED
    BY <2>1, <2>3, SMT
<1> QED
  BY <1>3

\* Every nonempty set of naturals with an upper bound has a greatest element.
LEMMA GreatestNat ==
  ASSUME NEW N \in Nat, NEW T, T \subseteq 0..N, T # {}
  PROVE  \E x \in T : \A y \in T : y <= x
<1> DEFINE S == {n \in Nat : \E t \in T : n = N - t}
<1>1. \A y \in T : N - y \in S
  BY SMT
<1>2. S # {} /\ S \subseteq Nat
  BY <1>1
<1>3. PICK m \in S : \A n \in S : m <= n
  <2> HIDE DEF S
  <2> QED
    BY <1>2, LeastNat
<1>4. PICK x \in T : m = N - x
  OBVIOUS
<1>5. \A y \in T : m <= N - y
  BY <1>1, <1>3, Zenon
<1> QED
  BY <1>4, <1>5, SMT
=============================================================================
