----------------------------- MODULE NaturalFacts -----------------------------
(***************************************************************************)
(* Induction for the proofs of the other modules: least elements, and what *)
(* holds of 0 and is kept by each step up to n.  A set takes the place of  *)
(* the predicate of the library's induction theorem.                       *)
(***************************************************************************)
EXTENDS Integers, WellFoundedInduction, TLAPS

(* A nonempty set of natural numbers has a least element. *)
LEMMA Least ==
    ASSUME NEW S \in SUBSET Nat, S # {}
    PROVE  \E m \in S : \A k \in S : m <= k
<1>1. PICK m \in S : \A k \in S : <<k, m>> \notin OpToRel(<, Nat)
  BY WFMin, NatLessThanWellFounded, Zenon
<1>2. \A k \in S : ~(k < m)
  BY <1>1, Zenon DEF OpToRel
<1> QED BY <1>2

(* CHOOSE finds the greatest element. *)
LEMMA Greatest ==
    ASSUME NEW S \in SUBSET Int, NEW k \in S, \A j \in S : j <= k
    PROVE  (CHOOSE i \in S : \A j \in S : j <= i) = k
<1> DEFINE m == CHOOSE i \in S : \A j \in S : j <= i
<1>1. m \in S /\ \A j \in S : j <= m
  OBVIOUS
<1> HIDE DEF m
<1>2. m = k
  BY <1>1
<1> QED BY <1>2 DEF m

(* What holds of 0 and is kept by every step up to n holds up to n. *)
LEMMA UpTo ==
    ASSUME NEW n \in Nat, NEW S, 0 \in S, \A i \in 0..(n - 1) : i \in S => i + 1 \in S
    PROVE  0..n \subseteq S
<1> DEFINE R == (0..n) \ S
<1> SUFFICES ASSUME R # {} PROVE FALSE
  OBVIOUS
<1>0. R \in SUBSET Nat
  OBVIOUS
<1> HIDE DEF R
<1>1. PICK m \in R : \A k \in R : m <= k
  BY <1>0, Least
<1> USE DEF R
<1>2. m - 1 \in 0..(n - 1) /\ m - 1 \in S
  BY <1>1
<1> QED BY <1>1, <1>2
=============================================================================
