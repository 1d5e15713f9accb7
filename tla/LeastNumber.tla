---------------------------- MODULE LeastNumber ----------------------------
(***************************************************************************)
(* The least-number principle for a set of naturals, from the theorem that *)
(* there is no endless chain of smaller and smaller finite sets.           *)
(***************************************************************************)
EXTENDS Integers, FiniteSetTheorems, TLAPS

\* A set of natural numbers that is not empty has a least one.  With it the proofs
\* about sequences and lists argue by induction: about the first line of a reply that
\* is a last one (waitForResponse), and the first turn of a loop that goes wrong.
THEOREM LeastNumber ==
    ASSUME NEW S \in SUBSET Nat, S # {}
    PROVE  \E m \in S : \A n \in S : m <= n
<1> DEFINE Upto == {0 .. n : n \in S}
           R == StrictSubsetOrdering(Nat)
<1>1. IsWellFoundedOn(R, FiniteSubsetsOf(Nat))
  BY FS_StrictSubsetOrderingWellFounded
<1>2. \A n \in S : IsFiniteSet(0 .. n)
  BY FS_Interval
<1>3. Upto \subseteq FiniteSubsetsOf(Nat) /\ Upto # {}
  <2>1. \A n \in S : 0 .. n \in SUBSET Nat
    OBVIOUS
  <2>2. \A n \in S : 0 .. n \in FiniteSubsetsOf(Nat)
    BY <1>2, <2>1 DEF FiniteSubsetsOf
  <2> QED BY <2>2
<1>4. \A a, b \in S : a < b => <<0 .. a, 0 .. b>> \in R
  <2> SUFFICES ASSUME NEW a \in S, NEW b \in S, a < b PROVE <<0 .. a, 0 .. b>> \in R
    OBVIOUS
  <2>1. 0 .. a \subseteq 0 .. b /\ b \in 0 .. b /\ b \notin 0 .. a
    OBVIOUS
  <2>2. 0 .. a \in SUBSET Nat /\ 0 .. b \in SUBSET Nat
    OBVIOUS
  <2> QED BY <2>1, <2>2 DEF StrictSubsetOrdering
<1> HIDE DEF R
<1>5. \E x \in Upto : \A y \in Upto : ~ (<<y, x>> \in R)
  <2> HIDE DEF Upto
  <2> QED BY <1>1, <1>3, WFMin
<1>6. PICK m \in S : \A y \in Upto : ~ (<<y, 0 .. m>> \in R)
  BY <1>5
<1>7. \A n \in S : ~ (<<0 .. n, 0 .. m>> \in R)
  BY <1>6
<1>8. \A n \in S : m <= n
  <2> SUFFICES ASSUME NEW n \in S, n < m PROVE FALSE
    OBVIOUS
  <2>1. <<0 .. n, 0 .. m>> \in R
    BY <1>4
  <2> QED BY <2>1, <1>7
<1> QED BY <1>8
=============================================================================
