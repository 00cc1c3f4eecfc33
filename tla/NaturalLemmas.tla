---------------------------- MODULE NaturalLemmas ----------------------------
(***************************************************************************)
(* Two facts about natural numbers that the other proofs rest on: a set of *)
(* them has a least element, and induction over a segment.  The property   *)
(* proved by induction is a set, not an operator, so that the provers can  *)
(* use the lemma.                                                          *)
(***************************************************************************)
EXTENDS Naturals, TLAPS, WellFoundedInduction

(* Every inhabited set of natural numbers has a least element: what a loop  *)
(* finds first is there to be found.                                        *)
LEMMA LeastNatural ==
    ASSUME NEW S, S \subseteq Nat, S # {}
    PROVE  \E i \in S : \A j \in S : i <= j
<1> DEFINE Less == OpToRel(<, Nat)
<1>1. \E i \in S : \A j \in S : ~(<<j, i>> \in Less)
  <2>1. IsWellFoundedOn(Less, Nat)
    BY NatLessThanWellFounded
  <2> HIDE DEF Less
  <2>2. QED
    BY <2>1, WFMin
<1>2. \A i, j \in Nat : j < i => <<j, i>> \in Less
  BY DEF OpToRel
<1> HIDE DEF Less
<1>3. PICK i \in S : \A j \in S : ~(<<j, i>> \in Less)
  BY <1>1
<1>4. \A j \in S : i \in Nat /\ j \in Nat
  OBVIOUS
<1>5. \A j \in S : ~(j < i)
  BY <1>2, <1>3, <1>4
<1>6. \A j \in S : i <= j
  BY <1>4, <1>5
<1>7. QED
  BY <1>6

(* Induction over 0..n, for the numbers in Good.                            *)
LEMMA SegmentInduction ==
    ASSUME NEW n \in Nat, NEW Good,
           0 \in Good,
           \A i \in 1..n : i - 1 \in Good => i \in Good
    PROVE  0..n \subseteq Good
<1> SUFFICES ASSUME NEW m \in (0..n) \ Good PROVE FALSE
    OBVIOUS
<1> DEFINE Bad == (0..n) \ Good
<1>1. PICK i \in Bad : \A j \in Bad : i <= j
  <2>1. Bad \subseteq Nat /\ Bad # {}
    OBVIOUS
  <2> HIDE DEF Bad
  <2>2. QED
    BY <2>1, LeastNatural
<1>2. i # 0 /\ i \in 1..n /\ i - 1 \in 0..n
  BY <1>1
<1>3. i - 1 \notin Bad
  BY <1>1, <1>2
<1>4. QED
  BY <1>1, <1>2, <1>3
=============================================================================
