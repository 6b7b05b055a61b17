------------------------------- MODULE Progress -------------------------------
(***************************************************************************)
(* Ranks for loops that have to end: four natural numbers, of which the    *)
(* first that differs decides.                                             *)
(***************************************************************************)
EXTENDS Naturals, WellFoundedInduction, TLAPS

Ranks == [1 .. 4 -> Nat]

Below(r, s) == \E k \in 1 .. 4 : r[k] < s[k] /\ \A j \in 1 .. k - 1 : r[j] = s[j]

\* What is left of a bound when n is used up.
Remaining(bound, n) == IF n <= bound THEN bound - n ELSE 0

LEMMA RemainingFalls ==
  ASSUME NEW bound \in Nat, NEW n \in Nat
  PROVE  /\ Remaining(bound, n) \in Nat
         /\ \A m \in Nat : n < bound /\ n < m => Remaining(bound, m) < Remaining(bound, n)
  BY DEF Remaining

LEMMA RankTyped ==
  ASSUME NEW a \in Nat, NEW b \in Nat, NEW c \in Nat, NEW d \in Nat
  PROVE  <<a, b, c, d>> \in Ranks
  BY DEF Ranks

\* The first number that differs is smaller.
LEMMA RankFalls ==
  ASSUME NEW a \in Nat, NEW b \in Nat, NEW c \in Nat, NEW d \in Nat,
         NEW k \in Nat, NEW l \in Nat, NEW m \in Nat, NEW n \in Nat,
         \/ a < k
         \/ a = k /\ b < l
         \/ a = k /\ b = l /\ c < m
         \/ a = k /\ b = l /\ c = m /\ d < n
  PROVE  Below(<<a, b, c, d>>, <<k, l, m, n>>)
  BY DEF Below

\* There is no sequence of ranks that falls for ever: a loop of the programs
\* modelled here that lowers its rank with each of its steps makes finitely
\* many of them.
THEOREM RanksDoNotFallForEver ==
  ~ \E f \in [Nat -> Ranks] : \A n \in Nat : Below(f[n + 1], f[n])
<1> DEFINE Less == OpToRel(<, Nat)
           Order == LexProductOrdering(Less, Nat, 4)
<1> SUFFICES ASSUME NEW f \in [Nat -> Ranks], \A n \in Nat : Below(f[n + 1], f[n])
             PROVE  FALSE
  OBVIOUS
<1>1. IsWellFoundedOn(Order, Ranks)
  BY NatLessThanWellFounded, WFLexProductOrdering DEF Ranks
<1>2. \A n \in Nat : <<f[n + 1], f[n]>> \in Order
  <2> TAKE n \in Nat
  <2>1. f[n + 1] \in [1 .. 4 -> Nat] /\ f[n] \in [1 .. 4 -> Nat]
    BY DEF Ranks
  <2>2. PICK k \in 1 .. 4 : f[n + 1][k] < f[n][k]
                            /\ \A j \in 1 .. k - 1 : f[n + 1][j] = f[n][j]
    BY DEF Below
  <2>3. <<f[n + 1][k], f[n][k]>> \in Less
    BY <2>1, <2>2 DEF OpToRel
  <2> HIDE DEF Less
  <2>4. QED
    BY <2>1, <2>2, <2>3 DEF LexProductOrdering
<1> HIDE DEF Order
<1>3. QED
  BY <1>1, <1>2 DEF IsWellFoundedOn
===============================================================================
