------------------------------ MODULE Selections ------------------------------
(* What is left of a sequence, in its order, when elements are taken out of   *)
(* it, as an ordered Map is left when keys are deleted.                       *)
EXTENDS Naturals, FiniteSets

\* The elements of S in the order R, a strict total order on S.
Ordered(S, R) ==
  [n \in 1..Cardinality(S) |-> CHOOSE x \in S : Cardinality({y \in S : <<y, x>> \in R}) = n - 1]

\* The chosen positions of a sequence.
Selected(s, K) ==
  LET order == Ordered(K, {p \in K \X K : p[1] < p[2]})
  IN [n \in DOMAIN order |-> s[order[n]]]
=============================================================================
