--------------------------------- MODULE Orders ---------------------------------
(***************************************************************************)
(* Sorting and selecting by indices.  An order is the set of its pairs, so *)
(* that what holds of every order can be stated as a theorem.              *)
(***************************************************************************)
EXTENDS Integers, FiniteSets, Sequences

\* The members of a finite set, from the first to the last in a total order.
InOrder(S, R) ==
  [k \in 1 .. Cardinality(S) |->
     CHOOSE x \in S : Cardinality({y \in S : <<y, x>> \in R}) = k - 1]

\* The elements of s at the indices in K.
Picked(s, K) ==
  LET order == InOrder(K, {p \in K \X K : p[1] < p[2]})
  IN  [k \in DOMAIN order |-> s[order[k]]]

=============================================================================
