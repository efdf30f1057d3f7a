------------------------------- MODULE Sorting -------------------------------
(***************************************************************************)
(* Array.prototype.sort by a comparator that leaves no ties: the elements  *)
(* of a set, each once, in a given order.  The order is a relation, and    *)
(* the sequence is described rather than computed, so that both can be     *)
(* reasoned about; so is what passes a filter.                             *)
(***************************************************************************)
EXTENDS Integers, FiniteSets

SortedBy(q, S, R) ==
  /\ \A x \in S : \E i \in DOMAIN q : q[i] = x
  /\ \A i, j \in DOMAIN q : i < j => <<q[i], q[j]>> \in R

Sorted(S, R) == CHOOSE q \in [1..Cardinality(S) -> S] : SortedBy(q, S, R)

\* Array.prototype.filter: the elements of a sequence at some positions, in their order.
NthOf(I, k) == CHOOSE i \in I : Cardinality({j \in I : j < i}) = k - 1
AtPlaces(s, I) == [k \in 1..Cardinality(I) |-> s[NthOf(I, k)]]
=============================================================================
