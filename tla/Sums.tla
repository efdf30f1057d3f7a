--------------------------------- MODULE Sums ---------------------------------
(***************************************************************************)
(* Array.prototype.reduce with +, and SUM in SQL: what a function adds up  *)
(* to over a set.                                                          *)
(***************************************************************************)
EXTENDS Integers, FiniteSetsExt

\* The sum of the values of q over S.
Total(q, S) == MapThenSumSet(LAMBDA x : q[x], S)
=============================================================================
