------------------------------ MODULE MCUsers ------------------------------
(* Small instances of Users for TLC.                                       *)
EXTENDS Users, TLC

CONSTANTS founder, first, second

\* Two more employees, or two attempts to create the same one.
OneEmail == (founder :> "a") @@ (first :> "b") @@ (second :> "b")
TwoEmails == (founder :> "a") @@ (first :> "b") @@ (second :> "c")

\* first and second are told apart only by what happens to them.
MCSymmetry == Permutations(Requests) \cup Permutations({first, second})
=============================================================================
