---------------------------- MODULE StockLedger ----------------------------
(***************************************************************************)
(* What the stock core of the backend promises, with every request one     *)
(* atomic step: transactions are placed, revised, completed or cancelled,  *)
(* stock is adjusted, and the reserved quantity of an inventory row is a   *)
(* counter.  InventoryTransactions, in which the statements of concurrent  *)
(* requests interleave, implements it (InventoryRefinement).               *)
(***************************************************************************)
EXTENDS Integers

CONSTANTS
  Rows,          \* inventory rows: product and warehouse
  Txns,          \* transaction ids
  Plans,         \* what a transaction may take from and give to each row
  Adjustments,   \* signed quantities an admin may adjust by
  OpeningStock   \* stock of each row when the behaviour starts

Nothing == [r \in Rows |-> 0]
NoPlan == [take |-> Nothing, give |-> Nothing]

ASSUME PlansAssumption ==
  /\ Plans \subseteq [take : [Rows -> Nat], give : [Rows -> Nat]]
  /\ NoPlan \in Plans

ASSUME StockAssumption ==
  /\ Adjustments \subseteq Int
  /\ OpeningStock \in [Rows -> Nat]

VARIABLES
  onHand,    \* units physically in each row
  reserved,  \* units of each row that pending transactions will take
  status,    \* status of each transaction
  plan       \* what each transaction takes and gives

vars == <<onHand, reserved, status, plan>>

Statuses == {"ABSENT", "PENDING", "COMPLETED", "CANCELLED"}

Init ==
  /\ onHand = OpeningStock
  /\ reserved = Nothing
  /\ status = [t \in Txns |-> "ABSENT"]
  /\ plan = [t \in Txns |-> NoPlan]

\* Reserve what plan p takes beyond what plan old already holds.
Reserves(old, p) ==
  /\ reserved' = [r \in Rows |-> reserved[r] - old.take[r] + p.take[r]]
  /\ \A r \in Rows : p.take[r] > old.take[r] => reserved'[r] <= onHand[r]

Place(t, p) ==
  /\ status[t] = "ABSENT"
  /\ status' = [status EXCEPT ![t] = "PENDING"]
  /\ plan' = [plan EXCEPT ![t] = p]
  /\ Reserves(NoPlan, p)
  /\ UNCHANGED onHand

Revise(t, p) ==
  /\ status[t] = "PENDING"
  /\ plan' = [plan EXCEPT ![t] = p]
  /\ Reserves(plan[t], p)
  /\ UNCHANGED <<onHand, status>>

\* Mutant: completing takes the stock and leaves the reservations active.
CompleteKeepingReservations(t) ==
  /\ status[t] = "PENDING"
  /\ status' = [status EXCEPT ![t] = "COMPLETED"]
  /\ onHand' = [r \in Rows |-> onHand[r] - plan[t].take[r] + plan[t].give[r]]
  /\ \A r \in Rows : onHand'[r] >= 0
  /\ UNCHANGED <<plan, reserved>>

Complete(t) ==
  /\ status[t] = "PENDING"
  /\ status' = [status EXCEPT ![t] = "COMPLETED"]
  /\ onHand' = [r \in Rows |-> onHand[r] - plan[t].take[r] + plan[t].give[r]]
  /\ \A r \in Rows : onHand'[r] >= 0
  /\ reserved' = [r \in Rows |-> reserved[r] - plan[t].take[r]]
  /\ UNCHANGED plan

Cancel(t) ==
  /\ status[t] = "PENDING"
  /\ status' = [status EXCEPT ![t] = "CANCELLED"]
  /\ reserved' = [r \in Rows |-> reserved[r] - plan[t].take[r]]
  /\ UNCHANGED <<onHand, plan>>

Adjust(r, delta) ==
  /\ onHand[r] + delta >= 0
  /\ onHand' = [onHand EXCEPT ![r] = @ + delta]
  /\ UNCHANGED <<reserved, status, plan>>

Next ==
  \/ \E t \in Txns :
       \/ \E p \in Plans : Place(t, p) \/ Revise(t, p)
       \/ Complete(t)
       \/ Cancel(t)
  \/ \E r \in Rows, delta \in Adjustments : Adjust(r, delta)

Spec == Init /\ [][Next]_vars

----------------------------------------------------------------------------
(* Properties.                                                             *)

TypeOK ==
  /\ onHand \in [Rows -> Nat]
  /\ reserved \in [Rows -> Int]
  /\ status \in [Txns -> Statuses]
  /\ plan \in [Txns -> Plans]

\* As long as nobody adjusts stock downwards, no row has more reserved than it
\* has on hand, whatever orders are placed, revised, completed or cancelled.
NeverOversold == \A r \in Rows : reserved[r] <= onHand[r]

NoLosses == Adjustments \subseteq Nat
SafeStock == NoLosses => NeverOversold

\* A step that leaves a row short, or shorter than it was, is an adjustment of
\* that row and touches no transaction.
OnlyAdjustmentsOversell ==
  [][\A r \in Rows :
       /\ reserved'[r] > onHand'[r]
       /\ reserved'[r] - onHand'[r] > reserved[r] - onHand[r]
       => onHand'[r] < onHand[r] /\ UNCHANGED <<reserved, status, plan>>]_vars

\* A finished transaction is never reopened and its plan never changes.
FinishedIsFinal ==
  [][\A t \in Txns :
       status[t] \in {"COMPLETED", "CANCELLED"} =>
         status'[t] = status[t] /\ plan'[t] = plan[t]]_vars
=============================================================================
