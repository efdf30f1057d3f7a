------------------------ MODULE InventoryRefinement ------------------------
(***************************************************************************)
(* The interleaved statements of InventoryTransactions implement the       *)
(* atomic StockLedger: a request takes effect at its commit, at once, or   *)
(* not at all.                                                             *)
(***************************************************************************)
EXTENDS InventoryTransactions

CONSTANT Amounts  \* units of one product a transaction may need

\* No amount at all, and every quantity a body may ask for.
ASSUME AmountsAssumption ==
  /\ Amounts \subseteq Nat /\ 0 \in Amounts
  /\ \A o \in Orders : \A i \in DOMAIN o.items :
       o.items[i].quantity > 0 => o.items[i].quantity \in Amounts
  /\ \A p \in Patches : \A i \in DOMAIN p.items : p.items[i].quantity \in Amounts

\* What a transaction of a type takes and gives, from what it needs of each product.
Quantities(warehouse, need) ==
  [r \in Rows |-> IF r[2] = warehouse THEN need[r[1]] ELSE 0]

PlanOf(src, dst, need) ==
  [take |-> Quantities(src, need), give |-> Quantities(dst, need)]

Needs(items) ==
  [p \in Products |->
     MapThenSumSet(LAMBDA i : items[i].quantity,
                   {i \in DOMAIN items : items[i].product = p})]

AbstractPlans ==
  {PlanOf(src, dst, need) :
     src \in Warehouses \cup {NoWarehouse}, dst \in Warehouses \cup {NoWarehouse},
     need \in [Products -> Amounts]}

\* The state of StockLedger that a state of the tables stands for.
AbstractOnHand == [r \in Rows |-> OnHand(r)]
AbstractReserved == [r \in Rows |-> Reserved(reservations, r)]
AbstractStatus ==
  [t \in Txns |-> IF t \in DOMAIN transactions THEN transactions[t].status ELSE "ABSENT"]
AbstractPlan ==
  [t \in Txns |->
     IF t \in DOMAIN transactions
       THEN PlanOf(transactions[t].src, transactions[t].dst, Needs(transactions[t].items))
       ELSE PlanOf(NoWarehouse, NoWarehouse, [p \in Products |-> 0])]

Ledger == INSTANCE StockLedger WITH
  Plans <- AbstractPlans,
  OpeningStock <- [r \in Rows |-> IF r \in DOMAIN OpeningStock THEN OpeningStock[r] ELSE 0],
  onHand <- AbstractOnHand,
  reserved <- AbstractReserved,
  status <- AbstractStatus,
  plan <- AbstractPlan

\* Whatever requests interleave, the committed tables change only as the atomic
\* StockLedger allows: no lost update, no partial transaction, no oversell.
ImplementsStockLedger == Ledger!Spec
=============================================================================
