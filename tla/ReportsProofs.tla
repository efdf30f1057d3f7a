----------------------------- MODULE ReportsProofs -----------------------------
(***************************************************************************)
(* Theorems about what is read and computed beside the stock transactions: *)
(* the abstract stock ledger the reports are read from, the catalogue the  *)
(* orders refer to, the transfers the backend recommends, the ranking of   *)
(* the suppliers, and what the agents suggest for a document.              *)
(***************************************************************************)
EXTENDS StockReaders, Catalog, TransferPlanner, SupplierRanking, DuplicateCheck,
        SumTheorems, SequenceTheorems, TLAPS

----------------------------------------------------------------------------
(* The abstract stock ledger, for any rows, transactions, plans and opening *)
(* stock.                                                                   *)

\* A plan takes and gives natural numbers of units.
LEMMA PlanType ==
  ASSUME NEW p \in Plans
  PROVE  /\ p.take \in [Rows -> Nat]
         /\ p.give \in [Rows -> Nat]
BY PlansAssumption

LEMMA NoPlanTakesNothing == \A r \in Rows : NoPlan.take[r] = 0
BY DEF NoPlan, Nothing

LEMMA InitTypeOK == Init => TypeOK
BY PlansAssumption, StockAssumption DEF Init, TypeOK, Nothing, Statuses

LEMMA NextTypeOK == TypeOK /\ [Next]_vars => TypeOK'
<1> SUFFICES ASSUME TypeOK, [Next]_vars PROVE TypeOK'
  OBVIOUS
<1> USE DEF TypeOK, Statuses
<1>1. ASSUME NEW t \in Txns, NEW p \in Plans, Place(t, p) PROVE TypeOK'
  BY <1>1, PlanType, NoPlanTakesNothing DEF Place, Reserves
<1>2. ASSUME NEW t \in Txns, NEW p \in Plans, Revise(t, p) PROVE TypeOK'
  <2>1. plan[t] \in Plans
    OBVIOUS
  <2>2. QED
    BY <1>2, <2>1, PlanType DEF Revise, Reserves
<1>3. ASSUME NEW t \in Txns, Complete(t) PROVE TypeOK'
  <2>1. plan[t] \in Plans
    OBVIOUS
  <2>2. \A r \in Rows : onHand[r] - plan[t].take[r] + plan[t].give[r] \in Int
    BY <2>1, PlanType
  <2>3. onHand' \in [Rows -> Nat]
    BY <1>3, <2>2 DEF Complete
  <2>4. reserved' \in [Rows -> Int]
    BY <1>3, <2>1, PlanType DEF Complete
  <2>5. QED
    BY <1>3, <2>3, <2>4 DEF Complete
<1>4. ASSUME NEW t \in Txns, Cancel(t) PROVE TypeOK'
  <2>1. plan[t] \in Plans
    OBVIOUS
  <2>2. QED
    BY <1>4, <2>1, PlanType DEF Cancel
<1>5. ASSUME NEW r \in Rows, NEW delta \in Adjustments, Adjust(r, delta) PROVE TypeOK'
  <2>1. delta \in Int
    BY StockAssumption
  <2>2. QED
    BY <1>5, <2>1 DEF Adjust
<1>6. CASE UNCHANGED vars
  BY <1>6 DEF vars
<1>7. QED
  BY <1>1, <1>2, <1>3, <1>4, <1>5, <1>6 DEF Next

\* The counters, statuses and plans of the ledger are always well formed; in
\* particular stock on hand never goes below zero.
THEOREM LedgerTyped == Spec => []TypeOK
BY InitTypeOK, NextTypeOK, PTL DEF Spec

\* A step of the ledger leaves every row no shorter than it was, or not short at
\* all, unless it is an adjustment.
LEMMA StepShortfall ==
  ASSUME TypeOK, [Next]_vars, NEW r \in Rows,
         reserved'[r] > onHand'[r],
         reserved'[r] - onHand'[r] > reserved[r] - onHand[r]
  PROVE  /\ onHand'[r] < onHand[r]
         /\ UNCHANGED <<reserved, status, plan>>
         /\ \E q \in Rows, delta \in Adjustments : Adjust(q, delta)
<1> USE DEF TypeOK
<1>0. /\ onHand[r] \in Nat /\ reserved[r] \in Int
      /\ \A t \in Txns : plan[t] \in Plans
  OBVIOUS
<1>1. ASSUME NEW t \in Txns, NEW p \in Plans, Place(t, p) PROVE FALSE
  <2>1. p.take[r] \in Nat
    BY PlanType
  <2>2. /\ reserved'[r] = reserved[r] + p.take[r]
        /\ onHand' = onHand
        /\ p.take[r] > 0 => reserved'[r] <= onHand[r]
    BY <1>1, <2>1, <1>0, NoPlanTakesNothing DEF Place, Reserves
  <2>3. QED
    BY <1>0, <2>1, <2>2
<1>2. ASSUME NEW t \in Txns, NEW p \in Plans, Revise(t, p) PROVE FALSE
  <2>1. p.take[r] \in Nat /\ plan[t].take[r] \in Nat
    BY <1>0, PlanType
  <2>2. /\ reserved'[r] = reserved[r] - plan[t].take[r] + p.take[r]
        /\ onHand' = onHand
        /\ p.take[r] > plan[t].take[r] => reserved'[r] <= onHand[r]
    BY <1>2 DEF Revise, Reserves
  <2>3. QED
    BY <1>0, <2>1, <2>2
<1>3. ASSUME NEW t \in Txns, Complete(t) PROVE FALSE
  <2>1. plan[t].take[r] \in Nat /\ plan[t].give[r] \in Nat
    BY <1>0, PlanType
  <2>2. /\ onHand'[r] = onHand[r] - plan[t].take[r] + plan[t].give[r]
        /\ reserved'[r] = reserved[r] - plan[t].take[r]
    BY <1>3 DEF Complete
  <2>3. QED
    BY <1>0, <2>1, <2>2
<1>4. ASSUME NEW t \in Txns, Cancel(t) PROVE FALSE
  <2>1. plan[t].take[r] \in Nat
    BY <1>0, PlanType
  <2>2. onHand' = onHand /\ reserved'[r] = reserved[r] - plan[t].take[r]
    BY <1>4 DEF Cancel
  <2>3. QED
    BY <1>0, <2>1, <2>2
<1>5. ASSUME NEW q \in Rows, NEW delta \in Adjustments, Adjust(q, delta)
      PROVE  onHand'[r] < onHand[r] /\ UNCHANGED <<reserved, status, plan>>
  <2>1. onHand'[r] \in Int
    BY <1>5, StockAssumption DEF Adjust
  <2>2. QED
    BY <1>0, <1>5, <2>1 DEF Adjust
<1>6. CASE UNCHANGED vars
  BY <1>0, <1>6 DEF vars
<1>7. QED
  BY <1>1, <1>2, <1>3, <1>4, <1>5, <1>6 DEF Next

\* Only an adjustment can leave a row with less on hand than is reserved of it.
THEOREM OversellOnlyByAdjustment == Spec => OnlyAdjustmentsOversell
<1>1. TypeOK /\ [Next]_vars =>
        [\A r \in Rows :
           /\ reserved'[r] > onHand'[r]
           /\ reserved'[r] - onHand'[r] > reserved[r] - onHand[r]
           => onHand'[r] < onHand[r] /\ UNCHANGED <<reserved, status, plan>>]_vars
  BY StepShortfall
<1>2. QED
  BY <1>1, LedgerTyped, PTL DEF Spec, OnlyAdjustmentsOversell

\* Without downward adjustments no interleaving of orders oversells a row.
THEOREM StockSafe == Spec => []SafeStock
<1>1. Init => SafeStock
  <2> SUFFICES ASSUME Init, NEW r \in Rows PROVE reserved[r] <= onHand[r]
    BY DEF SafeStock, NeverOversold
  <2>1. reserved[r] = 0
    BY DEF Init, Nothing
  <2>2. onHand[r] \in Nat
    BY StockAssumption DEF Init
  <2>3. QED
    BY <2>1, <2>2
<1>2. TypeOK /\ TypeOK' /\ SafeStock /\ [Next]_vars => SafeStock'
  <2> SUFFICES ASSUME TypeOK, TypeOK', NoLosses, NeverOversold, [Next]_vars,
                      NEW r \in Rows
               PROVE  reserved'[r] <= onHand'[r]
    BY DEF SafeStock, NeverOversold, NoLosses
  <2>1. /\ onHand[r] \in Nat /\ reserved[r] \in Int
        /\ onHand'[r] \in Nat /\ reserved'[r] \in Int
    BY DEF TypeOK
  <2>2. reserved[r] <= onHand[r]
    BY DEF NeverOversold
  <2>3. SUFFICES ASSUME reserved'[r] > onHand'[r] PROVE FALSE
    BY <2>1
  <2>4. reserved'[r] - onHand'[r] > reserved[r] - onHand[r]
    BY <2>1, <2>2, <2>3
  <2>5. PICK q \in Rows, delta \in Adjustments : Adjust(q, delta)
    BY <2>3, <2>4, StepShortfall
  <2>6. delta \in Nat
    BY DEF NoLosses
  <2>7. onHand'[r] >= onHand[r]
    BY <2>1, <2>5, <2>6 DEF Adjust, TypeOK
  <2>8. onHand'[r] < onHand[r]
    BY <2>3, <2>4, StepShortfall
  <2>9. QED
    BY <2>1, <2>7, <2>8
<1>3. QED
  BY <1>1, <1>2, LedgerTyped, PTL DEF Spec

\* A completed or cancelled transaction stays as it is.
THEOREM FinishedStays == Spec => FinishedIsFinal
<1>1. TypeOK /\ [Next]_vars =>
        [\A t \in Txns :
           status[t] \in {"COMPLETED", "CANCELLED"} =>
             status'[t] = status[t] /\ plan'[t] = plan[t]]_vars
  <2> SUFFICES ASSUME TypeOK, [Next]_vars, NEW t \in Txns,
                      status[t] \in {"COMPLETED", "CANCELLED"}
               PROVE  status'[t] = status[t] /\ plan'[t] = plan[t]
    OBVIOUS
  <2> QED
    BY DEF Next, vars, TypeOK, Place, Revise, Complete, Cancel, Adjust
<1>2. QED
  BY <1>1, LedgerTyped, PTL DEF Spec, FinishedIsFinal

----------------------------------------------------------------------------
(* Why a row of the catalogue may be removed without asking who is about to   *)
(* use it: whoever writes a reference has it checked again by the foreign key,*)
(* so that no order refers to a removed row, and only rows that are switched  *)
(* off in the middle of a request slip through.                               *)

Changes == [op : {"update", "remove", "deactivate"}, entity : Entities]
Writes ==
  [op : {"order", "revise"}, order : OrderSlots, want : Seq(Entities), left : Seq(Entities),
   drop : SUBSET Entities, switched : SUBSET Entities]
IsWrite(q) == q.op \in {"order", "revise"}

Tables ==
  /\ row \in [Entities -> {"unborn", "active", "inactive", "deleted"}]
  /\ placed \in [OrderSlots -> {NoOrder, "PENDING", "COMPLETED", "CANCELLED"}]
  /\ items \in [OrderSlots -> SUBSET Entities]
  /\ traces \in [OrderSlots -> SUBSET Entities]
CatalogTyped == Tables /\ request \in [Clients -> {Idle} \cup Changes \cup Writes]

\* What a request has checked is active, or was switched off or removed since.
Passed(q, rows) ==
  IsWrite(q) =>
    \A e \in ToSet(q.want) \ ToSet(q.left) :
      rows[e] \in {"active", "deleted"} \/ e \in q.switched
ChecksHold == \A c \in Clients : Passed(request[c], row)

CatalogInv == CatalogTyped /\ ReferencesResolve /\ ChecksHold

----------------------------------------------------------------------------
\* The records of a request can be told apart by their operation.
LEMMA KindsOfRequest ==
  ASSUME CatalogTyped, NEW c \in Clients
  PROVE  /\ request[c].op \in {"update", "remove", "deactivate"} => request[c] \in Changes
         /\ IsWrite(request[c]) => request[c] \in Writes
<1>1. request[c] \in {Idle} \cup Changes \cup Writes
  BY DEF CatalogTyped
<1>2. CASE request[c] = Idle
  BY <1>2 DEF Idle, IsWrite
<1>3. CASE request[c] \in Changes
  BY <1>3 DEF Changes, IsWrite
<1>4. CASE request[c] \in Writes
  BY <1>4 DEF Writes, IsWrite
<1> QED BY <1>1, <1>2, <1>3, <1>4

LEMMA CatalogInitially == CatalogInit => CatalogInv
<1> SUFFICES ASSUME CatalogInit PROVE CatalogInv
  OBVIOUS
<1>1. CatalogTyped
  BY DEF CatalogInit, CatalogTyped, Tables
<1>2. ReferencesResolve
  BY DEF CatalogInit, ReferencesResolve
<1>3. ChecksHold
  BY DEF CatalogInit, ChecksHold, Passed, IsWrite, Idle
<1> QED BY <1>1, <1>2, <1>3 DEF CatalogInv

\* A request that ends or begins, or goes on without a check, has nothing new to answer for.
LEMMA RequestMoves ==
  ASSUME CatalogTyped, ChecksHold, NEW c \in Clients, NEW q \in {Idle} \cup Changes \cup Writes,
         request' = [request EXCEPT ![c] = q],
         Passed(q, row), row' = row
  PROVE  /\ request' \in [Clients -> {Idle} \cup Changes \cup Writes]
         /\ ChecksHold'
<1>1. request' \in [Clients -> {Idle} \cup Changes \cup Writes]
  BY DEF CatalogTyped
<1>2. ASSUME NEW d \in Clients PROVE Passed(request'[d], row')
  <2>1. request'[d] = IF d = c THEN q ELSE request[d]
    BY DEF CatalogTyped
  <2> QED BY <2>1 DEF ChecksHold
<1> QED BY <1>1, <1>2 DEF ChecksHold

LEMMA IdlePasses == \A rows : Passed(Idle, rows)
BY DEF Passed, IsWrite, Idle

LEMMA ChangePasses ==
  ASSUME NEW q \in Changes, NEW rows PROVE Passed(q, rows)
BY DEF Passed, IsWrite, Changes

----------------------------------------------------------------------------
(* The services of the catalogue: an order is left alone, and no row that is *)
(* referred to goes away.                                                    *)

LEMMA CreateKeeps ==
  ASSUME CatalogInv, NEW e \in Entities, CreateEntity(e)
  PROVE  CatalogInv'
<1>1. CatalogTyped'
  BY DEF CatalogInv, CatalogTyped, Tables, CreateEntity
<1>2. ReferencesResolve'
  BY DEF CatalogInv, CatalogTyped, Tables, CreateEntity, ReferencesResolve, Exists
<1>3. ChecksHold'
  BY DEF CatalogInv, CatalogTyped, Tables, CreateEntity, ChecksHold, Passed
<1> QED BY <1>1, <1>2, <1>3 DEF CatalogInv

LEMMA FindOneKeeps ==
  ASSUME CatalogInv, NEW c \in Clients, NEW e \in Entities, NEW op \in {"update", "remove"},
         FindOne(c, e, op)
  PROVE  CatalogInv'
<1> DEFINE q == [op |-> op, entity |-> e]
<1>1. q \in Changes
  BY DEF Changes
<1>2. request' = [request EXCEPT ![c] = q] /\ UNCHANGED <<row, placed, items, traces>>
  BY DEF FindOne, Begin
<1>3. request' \in [Clients -> {Idle} \cup Changes \cup Writes] /\ ChecksHold'
  BY <1>1, <1>2, ChangePasses, RequestMoves DEF CatalogInv
<1>4. CatalogTyped'
  BY <1>2, <1>3 DEF CatalogInv, CatalogTyped, Tables
<1>5. ReferencesResolve'
  BY <1>2 DEF CatalogInv, ReferencesResolve, Exists
<1> QED BY <1>3, <1>4, <1>5 DEF CatalogInv

\* A request that only ends.
LEMMA EndKeeps ==
  ASSUME CatalogInv, NEW c \in Clients, request' = End(c), UNCHANGED <<row, placed, items, traces>>
  PROVE  CatalogInv'
<1>1. request' = [request EXCEPT ![c] = Idle]
  BY DEF End
<1>2. request' \in [Clients -> {Idle} \cup Changes \cup Writes] /\ ChecksHold'
  BY <1>1, IdlePasses, RequestMoves DEF CatalogInv
<1>3. CatalogTyped'
  BY <1>2 DEF CatalogInv, CatalogTyped, Tables
<1>4. ReferencesResolve'
  BY DEF CatalogInv, ReferencesResolve, Exists
<1> QED BY <1>2, <1>3, <1>4 DEF CatalogInv

\* What SwitchOff does to one request.
LEMMA SwitchOffPasses ==
  ASSUME NEW e \in Entities, NEW q \in {Idle} \cup Changes \cup Writes, Passed(q, row),
         row \in [Entities -> {"unborn", "active", "inactive", "deleted"}],
         row' = [row EXCEPT ![e] = "inactive"], NEW p,
         p = IF q.op \in {"order", "revise"} THEN [q EXCEPT !.switched = @ \cup {e}] ELSE q
  PROVE  p \in {Idle} \cup Changes \cup Writes /\ Passed(p, row')
<1>1. CASE IsWrite(q)
  <2>1. q \in Writes
    BY <1>1 DEF IsWrite, Idle, Changes
  <2>2. p = [q EXCEPT !.switched = q.switched \cup {e}]
    BY <1>1 DEF IsWrite
  <2>3. p \in Writes /\ p.want = q.want /\ p.left = q.left /\ p.switched = q.switched \cup {e}
    <3>1. q.want \in Seq(Entities) /\ q.switched \cup {e} \in SUBSET Entities
      BY <2>1 DEF Writes
    <3>2. /\ p.op = q.op /\ p.order = q.order /\ p.want = q.want /\ p.left = q.left
          /\ p.drop = q.drop /\ p.switched = q.switched \cup {e}
      BY <2>1, <2>2 DEF Writes
    <3>3. p = [op |-> q.op, order |-> q.order, want |-> q.want, left |-> q.left,
               drop |-> q.drop, switched |-> q.switched \cup {e}]
      BY <2>1, <2>2 DEF Writes
    <3> QED BY <2>1, <3>1, <3>2, <3>3 DEF Writes
  <2>4. ASSUME NEW f \in ToSet(p.want) \ ToSet(p.left)
        PROVE  row'[f] \in {"active", "deleted"} \/ f \in p.switched
    <3>1. row[f] \in {"active", "deleted"} \/ f \in q.switched
      BY <1>1, <2>3, <2>4 DEF Passed
    <3>2. row'[f] = IF f = e THEN "inactive" ELSE row[f]
      <4>1. f \in Entities
        BY <2>1, <2>3, <2>4 DEF Writes, ToSet
      <4> QED BY <4>1
    <3> QED BY <2>3, <3>1, <3>2
  <2> QED BY <2>3, <2>4 DEF Passed
<1>2. CASE ~IsWrite(q)
  <2>1. p = q
    BY <1>2 DEF IsWrite
  <2> QED BY <1>2, <2>1 DEF Passed, IsWrite
<1> QED BY <1>1, <1>2

LEMMA WriteActiveKeeps ==
  ASSUME CatalogInv, NEW c \in Clients, NEW op \in {"update", "deactivate"},
         NEW value \in {"active", "inactive"}, WriteActive(c, op, value)
  PROVE  CatalogInv'
<1> DEFINE e == request[c].entity
<1>1. e \in Entities
  BY KindsOfRequest DEF CatalogInv, WriteActive, Changes
<1>2. CASE ~Exists(e)
  BY <1>2, EndKeeps DEF WriteActive
<1>3. CASE Exists(e)
  <2>1. /\ row' = [row EXCEPT ![e] = value]
        /\ UNCHANGED <<placed, items, traces>>
        /\ request' = IF value = "inactive" THEN SwitchOff(e, End(c)) ELSE End(c)
    BY <1>3 DEF WriteActive
  <2> HIDE DEF e
  <2>2. Tables' /\ ReferencesResolve'
    BY <1>1, <2>1 DEF CatalogInv, CatalogTyped, Tables, ReferencesResolve, Exists
  <2>3. \A d \in Clients : /\ End(c)[d] \in {Idle} \cup Changes \cup Writes
                           /\ Passed(End(c)[d], row)
    BY IdlePasses DEF CatalogInv, CatalogTyped, ChecksHold, End
  <2>4. CASE value = "inactive"
    <3>1. /\ request' \in [Clients -> {Idle} \cup Changes \cup Writes]
          /\ \A d \in Clients : Passed(request'[d], row')
      <4>1. ASSUME NEW d \in Clients
            PROVE  /\ request'[d] \in {Idle} \cup Changes \cup Writes
                   /\ Passed(request'[d], row')
        <5> DEFINE p == IF End(c)[d].op \in {"order", "revise"}
                          THEN [End(c)[d] EXCEPT !.switched = @ \cup {e}] ELSE End(c)[d]
        <5>1. request'[d] = p
          BY <2>1, <2>4 DEF SwitchOff
        <5>2. p \in {Idle} \cup Changes \cup Writes /\ Passed(p, row')
          BY <1>1, <2>1, <2>3, <2>4, SwitchOffPasses DEF CatalogInv, CatalogTyped, Tables
        <5> QED BY <5>1, <5>2
      <4>2. DOMAIN request' = Clients
        BY <2>1, <2>4 DEF SwitchOff
      <4>3. request' = [d \in Clients |-> request'[d]]
        BY <2>1, <2>4 DEF SwitchOff
      <4> QED BY <4>1, <4>3
    <3> QED BY <2>2, <3>1 DEF CatalogInv, CatalogTyped, ChecksHold
  <2>5. CASE value = "active"
    <3>1. request' = End(c)
      BY <2>1, <2>5
    <3>2. request' \in [Clients -> {Idle} \cup Changes \cup Writes]
      BY <3>1 DEF CatalogInv, CatalogTyped, End
    <3>3. ASSUME NEW d \in Clients PROVE Passed(request'[d], row')
      <4>1. request'[d] = End(c)[d]
        BY <3>1
      <4>2. Passed(request'[d], row)
        BY <2>3, <4>1
      <4>3. \A f \in Entities : row'[f] = row[f] \/ row'[f] = "active"
        BY <1>1, <2>1, <2>5 DEF CatalogInv, CatalogTyped, Tables
      <4>4. IsWrite(request'[d]) => ToSet(request'[d].want) \subseteq Entities
        BY <3>2 DEF IsWrite, Idle, Changes, Writes, ToSet
      <4> QED BY <4>2, <4>3, <4>4 DEF Passed, IsWrite
    <3> QED BY <2>2, <3>2, <3>3 DEF CatalogInv, CatalogTyped, ChecksHold
  <2> QED BY <2>4, <2>5
<1> QED BY <1>2, <1>3

LEMMA DeleteKeeps ==
  ASSUME CatalogInv, NEW c \in Clients, DeleteEntity(c)
  PROVE  CatalogInv'
<1> DEFINE e == request[c].entity
<1>1. e \in Entities /\ request[c] \in Changes
  BY KindsOfRequest DEF CatalogInv, DeleteEntity, Changes
<1>2. CASE ~Exists(e)
  BY <1>2, EndKeeps DEF DeleteEntity
<1>3. CASE Exists(e) /\ Referenced(e)
  <2> DEFINE q == [request[c] EXCEPT !.op = "deactivate"]
  <2>1. request' = [request EXCEPT ![c] = q] /\ UNCHANGED <<row, placed, items, traces>>
    BY <1>3 DEF DeleteEntity
  <2>2. q \in Changes
    BY <1>1 DEF Changes
  <2>3. request' \in [Clients -> {Idle} \cup Changes \cup Writes] /\ ChecksHold'
    BY <2>1, <2>2, ChangePasses, RequestMoves DEF CatalogInv
  <2> QED BY <2>1, <2>3 DEF CatalogInv, CatalogTyped, Tables, ReferencesResolve, Exists
<1>4. CASE Exists(e) /\ ~Referenced(e)
  <2>1. /\ row' = [row EXCEPT ![e] = "deleted"] /\ request' = End(c)
        /\ UNCHANGED <<placed, items, traces>>
    BY <1>4 DEF DeleteEntity
  <2>2. ReferencesResolve'
    BY <1>1, <1>4, <2>1 DEF CatalogInv, CatalogTyped, Tables, ReferencesResolve, Exists, Referenced
  <2>3. CatalogTyped'
    BY <1>1, <2>1 DEF CatalogInv, CatalogTyped, Tables, End
  <2>4. ASSUME NEW d \in Clients PROVE Passed(request'[d], row')
    <3>1. Passed(request'[d], row)
      BY <2>1, IdlePasses DEF CatalogInv, CatalogTyped, ChecksHold, End
    <3>2. \A f \in Entities : row'[f] = row[f] \/ row'[f] = "deleted"
      BY <1>1, <2>1 DEF CatalogInv, CatalogTyped, Tables
    <3>3. IsWrite(request'[d]) => ToSet(request'[d].want) \subseteq Entities
      BY <2>3 DEF CatalogTyped, IsWrite, Idle, Changes, Writes, ToSet
    <3> QED BY <3>1, <3>2, <3>3 DEF Passed, IsWrite
  <2> QED BY <2>2, <2>3, <2>4 DEF CatalogInv, ChecksHold
<1> QED BY <1>1, <1>2, <1>3, <1>4 DEF DeleteEntity

----------------------------------------------------------------------------
(* The requests that write orders: their rows of the catalogue are only read.*)

\* A request that goes on as q.
LEMMA GoingOnKeeps ==
  ASSUME CatalogInv, NEW c \in Clients, NEW q \in Writes, Passed(q, row),
         request' = [request EXCEPT ![c] = q], UNCHANGED <<row, placed, items, traces>>
  PROVE  CatalogInv'
<1>1. request' \in [Clients -> {Idle} \cup Changes \cup Writes] /\ ChecksHold'
  BY RequestMoves DEF CatalogInv
<1> QED BY <1>1 DEF CatalogInv, CatalogTyped, Tables, ReferencesResolve, Exists

LEMMA StartOrderKeeps ==
  ASSUME CatalogInv, NEW c \in Clients, NEW o \in OrderSlots, NEW want \in Seq(Entities),
         StartOrder(c, o, want)
  PROVE  CatalogInv'
<1> DEFINE q == [op |-> "order", order |-> o, want |-> want, left |-> want,
                 drop |-> {}, switched |-> {}]
<1>1. q \in Writes /\ Passed(q, row)
  BY DEF Writes, Passed
<1> QED BY <1>1, GoingOnKeeps DEF StartOrder, Begin

LEMMA StartRevisionKeeps ==
  ASSUME CatalogInv, NEW c \in Clients, NEW o \in OrderSlots, NEW old \in Entities,
         NEW new \in Entities, StartRevision(c, o, old, new)
  PROVE  CatalogInv'
<1> DEFINE q == [op |-> "revise", order |-> o, want |-> <<new>>, left |-> <<new>>,
                 drop |-> {old}, switched |-> {}]
<1>1. q \in Writes /\ Passed(q, row)
  BY DEF Writes, Passed
<1> QED BY <1>1, GoingOnKeeps DEF StartRevision, Begin

LEMMA CheckKeeps ==
  ASSUME CatalogInv, NEW c \in Clients, CheckEntity(c)
  PROVE  CatalogInv'
<1> DEFINE left == request[c].left
           q == [request[c] EXCEPT !.left = Tail(left)]
<1>1. request[c] \in Writes /\ IsWrite(request[c])
  BY KindsOfRequest DEF CatalogInv, CheckEntity, IsWrite
<1>2. CASE row[Head(left)] = "active"
  <2>1. /\ q \in Writes /\ q.want = request[c].want
        /\ q.left = Tail(left) /\ q.switched = request[c].switched
    <3>1. left \in Seq(Entities) /\ left # <<>>
      BY <1>1 DEF Writes, CheckEntity
    <3>2. Tail(left) \in Seq(Entities)
      BY <3>1
    <3> QED BY <1>1, <3>2 DEF Writes
  <2>2. \A e \in ToSet(left) \ ToSet(Tail(left)) : e = Head(left)
    <3>1. left \in Seq(Entities) /\ left # <<>>
      BY <1>1 DEF Writes, CheckEntity
    <3> HIDE DEF left
    <3>2. ASSUME NEW i \in DOMAIN left, i # 1 PROVE left[i] \in ToSet(Tail(left))
      <4>1. i - 1 \in DOMAIN Tail(left) /\ Tail(left)[i - 1] = left[i]
        BY <3>1, <3>2
      <4> QED BY <4>1 DEF ToSet
    <3>3. left[1] = Head(left)
      BY <3>1
    <3> QED BY <3>2, <3>3 DEF ToSet
  <2>3. Passed(request[c], row)
    BY DEF CatalogInv, ChecksHold
  <2>4. Passed(q, row)
    <3> HIDE DEF q
    <3>1. ASSUME NEW e \in ToSet(q.want) \ ToSet(q.left)
          PROVE  row[e] \in {"active", "deleted"} \/ e \in q.switched
      <4>1. CASE e \in ToSet(left)
        BY <1>2, <2>1, <2>2, <3>1, <4>1
      <4>2. CASE e \notin ToSet(left)
        BY <1>1, <2>1, <2>3, <3>1, <4>2 DEF Passed
      <4> QED BY <4>1, <4>2
    <3> QED BY <3>1 DEF Passed
  <2>5. request' = [request EXCEPT ![c] = q] /\ UNCHANGED <<row, placed, items, traces>>
    BY <1>2 DEF CheckEntity
  <2> HIDE DEF q
  <2> QED BY <2>1, <2>4, <2>5, GoingOnKeeps
<1>3. CASE row[Head(left)] # "active"
  BY <1>3, EndKeeps DEF CheckEntity
<1> QED BY <1>2, <1>3

\* The references an order writes are those it has asked for.
LEMMA WriteKeeps ==
  ASSUME CatalogInv, NEW c \in Clients, WriteOrder(c)
  PROVE  CatalogInv'
<1> DEFINE o == request[c].order
           new == ToSet(request[c].want)
<1>1. /\ request[c] \in Writes /\ o \in OrderSlots
      /\ new \subseteq Entities
  BY KindsOfRequest DEF CatalogInv, WriteOrder, IsWrite, Writes, ToSet
<1>2. CASE UNCHANGED <<placed, items, traces>>
  BY <1>2, EndKeeps DEF WriteOrder
<1>3. CASE /\ \A e \in new : Exists(e)
           /\ placed' = [placed EXCEPT ![o] = "PENDING"]
           /\ items' = [items EXCEPT ![o] = (@ \ request[c].drop) \cup new]
           /\ traces' = IF o \in Reserving
                          THEN [traces EXCEPT ![o] = @ \cup new] ELSE traces
  <2>1. request' = End(c) /\ row' = row
    BY DEF WriteOrder
  <2>2. request' \in [Clients -> {Idle} \cup Changes \cup Writes] /\ ChecksHold'
    BY <2>1, IdlePasses, RequestMoves DEF CatalogInv, End
  <2> HIDE DEF new, o
  <2>3. Tables'
    BY <1>1, <1>3, <2>1 DEF CatalogInv, CatalogTyped, Tables
  <2>4. ReferencesResolve'
    BY <1>1, <1>3, <2>1 DEF CatalogInv, CatalogTyped, Tables, ReferencesResolve, Exists
  <2> QED BY <2>2, <2>3, <2>4 DEF CatalogInv, CatalogTyped
<1> QED BY <1>2, <1>3 DEF WriteOrder

LEMMA FinishKeeps ==
  ASSUME CatalogInv, NEW o \in OrderSlots, NEW final \in {"COMPLETED", "CANCELLED"},
         FinishOrder(o, final)
  PROVE  CatalogInv'
<1>1. CatalogTyped'
  BY DEF CatalogInv, CatalogTyped, Tables, FinishOrder
<1>2. ReferencesResolve'
  BY DEF CatalogInv, CatalogTyped, Tables, FinishOrder, ReferencesResolve, Exists
<1>3. ChecksHold'
  BY DEF CatalogInv, FinishOrder, ChecksHold
<1> QED BY <1>1, <1>2, <1>3 DEF CatalogInv

\* Every step keeps the invariant.
LEMMA CatalogInductive ==
  ASSUME CatalogInv, [CatalogNext]_catalogVars
  PROVE  CatalogInv'
<1>1. CASE \E e \in Entities : CreateEntity(e)
  BY <1>1, CreateKeeps
<1>2. CASE \E c \in Clients, e \in Entities, op \in {"update", "remove"} : FindOne(c, e, op)
  BY <1>2, FindOneKeeps
<1>3. CASE \E c \in Clients : UpdateEntity(c) \/ DeactivateEntity(c)
  BY <1>3, WriteActiveKeeps DEF UpdateEntity, DeactivateEntity
<1>4. CASE \E c \in Clients : DeleteEntity(c)
  BY <1>4, DeleteKeeps
<1>5. CASE \E c \in Clients, o \in OrderSlots, want \in Wants : StartOrder(c, o, want)
  BY <1>5, StartOrderKeeps, CatalogAssumption
<1>6. CASE \E c \in Clients, o \in OrderSlots, old, new \in Entities :
             StartRevision(c, o, old, new)
  BY <1>6, StartRevisionKeeps
<1>7. CASE \E c \in Clients : CheckEntity(c)
  BY <1>7, CheckKeeps
<1>8. CASE \E c \in Clients : WriteOrder(c)
  BY <1>8, WriteKeeps
<1>9. CASE \E o \in OrderSlots, final \in {"COMPLETED", "CANCELLED"} : FinishOrder(o, final)
  BY <1>9, FinishKeeps
<1>10. CASE UNCHANGED catalogVars
  BY <1>10 DEF catalogVars, CatalogInv, CatalogTyped, Tables, ReferencesResolve, Exists, ChecksHold
<1> QED
  BY <1>1, <1>2, <1>3, <1>4, <1>5, <1>6, <1>7, <1>8, <1>9, <1>10 DEF CatalogNext

----------------------------------------------------------------------------
\* However removals, orders, revisions and completions interleave, no order,
\* movement or reservation refers to a row of the catalogue that is gone.
THEOREM ReferencesStay == CatalogSpec => []ReferencesResolve
<1>1. CatalogInv => ReferencesResolve
  BY DEF CatalogInv
<1> QED BY <1>1, CatalogInitially, CatalogInductive, PTL DEF CatalogSpec

\* An order that comes to refer to a row that is switched off was being written
\* when the row was switched off.
THEOREM UsesBeginActive == CatalogSpec => NewUsesWereActive
<1> DEFINE Fresh(c, o, e) ==
             (request[c].op \in {"order", "revise"} /\ request[c].order = o
                /\ request'[c] = Idle)
               => row[e] = "active" \/ e \in request[c].switched
           Step == \A c \in Clients, o \in OrderSlots :
                     \A e \in items'[o] \ items[o] : Fresh(c, o, e)
<1>1. ASSUME CatalogInv, [CatalogNext]_catalogVars PROVE [Step]_catalogVars
  <2>1. CASE UNCHANGED items
    BY <2>1
  <2>2. CASE ~UNCHANGED items
    <3>1. PICK d \in Clients : WriteOrder(d) /\ ~UNCHANGED items
      BY <1>1, <2>2 DEF CatalogNext, catalogVars, CreateEntity, FindOne, UpdateEntity,
         DeactivateEntity, WriteActive, DeleteEntity, StartOrder, StartRevision, CheckEntity,
         FinishOrder
    <3>2. /\ request[d] \in Writes /\ IsWrite(request[d])
      BY <3>1, <1>1, KindsOfRequest DEF CatalogInv, WriteOrder, IsWrite
    <3>3. /\ \A e \in ToSet(request[d].want) : Exists(e)
          /\ items' = [items EXCEPT ![request[d].order] =
                         (@ \ request[d].drop) \cup ToSet(request[d].want)]
          /\ request[d].left = <<>> /\ request' = End(d)
      BY <3>1 DEF WriteOrder
    <3>4. ASSUME NEW c \in Clients, NEW o \in OrderSlots, NEW e \in items'[o] \ items[o],
                 request[c].op \in {"order", "revise"}, request'[c] = Idle
          PROVE  row[e] = "active" \/ e \in request[c].switched
      <4>1. c = d
        BY <1>1, <3>3, <3>4 DEF CatalogInv, CatalogTyped, End, Idle
      <4>2. e \in ToSet(request[d].want) /\ e \notin ToSet(request[d].left)
        BY <1>1, <3>3, <3>4 DEF CatalogInv, CatalogTyped, Tables, ToSet
      <4>3. row[e] \in {"active", "deleted"} \/ e \in request[d].switched
        BY <1>1, <3>2, <4>2 DEF CatalogInv, ChecksHold, Passed
      <4> QED BY <3>3, <4>1, <4>2, <4>3 DEF Exists
    <3> QED BY <3>4
  <2> QED BY <2>1, <2>2
<1> QED BY <1>1, CatalogInitially, CatalogInductive, PTL DEF CatalogSpec, NewUsesWereActive

----------------------------------------------------------------------------
(* Why the recommended transfers can all be carried out: the books kept beside *)
(* the loop agree with each other.  What a cell has given away is what its     *)
(* surplus has lost, and what it is sent is what it no longer needs; neither   *)
(* book goes below zero.                                                       *)

PlannerTyped ==
  /\ stock \in [Cells -> Stocks]
  /\ need \in [Cells -> Nat] /\ surplus \in [Cells -> Nat]
  /\ room \in [Sites -> Nat \cup {Unlimited}]
  /\ available \in [Cells -> Int] /\ projected \in [Cells -> Int]
  /\ todo \subseteq Pairs

\* The books of donors and receivers.
Given ==
  \A c \in Cells :
    /\ available[c] = stock[c].available - (Spares(c) - surplus[c])
    /\ surplus[c] <= Spares(c)
Sent ==
  \A c \in Cells :
    /\ projected[c] = Projected(c) + (Lacks(c) - need[c])
    /\ need[c] <= Lacks(c)
    /\ TransfersInto(c) = {} => need[c] = Lacks(c)

\* A pair the loop is through with has nothing left that could be moved.
Exhausted(pair) ==
  \/ need[Receiver(pair)] = 0 \/ surplus[Donor(pair)] = 0 \/ room[pair[2]] = 0
Settled == \A pair \in Pairs \ todo : Exhausted(pair)

PlannerInv == PlannerTyped /\ Given /\ Sent /\ Settled

----------------------------------------------------------------------------
(* What the loop computes with.                                            *)

LEMMA CellsOf ==
  ASSUME NEW pair \in Pairs
  PROVE  Receiver(pair) \in Cells /\ Donor(pair) \in Cells /\ pair[2] \in Sites
BY DEF Pairs, Receiver, Donor, Cells

LEMMA CellTyped ==
  ASSUME PlannerTyped, NEW c \in Cells
  PROVE  /\ stock[c].available \in Int /\ stock[c].incoming \in Nat
         /\ stock[c].threshold \in Nat /\ Projected(c) \in Int
         /\ stock[c].available <= Projected(c)
<1>1. stock[c] \in [available : Int, incoming : Nat, threshold : Nat, dead : BOOLEAN]
  BY PlannerAssumption DEF PlannerTyped
<1> QED BY <1>1 DEF Projected

\* What is lacking is what is missing to the threshold, and what can be spared is
\* what exceeds it.
LEMMA LackOf ==
  ASSUME PlannerTyped, NEW c \in Cells
  PROVE  /\ Lacks(c) \in Nat
         /\ Lacks(c) > 0 => Projected(c) + Lacks(c) = stock[c].threshold
BY CellTyped DEF Lacks, AtLeastZero

LEMMA SpareOf ==
  ASSUME PlannerTyped, NEW c \in Cells
  PROVE  /\ Spares(c) \in Nat
         /\ Spares(c) > 0 => /\ stock[c].available - Spares(c) = stock[c].threshold
                             /\ deadOnly => stock[c].dead
BY CellTyped DEF Spares, AtLeastZero

\* The amount of a transfer is the least of need, surplus and room.
LEMMA LeastOf ==
  ASSUME NEW a \in Nat, NEW b \in Nat, NEW r \in Nat \cup {Unlimited},
         NEW m, m = Min({a, b} \cup ({r} \ {Unlimited}))
  PROVE  /\ m \in Nat /\ m <= a /\ m <= b /\ (r # Unlimited => m <= r)
         /\ m \in {a, b} \/ (r # Unlimited /\ m = r)
<1> DEFINE S == {a, b} \cup ({r} \ {Unlimited})
<1>1. S \subseteq Nat
  BY PlannerAssumption
<1>2. \E x \in S : \A y \in S : x <= y
  <2>1. CASE r = Unlimited
    BY <2>1
  <2>2. CASE r \in Nat
    BY <2>2, PlannerAssumption
  <2> QED BY <2>1, <2>2
<1>3. m \in S /\ \A y \in S : m <= y
  BY <1>2 DEF Min
<1> QED BY <1>1, <1>3

LEMMA AmountOf ==
  ASSUME PlannerTyped, NEW pair \in Pairs
  PROVE  /\ Amount(pair) \in Nat
         /\ Amount(pair) <= need[Receiver(pair)] /\ Amount(pair) <= surplus[Donor(pair)]
         /\ room[pair[2]] # Unlimited => Amount(pair) <= room[pair[2]]
         /\ \/ Amount(pair) = need[Receiver(pair)]
            \/ Amount(pair) = surplus[Donor(pair)]
            \/ room[pair[2]] # Unlimited /\ Amount(pair) = room[pair[2]]
<1>1. /\ need[Receiver(pair)] \in Nat /\ surplus[Donor(pair)] \in Nat
      /\ room[pair[2]] \in Nat \cup {Unlimited}
  BY CellsOf DEF PlannerTyped
<1> QED BY <1>1, LeastOf DEF Amount

----------------------------------------------------------------------------
LEMMA PlannerInitially == PlannerInit => PlannerInv
<1> SUFFICES ASSUME PlannerInit PROVE PlannerInv
  OBVIOUS
<1>1. \A c \in Cells :
        /\ stock[c].available \in Int /\ Projected(c) \in Int
        /\ Lacks(c) \in Nat /\ Spares(c) \in Nat
  <2>1. ASSUME NEW c \in Cells
        PROVE  /\ stock[c].available \in Int /\ stock[c].incoming \in Nat
               /\ stock[c].threshold \in Nat
    BY PlannerAssumption DEF PlannerInit
  <2> QED BY <2>1 DEF Projected, Lacks, Spares, AtLeastZero
<1>2. PlannerTyped
  BY <1>1, PlannerAssumption DEF PlannerInit, PlannerTyped, Matches
<1>3. Given
  BY <1>1 DEF PlannerInit, Given
<1>4. Sent
  BY <1>1 DEF PlannerInit, Sent
<1>5. Settled
  <2> SUFFICES ASSUME NEW pair \in Pairs \ todo PROVE Exhausted(pair)
    BY DEF Settled
  <2>1. ~(Lacks(Receiver(pair)) > 0 /\ Spares(Donor(pair)) > 0)
    BY DEF PlannerInit, Matches
  <2> QED BY <1>1, <2>1, CellsOf DEF PlannerInit, Exhausted
<1> QED BY <1>2, <1>3, <1>4, <1>5 DEF PlannerInv

\* The loop leaves what it was given as it is.
LEMMA InputsStay ==
  ASSUME NEW c \in Cells, stock' = stock, deadOnly' = deadOnly
  PROVE  Projected(c)' = Projected(c) /\ Lacks(c)' = Lacks(c) /\ Spares(c)' = Spares(c)
BY DEF Projected, Lacks, Spares, StaysShort

LEMMA SkipKeeps ==
  ASSUME PlannerInv, NEW pair \in Pairs, Skip(pair)
  PROVE  PlannerInv'
<1>1. Exhausted(pair)
  <2>1. Amount(pair) = 0
    BY AmountOf DEF PlannerInv, Skip
  <2> QED BY <2>1, AmountOf DEF PlannerInv, Exhausted
<1>2. UNCHANGED <<stock, deadOnly, need, surplus, room, available, projected, advice>>
  BY DEF Skip
<1>3. PlannerTyped'
  BY DEF PlannerInv, PlannerTyped, Skip
<1>4. Given' /\ Sent'
  BY <1>2, InputsStay DEF PlannerInv, Given, Sent, TransfersInto
<1>5. Settled'
  BY <1>1, <1>2 DEF PlannerInv, Settled, Exhausted, Skip
<1> QED BY <1>3, <1>4, <1>5 DEF PlannerInv

LEMMA RecommendKeeps ==
  ASSUME PlannerInv, NEW pair \in Pairs, Recommend(pair)
  PROVE  PlannerInv'
<1> DEFINE r == Receiver(pair)
           d == Donor(pair)
           n == Amount(pair)
<1>1. r \in Cells /\ d \in Cells /\ pair[2] \in Sites
  BY CellsOf
<1>2. /\ n \in Nat \ {0} /\ n <= need[r] /\ n <= surplus[d]
      /\ room[pair[2]] # Unlimited => n <= room[pair[2]]
      /\ \/ n = need[r] \/ n = surplus[d]
         \/ room[pair[2]] # Unlimited /\ n = room[pair[2]]
  BY AmountOf DEF PlannerInv, Recommend, Transfer
<1>3. /\ need' = [need EXCEPT ![r] = @ - n]
      /\ surplus' = [surplus EXCEPT ![d] = @ - n]
      /\ room' = [room EXCEPT ![pair[2]] = IF @ = Unlimited THEN @ ELSE @ - n]
      /\ available' = [available EXCEPT ![d] = @ - n]
      /\ projected' = [projected EXCEPT ![r] = @ + n]
      /\ advice' = advice \cup {[pair |-> pair, quantity |-> n]}
      /\ todo' = todo \ {pair} /\ stock' = stock /\ deadOnly' = deadOnly
  BY DEF Recommend, Transfer
<1>4. \A c \in Cells : TransfersInto(c)' = {} => TransfersInto(c) = {} /\ c # r
  <2> DEFINE a == [pair |-> pair, quantity |-> n]
  <2>1. a.pair = pair
    OBVIOUS
  <2> HIDE DEF a
  <2>2. advice' = advice \cup {a}
    BY <1>3 DEF a
  <2>3. a \in {b \in advice' : Receiver(b.pair) = r}
    BY <2>1, <2>2
  <2> QED BY <2>2, <2>3 DEF TransfersInto
<1> HIDE DEF r, d, n
<1>5. PlannerTyped'
  <2>1. need' \in [Cells -> Nat] /\ surplus' \in [Cells -> Nat]
    BY <1>1, <1>2, <1>3 DEF PlannerInv, PlannerTyped
  <2>2. room' \in [Sites -> Nat \cup {Unlimited}]
    <3>1. (IF room[pair[2]] = Unlimited THEN room[pair[2]] ELSE room[pair[2]] - n)
            \in Nat \cup {Unlimited}
      BY <1>1, <1>2 DEF PlannerInv, PlannerTyped
    <3> QED BY <1>1, <1>3, <3>1 DEF PlannerInv, PlannerTyped
  <2>3. available' \in [Cells -> Int] /\ projected' \in [Cells -> Int]
    BY <1>1, <1>2, <1>3 DEF PlannerInv, PlannerTyped
  <2> QED BY <1>3, <2>1, <2>2, <2>3 DEF PlannerInv, PlannerTyped
<1>6. Given'
  <2> SUFFICES ASSUME NEW c \in Cells
               PROVE  /\ available'[c] = stock[c].available - (Spares(c) - surplus'[c])
                      /\ surplus'[c] <= Spares(c)
    BY <1>3, InputsStay DEF Given
  <2>1. /\ available[c] \in Int /\ surplus[c] \in Nat /\ Spares(c) \in Nat
        /\ stock[c].available \in Int
    BY SpareOf, CellTyped DEF PlannerInv, PlannerTyped
  <2>2. /\ available[c] = stock[c].available - (Spares(c) - surplus[c])
        /\ surplus[c] <= Spares(c)
    BY DEF PlannerInv, Given
  <2>3. CASE c = d
    <3>1. available'[c] = available[c] - n /\ surplus'[c] = surplus[c] - n
      BY <1>1, <1>3, <2>3 DEF PlannerInv, PlannerTyped
    <3> QED BY <1>2, <2>1, <2>2, <3>1
  <2>4. CASE c # d
    BY <1>3, <2>2, <2>4 DEF PlannerInv, PlannerTyped
  <2> QED BY <2>3, <2>4
<1>7. Sent'
  <2> SUFFICES ASSUME NEW c \in Cells
               PROVE  /\ projected'[c] = Projected(c) + (Lacks(c) - need'[c])
                      /\ need'[c] <= Lacks(c)
                      /\ TransfersInto(c)' = {} => need'[c] = Lacks(c)
    BY <1>3, InputsStay DEF Sent
  <2>1. /\ projected[c] \in Int /\ need[c] \in Nat /\ Lacks(c) \in Nat
        /\ Projected(c) \in Int
    BY LackOf, CellTyped DEF PlannerInv, PlannerTyped
  <2>2. /\ projected[c] = Projected(c) + (Lacks(c) - need[c])
        /\ need[c] <= Lacks(c)
        /\ TransfersInto(c) = {} => need[c] = Lacks(c)
    BY DEF PlannerInv, Sent
  <2>3. CASE c = r
    <3>1. projected'[c] = projected[c] + n /\ need'[c] = need[c] - n
      BY <1>1, <1>3, <2>3 DEF PlannerInv, PlannerTyped
    <3> QED BY <1>2, <1>4, <2>1, <2>2, <2>3, <3>1
  <2>4. CASE c # r
    <3>1. projected'[c] = projected[c] /\ need'[c] = need[c]
      BY <1>3, <2>4 DEF PlannerInv, PlannerTyped
    <3> QED BY <1>4, <2>2, <3>1
  <2> QED BY <2>3, <2>4
<1>8. Settled'
  <2> SUFFICES ASSUME NEW other \in Pairs \ todo' PROVE Exhausted(other)'
    BY DEF Settled
  <2>1. /\ Receiver(other) \in Cells /\ Donor(other) \in Cells /\ other[2] \in Sites
    BY CellsOf
  <2>2. CASE other = pair
    <3>1. need'[r] = need[r] - n /\ surplus'[d] = surplus[d] - n
      BY <1>1, <1>3 DEF PlannerInv, PlannerTyped
    <3>2. room[pair[2]] # Unlimited => room'[pair[2]] = room[pair[2]] - n
      BY <1>1, <1>3 DEF PlannerInv, PlannerTyped
    <3>3. need[r] \in Nat /\ surplus[d] \in Nat
          /\ (room[pair[2]] # Unlimited => room[pair[2]] \in Nat)
      BY <1>1 DEF PlannerInv, PlannerTyped
    <3>4. need'[r] = 0 \/ surplus'[d] = 0 \/ room'[pair[2]] = 0
      BY <1>2, <3>1, <3>2, <3>3
    <3> QED BY <2>2, <3>4 DEF Exhausted, r, d
  <2>3. CASE other # pair
    <3>1. Exhausted(other)
      BY <1>3, <2>3 DEF PlannerInv, Settled
    <3>2. CASE need[Receiver(other)] = 0
      <4>1. Receiver(other) # r
        BY <1>2, <3>2
      <4> QED BY <1>3, <2>1, <3>2, <4>1 DEF PlannerInv, PlannerTyped, Exhausted
    <3>3. CASE surplus[Donor(other)] = 0
      <4>1. Donor(other) # d
        BY <1>2, <3>3
      <4> QED BY <1>3, <2>1, <3>3, <4>1 DEF PlannerInv, PlannerTyped, Exhausted
    <3>4. CASE room[other[2]] = 0
      <4>1. other[2] # pair[2]
        BY <1>2, <3>4, PlannerAssumption
      <4> QED BY <1>3, <2>1, <3>4, <4>1 DEF PlannerInv, PlannerTyped, Exhausted
    <3> QED BY <3>1, <3>2, <3>3, <3>4 DEF Exhausted
  <2> QED BY <2>2, <2>3
<1> QED BY <1>5, <1>6, <1>7, <1>8 DEF PlannerInv

LEMMA PlannerInductive ==
  ASSUME PlannerInv, [PlannerNext]_plannerVars
  PROVE  PlannerInv'
<1>1. CASE \E pair \in todo : Skip(pair) \/ Recommend(pair)
  <2>1. todo \subseteq Pairs
    BY DEF PlannerInv, PlannerTyped
  <2> QED BY <1>1, <2>1, SkipKeeps, RecommendKeeps
<1>2. CASE UNCHANGED plannerVars
  <2>1. UNCHANGED <<stock, deadOnly, need, surplus, room, available, projected, todo, advice>>
    BY <1>2 DEF plannerVars
  <2>2. PlannerTyped' /\ Settled'
    BY <2>1 DEF PlannerInv, PlannerTyped, Settled, Exhausted
  <2>3. Given' /\ Sent'
    BY <2>1, InputsStay DEF PlannerInv, Given, Sent, TransfersInto
  <2> QED BY <2>2, <2>3 DEF PlannerInv
<1> QED BY <1>1, <1>2 DEF PlannerNext

----------------------------------------------------------------------------
(* The room of a warehouse, which all products share: what it can still take  *)
(* in and what lands there add up to the room it had.                         *)

Advised == [pair : Pairs, quantity : Nat]
Landing(A, s) == {a \in A : a.pair[2] = s}
Amounts(A) == [a \in A |-> a.quantity]
Landed(A, s) == MapThenSumSet(LAMBDA a : a.quantity, Landing(A, s))

\* A pair is advised once, when the loop is through with it.
Advice == advice \subseteq Advised /\ IsFiniteSet(advice) /\ \A a \in advice : a.pair \notin todo
Taken(s) ==
  IF room0[s] = Unlimited
    THEN room[s] = Unlimited
    ELSE room[s] \in Nat /\ room[s] + Landed(advice, s) = room0[s]
RoomIsKept == room0 \in [Sites -> Rooms] /\ Advice /\ \A s \in Sites : Taken(s)

\* The code's aggregate is a sum in the sense of SumTheorems.
LEMMA LandedTotal ==
  ASSUME NEW A, NEW s, IsFiniteSet(A)
  PROVE  Landed(A, s) = Total(Amounts(A), Landing(A, s))
<1> DEFINE S == Landing(A, s)
           q == Amounts(A)
           P(g) == g = [r \in SUBSET S |->
                          IF r = {} THEN 0 ELSE Pick(r).quantity + g[r \ {Pick(r)}]]
           h == CHOOSE g : P(g)
           k == CHOOSE g : Sums(q, S, g)
<1>0. IsFiniteSet(S) /\ S \subseteq A
  BY FS_Subset DEF Landing
<1>1. Landed(A, s) = h[S]
  BY DEF Landed, MapThenSumSet, MapThenFoldSet, Pick
<1>2. Sums(q, S, k)
  <2> HIDE DEF S, q
  <2> QED BY <1>0, SumsExist
<1>3. \A r \in SUBSET S : r # {} => q[Pick(r)] = Pick(r).quantity
  BY <1>0, PickIn DEF Amounts
<1> HIDE DEF S, q
<1>4. \A g : P(g) <=> Sums(q, S, g)
  BY <1>3 DEF Sums
<1>5. P(k)
  BY <1>2, <1>4
<1> HIDE DEF P, k
<1>6. P(h)
  BY <1>5
<1>7. Sums(q, S, h)
  BY <1>4, <1>6
<1> HIDE DEF h
<1>8. h[S] = k[S]
  BY <1>0, <1>2, <1>7, SumsAgree
<1> QED
  BY <1>1, <1>8, TotalSums DEF k, S, q

\* One more recommendation lands in its own warehouse only.
LEMMA LandedWith ==
  ASSUME NEW A, IsFiniteSet(A), A \subseteq Advised, NEW b \in Advised, b \notin A, NEW s
  PROVE  /\ Landed(A, s) \in Int
         /\ Landed(A \cup {b}, s) =
              Landed(A, s) + (IF b.pair[2] = s THEN b.quantity ELSE 0)
<1> DEFINE S == Landing(A, s)
           B == A \cup {b}
           q == Amounts(A)
           p == Amounts(B)
<1>1. IsFiniteSet(S) /\ IsFiniteSet(B) /\ S \subseteq A
  BY FS_Subset, FS_AddElement DEF Landing
<1>2. Landed(A, s) = Total(q, S) /\ Landed(B, s) = Total(p, Landing(B, s))
  BY <1>1, LandedTotal
<1>3. /\ \A a \in S : q[a] = p[a] /\ q[a] \in Int
      /\ p[b] = b.quantity /\ p[b] \in Int
  BY <1>1 DEF Amounts, Advised
<1>4. Landing(B, s) = IF b.pair[2] = s THEN S \cup {b} ELSE S
  BY DEF Landing
<1>5. b \notin S
  BY <1>1
<1> HIDE DEF S, B, q, p
<1>6. Total(q, S) = Total(p, S) /\ Total(q, S) \in Int
  BY <1>1, <1>3, TotalAgrees, TotalType
<1>7. b.pair[2] = s => Total(p, Landing(B, s)) = b.quantity + Total(p, S)
  <2>1. \A a \in S \cup {b} : p[a] \in Int
    BY <1>3
  <2>2. Total(p, S \cup {b}) = p[b] + Total(p, S)
    BY <1>1, <1>5, <2>1, TotalWith
  <2> QED BY <1>3, <1>4, <2>2
<1>8. b.quantity \in Int
  BY DEF Advised
<1>9. Landed(B, s) = Landed(A, s) + (IF b.pair[2] = s THEN b.quantity ELSE 0)
  <2>1. CASE b.pair[2] = s
    BY <1>2, <1>6, <1>7, <1>8, <2>1
  <2>2. CASE b.pair[2] # s
    BY <1>2, <1>4, <1>6, <2>2
  <2> QED BY <2>1, <2>2
<1> QED BY <1>2, <1>6, <1>9 DEF B

LEMMA RoomAtFirst == PlannerInit => RoomIsKept
<1> SUFFICES ASSUME PlannerInit PROVE RoomIsKept
  OBVIOUS
<1>1. Advice /\ room = room0 /\ room0 \in [Sites -> Rooms] /\ advice = {}
  BY FS_EmptySet DEF PlannerInit, Advice
<1>2. ASSUME NEW s \in Sites PROVE Taken(s)
  <2>1. Landed({}, s) = 0
    <3>1. Landing({}, s) = {}
      BY DEF Landing
    <3> QED BY <3>1, LandedTotal, TotalEmpty, FS_EmptySet
  <2>2. room0[s] \in Nat \cup {Unlimited}
    BY <1>1, PlannerAssumption
  <2>3. room0[s] \in Nat => room0[s] + Landed({}, s) = room0[s]
    BY <2>1
  <2> QED BY <1>1, <2>2, <2>3 DEF Taken
<1> QED BY <1>1, <1>2 DEF RoomIsKept

LEMMA RecommendFits ==
  ASSUME PlannerInv, RoomIsKept, NEW pair \in todo, Recommend(pair)
  PROVE  RoomIsKept'
<1> DEFINE n == Amount(pair)
           b == [pair |-> pair, quantity |-> n]
<1>1. /\ pair \in Pairs /\ n \in Nat
      /\ room[pair[2]] # Unlimited => n <= room[pair[2]]
  BY AmountOf DEF PlannerInv, PlannerTyped
<1>2. /\ room' = [room EXCEPT ![pair[2]] = IF @ = Unlimited THEN @ ELSE @ - n]
      /\ advice' = advice \cup {b} /\ todo' = todo \ {pair} /\ room0' = room0
  BY DEF Recommend, Transfer
<1>3. b \in Advised /\ b.pair = pair /\ b.quantity = n
  BY <1>1 DEF Advised
<1> HIDE DEF b, n
<1>4. b \notin advice
  BY <1>3 DEF RoomIsKept, Advice
<1>5. Advice'
  BY <1>2, <1>3, FS_AddElement DEF RoomIsKept, Advice
<1>6. ASSUME NEW s \in Sites PROVE Taken(s)'
  <2>1. Taken(s) /\ room0[s] \in Nat \cup {Unlimited} /\ Unlimited \notin Nat
    BY PlannerAssumption DEF RoomIsKept
  <2>2. /\ Landed(advice, s) \in Int
        /\ Landed(advice', s) = Landed(advice, s) + (IF pair[2] = s THEN n ELSE 0)
    BY <1>2, <1>3, <1>4, LandedWith DEF RoomIsKept, Advice
  <2>3. room'[s] = IF pair[2] = s /\ room[s] # Unlimited THEN room[s] - n ELSE room[s]
    BY <1>2 DEF PlannerInv, PlannerTyped
  <2>4. CASE room0[s] = Unlimited
    <3>1. room[s] = Unlimited
      BY <2>1, <2>4 DEF Taken
    <3>2. room'[s] = Unlimited /\ room0'[s] = Unlimited
      BY <1>2, <2>3, <2>4, <3>1
    <3> QED BY <3>2 DEF Taken
  <2>5. CASE room0[s] # Unlimited
    <3>1. room[s] \in Nat /\ room[s] + Landed(advice, s) = room0[s] /\ room0[s] \in Nat
      BY <2>1, <2>5 DEF Taken
    <3>2. room'[s] \in Nat /\ room'[s] + Landed(advice', s) = room0[s]
      <4>1. CASE pair[2] = s
        <5>1. n <= room[s] /\ room'[s] = room[s] - n /\ n \in Nat
          BY <1>1, <2>1, <2>3, <3>1, <4>1
        <5>2. Landed(advice', s) = Landed(advice, s) + n
          BY <2>2, <4>1
        <5> QED BY <2>2, <3>1, <5>1, <5>2
      <4>2. CASE pair[2] # s
        BY <2>2, <2>3, <3>1, <4>2
      <4> QED BY <4>1, <4>2
    <3>3. room0'[s] # Unlimited /\ room0'[s] = room0[s]
      BY <1>2, <2>5
    <3> QED BY <3>2, <3>3 DEF Taken
  <2> QED BY <2>4, <2>5
<1> QED BY <1>2, <1>5, <1>6 DEF RoomIsKept

LEMMA RoomInductive ==
  ASSUME PlannerInv, RoomIsKept, [PlannerNext]_plannerVars
  PROVE  RoomIsKept'
<1>1. CASE \E pair \in todo : Recommend(pair)
  BY <1>1, RecommendFits
<1>2. CASE (\E pair \in todo : Skip(pair)) \/ UNCHANGED plannerVars
  <2>1. UNCHANGED <<room0, room, advice>> /\ todo' \subseteq todo
    BY <1>2 DEF Skip, plannerVars
  <2> QED BY <2>1 DEF RoomIsKept, Advice, Taken
<1> QED BY <1>1, <1>2 DEF PlannerNext

----------------------------------------------------------------------------
\* However many warehouses are short, at whatever point the loop is, which takes
\* their pairs in the order of IsNext, a donor keeps its reorder threshold, nobody is
\* sent more than he lacks, nobody both gives and receives, and what is sent into a
\* warehouse fits its room.
THEOREM TransfersCanBeCarriedOut == PlannerSpec => []TransfersAreSafe
<1>1. ASSUME PlannerInv, NEW c \in Cells
      PROVE  /\ available[c] # stock[c].available =>
                  available[c] >= stock[c].threshold /\ (deadOnly => stock[c].dead)
             /\ projected[c] # Projected(c) =>
                  projected[c] <= stock[c].threshold /\ available[c] = stock[c].available
  <2>1. /\ available[c] = stock[c].available - (Spares(c) - surplus[c])
        /\ surplus[c] <= Spares(c) /\ surplus[c] \in Nat
    BY <1>1 DEF PlannerInv, Given, PlannerTyped
  <2>2. /\ projected[c] = Projected(c) + (Lacks(c) - need[c])
        /\ need[c] <= Lacks(c) /\ need[c] \in Nat
    BY <1>1 DEF PlannerInv, Sent, PlannerTyped
  <2>3. /\ Lacks(c) \in Nat /\ Spares(c) \in Nat
        /\ Lacks(c) > 0 => Projected(c) + Lacks(c) = stock[c].threshold
        /\ Spares(c) > 0 => /\ stock[c].available - Spares(c) = stock[c].threshold
                            /\ deadOnly => stock[c].dead
    BY <1>1, LackOf, SpareOf DEF PlannerInv
  <2>4. /\ stock[c].available \in Int /\ stock[c].threshold \in Nat
        /\ Projected(c) \in Int /\ stock[c].available <= Projected(c)
    BY <1>1, CellTyped DEF PlannerInv
  <2> QED BY <2>1, <2>2, <2>3, <2>4
<1>2. PlannerInv => DonorsKeepTheirThreshold /\ NobodyGetsTooMuch
  BY <1>1 DEF DonorsKeepTheirThreshold, NobodyGetsTooMuch
<1>3. RoomIsKept => RoomIsShared
  <2> SUFFICES ASSUME RoomIsKept, NEW s \in Sites, room0[s] # Unlimited
               PROVE  LandingAt(s) <= room0[s]
    BY DEF RoomIsShared
  <2>1. LandingAt(s) = Landed(advice, s)
    BY DEF LandingAt, Landed, Landing
  <2>2. room[s] \in Nat /\ room[s] + Landed(advice, s) = room0[s]
    BY DEF RoomIsKept, Taken
  <2>3. Landed(advice, s) \in Int
    <3>1. IsFiniteSet(Landing(advice, s)) /\ Landing(advice, s) \subseteq advice
      BY FS_Subset DEF RoomIsKept, Advice, Landing
    <3>2. \A a \in Landing(advice, s) : Amounts(advice)[a] \in Int
      BY <3>1 DEF RoomIsKept, Advice, Advised, Amounts
    <3>3. Total(Amounts(advice), Landing(advice, s)) \in Int
      BY <3>1, <3>2, TotalType
    <3> QED BY <3>3, LandedTotal DEF RoomIsKept, Advice
  <2> QED BY <2>1, <2>2, <2>3
<1>4. PlannerInv /\ RoomIsKept => TransfersAreSafe
  BY <1>2, <1>3 DEF TransfersAreSafe
<1> QED
  BY <1>4, PlannerInitially, PlannerInductive, RoomAtFirst, RoomInductive, PTL DEF PlannerSpec

\* When the loop ends, a warehouse is told to purchase, or that nothing helps, only
\* if no transfer could have helped it.
THEOREM LoopIsExhaustive == PlannerSpec => []NothingLeftToMove
<1>1. ASSUME PlannerInv PROVE NothingLeftToMove
  <2> SUFFICES ASSUME todo = {}, NEW pair \in Pairs
               PROVE  /\ Exhausted(pair)
                      /\ (\E ranked \in BOOLEAN : Fix(Receiver(pair), ranked) # "transfer_in") =>
                           \/ ~StaysShort(Receiver(pair))
                           \/ Lacks(Receiver(pair)) = 0
                           \/ surplus[Donor(pair)] = 0
                           \/ room[pair[2]] = 0
    BY DEF NothingLeftToMove, Exhausted
  <2>1. Exhausted(pair)
    BY <1>1 DEF PlannerInv, Settled
  <2>2. TransfersInto(Receiver(pair)) = {} => need[Receiver(pair)] = Lacks(Receiver(pair))
    BY <1>1, CellsOf DEF PlannerInv, Sent
  <2> QED BY <2>1, <2>2 DEF Exhausted, Fix
<1> QED BY <1>1, PlannerInitially, PlannerInductive, PTL DEF PlannerSpec

\* For any goods, warehouses and stocks, the plan takes all there is to take and no
\* more than that.
THEOREM PlanIsAlwaysSound == PlannerSpec => []PlanIsSound
BY TransfersCanBeCarriedOut, LoopIsExhaustive, PTL DEF PlanIsSound

----------------------------------------------------------------------------
(* Why a report that is put together from several queries is right unless the *)
(* stock moved while it was made: what a query has returned is what it would  *)
(* return now, as long as nothing it depends on has been committed since, and *)
(* commits are counted from the first query to the last.                      *)

RowsRead == [onHand : [Rows -> Nat], threshold : [Rows -> Nat]]

\* What the queries return, if they have run.
SeenTyped ==
  /\ DOMAIN seen = Queries
  /\ \A q \in Queries :
       seen[q] # Unread =>
         /\ q[2] = "rows" => seen[q] \in RowsRead
         /\ q[2] = "reserved" => seen[q] \in [Rows -> Int]
ReadersTyped ==
  /\ TypeOK
  /\ threshold \in [Rows -> Nat]
  /\ corrections \in [Rows -> Int]
  /\ report \in DOMAIN QueriesOf
  /\ during \in [{"reservations", "stock", "thresholds"} -> Nat]
  /\ SeenTyped

\* The ledger of completed orders and corrections adds up to the stock.
NetOf(of, r, is) == MapThenSumSet(LAMBDA t : of[t].give[r] - of[t].take[r], is)
LedgerIsStock ==
  /\ IsFiniteSet(Finished)
  /\ \A r \in Rows : onHand[r] = OpeningStock[r] + corrections[r] + NetOf(plan, r, Finished)

\* What the query q has returned is still so, or what made it old was counted.
Undated(q) ==
  /\ q[2] = "rows" /\ during["stock"] = 0 => seen[q].onHand = onHand
  /\ q[2] = "rows" /\ during["thresholds"] = 0 => seen[q].threshold = threshold
  /\ q[2] = "reserved" /\ during["stock"] = 0 /\ during["reservations"] = 0 =>
       seen[q] = reserved
  /\ q[2] = "movements" /\ during["stock"] = 0 => seen[q] = LedgerTotal
  /\ q[2] = "row" /\ during["stock"] = 0 => seen[q] = onHand[q[1]]
SeenIsCurrent ==
  /\ \A q \in Queries : seen[q] # Unread => q \in QueriesOf[report] /\ Undated(q)
  /\ Missing = QueriesOf[report] => during = Undisturbed

\* Availability reads its reservations last.
ReservedLast ==
  LET q == <<"single", "reserved">> IN
  report = "availability" /\ seen[q] # Unread =>
    seen[<<"single", "rows">>] # Unread /\ seen[q] = reserved

\* What low stock has summed is still so, or the row is known to have moved.
SummedHolds == \A r \in Summed \ moved : seen[<<r, "taken">>] = reserved[r]

ReadersInv ==
  ReadersTyped /\ LedgerIsStock /\ SeenIsCurrent /\ ReservedLast /\ SummedHolds

----------------------------------------------------------------------------
(* The steps of the writers are steps of the ledger.                       *)

LEMMA QueryKinds ==
  /\ QueriesOf["availability"] = {<<"single", "rows">>, <<"single", "reserved">>}
  /\ QueriesOf["lowStock"] = {<<"single", "rows">>} \cup (ShownRows \X {"row", "taken"})
  /\ QueriesOf["reconcile"] = {<<"single", "rows">>, <<"single", "movements">>}
  /\ QueriesOf["tower"] =
       {<<"risk", "rows">>, <<"risk", "reserved">>, <<"restock", "rows">>,
        <<"restock", "reserved">>, <<"restock", "pending">>}
  /\ QueriesOf["none"] = {}
  /\ DOMAIN QueriesOf = {"availability", "lowStock", "reconcile", "tower", "none"}
  /\ \A k \in DOMAIN QueriesOf : QueriesOf[k] \subseteq Queries
BY DEF QueriesOf, Queries, Reports

LEMMA TakenIsAQuery ==
  \A r \in ShownRows :
    /\ <<r, "row">> \in QueriesOf["lowStock"] /\ <<r, "taken">> \in QueriesOf["lowStock"]
    /\ <<r, "row">> \in Queries /\ <<r, "taken">> \in Queries
BY QueryKinds

LEMMA ReadersAreLedger ==
  ASSUME [ReadersNext]_readerVars
  PROVE  [Next]_vars
<1>1. CASE Write
  BY <1>1 DEF Write, Next
<1>2. CASE UNCHANGED vars
  BY <1>2
<1> QED
  BY <1>1, <1>2, Zenon DEF ReadersNext, readerVars, dataVars, SetReorderThreshold, Ask, Read, Answer

\* The code's aggregate is a sum in the sense of SumTheorems.
Nets(of, r, is) == [t \in is |-> of[t].give[r] - of[t].take[r]]
LEMMA NetTotal ==
  ASSUME NEW of, NEW r, NEW S, IsFiniteSet(S)
  PROVE  NetOf(of, r, S) = Total(Nets(of, r, S), S)
<1> DEFINE q == Nets(of, r, S)
           P(g) == g = [s \in SUBSET S |->
                          IF s = {} THEN 0
                          ELSE (of[Pick(s)].give[r] - of[Pick(s)].take[r]) + g[s \ {Pick(s)}]]
           h == CHOOSE g : P(g)
           k == CHOOSE g : Sums(q, S, g)
<1>1. NetOf(of, r, S) = h[S]
  BY DEF NetOf, MapThenSumSet, MapThenFoldSet, Pick
<1>2. Sums(q, S, k)
  <2> HIDE DEF q
  <2> QED BY SumsExist
<1>3. \A s \in SUBSET S : s # {} => q[Pick(s)] = of[Pick(s)].give[r] - of[Pick(s)].take[r]
  BY PickIn DEF Nets
<1> HIDE DEF q
<1>4. \A g : P(g) <=> Sums(q, S, g)
  BY <1>3 DEF Sums
<1>5. P(k)
  BY <1>2, <1>4
<1> HIDE DEF P, k
<1>6. P(h)
  BY <1>5
<1>7. Sums(q, S, h)
  BY <1>4, <1>6
<1> HIDE DEF h
<1>8. h[S] = k[S]
  BY <1>2, <1>7, SumsAgree
<1> QED
  BY <1>1, <1>8, TotalSums DEF k, q

\* Orders that are not finished do not count.
LEMMA NetAgrees ==
  ASSUME NEW S, IsFiniteSet(S), NEW r, NEW of, NEW other, \A t \in S : of[t] = other[t]
  PROVE  NetOf(of, r, S) = NetOf(other, r, S)
<1>1. \A t \in S : Nets(of, r, S)[t] = Nets(other, r, S)[t]
  BY DEF Nets
<1>2. Total(Nets(of, r, S), S) = Total(Nets(other, r, S), S)
  BY <1>1, TotalAgrees
<1> QED BY <1>2, NetTotal

\* An order that completes counts for what it takes and gives.
LEMMA NetWith ==
  ASSUME NEW S, IsFiniteSet(S), NEW r \in Rows, NEW of, \A t \in S : of[t] \in Plans,
         NEW u, u \notin S, of[u] \in Plans
  PROVE  /\ NetOf(of, r, S) \in Int
         /\ NetOf(of, r, S \cup {u}) = (of[u].give[r] - of[u].take[r]) + NetOf(of, r, S)
<1> DEFINE B == S \cup {u}
           q == Nets(of, r, S)
           p == Nets(of, r, B)
<1>1. IsFiniteSet(B)
  BY FS_AddElement
<1>2. \A t \in S \cup {u} : of[t].give[r] - of[t].take[r] \in Int
  <2> SUFFICES ASSUME NEW t \in S \cup {u} PROVE of[t].give[r] - of[t].take[r] \in Int
    OBVIOUS
  <2>1. of[t] \in Plans
    OBVIOUS
  <2>2. of[t].give[r] \in Nat /\ of[t].take[r] \in Nat
    BY <2>1, PlanType
  <2> QED BY <2>2
<1>3. /\ \A t \in S : q[t] = p[t] /\ q[t] \in Int
      /\ \A t \in B : p[t] \in Int
      /\ p[u] = of[u].give[r] - of[u].take[r]
  BY <1>2 DEF Nets
<1>4. NetOf(of, r, S) = Total(q, S) /\ NetOf(of, r, B) = Total(p, B)
  BY <1>1, NetTotal
<1> HIDE DEF q, p
<1>5. Total(q, S) = Total(p, S) /\ Total(q, S) \in Int
  BY <1>3, TotalAgrees, TotalType
<1>6. Total(p, B) = p[u] + Total(p, S)
  BY <1>3, TotalWith
<1> QED BY <1>3, <1>4, <1>5, <1>6

----------------------------------------------------------------------------
(* The ledger explains the stock after every commit.                       *)

LEMMA LedgerTotals ==
  \A r \in Rows : LedgerTotal[r] = OpeningStock[r] + corrections[r] + NetOf(plan, r, Finished)
BY DEF LedgerTotal, NetOf

LEMMA LedgerStays ==
  ASSUME LedgerIsStock, UNCHANGED <<onHand, corrections>>, Finished' = Finished,
         \A t \in Finished : plan'[t] = plan[t]
  PROVE  LedgerIsStock' /\ LedgerTotal' = LedgerTotal
<1>1. \A r \in Rows : NetOf(plan', r, Finished) = NetOf(plan, r, Finished)
  BY NetAgrees DEF LedgerIsStock
<1>2. LedgerIsStock'
  BY <1>1 DEF LedgerIsStock
<1>3. LedgerTotal' = [r \in Rows |->
                        OpeningStock[r] + corrections'[r] + NetOf(plan', r, Finished')]
  BY DEF LedgerTotal, NetOf, MapThenSumSet, MapThenFoldSet
<1>4. LedgerTotal = [r \in Rows |-> OpeningStock[r] + corrections[r] + NetOf(plan, r, Finished)]
  BY DEF LedgerTotal, NetOf
<1> QED BY <1>1, <1>2, <1>3, <1>4

\* Placing, revising and cancelling orders moves no stock.
LEMMA ReservingKeepsLedger ==
  ASSUME TypeOK, LedgerIsStock, corrections' = corrections,
         NEW t \in Txns, Cancel(t) \/ \E p \in Plans : Place(t, p) \/ Revise(t, p)
  PROVE  LedgerIsStock' /\ LedgerTotal' = LedgerTotal /\ onHand' = onHand
<1>1. /\ onHand' = onHand
      /\ status[t] \in {"ABSENT", "PENDING"} /\ status'[t] \in {"PENDING", "CANCELLED"}
      /\ \A u \in Txns \ {t} : status'[u] = status[u] /\ plan'[u] = plan[u]
  BY DEF Cancel, Place, Revise, TypeOK
<1>2. Finished' = Finished /\ \A u \in Finished : plan'[u] = plan[u]
  BY <1>1 DEF Finished
<1> QED BY <1>1, <1>2, LedgerStays

LEMMA CompletingKeepsLedger ==
  ASSUME TypeOK, LedgerIsStock, \A r \in Rows : corrections[r] \in Int,
         corrections' = corrections, NEW t \in Txns, Complete(t)
  PROVE  LedgerIsStock'
<1>1. /\ t \notin Finished /\ Finished' = Finished \cup {t} /\ plan' = plan
      /\ \A u \in Finished \cup {t} : plan[u] \in Plans
  BY DEF Complete, TypeOK, Finished
<1>2. ASSUME NEW r \in Rows
      PROVE  onHand'[r] = OpeningStock[r] + corrections[r] + NetOf(plan, r, Finished \cup {t})
  <2>1. /\ NetOf(plan, r, Finished) \in Int
        /\ NetOf(plan, r, Finished \cup {t})
             = (plan[t].give[r] - plan[t].take[r]) + NetOf(plan, r, Finished)
    BY <1>1, NetWith DEF LedgerIsStock
  <2>2. onHand'[r] = onHand[r] - plan[t].take[r] + plan[t].give[r]
    BY DEF Complete
  <2>3. plan[t].take[r] \in Nat /\ plan[t].give[r] \in Nat
    BY <1>1, PlanType
  <2>4. onHand[r] = OpeningStock[r] + corrections[r] + NetOf(plan, r, Finished)
    BY DEF LedgerIsStock
  <2>5. OpeningStock[r] \in Nat /\ corrections[r] \in Int
    BY StockAssumption
  <2> QED BY <2>1, <2>2, <2>3, <2>4, <2>5
<1>3. IsFiniteSet(Finished \cup {t})
  BY FS_AddElement DEF LedgerIsStock
<1> QED BY <1>1, <1>2, <1>3 DEF LedgerIsStock

LEMMA CorrectingKeepsLedger ==
  ASSUME TypeOK, LedgerIsStock, corrections \in [Rows -> Int],
         NEW q \in Rows, NEW delta \in Adjustments, Adjust(q, delta),
         corrections' = [corrections EXCEPT ![q] = @ + delta]
  PROVE  LedgerIsStock'
<1>1. Finished' = Finished /\ plan' = plan
  BY DEF Adjust, Finished
<1>2. ASSUME NEW r \in Rows
      PROVE  onHand'[r] = OpeningStock[r] + corrections'[r] + NetOf(plan, r, Finished)
  <2>1. NetOf(plan, r, Finished) \in Int
    <3>1. \A t \in Finished : Nets(plan, r, Finished)[t] \in Int
      <4> SUFFICES ASSUME NEW t \in Finished PROVE Nets(plan, r, Finished)[t] \in Int
        OBVIOUS
      <4>1. plan[t] \in Plans
        BY DEF Finished, TypeOK
      <4>2. plan[t].give[r] \in Nat /\ plan[t].take[r] \in Nat
        BY <4>1, PlanType
      <4> QED BY <4>2 DEF Nets
    <3> QED BY <3>1, NetTotal, TotalType DEF LedgerIsStock
  <2>2. /\ onHand[r] = OpeningStock[r] + corrections[r] + NetOf(plan, r, Finished)
        /\ OpeningStock[r] \in Nat /\ corrections[r] \in Int /\ delta \in Int
    BY StockAssumption DEF LedgerIsStock
  <2>3. /\ onHand'[r] = IF r = q THEN onHand[r] + delta ELSE onHand[r]
        /\ corrections'[r] = IF r = q THEN corrections[r] + delta ELSE corrections[r]
    BY DEF Adjust, TypeOK
  <2> QED BY <2>1, <2>2, <2>3
<1> QED BY <1>1, <1>2 DEF LedgerIsStock

----------------------------------------------------------------------------
(* What a commit makes old is counted.                                     *)

\* A commit while a report has been read in part.
LEMMA CommitCounts ==
  ASSUME ReadersTyped, SeenIsCurrent,
         NEW what \in {"reservations", "stock", "thresholds"}, Commits(what),
         NEW q \in Queries, seen[q] # Unread
  PROVE  /\ during'[what] # 0
         /\ \A k \in {"reservations", "stock", "thresholds"} : during'[k] = 0 => during[k] = 0
<1>1. q \in QueriesOf[report] /\ q \notin Missing
  BY DEF SeenIsCurrent, Missing
<1>2. report # "none" /\ Missing # {} /\ Missing # QueriesOf[report]
  BY <1>1, QueryKinds DEF Commits
<1>3. Reading
  BY <1>2 DEF Reading
<1>4. during' = [during EXCEPT ![what] = @ + 1]
  BY <1>3 DEF Commits
<1>5. during \in [{"reservations", "stock", "thresholds"} -> Nat]
  BY DEF ReadersTyped
<1>6. during'[what] = during[what] + 1
      /\ \A k \in {"reservations", "stock", "thresholds"} \ {what} : during'[k] = during[k]
  BY <1>4, <1>5
<1> QED BY <1>5, <1>6

\* A commit before the first query or after the last is not counted.
LEMMA CommitKeeps ==
  ASSUME ReadersTyped, SeenIsCurrent, ReservedLast,
         NEW what \in {"reservations", "stock", "thresholds"}, Commits(what)
  PROVE  /\ report' = report /\ seen' = seen /\ Missing' = Missing
         /\ during' \in [{"reservations", "stock", "thresholds"} -> Nat]
         /\ Missing = QueriesOf[report] => during' = Undisturbed
         /\ ~ (report = "availability" /\ seen[<<"single", "reserved">>] # Unread)
<1>1. report' = report /\ seen' = seen /\ Missing' = Missing
  BY DEF Commits, Missing
<1>2. during' \in [{"reservations", "stock", "thresholds"} -> Nat]
  <2>1. during \in [{"reservations", "stock", "thresholds"} -> Nat]
    BY DEF ReadersTyped
  <2>2. CASE Reading
    <3>1. during' = [during EXCEPT ![what] = @ + 1]
      BY <2>2 DEF Commits
    <3>2. during[what] + 1 \in Nat
      BY <2>1
    <3> QED BY <2>1, <3>1, <3>2
  <2>3. CASE ~Reading
    BY <2>1, <2>3 DEF Commits
  <2> QED BY <2>2, <2>3
<1>3. Missing = QueriesOf[report] => during' = Undisturbed
  BY DEF Commits, SeenIsCurrent, Reading
<1>4. ~ (report = "availability" /\ seen[<<"single", "reserved">>] # Unread)
  <2> SUFFICES ASSUME report = "availability", seen[<<"single", "reserved">>] # Unread
               PROVE  FALSE
    OBVIOUS
  <2>1. seen[<<"single", "rows">>] # Unread
    BY DEF ReservedLast
  <2>2. Missing = {}
    BY <2>1, QueryKinds DEF Missing
  <2> QED BY <2>2 DEF Commits
<1> QED BY <1>1, <1>2, <1>3, <1>4

\* A commit of the kind `what` that changes no more than its kind says.
LEMMA CommitKeepsSeen ==
  ASSUME ReadersTyped, SeenIsCurrent, ReservedLast,
         NEW what \in {"reservations", "stock", "thresholds"}, Commits(what),
         what # "stock" => onHand' = onHand /\ LedgerTotal' = LedgerTotal,
         what \notin {"stock", "reservations"} => reserved' = reserved,
         what # "thresholds" => threshold' = threshold
  PROVE  SeenIsCurrent' /\ ReservedLast'
<1>1. /\ report' = report /\ seen' = seen /\ Missing' = Missing
      /\ Missing = QueriesOf[report] => during' = Undisturbed
      /\ ~ (report = "availability" /\ seen[<<"single", "reserved">>] # Unread)
  BY CommitKeeps
<1>2. ReservedLast'
  BY <1>1 DEF ReservedLast
<1>3. ASSUME NEW q \in Queries, seen[q] # Unread
      PROVE  q \in QueriesOf[report] /\ Undated(q)'
  <2>1. q \in QueriesOf[report] /\ Undated(q)
    BY <1>3 DEF SeenIsCurrent
  <2>2. /\ during'[what] # 0
        /\ \A k \in {"reservations", "stock", "thresholds"} : during'[k] = 0 => during[k] = 0
    BY <1>3, CommitCounts
  <2> QED BY <1>1, <2>1, <2>2 DEF Undated
<1> QED BY <1>1, <1>2, <1>3 DEF SeenIsCurrent

----------------------------------------------------------------------------
(* The steps of the reports and of their writers.                          *)

LEMMA ReadersInitially == ReadersInit => ReadersInv
<1> SUFFICES ASSUME ReadersInit PROVE ReadersInv
  OBVIOUS
<1>1. /\ threshold = [r \in Rows |-> 0] /\ corrections = Nothing
      /\ report = "none" /\ seen = NothingSeen /\ during = Undisturbed /\ moved = {}
  BY DEF ReadersInit
<1>2. ReadersTyped
  <2>1. TypeOK
    BY InitTypeOK DEF ReadersInit
  <2>2. SeenTyped
    BY <1>1 DEF SeenTyped, NothingSeen
  <2> QED BY <1>1, <2>1, <2>2, QueryKinds DEF ReadersTyped, Nothing, Undisturbed
<1>3. LedgerIsStock
  <2>1. Finished = {}
    BY DEF ReadersInit, Init, Finished
  <2>2. \A r \in Rows : NetOf(plan, r, Finished) = 0
    <3> SUFFICES ASSUME NEW r \in Rows PROVE NetOf(plan, r, {}) = 0
      BY <2>1
    <3>1. NetOf(plan, r, {}) = Total(Nets(plan, r, {}), {})
      BY NetTotal, FS_EmptySet
    <3> QED BY <3>1, TotalEmpty
  <2>3. \A r \in Rows : onHand[r] = OpeningStock[r] + corrections[r] + 0
    <3> SUFFICES ASSUME NEW r \in Rows
                 PROVE  onHand[r] = OpeningStock[r] + corrections[r] + 0
      OBVIOUS
    <3>1. onHand[r] = OpeningStock[r] /\ corrections[r] = 0
      BY <1>1 DEF ReadersInit, Init, Nothing
    <3>2. OpeningStock[r] \in Nat
      BY StockAssumption
    <3> QED BY <3>1, <3>2
  <2> QED BY <2>1, <2>2, <2>3, FS_EmptySet DEF LedgerIsStock
<1>4. SeenIsCurrent /\ ReservedLast
  BY <1>1 DEF SeenIsCurrent, ReservedLast, NothingSeen
<1>5. SummedHolds
  BY <1>1 DEF SummedHolds, Summed
<1> QED BY <1>2, <1>3, <1>4, <1>5 DEF ReadersInv

LEMMA AskKeeps ==
  ASSUME ReadersInv, NEW k \in Reports, Ask(k)
  PROVE  ReadersInv'
<1>1. /\ report = "none" /\ report' = k /\ k \in DOMAIN QueriesOf
      /\ UNCHANGED <<vars, threshold, corrections, seen, during, moved>>
  BY DEF Ask, dataVars, Reports
<1>2. \A q \in Queries : seen[q] = Unread
  BY <1>1, QueryKinds DEF ReadersInv, SeenIsCurrent
<1>3. during = Undisturbed
  BY <1>1, QueryKinds DEF ReadersInv, SeenIsCurrent, Missing
<1>4. ReadersTyped'
  BY <1>1 DEF ReadersInv, ReadersTyped, TypeOK, SeenTyped, vars
<1>5. LedgerIsStock'
  BY <1>1, LedgerStays DEF ReadersInv, vars, Finished
<1>6. <<"single", "reserved">> \in Queries
  BY QueryKinds
<1>7. SummedHolds'
  BY <1>1, <1>2, TakenIsAQuery DEF SummedHolds, Summed
<1>8. SeenIsCurrent' /\ ReservedLast'
  BY <1>1, <1>2, <1>3, <1>6 DEF SeenIsCurrent, ReservedLast
<1> QED BY <1>4, <1>5, <1>7, <1>8 DEF ReadersInv

\* A query that runs returns what is so; availability asks for its rows first.
LEMMA ReadKeeps ==
  ASSUME ReadersInv, NEW q \in Queries, Read(q)
  PROVE  ReadersInv'
<1>1. /\ seen' = [seen EXCEPT ![q] = Result(q)]
      /\ UNCHANGED <<vars, threshold, corrections, report, during, moved>>
      /\ q \in QueriesOf[report] /\ seen[q] = Unread
  BY DEF Read, Due, dataVars, Missing
<1>0. report = "availability" /\ q = <<"single", "reserved">> => seen[<<"single", "rows">>] # Unread
  <2> SUFFICES ASSUME report = "availability", q = <<"single", "reserved">>
               PROVE  seen[<<"single", "rows">>] # Unread
    OBVIOUS
  <2>1. ReadBefore(q) = {<<"single", "rows">>}
    BY DEF ReadBefore
  <2> QED BY <2>1, QueryKinds DEF Read, Due, Missing
<1>2. UNCHANGED <<onHand, reserved, status, plan>>
  BY <1>1 DEF vars
<1>3. /\ q[2] = "rows" => Result(q) = [onHand |-> onHand, threshold |-> threshold]
      /\ q[2] = "reserved" => Result(q) = reserved
      /\ q[2] = "movements" => Result(q) = LedgerTotal
      /\ q[2] = "row" => Result(q) = onHand[q[1]]
      /\ q[2] = "taken" => Result(q) = reserved[q[1]]
  BY DEF Result
<1>4. /\ DOMAIN seen' = Queries
      /\ \A p \in Queries : seen'[p] = IF p = q THEN Result(q) ELSE seen[p]
  BY <1>1 DEF ReadersInv, ReadersTyped, SeenTyped
<1>5. ReadersTyped'
  <2>1. /\ onHand \in [Rows -> Nat] /\ threshold \in [Rows -> Nat]
        /\ reserved \in [Rows -> Int]
    BY DEF ReadersInv, ReadersTyped, TypeOK
  <2>2. SeenTyped'
    BY <1>3, <1>4, <2>1 DEF ReadersInv, ReadersTyped, SeenTyped, RowsRead
  <2> QED BY <1>1, <1>2, <2>2 DEF ReadersInv, ReadersTyped, TypeOK
<1>6. LedgerIsStock' /\ LedgerTotal' = LedgerTotal
  BY <1>1, <1>2, LedgerStays DEF ReadersInv, Finished
<1>7. ASSUME NEW p \in Queries, seen'[p] # Unread
      PROVE  p \in QueriesOf[report'] /\ Undated(p)'
  <2>1. CASE p = q
    BY <1>1, <1>2, <1>3, <1>4, <1>6, <2>1 DEF Undated
  <2>2. CASE p # q
    <3>1. seen'[p] = seen[p] /\ p \in QueriesOf[report] /\ Undated(p)
      BY <1>4, <1>7, <2>2 DEF ReadersInv, SeenIsCurrent
    <3> QED BY <1>1, <1>2, <1>6, <3>1 DEF Undated
  <2> QED BY <2>1, <2>2
<1>8. Missing' = QueriesOf[report'] => during' = Undisturbed
  <2> SUFFICES ASSUME Missing' = QueriesOf[report'] PROVE during = Undisturbed
    BY <1>1
  <2>1. \A p \in QueriesOf[report] : seen'[p] = Unread
    BY <1>1 DEF Missing
  <2>2. \A p \in QueriesOf[report] : seen[p] = Unread
    BY <1>1, <1>4, <2>1, QueryKinds DEF ReadersInv, ReadersTyped
  <2>3. Missing = QueriesOf[report]
    BY <2>2 DEF Missing
  <2> QED BY <2>3 DEF ReadersInv, SeenIsCurrent
<1>9. ReservedLast'
  <2> DEFINE rows == <<"single", "rows">>
             held == <<"single", "reserved">>
  <2> SUFFICES ASSUME report = "availability", seen'[held] # Unread
               PROVE  seen'[rows] # Unread /\ seen'[held] = reserved
    BY <1>1, <1>2 DEF ReservedLast
  <2>1. held \in Queries /\ rows \in Queries /\ held # rows
    BY QueryKinds
  <2>2. CASE q = held
    <3>1. seen'[held] = reserved
      BY <1>3, <1>4, <2>1, <2>2
    <3>2. seen'[rows] # Unread
      BY <1>0, <1>4, <2>1, <2>2
    <3> QED BY <3>1, <3>2
  <2>3. CASE q # held
    <3>1. seen[rows] # Unread /\ seen[held] = reserved
      BY <1>4, <2>1, <2>3 DEF ReadersInv, ReservedLast
    <3>2. q # rows
      BY <1>1, <3>1
    <3> QED BY <1>4, <2>1, <2>3, <3>1, <3>2
  <2> QED BY <2>2, <2>3
<1>10. SummedHolds'
  <2> SUFFICES ASSUME NEW r \in ShownRows, report = "lowStock", seen'[<<r, "taken">>] # Unread, r \notin moved
               PROVE  seen'[<<r, "taken">>] = reserved[r]
    BY <1>1, <1>2 DEF SummedHolds, Summed
  <2>1. CASE q = <<r, "taken">>
    BY <1>3, <1>4, <2>1
  <2>2. CASE q # <<r, "taken">>
    <3>1. seen'[<<r, "taken">>] = seen[<<r, "taken">>]
      BY <1>4, <2>2, TakenIsAQuery
    <3> QED BY <3>1 DEF ReadersInv, SummedHolds, Summed
  <2> QED BY <2>1, <2>2
<1> QED BY <1>5, <1>6, <1>7, <1>8, <1>9, <1>10 DEF ReadersInv, SeenIsCurrent

LEMMA AnswerKeeps ==
  ASSUME ReadersInv, Answer
  PROVE  ReadersInv'
<1>1. /\ report' = "none" /\ seen' = NothingSeen /\ during' = Undisturbed
      /\ UNCHANGED <<vars, threshold, corrections>>
  BY DEF Answer, dataVars
<1>2. UNCHANGED <<onHand, reserved, status, plan>>
  BY <1>1 DEF vars
<1>3. \A q \in Queries : seen'[q] = Unread
  BY <1>1 DEF NothingSeen
<1>4. ReadersTyped'
  <2>1. SeenTyped'
    BY <1>1, <1>3 DEF SeenTyped, NothingSeen
  <2> QED BY <1>1, <1>2, <2>1, QueryKinds DEF ReadersInv, ReadersTyped, TypeOK, Undisturbed
<1>5. LedgerIsStock'
  BY <1>1, <1>2, LedgerStays DEF ReadersInv, Finished
<1>6. SummedHolds'
  BY <1>1 DEF SummedHolds, Summed
<1>7. SeenIsCurrent' /\ ReservedLast'
  BY <1>1, <1>3 DEF SeenIsCurrent, ReservedLast
<1> QED BY <1>4, <1>5, <1>6, <1>7 DEF ReadersInv

\* A commit of the writers; what it keeps of the ledger depends on its kind.
LEMMA CommitKeepsInv ==
  ASSUME ReadersInv, NEW what \in {"reservations", "stock", "thresholds"}, Commits(what),
         TypeOK', threshold' \in [Rows -> Nat], corrections' \in [Rows -> Int],
         LedgerIsStock',
         what # "stock" => onHand' = onHand /\ LedgerTotal' = LedgerTotal,
         what \notin {"stock", "reservations"} => reserved' = reserved,
         what # "thresholds" => threshold' = threshold
  PROVE  ReadersInv'
<1>1. SeenIsCurrent' /\ ReservedLast'
  BY CommitKeepsSeen DEF ReadersInv
<1>2. /\ report' = report /\ seen' = seen
      /\ during' \in [{"reservations", "stock", "thresholds"} -> Nat]
  BY CommitKeeps DEF ReadersInv
<1>3. ReadersTyped'
  BY <1>2 DEF ReadersInv, ReadersTyped, SeenTyped
<1>4. SummedHolds'
  <2>1. moved' = moved \cup {r \in Summed : reserved'[r] # reserved[r]}
    BY DEF Commits
  <2>2. Summed' = Summed
    BY <1>2 DEF Summed, ShownRows
  <2> QED BY <1>2, <2>1, <2>2 DEF ReadersInv, SummedHolds
<1> QED BY <1>1, <1>3, <1>4 DEF ReadersInv

LEMMA WriteKeepsReaders ==
  ASSUME ReadersInv, Write
  PROVE  ReadersInv'
<1>0. TypeOK'
  <2>1. [Next]_vars
    BY ReadersAreLedger DEF ReadersNext
  <2> QED BY <2>1, NextTypeOK DEF ReadersInv, ReadersTyped
<1>1. /\ TypeOK /\ LedgerIsStock /\ corrections \in [Rows -> Int] /\ threshold \in [Rows -> Nat]
  BY DEF ReadersInv, ReadersTyped
<1>2. ASSUME NEW t \in Txns, Cancel(t) \/ \E p \in Plans : Place(t, p) \/ Revise(t, p),
             Commits("reservations"), UNCHANGED <<threshold, corrections>>
      PROVE  ReadersInv'
  <2>1. LedgerIsStock' /\ LedgerTotal' = LedgerTotal /\ onHand' = onHand
    BY <1>1, <1>2, ReservingKeepsLedger
  <2> QED BY <1>0, <1>1, <1>2, <2>1, CommitKeepsInv
<1>3. ASSUME NEW t \in Txns, Complete(t), Commits("stock"), UNCHANGED <<threshold, corrections>>
      PROVE  ReadersInv'
  <2>1. LedgerIsStock'
    BY <1>1, <1>3, CompletingKeepsLedger
  <2> QED BY <1>0, <1>1, <1>3, <2>1, CommitKeepsInv
<1>4. ASSUME NEW r \in Rows, NEW delta \in Adjustments, Adjust(r, delta),
             corrections' = [corrections EXCEPT ![r] = @ + delta],
             Commits("stock"), UNCHANGED threshold
      PROVE  ReadersInv'
  <2>1. LedgerIsStock'
    BY <1>1, <1>4, CorrectingKeepsLedger
  <2>2. corrections' \in [Rows -> Int]
    BY <1>1, <1>4, StockAssumption
  <2> QED BY <1>0, <1>1, <1>4, <2>1, <2>2, CommitKeepsInv
<1> QED BY <1>2, <1>3, <1>4 DEF Write

LEMMA ThresholdKeeps ==
  ASSUME ReadersInv, NEW r \in Rows, NEW n \in Thresholds, SetReorderThreshold(r, n)
  PROVE  ReadersInv'
<1>1. /\ Commits("thresholds") /\ UNCHANGED <<onHand, reserved, status, plan, corrections>>
      /\ threshold' = [threshold EXCEPT ![r] = n]
  BY DEF SetReorderThreshold, vars
<1>2. LedgerIsStock' /\ LedgerTotal' = LedgerTotal
  BY <1>1, LedgerStays DEF ReadersInv, Finished
<1>3. TypeOK' /\ threshold' \in [Rows -> Nat] /\ corrections' \in [Rows -> Int]
  BY <1>1, ReadersAssumption DEF ReadersInv, ReadersTyped, TypeOK
<1> QED BY <1>1, <1>2, <1>3, CommitKeepsInv

LEMMA ReadersInductive ==
  ASSUME ReadersInv, [ReadersNext]_readerVars
  PROVE  ReadersInv'
<1>1. CASE Write
  BY <1>1, WriteKeepsReaders
<1>2. CASE \E r \in Rows, n \in Thresholds : SetReorderThreshold(r, n)
  BY <1>2, ThresholdKeeps
<1>3. CASE \E k \in Reports : Ask(k)
  BY <1>3, AskKeeps
<1>4. CASE \E q \in Queries : Read(q)
  BY <1>4, ReadKeeps
<1>5. CASE Answer
  BY <1>5, AnswerKeeps
<1>6. CASE UNCHANGED readerVars
  <2>1. UNCHANGED <<onHand, reserved, status, plan, threshold, corrections, report, seen, during, moved>>
    BY <1>6 DEF readerVars, dataVars, vars
  <2>2. LedgerIsStock' /\ LedgerTotal' = LedgerTotal
    BY <2>1, LedgerStays DEF ReadersInv, Finished
  <2>3. ReadersTyped'
    BY <2>1 DEF ReadersInv, ReadersTyped, TypeOK, SeenTyped
  <2>4. SeenIsCurrent' /\ ReservedLast'
    BY <2>1, <2>2 DEF ReadersInv, SeenIsCurrent, Undated, ReservedLast, Missing
  <2>5. SummedHolds'
    BY <2>1 DEF ReadersInv, SummedHolds, Summed
  <2> QED BY <2>2, <2>3, <2>4, <2>5 DEF ReadersInv
<1> QED BY <1>1, <1>2, <1>3, <1>4, <1>5, <1>6 DEF ReadersNext

----------------------------------------------------------------------------
(* The answers.                                                            *)

\* All queries of a report have returned.
LEMMA AllSeen ==
  ASSUME ReadersInv, NEW k \in Reports, Ready(k), NEW q \in QueriesOf[k]
  PROVE  q \in Queries /\ seen[q] # Unread /\ Undated(q)
<1>1. report = k /\ Missing = {} /\ q \in Queries
  BY QueryKinds DEF Ready, Reports
<1>2. seen[q] # Unread
  BY <1>1 DEF Missing
<1> QED BY <1>1, <1>2 DEF ReadersInv, SeenIsCurrent

\* Whatever orders are placed, revised or cancelled while availability is read.
LEMMA AvailabilityIsSo ==
  ASSUME ReadersInv, Ready("availability"), during["stock"] = 0
  PROVE  \A r \in Rows :
           /\ AvailableIn(seen, "single")[r] = onHand[r] - reserved[r]
           /\ seen[<<"single", "rows">>].threshold[r] \in Nat
           /\ onHand[r] \in Nat /\ reserved[r] \in Int
<1> DEFINE rows == <<"single", "rows">>
           held == <<"single", "reserved">>
<1>1. /\ rows \in Queries /\ held \in Queries
      /\ seen[rows] # Unread /\ seen[held] # Unread /\ Undated(rows)
  BY AllSeen, QueryKinds DEF Reports
<1>2. seen[held] = reserved
  BY <1>1 DEF ReadersInv, ReservedLast, Ready
<1>3. seen[rows].onHand = onHand
  BY <1>1 DEF Undated
<1>4. seen[rows] \in RowsRead /\ onHand \in [Rows -> Nat] /\ reserved \in [Rows -> Int]
  BY <1>1 DEF ReadersInv, ReadersTyped, SeenTyped, TypeOK
<1>5. seen[rows].threshold \in [Rows -> Nat]
  BY <1>4 DEF RowsRead
<1> QED BY <1>2, <1>3, <1>4, <1>5 DEF AvailableIn

\* Availability and the routing of an order are right when they are answered, and
\* each line of the low stock page that nobody has ordered since it was summed,
\* unless stock itself moved while they were read, however many orders are placed,
\* revised and cancelled in between.
THEOREM AnswersAreTrue == ReadersSpec => []AnswersAreCurrent
<1>1. ASSUME ReadersInv PROVE AvailabilityIsCurrent
  <2> SUFFICES ASSUME Ready("availability"), during["stock"] = 0
               PROVE  AvailableIn(seen, "single") = [r \in Rows |-> onHand[r] - reserved[r]]
    BY DEF AvailabilityIsCurrent
  <2>1. AvailableIn(seen, "single") = [r \in Rows |-> AvailableIn(seen, "single")[r]]
    BY DEF AvailableIn
  <2> QED BY <1>1, <2>1, AvailabilityIsSo
<1>3. ASSUME ReadersInv PROVE LowStockIsTrue
  <2> DEFINE listed == seen[<<"single", "rows">>]
  <2> SUFFICES ASSUME Ready("lowStock"), during["stock"] = 0, NEW r \in ShownRows
               PROVE  /\ listed.onHand[r] - seen[<<r, "taken">>] = LineAvailable(seen, r)
                      /\ r \notin moved =>
                           /\ LineAvailable(seen, r) = onHand[r] - reserved[r]
                           /\ RiskLevel(onHand[r] - reserved[r], listed.threshold[r]) # "OK"
                                => r \in LowStock(seen)
                           /\ RiskLevel(onHand[r] - reserved[r], listed.threshold[r]) = "AT_RISK"
                                => Deficit(seen, r) > 0
                           /\ Deficit(seen, r) > 0 => r \in LowStock(seen)
    BY DEF LowStockIsTrue
  <2>1. /\ <<"single", "rows">> \in QueriesOf["lowStock"] /\ r \in Rows
        /\ <<r, "row">> \in QueriesOf["lowStock"] /\ <<r, "taken">> \in QueriesOf["lowStock"]
    BY QueryKinds, TakenIsAQuery DEF ShownRows
  <2>2. /\ listed # Unread /\ seen[<<r, "taken">>] # Unread
        /\ Undated(<<"single", "rows">>) /\ Undated(<<r, "row">>)
        /\ <<"single", "rows">> \in Queries
    BY <1>3, <2>1, AllSeen, QueryKinds DEF Reports
  <2>3. listed.onHand = onHand /\ seen[<<r, "row">>] = onHand[r]
    BY <2>2 DEF Undated
  <2>4. onHand[r] \in Nat /\ reserved[r] \in Int /\ listed.threshold[r] \in Nat
    BY <1>3, <2>1, <2>2 DEF ReadersInv, ReadersTyped, SeenTyped, TypeOK, RowsRead
  <2>5. listed.onHand[r] - seen[<<r, "taken">>] = LineAvailable(seen, r)
    BY <2>3 DEF LineAvailable
  <2>6. ASSUME r \notin moved
        PROVE  /\ LineAvailable(seen, r) = onHand[r] - reserved[r]
               /\ RiskLevel(onHand[r] - reserved[r], listed.threshold[r]) # "OK"
                    => r \in LowStock(seen)
               /\ RiskLevel(onHand[r] - reserved[r], listed.threshold[r]) = "AT_RISK"
                    => Deficit(seen, r) > 0
               /\ Deficit(seen, r) > 0 => r \in LowStock(seen)
    <3> DEFINE free == onHand[r] - reserved[r]
               least == listed.threshold[r]
    <3>1. r \in Summed
      BY <2>2 DEF Summed, Ready
    <3>2. LineAvailable(seen, r) = free
      BY <1>3, <2>3, <2>6, <3>1 DEF ReadersInv, SummedHolds, LineAvailable
    <3>3. free \in Int /\ least \in Nat
      BY <2>4
    <3>4. /\ r \in LowStock(seen) <=> free <= least
          /\ Deficit(seen, r) = AtLeastZero(least - free)
      BY <3>2 DEF LowStock, Deficit
    <3> HIDE DEF free, least
    <3>5. /\ RiskLevel(free, least) # "OK" => free <= least
          /\ RiskLevel(free, least) = "AT_RISK" => AtLeastZero(least - free) > 0
          /\ AtLeastZero(least - free) > 0 => free <= least
      BY <3>3 DEF RiskLevel, AtLeastZero
    <3> QED BY <3>2, <3>4, <3>5 DEF free, least
  <2> QED BY <2>5, <2>6
<1>2. ASSUME ReadersInv PROVE EligibleMeansReservable
  <2> SUFFICES ASSUME Ready("availability"), during["stock"] = 0, NEW o \in Orders,
                      NEW w \in Warehouses
               PROVE  w \in Eligible(seen, o) <=> Reservable(o, w)
    BY DEF EligibleMeansReservable, Eligible
  <2>1. ASSUME NEW p \in DOMAIN o, NEW r \in RowsFor(o, w)
        PROVE  AvailableIn(seen, "single")[r] >= o[p] <=> reserved[r] + o[p] <= onHand[r]
    <3>1. r \in Rows /\ o[p] \in Nat
      BY ReadersAssumption DEF RowsFor
    <3> QED BY <1>2, <3>1, AvailabilityIsSo
  <2> QED BY <2>1 DEF Eligible, Reservable
<1> QED BY <1>1, <1>2, <1>3, ReadersInitially, ReadersInductive, PTL DEF ReadersSpec, AnswersAreCurrent

\* A reconciliation never finds a mismatch that is one, and no row is ever both
\* out of stock and to be restocked: when a report shows it, something was
\* committed between its queries.
THEOREM AnomaliesComeFromRaces == ReadersSpec => []AnomaliesAreRaces
<1>1. ASSUME ReadersInv, Ready("reconcile"), during["stock"] = 0 PROVE Mismatches(seen) = {}
  <2>1. /\ Undated(<<"single", "rows">>) /\ Undated(<<"single", "movements">>)
    BY <1>1, AllSeen, QueryKinds DEF Reports
  <2>2. seen[<<"single", "rows">>].onHand = onHand /\ seen[<<"single", "movements">>] = LedgerTotal
    BY <1>1, <2>1 DEF Undated
  <2>3. \A r \in Rows : LedgerTotal[r] = onHand[r]
    BY <1>1, LedgerTotals DEF ReadersInv, LedgerIsStock
  <2> QED BY <2>2, <2>3 DEF Mismatches
<1>2. ASSUME ReadersInv, Ready("tower"), \A k \in DOMAIN during : during[k] = 0,
             NEW r \in StockoutAlerts(seen) \cap RestockAlerts(seen)
      PROVE  FALSE
  <2>1. during["stock"] = 0 /\ during["reservations"] = 0 /\ during["thresholds"] = 0
    BY <1>2 DEF ReadersInv, ReadersTyped
  <2>2. /\ Undated(<<"risk", "rows">>) /\ Undated(<<"risk", "reserved">>)
        /\ Undated(<<"restock", "rows">>) /\ Undated(<<"restock", "reserved">>)
    BY <1>2, AllSeen, QueryKinds DEF Reports
  <2>3. /\ seen[<<"risk", "rows">>].onHand = seen[<<"restock", "rows">>].onHand
        /\ seen[<<"risk", "rows">>].threshold = seen[<<"restock", "rows">>].threshold
        /\ seen[<<"risk", "reserved">>] = seen[<<"restock", "reserved">>]
    BY <2>1, <2>2 DEF Undated
  <2>4. Level(seen, "risk", r) = Level(seen, "restock", r)
    BY <2>3 DEF Level, AvailableIn
  <2> QED BY <1>2, <2>4 DEF StockoutAlerts, RestockAlerts
<1>3. ASSUME ReadersInv PROVE AnomaliesAreRaces
  <2>1. during \in [{"reservations", "stock", "thresholds"} -> Nat]
    BY <1>3 DEF ReadersInv, ReadersTyped
  <2>2. \A k \in DOMAIN during : during[k] = 0 \/ during[k] > 0
    BY <2>1
  <2>3. MismatchesAreRaces
    BY <1>1, <1>3, <2>1, <2>2 DEF MismatchesAreRaces
  <2>4. BothAlertsAreRaces
    BY <1>2, <1>3, <2>2 DEF BothAlertsAreRaces
  <2> QED BY <2>3, <2>4 DEF AnomaliesAreRaces
<1> QED BY <1>3, ReadersInitially, ReadersInductive, PTL DEF ReadersSpec

\* However many rows, orders and commits, a report is true or something has moved
\* while it was read.
THEOREM ReportsAreTrue == ReadersSpec => []ReportsAreTrueOrRaced
BY AnswersAreTrue, AnomaliesComeFromRaces, PTL DEF ReportsAreTrueOrRaced

----------------------------------------------------------------------------
(* The ranking, for any suppliers and statistics.                          *)

StatsTyped == \E S \in SUBSET Suppliers : stats \in [S -> Candidate]

LEMMA FactorsAreFinite == IsFiniteSet(Factors)
<1>1. IsFiniteSet({"price"})
  BY FS_Singleton
<1>2. IsFiniteSet({"price"} \cup {"onTime"})
  BY <1>1, FS_AddElement
<1>3. IsFiniteSet(({"price"} \cup {"onTime"}) \cup {"cancellations"})
  BY <1>2, FS_AddElement
<1>4. IsFiniteSet((({"price"} \cup {"onTime"}) \cup {"cancellations"}) \cup {"history"})
  BY <1>3, FS_AddElement
<1>5. Factors = (({"price"} \cup {"onTime"}) \cup {"cancellations"}) \cup {"history"}
  BY DEF Factors
<1> QED BY <1>4, <1>5

\* Between the worst and the best of what is known of a factor, some way or none.
LEMMA Scales ==
  ASSUME StatsTyped, NEW f \in Factors, NEW s \in DOMAIN stats, Known(s, f)
  PROVE  /\ stats[s][f] \in Int /\ BestOf(f) \in Int /\ WorstOf(f) \in Int
         /\ WorstOf(f) <= stats[s][f] /\ stats[s][f] <= BestOf(f)
<1> DEFINE K == {t \in DOMAIN stats : Known(t, f)}
           q == [t \in DOMAIN stats |-> stats[t][f]]
<1>1. PICK S \in SUBSET Suppliers : stats \in [S -> Candidate]
  BY DEF StatsTyped
<1>2. IsFiniteSet(K) /\ s \in K
  <2>1. IsFiniteSet(Suppliers) /\ K \subseteq Suppliers
    BY <1>1, RankingAssumption
  <2> QED BY <2>1, FS_Subset
<1>3. \A t \in K : stats[t][f] \in Int
  BY <1>1, RankingAssumption DEF Known, Candidate, Factors
<1>4. \A t \in K : q[t] \in Int /\ q[t] = stats[t][f]
  BY <1>3
<1>5. {stats[t][f] : t \in K} = {q[t] : t \in K}
  BY <1>4
<1> HIDE DEF q, K
<1>6. /\ Max({q[t] : t \in K}) \in Int /\ Min({q[t] : t \in K}) \in Int
      /\ \A t \in K : Min({q[u] : u \in K}) <= q[t] /\ q[t] <= Max({q[u] : u \in K})
  <2>1. K # {}
    BY <1>2
  <2>2. Max({q[t] : t \in K}) \in Int /\ \A t \in K : Max({q[u] : u \in K}) >= q[t]
    BY <1>2, <1>4, <2>1, MaxOfValues
  <2>3. Min({q[t] : t \in K}) \in Int /\ \A t \in K : Min({q[u] : u \in K}) <= q[t]
    BY <1>2, <1>4, <2>1, MinOfValues
  <2> QED BY <1>4, <2>2, <2>3
<1>7. BestOf(f) = Max({q[t] : t \in K}) /\ WorstOf(f) = Min({q[t] : t \in K})
  BY <1>5 DEF BestOf, WorstOf, K
<1> QED BY <1>2, <1>4, <1>6, <1>7

LEMMA DenominatorsArePositive ==
  ASSUME StatsTyped, NEW s \in Evaluated
  PROVE  \A f \in Factors : Denominator(f) \in Int /\ Denominator(f) > 0
<1> SUFFICES ASSUME NEW f \in Factors PROVE Denominator(f) \in Int /\ Denominator(f) > 0
  OBVIOUS
<1>1. s \in DOMAIN stats /\ Known(s, f)
  BY DEF Evaluated
<1>2. BestOf(f) \in Int /\ WorstOf(f) \in Int /\ WorstOf(f) <= BestOf(f)
  BY <1>1, Scales
<1> QED BY <1>2 DEF Denominator, Span

LEMMA OthersArePositive ==
  ASSUME StatsTyped, NEW s \in Evaluated, NEW f \in Factors
  PROVE  Others(f) \in Int /\ Others(f) > 0
<1> DEFINE D(g) == IF g = f THEN 1 ELSE Denominator(g)
<1>1. \A g \in Factors : D(g) \in Int /\ D(g) > 0
  BY DenominatorsArePositive
<1>2. \A m, n \in Int : m > 0 /\ n > 0 => m * n \in Int /\ m * n > 0
  OBVIOUS
<1>3. Others(f) = ((D("price") * D("onTime")) * D("cancellations")) * D("history")
  BY DEF Others
<1>4. /\ D("price") \in Int /\ D("onTime") \in Int /\ D("cancellations") \in Int /\ D("history") \in Int
      /\ D("price") > 0 /\ D("onTime") > 0 /\ D("cancellations") > 0 /\ D("history") > 0
  BY <1>1 DEF Factors
<1> HIDE DEF D
<1>5. D("price") * D("onTime") \in Int /\ D("price") * D("onTime") > 0
  BY <1>2, <1>4
<1>6. /\ (D("price") * D("onTime")) * D("cancellations") \in Int
      /\ (D("price") * D("onTime")) * D("cancellations") > 0
  BY <1>2, <1>4, <1>5
<1> QED BY <1>2, <1>3, <1>4, <1>6

LEMMA Shares ==
  ASSUME StatsTyped, NEW s \in Evaluated, NEW f \in Factors
  PROVE  Share(s, f) \in Int
<1>1. s \in DOMAIN stats /\ Known(s, f)
  BY DEF Evaluated
<1>2. BestOf(f) \in Int /\ WorstOf(f) \in Int /\ stats[s][f] \in Int
  BY <1>1, Scales
<1> QED BY <1>2 DEF Share

\* A factor's part in the score.
Parts(s) == [f \in Factors |-> (Weight[f] * Share(s, f)) * Others(f)]

LEMMA ScoreIsSum == \A s : Score(s) = Total(Parts(s), Factors)
<1> SUFFICES ASSUME NEW s PROVE Score(s) = Total(Parts(s), Factors)
  OBVIOUS
<1> DEFINE q == Parts(s)
           P(g) == g = [u \in SUBSET Factors |->
                          IF u = {} THEN 0
                          ELSE ((Weight[Pick(u)] * Share(s, Pick(u))) * Others(Pick(u)))
                                 + g[u \ {Pick(u)}]]
           h == CHOOSE g : P(g)
           k == CHOOSE g : Sums(q, Factors, g)
<1>1. Score(s) = h[Factors]
  BY DEF Score, MapThenSumSet, MapThenFoldSet, Pick
<1>2. Sums(q, Factors, k)
  <2> HIDE DEF q
  <2> QED BY FactorsAreFinite, SumsExist
<1>3. \A u \in SUBSET Factors : u # {} =>
        q[Pick(u)] = (Weight[Pick(u)] * Share(s, Pick(u))) * Others(Pick(u))
  BY PickIn DEF Parts
<1> HIDE DEF q
<1>4. \A g : P(g) <=> Sums(q, Factors, g)
  BY <1>3 DEF Sums
<1>5. P(k)
  BY <1>2, <1>4
<1> HIDE DEF P, k
<1>6. P(h)
  BY <1>5
<1>7. Sums(q, Factors, h)
  BY <1>4, <1>6
<1> HIDE DEF h
<1>8. Total(q, Factors) = k[Factors]
  BY TotalSums DEF k
<1>9. h[Factors] = k[Factors]
  BY <1>2, <1>7, FactorsAreFinite, SumsAgree
<1> QED BY <1>1, <1>8, <1>9 DEF q

LEMMA PartsAreNumbers ==
  ASSUME StatsTyped, NEW s \in Evaluated
  PROVE  (\A f \in Factors : Parts(s)[f] \in Int) /\ Score(s) \in Int
<1>1. ASSUME NEW f \in Factors PROVE Parts(s)[f] \in Int
  <2>1. Weight[f] \in Int /\ Share(s, f) \in Int /\ Others(f) \in Int
    BY Shares, OthersArePositive DEF Weight, Factors
  <2>2. \A m, n \in Int : m * n \in Int
    OBVIOUS
  <2> QED BY <2>1, <2>2 DEF Parts
<1> QED BY <1>1, ScoreIsSum, FactorsAreFinite, TotalType

\* Every part of the score follows its factor, and so the score does.
LEMMA BetterScoresHigher ==
  ASSUME StatsTyped, NEW s, NEW t, Dominates(s, t)
  PROVE  Score(s) > Score(t)
<1>1. s \in Evaluated /\ t \in Evaluated
  BY DEF Dominates
<1>2. ASSUME NEW f \in Factors
      PROVE  /\ Share(s, f) >= Share(t, f)
             /\ ~AtLeastAsGood(t, s, f) => Share(s, f) > Share(t, f)
  <2>1. s \in DOMAIN stats /\ t \in DOMAIN stats /\ Known(s, f) /\ Known(t, f)
    BY <1>1 DEF Evaluated
  <2>2. /\ stats[s][f] \in Int /\ stats[t][f] \in Int /\ BestOf(f) \in Int /\ WorstOf(f) \in Int
        /\ WorstOf(f) <= stats[s][f] /\ stats[s][f] <= BestOf(f)
        /\ WorstOf(f) <= stats[t][f] /\ stats[t][f] <= BestOf(f)
    BY <2>1, Scales
  <2>3. AtLeastAsGood(s, t, f)
    BY DEF Dominates
  <2> QED BY <2>2, <2>3 DEF AtLeastAsGood, Share, Span
<1>3. ASSUME NEW f \in Factors
      PROVE  /\ Parts(t)[f] <= Parts(s)[f]
             /\ ~AtLeastAsGood(t, s, f) => Parts(t)[f] < Parts(s)[f]
  <2>1. Weight[f] \in Int /\ Weight[f] > 0
    BY DEF Weight, Factors
  <2>2. Others(f) \in Int /\ Others(f) > 0
    BY <1>1, OthersArePositive
  <2>3. Share(s, f) \in Int /\ Share(t, f) \in Int
    BY <1>1, Shares
  <2>4. \A a, b, m \in Int : m > 0 => (a >= b => m * a >= m * b) /\ (a > b => m * a > m * b)
                                      /\ m * a \in Int
    OBVIOUS
  <2>5. /\ Weight[f] * Share(s, f) >= Weight[f] * Share(t, f)
        /\ ~AtLeastAsGood(t, s, f) => Weight[f] * Share(s, f) > Weight[f] * Share(t, f)
        /\ Weight[f] * Share(s, f) \in Int /\ Weight[f] * Share(t, f) \in Int
    BY <1>2, <2>1, <2>3, <2>4
  <2>6. \A a, b, m \in Int : m > 0 => (a >= b => b * m <= a * m) /\ (a > b => b * m < a * m)
    OBVIOUS
  <2> DEFINE a == Weight[f] * Share(s, f)
             b == Weight[f] * Share(t, f)
  <2>7. Parts(s)[f] = a * Others(f) /\ Parts(t)[f] = b * Others(f)
    BY DEF Parts
  <2>8. a \in Int /\ b \in Int /\ a >= b /\ (~AtLeastAsGood(t, s, f) => a > b)
    BY <2>5
  <2> HIDE DEF a, b
  <2> QED BY <2>2, <2>6, <2>7, <2>8
<1>4. PICK f \in Factors : ~AtLeastAsGood(t, s, f)
  BY DEF Dominates
<1>5. (\A g \in Factors : Parts(s)[g] \in Int /\ Parts(t)[g] \in Int)
        /\ Score(s) \in Int /\ Score(t) \in Int
  BY <1>1, PartsAreNumbers
<1>6. Total(Parts(t), Factors) < Total(Parts(s), Factors)
  BY <1>3, <1>4, <1>5, FactorsAreFinite, TotalStrictlyMonotone
<1> QED BY <1>5, <1>6, ScoreIsSum

LEMMA OrderIsStrict ==
  ASSUME StatsTyped
  PROVE  StrictOrder(RankOrder, DOMAIN stats) /\ IsFiniteSet(DOMAIN stats) /\ DOMAIN stats \subseteq Int
<1>1. DOMAIN stats \subseteq Suppliers
  BY DEF StatsTyped
<1>2. IsFiniteSet(DOMAIN stats) /\ DOMAIN stats \subseteq Int
  BY <1>1, FS_Subset, RankingAssumption
<1>3. \A s \in Evaluated : Score(s) \in Int
  BY PartsAreNumbers
<1>4. ASSUME NEW s \in DOMAIN stats, NEW t \in DOMAIN stats
      PROVE  <<s, t>> \in RankOrder <=> Before(s, t)
  <2>1. <<s, t>>[1] = s /\ <<s, t>>[2] = t
    OBVIOUS
  <2>3. <<s, t>> \in (DOMAIN stats) \X (DOMAIN stats)
    OBVIOUS
  <2>2. <<s, t>> \in RankOrder <=> Before(<<s, t>>[1], <<s, t>>[2])
    BY <2>3, Zenon DEF RankOrder
  <2> QED BY <2>1, <2>2
<1>5. \A s, t, u \in DOMAIN stats : Before(s, t) /\ Before(t, u) => Before(s, u)
  BY <1>2, <1>3 DEF Before
<1>6. \A s, t \in DOMAIN stats : ~Before(s, s) /\ (s # t => Before(s, t) \/ Before(t, s))
  BY <1>2, <1>3 DEF Before
<1> QED BY <1>2, <1>4, <1>5, <1>6 DEF StrictOrder

RankingInv == StatsTyped /\ (ranking = <<>> \/ ranking = Sorted(DOMAIN stats, RankOrder))

LEMMA RankingInductive ==
  /\ RankingInit => RankingInv
  /\ RankingInv /\ [RankingNext]_rankingVars => RankingInv'
<1>1. RankingInit => RankingInv
  BY DEF RankingInit, RankingInv, StatsTyped
<1>2. ASSUME RankingInv, [RankingNext]_rankingVars PROVE RankingInv'
  <2>1. stats' = stats
    BY <1>2 DEF RankingNext, RankSuppliers, rankingVars
  <2>2. ranking' = ranking \/ ranking' = Sorted(DOMAIN stats, RankOrder)
    BY <1>2 DEF RankingNext, RankSuppliers, rankingVars
  <2>3. RankOrder' = RankOrder
    BY <2>1 DEF RankOrder, Before, Evaluated, Known, Score, Share, Others, Denominator, Span, BestOf, WorstOf,
       MapThenSumSet, MapThenFoldSet
  <2> QED BY <1>2, <2>1, <2>2, <2>3 DEF RankingInv, StatsTyped
<1> QED BY <1>1, <1>2

\* The first of a set of suppliers is one of them, and none of them is before it.
LEMMA FirstIsFirst ==
  ASSUME StatsTyped, ranking = Sorted(DOMAIN stats, RankOrder), NEW S, S \subseteq DOMAIN stats, S # {}
  PROVE  /\ FirstOf(S) \in S
         /\ \A t \in S \ {FirstOf(S)} : Before(FirstOf(S), t)
         /\ \A T \in SUBSET S : FirstOf(S) \in T => FirstOf(T) = FirstOf(S)
<1> DEFINE n == Cardinality(DOMAIN stats)
           At(T) == {k \in DOMAIN ranking : ranking[k] \in T}
<1>1. /\ n \in Nat /\ ranking \in [1..n -> DOMAIN stats]
      /\ \A x \in DOMAIN stats : \E i \in 1..n : ranking[i] = x
      /\ \A i, j \in 1..n : i < j => <<ranking[i], ranking[j]>> \in RankOrder
  <2>1. n \in Nat
    BY OrderIsStrict, FS_CardinalityType
  <2>2. /\ ranking \in [1..n -> DOMAIN stats]
        /\ \A x \in DOMAIN stats : \E i \in 1..n : ranking[i] = x
        /\ \A i, j \in 1..n : i < j => <<ranking[i], ranking[j]>> \in RankOrder
    BY OrderIsStrict, SortedIsSorted
  <2> HIDE DEF n
  <2> QED BY <2>1, <2>2
<1> HIDE DEF n
<1>2. ASSUME NEW T, T \subseteq DOMAIN stats, T # {}
      PROVE  Min(At(T)) \in At(T) /\ \A k \in At(T) : Min(At(T)) <= k
  <2>1. At(T) \subseteq Nat /\ At(T) # {}
    <3>1. DOMAIN ranking = 1..n /\ 1..n \subseteq Nat
      BY <1>1
    <3>2. PICK x \in T : x \in DOMAIN stats
      BY <1>2
    <3>3. PICK i \in 1..n : ranking[i] = x
      BY <1>1, <3>2
    <3> QED BY <3>1, <3>2, <3>3
  <2> HIDE DEF At
  <2>2. \E m \in At(T) : \A k \in At(T) : m <= k
    BY <2>1, LeastNat
  <2> QED BY <2>2 DEF Min
<1> DEFINE m == Min(At(S))
<1>3. m \in 1..n /\ ranking[m] \in S /\ \A k \in 1..n : ranking[k] \in S => m <= k
  <2>1. DOMAIN ranking = 1..n
    BY <1>1
  <2>2. Min(At(S)) \in At(S) /\ \A k \in At(S) : Min(At(S)) <= k
    BY <1>2
  <2> QED BY <2>1, <2>2
<1>4. FirstOf(S) = ranking[m]
  BY DEF FirstOf
<1> HIDE DEF m
<1>5. ASSUME NEW t \in S, t # ranking[m] PROVE Before(ranking[m], t)
  <2>1. PICK k \in 1..n : ranking[k] = t
    BY <1>1
  <2>2. m < k
    BY <1>1, <1>3, <1>5, <2>1
  <2>3. <<ranking[m], t>> \in RankOrder
    BY <1>1, <1>3, <2>1, <2>2
  <2>4. <<ranking[m], t>>[1] = ranking[m] /\ <<ranking[m], t>>[2] = t
    OBVIOUS
  <2>5. Before(<<ranking[m], t>>[1], <<ranking[m], t>>[2])
    BY <2>3, Zenon DEF RankOrder
  <2> QED BY <2>4, <2>5
<1>6. ASSUME NEW T \in SUBSET S, ranking[m] \in T PROVE FirstOf(T) = ranking[m]
  <2>1. Min(At(T)) \in At(T) /\ \A k \in At(T) : Min(At(T)) <= k
    BY <1>2, <1>6
  <2>2. m \in At(T) /\ \A k \in At(T) : m <= k /\ k \in Int
    BY <1>1, <1>3, <1>6
  <2>3. Min(At(T)) = m
    <3> DEFINE k == Min(At(T))
    <3>1. k \in At(T) /\ k <= m
      BY <2>1, <2>2
    <3>2. k \in Int /\ m \in Int /\ m <= k
      BY <2>2, <3>1
    <3> HIDE DEF k
    <3>3. k = m
      BY <3>1, <3>2
    <3> QED BY <3>3 DEF k
  <2> QED BY <1>6, <2>3 DEF FirstOf
<1> QED BY <1>3, <1>4, <1>5, <1>6

\* For any suppliers, prices, rates and histories, the ranking follows the factors, and
\* so do the agent's choices from it.
THEOREM BetterSuppliersFirst == RankingSpec => []BetterRanksFirst
<1>1. ASSUME RankingInv, ranking # <<>> PROVE BetterRanksFirst
  <2>0. StatsTyped /\ ranking = Sorted(DOMAIN stats, RankOrder)
    BY <1>1 DEF RankingInv
  <2>1. ASSUME NEW i \in DOMAIN ranking, NEW j \in DOMAIN ranking,
               \/ Dominates(ranking[i], ranking[j])
               \/ ranking[i] \in Evaluated /\ ranking[j] \notin Evaluated
        PROVE  i < j
    <3> DEFINE s == ranking[i]
               t == ranking[j]
               n == Cardinality(DOMAIN stats)
    <3>1. /\ n \in Nat /\ ranking \in [1..n -> DOMAIN stats] 
          /\ \A k, l \in 1..n : k < l => <<ranking[k], ranking[l]>> \in RankOrder
      BY <2>0, OrderIsStrict, SortedIsSorted, FS_CardinalityType
    <3>2. i \in Int /\ j \in Int /\ s \in DOMAIN stats /\ t \in DOMAIN stats
      BY <3>1
    <3>3. ~Before(t, s) /\ s # t
      <4>1. CASE Dominates(s, t)
        <5>1. Score(s) > Score(t) /\ s \in Evaluated /\ t \in Evaluated
          BY <2>0, <4>1, BetterScoresHigher DEF Dominates
        <5>2. Score(s) \in Int /\ Score(t) \in Int
          BY <2>0, <5>1, PartsAreNumbers
        <5> QED BY <5>1, <5>2 DEF Before
      <4>2. CASE s \in Evaluated /\ t \notin Evaluated
        BY <4>2 DEF Before
      <4> QED BY <2>1, <4>1, <4>2
    <3>4. j < i => Before(t, s)
      <4> SUFFICES ASSUME j < i PROVE Before(t, s)
        OBVIOUS
      <4>1. <<t, s>> \in RankOrder
        BY <3>1
      <4>2. Before(<<t, s>>[1], <<t, s>>[2])
        BY <4>1, Zenon DEF RankOrder
      <4> QED BY <4>2
    <3>5. i # j
      BY <3>3
    <3> HIDE DEF s, t
    <3> QED BY <3>2, <3>3, <3>4, <3>5
  <2>2. ASSUME NEW s \in DOMAIN stats
        PROVE  /\ AlternativeTo(s) # s
               /\ \A t \in Evaluated \ {s} :
                    AlternativeTo(s) # Unavailable /\ ~Dominates(t, AlternativeTo(s))
               /\ s # RecommendedSupplier => AlternativeTo(s) = RecommendedSupplier
    <3> DEFINE E == Evaluated \ {s}
               a == FirstOf(E)
    <3>1. Evaluated \subseteq DOMAIN stats /\ Unavailable \notin DOMAIN stats
      BY <2>0, RankingAssumption DEF Evaluated, StatsTyped
    <3>2. AlternativeTo(s) = a
      BY DEF AlternativeTo
    <3>3. CASE E = {}
      <4>1. a = Unavailable
        BY <3>3 DEF FirstOf
      <4>2. s # RecommendedSupplier => RecommendedSupplier = Unavailable
        <5>1. CASE Evaluated = {}
          BY <5>1 DEF RecommendedSupplier, FirstOf
        <5>2. CASE Evaluated # {}
          <6>1. FirstOf(Evaluated) \in Evaluated
            BY <2>0, <3>1, <5>2, FirstIsFirst
          <6> QED BY <3>3, <6>1 DEF RecommendedSupplier
        <5> QED BY <5>1, <5>2
      <4> QED BY <3>1, <3>2, <3>3, <4>1, <4>2
    <3>4. CASE E # {}
      <4>1. a \in E /\ \A t \in E \ {a} : Before(a, t)
        <5> HIDE DEF E
        <5>1. E \subseteq DOMAIN stats
          BY <3>1 DEF E
        <5> QED BY <2>0, <3>4, <5>1, FirstIsFirst
      <4>2. ASSUME NEW t \in E PROVE ~Dominates(t, a)
        <5> SUFFICES ASSUME Dominates(t, a) PROVE FALSE
          OBVIOUS
        <5>1. Score(t) > Score(a) /\ t \in Evaluated /\ a \in Evaluated
          BY <2>0, BetterScoresHigher DEF Dominates
        <5>2. Score(t) \in Int /\ Score(a) \in Int
          BY <2>0, <5>1, PartsAreNumbers
        <5>3. t # a
          BY <5>1, <5>2
        <5>4. Before(a, t)
          BY <4>1, <5>3
        <5> HIDE DEF a
        <5> QED BY <5>1, <5>2, <5>4 DEF Before
      <4>3. ASSUME s # RecommendedSupplier PROVE a = RecommendedSupplier
        <5>1. FirstOf(Evaluated) \in Evaluated
          BY <2>0, <3>1, <3>4, FirstIsFirst
        <5>2. FirstOf(Evaluated) \in E
          BY <4>3, <5>1 DEF RecommendedSupplier
        <5>3. E \in SUBSET Evaluated
          OBVIOUS
        <5> HIDE DEF E
        <5>4. FirstOf(E) = FirstOf(Evaluated)
          BY <2>0, <3>1, <5>1, <5>2, <5>3, FirstIsFirst
        <5> QED BY <5>4 DEF RecommendedSupplier
      <4>4. a # s /\ a # Unavailable
        BY <3>1, <4>1
      <4> QED BY <3>2, <4>2, <4>3, <4>4
    <3> QED BY <3>3, <3>4
  <2> QED BY <2>1, <2>2 DEF BetterRanksFirst
<1>2. RankingInv => BetterRanksFirst
  BY <1>1 DEF BetterRanksFirst
<1> QED BY <1>2, RankingInductive, PTL DEF RankingSpec

----------------------------------------------------------------------------
(* The suggestions, for any catalogue, names and answers of the model.     *)

MatchingTyped ==
  /\ kind \in {"product", "supplier"} /\ extracted \in ExtractedNames
  /\ offered \subseteq Catalogue

LEMMA MatchScores ==
  ASSUME MatchingTyped, NEW k \in offered
  PROVE  MatchScore(NameOf[k]) \in Int
<1> DEFINE mine == ToSet(NameOf[k])
           theirs == ToSet(extracted)
           overlap == (100 * Cardinality(mine \cap theirs)) \div Cardinality(mine \cup theirs)
           bonus == IF Includes(NameOf[k], extracted) \/ Includes(extracted, NameOf[k])
                    THEN 25 ELSE 0
           cap == IF Conflict(mine, theirs) THEN MaxConflictingScore ELSE 100
<1>1. IsFiniteSet(mine) /\ IsFiniteSet(theirs) /\ mine # {}
  BY MatchingAssumption DEF MatchingTyped
<1>2. MatchScore(NameOf[k]) = IF NameOf[k] = extracted THEN 100 ELSE Min({overlap + bonus, cap})
  BY Zenon DEF MatchScore
<1>3. overlap \in Int
  <2> HIDE DEF mine, theirs
  <2> DEFINE m == Cardinality(mine \cap theirs)
             n == Cardinality(mine \cup theirs)
  <2>1. IsFiniteSet(mine \cap theirs) /\ IsFiniteSet(mine \cup theirs)
    BY <1>1, FS_Intersection, FS_Union
  <2>2. m \in Nat /\ n \in Nat
    BY <2>1, FS_CardinalityType
  <2>3. n # 0
    <3>1. mine \cup theirs # {}
      BY <1>1
    <3> QED BY <2>1, <3>1, FS_EmptySet
  <2> HIDE DEF m, n
  <2>4. (100 * m) \div n \in Int
    BY <2>2, <2>3
  <2> QED BY <2>4 DEF m, n
<1>4. bonus \in Int /\ cap \in Int
  BY DEF MaxConflictingScore
<1> HIDE DEF overlap, bonus, cap
<1>5. Min({overlap + bonus, cap}) \in Int
  <2>1. \E x \in {overlap + bonus, cap} : \A y \in {overlap + bonus, cap} : x <= y
    BY <1>3, <1>4
  <2>2. Min({overlap + bonus, cap}) \in {overlap + bonus, cap}
    BY <2>1 DEF Min
  <2> QED BY <1>3, <1>4, <2>2
<1> QED BY <1>2, <1>5

\* What is ranked are the entities that are similar enough, each once, better ones first.
LEMMA RankedIsRanked ==
  ASSUME MatchingTyped
  PROVE  \E n \in Nat :
           /\ Ranked \in [1..n -> Similar]
           /\ \A k \in Similar : \E i \in 1..n : Ranked[i] = k
           /\ \A i, j \in 1..n : i < j => ScoresHigher(Ranked[i], Ranked[j]) /\ Ranked[i] # Ranked[j]
<1> DEFINE n == Cardinality(Similar)
<1>1. Similar \subseteq offered /\ offered \subseteq Int /\ IsFiniteSet(Similar)
  <2>1. Similar \subseteq offered /\ offered \subseteq Catalogue
    BY DEF Similar, MatchingTyped
  <2> QED BY <2>1, MatchingAssumption, FS_Subset
<1>2. \A k \in Similar : MatchScore(NameOf[k]) \in Int /\ k \in Int
  BY <1>1, MatchScores
<1>3. \A j, k \in Similar : <<j, k>> \in ScoreOrder <=> ScoresHigher(j, k)
  BY DEF ScoreOrder
<1>4. /\ \A k \in Similar : ~ScoresHigher(k, k)
      /\ \A j, k \in Similar : j # k => ScoresHigher(j, k) \/ ScoresHigher(k, j)
      /\ \A i, j, k \in Similar : ScoresHigher(i, j) /\ ScoresHigher(j, k) => ScoresHigher(i, k)
  BY <1>2 DEF ScoresHigher
<1>5. StrictOrder(ScoreOrder, Similar)
  BY <1>3, <1>4 DEF StrictOrder
<1>6. Ranked = Sorted(Similar, ScoreOrder)
  BY DEF Ranked
<1>7. n \in Nat
  BY <1>1, FS_CardinalityType
<1>8. /\ Ranked \in [1..n -> Similar]
      /\ \A i, j \in 1..n : i < j => <<Ranked[i], Ranked[j]>> \in ScoreOrder
  BY <1>1, <1>5, <1>6, SortedIsSorted
<1>9. \A k \in Similar : \E i \in 1..n : Ranked[i] = k
  BY <1>1, <1>5, <1>6, SortedIsSorted
<1> HIDE DEF n
<1>10. ASSUME NEW i \in 1..n, NEW j \in 1..n, i < j
       PROVE  ScoresHigher(Ranked[i], Ranked[j]) /\ Ranked[i] # Ranked[j]
  <2>1. <<Ranked[i], Ranked[j]>> \in ScoreOrder /\ Ranked[i] \in Similar /\ Ranked[j] \in Similar
    BY <1>8, <1>10
  <2> QED BY <1>3, <1>4, <2>1
<1> QED BY <1>7, <1>8, <1>9, <1>10

\* A suggestion lists the ids it is made of, in their order.
IsSuggestion(v, answer, ids, proposal, n) ==
  /\ v.status = answer /\ v.proposal = proposal
  /\ DOMAIN v.list = 1..n /\ Len(v.list) = n /\ (n = 0 => v.list = <<>>)
  /\ \A i \in 1..n : v.list[i].id = ids[i] /\ v.list[i].named
                     /\ v.list[i].reasoned /\ v.list[i].inRange
LEMMA SuggestionList ==
  ASSUME NEW answer, NEW proposal, NEW n \in Nat, NEW ids \in Seq(Catalogue), Len(ids) = n
  PROVE  IsSuggestion(Suggestion(answer, ids, proposal), answer, ids, proposal, n)
<1> DEFINE Item(k) == [id |-> k, named |-> TRUE, reasoned |-> TRUE, inRange |-> TRUE]
           l == [i \in DOMAIN ids |-> Item(ids[i])]
           Items == {Item(k) : k \in Catalogue}
<1>1. DOMAIN ids = 1..n /\ \A i \in 1..n : ids[i] \in Catalogue
  BY LenProperties
<1>2. l \in [1..n -> Items]
  BY <1>1
<1>3. l \in Seq(Items)
  <2> HIDE DEF l, Items
  <2> QED BY <1>2, SeqDef
<1>4. Len(l) = n /\ DOMAIN l = 1..n /\ (n = 0 => l = <<>>)
  <2> HIDE DEF l, Items
  <2>1. DOMAIN l = 1..n /\ DOMAIN l = 1..Len(l) /\ Len(l) \in Nat
    BY <1>2, <1>3, LenProperties
  <2>2. l # <<>> => Len(l) \in Nat \ {0}
    BY <1>3, EmptySeq
  <2> QED BY <2>1, <2>2
<1>5. \A i \in 1..n : l[i].id = ids[i] /\ l[i].named /\ l[i].reasoned /\ l[i].inRange
  BY <1>1
<1>6. Suggestion(answer, ids, proposal) = [status |-> answer, proposal |-> proposal, list |-> l]
  BY DEF Suggestion
<1> HIDE DEF l
<1> QED BY <1>4, <1>5, <1>6 DEF IsSuggestion

\* What is made of similar names has no other proposal than NoMatch's, and so is never stray.
LEMMA NoMatchIsAccepted ==
  ASSUME MatchingTyped
  PROVE  BackendAccepts(NoMatch) /\ NoMatch.status = "NO_MATCH"
<1> DEFINE p == IF kind = "product" THEN [named |-> TRUE, category |-> NoCategory] ELSE NoProposal
           v == Suggestion("NO_MATCH", <<>>, p)
<1>1. NoMatch = v
  BY DEF NoMatch
<1>2. <<>> \in Seq(Catalogue) /\ Len(<<>>) = 0
  BY EmptySeq
<1>3. /\ v.status = "NO_MATCH" /\ v.proposal = p
      /\ DOMAIN v.list = {} /\ Len(v.list) = 0 /\ v.list = <<>>
  <2>1. 0 \in Nat /\ 1..0 = {}
    OBVIOUS
  <2> HIDE DEF p
  <2>2. IsSuggestion(v, "NO_MATCH", <<>>, p, 0)
    BY <1>2, <2>1, SuggestionList
  <2> HIDE DEF v
  <2> QED BY <2>1, <2>2 DEF IsSuggestion
<1> HIDE DEF v
<1>4. kind \in {"product", "supplier"}
  BY DEF MatchingTyped
<1>5. p = NoProposal \/ SoundProposal(p)
  BY DEF SoundProposal
<1>6. kind = "product" => p # NoProposal
  BY MatchingAssumption
<1>7. kind = "supplier" => p = NoProposal
  BY <1>4
<1> HIDE DEF p
<1>8. ListsReal(v) /\ FitsStatus(v)
  BY <1>3 DEF ListsReal, FitsStatus, IsInjective
<1>9. ~Owed(v) /\ ~Stray(v)
  BY <1>3, <1>4, <1>6, <1>7 DEF Owed, Stray
<1> QED BY <1>1, <1>3, <1>5, <1>8, <1>9 DEF BackendAccepts

\* A list of different real entities makes an acceptable answer with either status.
LEMMA ListIsAccepted ==
  ASSUME MatchingTyped, NEW answer \in {"RESOLVED", "UNRESOLVED"},
         NEW n \in 1..3, answer = "RESOLVED" => n = 1,
         NEW ids \in Seq(Catalogue), Len(ids) = n,
         \A i \in 1..n : ids[i] \in offered,
         \A i, j \in 1..n : i < j => ids[i] # ids[j]
  PROVE  BackendAccepts(Suggestion(answer, ids, NoProposal))
<1> DEFINE v == Suggestion(answer, ids, NoProposal)
<1>1. /\ v.status = answer /\ v.proposal = NoProposal
      /\ DOMAIN v.list = 1..n /\ Len(v.list) = n
      /\ \A i \in 1..n : v.list[i].id = ids[i] /\ v.list[i].named
                         /\ v.list[i].reasoned /\ v.list[i].inRange
  <2>1. n \in Nat
    OBVIOUS
  <2>2. IsSuggestion(v, answer, ids, NoProposal, n)
    BY <2>1, SuggestionList
  <2> HIDE DEF v
  <2> QED BY <2>2 DEF IsSuggestion
<1> HIDE DEF v
<1>2. ListsReal(v)
  <2>1. ASSUME NEW i \in 1..n, NEW j \in 1..n, ids[i] = ids[j] PROVE i = j
    <3>1. ~(i < j) /\ ~(j < i) /\ i \in Int /\ j \in Int
      BY <2>1
    <3> QED BY <3>1
  <2>2. IsInjective([i \in DOMAIN v.list |-> v.list[i].id])
    BY <1>1, <2>1 DEF IsInjective
  <2> QED BY <1>1, <2>2 DEF ListsReal
<1>3. FitsStatus(v)
  BY <1>1 DEF FitsStatus
<1>4. ~Owed(v) /\ ~Stray(v)
  BY <1>1 DEF Owed, Stray
<1>5. v.status # "none" /\ v.proposal = NoProposal /\ \A i \in DOMAIN v.list : v.list[i].named
  BY <1>1
<1>6. BackendAccepts(v)
  BY <1>2, <1>3, <1>4, <1>5 DEF BackendAccepts
<1> QED BY <1>6 DEF v

Exact == {k \in offered : NameOf[k] = extracted}
KeepsTheRules(v) ==
  /\ BackendAccepts(v)
  /\ v.status = "RESOLVED" => Exact = {v.list[1].id}
  /\ v.status = "UNRESOLVED" =>
       \A k \in offered, i \in DOMAIN v.list :
         MatchScore(NameOf[k]) > MatchScore(NameOf[v.list[i].id]) =>
           \E j \in DOMAIN v.list : v.list[j].id = k

LEMMA FuzzyMatchKeepsTheRules ==
  ASSUME MatchingTyped
  PROVE  KeepsTheRules(FuzzyMatch)
<1>1. PICK n \in Nat :
        /\ Ranked \in [1..n -> Similar]
        /\ \A k \in Similar : \E i \in 1..n : Ranked[i] = k
        /\ \A i, j \in 1..n : i < j => ScoresHigher(Ranked[i], Ranked[j]) /\ Ranked[i] # Ranked[j]
  BY RankedIsRanked
<1>2. Similar \subseteq offered /\ offered \subseteq Catalogue /\ Exact \subseteq offered
  BY DEF Similar, MatchingTyped, Exact
<1>3. Ranked \in Seq(Similar) /\ Len(Ranked) = n
  <2>1. Ranked \in Seq(Similar)
    BY <1>1, SeqDef
  <2> DEFINE l == Len(Ranked)
  <2>2. 1..n = 1..l /\ l \in Nat
    BY <1>1, <2>1, LenProperties
  <2> HIDE DEF l
  <2>3. l = n
    <3>1. n # 0 => n \in 1..l
      BY <2>2
    <3>2. l # 0 => l \in 1..n
      BY <2>2
    <3> QED BY <2>2, <3>1, <3>2
  <2> QED BY <2>1, <2>3 DEF l
<1>4. CASE Ranked = <<>>
  <2>1. FuzzyMatch = NoMatch
    BY <1>4 DEF FuzzyMatch
  <2> QED BY <2>1, NoMatchIsAccepted DEF KeepsTheRules
<1>5. CASE Ranked # <<>> /\ Cardinality(Exact) = 1
  <2> DEFINE k == CHOOSE j \in Exact : TRUE
             v == Suggestion("RESOLVED", <<k>>, NoProposal)
  <2>1. FuzzyMatch = v
    BY <1>5 DEF FuzzyMatch, Exact
  <2>2. Exact = {k} /\ k \in offered /\ k \in Catalogue
    <3>1. IsFiniteSet(Exact)
      BY <1>2, MatchingAssumption, FS_Subset
    <3>2. PICK j : Exact = {j}
      BY <1>5, <3>1, FS_Singleton
    <3> QED BY <1>2, <3>2
  <2> HIDE DEF k
  <2>3. <<k>> \in Seq(Catalogue) /\ Len(<<k>>) = 1 /\ <<k>>[1] = k
    BY <2>2
  <2>4. BackendAccepts(v)
    <3>1. 1 \in 1..3 /\ \A i \in 1..1 : i = 1
      OBVIOUS
    <3>2. \A i \in 1..1 : <<k>>[i] \in offered
      BY <2>2, <2>3, <3>1
    <3>3. \A i, j \in 1..1 : i < j => <<k>>[i] # <<k>>[j]
      OBVIOUS
    <3> HIDE DEF v
    <3> QED BY <2>3, <3>1, <3>2, <3>3, ListIsAccepted DEF v
  <2>5. v.status = "RESOLVED" /\ v.list[1].id = k
    <3>1. 1 \in Nat /\ 1 \in 1..1
      OBVIOUS
    <3>2. IsSuggestion(v, "RESOLVED", <<k>>, NoProposal, 1)
      BY <2>3, <3>1, SuggestionList
    <3> HIDE DEF v
    <3> QED BY <2>3, <3>1, <3>2 DEF IsSuggestion
  <2> HIDE DEF v
  <2> QED BY <2>1, <2>2, <2>4, <2>5 DEF KeepsTheRules
<1>6. CASE Ranked # <<>> /\ Cardinality(Exact) # 1
  <2> DEFINE m == Min({3, Len(Ranked)})
             ids == SubSeq(Ranked, 1, m)
             v == Suggestion("UNRESOLVED", ids, NoProposal)
  <2>1. FuzzyMatch = v
    BY <1>6 DEF FuzzyMatch, Exact
  <2>2. n # 0
    BY <1>3, <1>6, EmptySeq
  <2>3. m \in 1..3 /\ m <= n /\ (m < n => m = 3)
    <3>1. \E x \in {3, n} : \A y \in {3, n} : x <= y
      OBVIOUS
    <3>2. Min({3, n}) \in {3, n} /\ \A y \in {3, n} : Min({3, n}) <= y
      BY <3>1 DEF Min
    <3>3. m = Min({3, n})
      BY <1>3
    <3> HIDE DEF m
    <3> QED BY <2>2, <3>2, <3>3
  <2> HIDE DEF m
  <2>4. /\ ids \in Seq(Catalogue) /\ Len(ids) = m
        /\ \A i \in 1..m : ids[i] = Ranked[i] /\ i \in 1..n
    <3>1. \A i \in 1..m : i \in 1..n /\ Ranked[i] \in Catalogue
      BY <1>1, <1>2, <2>3
    <3>2. 1 \in Int /\ m \in Int /\ 1 <= m /\ m - 1 + 1 = m
      BY <2>3
    <3>3. /\ ids \in Seq(Catalogue) /\ Len(ids) = IF 1 <= m THEN m - 1 + 1 ELSE 0
          /\ \A i \in 1..(m - 1 + 1) : ids[i] = Ranked[1 + i - 1]
      BY <3>1, <3>2, SubSeqProperties
    <3>4. \A i \in 1..m : 1 + i - 1 = i
      BY <2>3
    <3> HIDE DEF ids
    <3> QED BY <3>1, <3>2, <3>3, <3>4
  <2> HIDE DEF ids
  <2>5. BackendAccepts(v)
    <3>1. \A i \in 1..m : ids[i] \in offered
      BY <1>1, <1>2, <2>4
    <3>2. \A i, j \in 1..m : i < j => ids[i] # ids[j]
      BY <1>1, <2>4
    <3> HIDE DEF v
    <3> QED BY <2>3, <2>4, <3>1, <3>2, ListIsAccepted DEF v
  <2>6. /\ v.status = "UNRESOLVED" /\ DOMAIN v.list = 1..m
        /\ \A i \in 1..m : v.list[i].id = Ranked[i]
    <3>1. m \in Nat
      BY <2>3
    <3>2. /\ v.status = "UNRESOLVED" /\ DOMAIN v.list = 1..m
          /\ \A i \in 1..m : v.list[i].id = ids[i]
      <4>1. IsSuggestion(v, "UNRESOLVED", ids, NoProposal, m)
        BY <2>4, <3>1, SuggestionList
      <4> HIDE DEF v
      <4> QED BY <4>1 DEF IsSuggestion
    <3> HIDE DEF v
    <3> QED BY <2>4, <3>2
  <2> HIDE DEF v
  <2>7. ASSUME NEW k \in offered, NEW i \in 1..m,
               MatchScore(NameOf[k]) > MatchScore(NameOf[Ranked[i]])
        PROVE  \E j \in 1..m : Ranked[j] = k
    <3>1. i \in 1..n /\ Ranked[i] \in Similar
      BY <1>1, <2>4, <2>7
    <3>2. MatchScore(NameOf[k]) \in Int /\ MatchScore(NameOf[Ranked[i]]) \in Int
      BY <1>2, <3>1, MatchScores
    <3>3. k \in Similar
      BY <2>7, <3>1, <3>2 DEF Similar, MinSuggestionScore
    <3>4. PICK j \in 1..n : Ranked[j] = k
      BY <1>1, <3>3
    <3>5. ~ScoresHigher(Ranked[i], k) /\ Ranked[i] # k
      BY <2>7, <3>2 DEF ScoresHigher
    <3>6. ~(i < j) /\ i # j
      BY <1>1, <3>1, <3>4, <3>5
    <3>7. j \in 1..m
      BY <2>3, <3>1, <3>4, <3>6
    <3> QED BY <3>4, <3>7
  <2>8. KeepsTheRules(v)
    BY <2>5, <2>6, <2>7 DEF KeepsTheRules
  <2> QED BY <2>1, <2>8
<1> QED BY <1>4, <1>5, <1>6

----------------------------------------------------------------------------
(* The invariant: the verdict is what the agent's side lets through, the     *)
(* suggestion is the verdict or, when it is refused, the fuzzy match.        *)

LetThrough(x) ==
  x = NoVerdict \/ x = NoMatch \/ \E v \in Verdicts : AgentAccepts(v) /\ x = Cleaned(v)
MatchingInv ==
  /\ MatchingTyped
  /\ stage \in {"start", "asked", "answered", "shown"}
  /\ stage \in {"start", "asked"} => verdict = NoVerdict
  /\ stage \in {"answered", "shown"} => LetThrough(verdict)
  /\ stage = "shown" => shown = IF BackendAccepts(verdict) THEN verdict ELSE FuzzyMatch

\* All that is computed depends on the request and its candidates.
LEMMA ComputedAgain ==
  ASSUME UNCHANGED <<kind, extracted, offered>>
  PROVE  /\ FuzzyMatch' = FuzzyMatch /\ NoMatch' = NoMatch
         /\ \A x : (BackendAccepts(x) <=> BackendAccepts(x)') /\ (LetThrough(x) <=> LetThrough(x)')
<1>1. \A name : MatchScore(name)' = MatchScore(name)
  BY DEF MatchScore
<1>2. Similar' = Similar
  BY <1>1 DEF Similar
<1>3. ScoreOrder' = ScoreOrder
  BY <1>1, <1>2 DEF ScoreOrder, ScoresHigher
<1>4. Ranked' = Ranked
  BY <1>2, <1>3 DEF Ranked
<1>5. NoMatch' = NoMatch
  BY DEF NoMatch
<1>6. FuzzyMatch' = FuzzyMatch
  BY <1>4, <1>5 DEF FuzzyMatch
<1>7. \A x : /\ Owed(x)' <=> Owed(x)
             /\ Stray(x)' <=> Stray(x)
             /\ ListsReal(x)' <=> ListsReal(x)
             /\ \A q : SoundProposal(q)' <=> SoundProposal(q)
  BY DEF Owed, Stray, ListsReal, SoundProposal, RealCategories
<1>8. \A x : Cleaned(x)' = Cleaned(x)
  BY <1>7 DEF Cleaned
<1>9. \A x : (AgentAccepts(x) <=> AgentAccepts(x)') /\ (BackendAccepts(x) <=> BackendAccepts(x)')
  BY <1>7, <1>8 DEF AgentAccepts, BackendAccepts
<1> QED BY <1>5, <1>6, <1>8, <1>9 DEF LetThrough

LEMMA MatchingInitially == MatchingInit => MatchingInv
BY DEF MatchingInit, MatchingInv, MatchingTyped

LEMMA MatchingInductive == MatchingInv /\ [MatchingNext]_matchingVars => MatchingInv'
<1> SUFFICES ASSUME MatchingInv, [MatchingNext]_matchingVars PROVE MatchingInv'
  OBVIOUS
<1> USE DEF MatchingInv
<1>1. CASE ReadCandidates
  BY <1>1 DEF ReadCandidates, MatchingTyped
<1>2. ASSUME UNCHANGED <<kind, extracted, offered, shown>>, stage = "asked", stage' = "answered",
             LetThrough(verdict')
      PROVE  MatchingInv'
  <2>1. LetThrough(verdict)'
    BY <1>2, ComputedAgain
  <2> QED BY <1>2, <2>1 DEF MatchingTyped
<1>3. CASE AnswerWithoutModel
  BY <1>2, <1>3 DEF AnswerWithoutModel, LetThrough
<1>4. ASSUME NEW v \in Verdicts, AnswerOfModel(v) PROVE MatchingInv'
  BY <1>2, <1>4 DEF AnswerOfModel, LetThrough
<1>5. CASE AnswerNever
  BY <1>2, <1>5 DEF AnswerNever, LetThrough
<1>6. CASE Suggest
  <2>1. /\ UNCHANGED <<kind, extracted, offered, verdict>> /\ stage = "answered" /\ stage' = "shown"
        /\ shown' = IF BackendAccepts(verdict) THEN verdict ELSE FuzzyMatch
    BY <1>6 DEF Suggest
  <2>2. /\ FuzzyMatch' = FuzzyMatch /\ (BackendAccepts(verdict) <=> BackendAccepts(verdict)')
        /\ (LetThrough(verdict) <=> LetThrough(verdict)')
    BY <2>1, ComputedAgain
  <2> QED BY <2>1, <2>2 DEF MatchingTyped
<1>7. CASE UNCHANGED matchingVars
  <2>1. UNCHANGED <<kind, extracted, offered, verdict, shown, stage>>
    BY <1>7 DEF matchingVars
  <2>2. /\ FuzzyMatch' = FuzzyMatch /\ (BackendAccepts(verdict) <=> BackendAccepts(verdict)')
        /\ (LetThrough(verdict) <=> LetThrough(verdict)')
    BY <2>1, ComputedAgain
  <2> QED BY <2>1, <2>2 DEF MatchingTyped
<1> QED BY <1>1, <1>3, <1>4, <1>5, <1>6, <1>7 DEF MatchingNext

\* What the agent's side accepts and cleans, the backend accepts unless a name is wrong.
LEMMA CleanedIsAccepted ==
  ASSUME MatchingTyped, NEW v \in Verdicts, AgentAccepts(v),
         \A i \in DOMAIN Cleaned(v).list : Cleaned(v).list[i].named
  PROVE  BackendAccepts(Cleaned(v))
<1>1. /\ Cleaned(v).status = v.status /\ Cleaned(v).list = v.list
      /\ Cleaned(v).proposal = IF Stray(v) THEN NoProposal ELSE v.proposal
      /\ v.status # "none"
  BY DEF Cleaned, Verdicts
<1>2. ListsReal(Cleaned(v)) /\ FitsStatus(Cleaned(v))
  BY <1>1 DEF AgentAccepts, ListsReal, FitsStatus
<1>3. ~Stray(Cleaned(v))
  BY <1>1 DEF Stray
<1>4. ~Owed(Cleaned(v))
  BY <1>1 DEF AgentAccepts, Owed, Stray, MatchingTyped
<1>5. Cleaned(v).proposal = NoProposal \/ SoundProposal(Cleaned(v).proposal)
  BY <1>1 DEF AgentAccepts
<1> QED BY <1>1, <1>2, <1>3, <1>4, <1>5 DEF BackendAccepts

\* Whatever the model answers, for any catalogue and names: a suggestion keeps the rules
\* whoever made it, and the two checks of an answer differ only over wrong names.
THEOREM SuggestionsKeepToTheRules == MatchingSpec => []SuggestionsKeepTheRules
<1>1. ASSUME MatchingInv, stage = "shown" PROVE FallbackKeepsTheRules
  <2>1. shown = IF BackendAccepts(verdict) THEN verdict ELSE FuzzyMatch
    BY <1>1 DEF MatchingInv
  <2>2. KeepsTheRules(FuzzyMatch)
    BY <1>1, FuzzyMatchKeepsTheRules DEF MatchingInv
  <2>3. CASE BackendAccepts(verdict)
    BY <2>1, <2>3 DEF FallbackKeepsTheRules
  <2>4. CASE ~BackendAccepts(verdict)
    <3>1. KeepsTheRules(shown)
      BY <2>1, <2>2, <2>4
    <3> QED BY <3>1 DEF KeepsTheRules, Exact, FallbackKeepsTheRules
  <2> QED BY <2>3, <2>4
<1>2. ASSUME MatchingInv PROVE ChecksAgree
  <2> SUFFICES ASSUME stage = "answered", verdict # NoVerdict, ~BackendAccepts(verdict)
               PROVE  \E i \in DOMAIN verdict.list : ~verdict.list[i].named
    BY DEF ChecksAgree
  <2>1. MatchingTyped /\ LetThrough(verdict)
    BY <1>2 DEF MatchingInv
  <2>2. verdict # NoMatch
    BY <2>1, NoMatchIsAccepted
  <2>3. PICK v \in Verdicts : AgentAccepts(v) /\ verdict = Cleaned(v)
    BY <2>1, <2>2 DEF LetThrough
  <2> QED BY <2>1, <2>3, CleanedIsAccepted
<1>3. MatchingInv => SuggestionsKeepTheRules
  BY <1>1, <1>2 DEF FallbackKeepsTheRules, SuggestionsKeepTheRules
<1> QED BY <1>3, MatchingInitially, MatchingInductive, PTL DEF MatchingSpec

----------------------------------------------------------------------------
(* The duplicate check, for any documents, catalogue and likeness of names. *)

\* The total of a document is a sum in the sense of SumTheorems.
LEMMA DocumentTotals ==
  ASSUME NEW c, NEW q, q = [i \in Priced(c) |-> c.lines[i].quantity * c.lines[i].price],
         IsFiniteSet(Priced(c))
  PROVE  DocumentTotal(c) = Total(q, Priced(c))
<1> DEFINE S == Priced(c)
           P(g) == g = [s \in SUBSET S |->
                          IF s = {} THEN 0
                          ELSE (c.lines[Pick(s)].quantity * c.lines[Pick(s)].price) + g[s \ {Pick(s)}]]
           h == CHOOSE g : P(g)
           k == CHOOSE g : Sums(q, S, g)
<1>1. DocumentTotal(c) = h[S]
  BY DEF DocumentTotal, MapThenSumSet, MapThenFoldSet, Pick
<1>2. Sums(q, S, k)
  <2> HIDE DEF S
  <2> QED BY SumsExist DEF S
<1>3. \A s \in SUBSET S : s # {} => q[Pick(s)] = c.lines[Pick(s)].quantity * c.lines[Pick(s)].price
  BY PickIn
<1> HIDE DEF S
<1>4. \A g : P(g) <=> Sums(q, S, g)
  BY <1>3 DEF Sums
<1>5. P(k)
  BY <1>2, <1>4
<1> HIDE DEF P, k
<1>6. P(h)
  BY <1>5
<1>7. Sums(q, S, h)
  BY <1>4, <1>6
<1> HIDE DEF h
<1>8. Total(q, S) = k[S]
  BY TotalSums DEF k
<1>9. h[S] = k[S]
  BY <1>2, <1>7, SumsAgree DEF S
<1> QED BY <1>1, <1>8, <1>9 DEF S

LEMMA TotalsAreNumbers ==
  ASSUME NEW c \in Contents
  PROVE  DocumentTotal(c) \in Int
<1> DEFINE q == [i \in Priced(c) |-> c.lines[i].quantity * c.lines[i].price]
<1>1. Priced(c) \subseteq DOMAIN c.lines /\ IsFiniteSet(DOMAIN c.lines)
  BY DuplicatesAssumption DEF Priced
<1>2. IsFiniteSet(Priced(c))
  BY <1>1, FS_Subset
<1>3. \A m, n \in Nat : m * n \in Int
  OBVIOUS
<1>4. ASSUME NEW i \in Priced(c) PROVE q[i] \in Int
  <2>1. c.lines[i].quantity \in Nat /\ c.lines[i].price \in Nat
    BY <1>1, DuplicatesAssumption DEF Priced
  <2> QED BY <1>3, <2>1
<1>5. DocumentTotal(c) = Total(q, Priced(c))
  BY <1>2, DocumentTotals
<1> HIDE DEF q
<1> QED BY <1>2, <1>4, <1>5, TotalType

LEMMA LargestIn ==
  ASSUME NEW m \in Int, NEW n \in Int, NEW k \in Int
  PROVE  Max({m, n, k}) \in Int /\ Max({m, n, k}) >= k
<1>1. \E x \in {m, n, k} : \A y \in {m, n, k} : x >= y
  OBVIOUS
<1>2. /\ Max({m, n, k}) \in {m, n, k}
      /\ \A y \in {m, n, k} : Max({m, n, k}) >= y
  BY <1>1 DEF Max
<1> QED BY <1>2

\* No signal depends on which of two documents is checked against the other.
LEMMA SignalsAreMutual ==
  ASSUME NEW c \in Contents, NEW d \in Contents, NEW prods
  PROVE  MayBeDuplicate(c, d, prods) <=> MayBeDuplicate(d, c, prods)
<1>1. SameParty(c, d) <=> SameParty(d, c)
  BY DEF SameParty
<1>2. DatesClose(c, d) <=> DatesClose(d, c)
  <2>1. CASE NoDate \in {c.date, d.date}
    BY <2>1 DEF DatesClose
  <2>2. CASE NoDate \notin {c.date, d.date}
    <3>1. c.date \in Int /\ d.date \in Int
      BY <2>2, DuplicatesAssumption
    <3> QED BY <3>1 DEF DatesClose, DateWindow
  <2> QED BY <2>1, <2>2
<1>3. TotalsClose(c, d) <=> TotalsClose(d, c)
  <2> DEFINE m == DocumentTotal(c)
             n == DocumentTotal(d)
             allowed == Max({m, n, 50})
  <2>1. m \in Int /\ n \in Int
    BY TotalsAreNumbers
  <2>2. allowed \in Int /\ Max({n, m, 50}) = allowed
    <3>1. {m, n, 50} = {n, m, 50} /\ 50 \in Int
      OBVIOUS
    <3> HIDE DEF m, n
    <3>2. Max({m, n, 50}) \in Int
      BY <2>1, <3>1, LargestIn
    <3> QED BY <3>1, <3>2, Zenon
  <2>3. 50 * (m - n) \in -allowed..allowed <=> 50 * (n - m) \in -allowed..allowed
    <3> HIDE DEF m, n, allowed
    <3> QED BY <2>1, <2>2
  <2> QED BY <2>2, <2>3 DEF TotalsClose
<1>4. ItemsOverlap(c, d, prods) <=> ItemsOverlap(d, c, prods)
  <2>1. \A S, T : S \cup T = T \cup S /\ S \cap T = T \cap S
    OBVIOUS
  <2> QED BY <2>1 DEF ItemsOverlap
<1>5. Signals(c, d, prods) = Signals(d, c, prods)
  BY <1>1, <1>2, <1>3, <1>4 DEF Signals
<1> QED BY <1>5 DEF MayBeDuplicate

\* A copy of a dated and priced document with a party has three signals of four.
LEMMA CopiesHaveThreeSignals ==
  ASSUME NEW c \in Contents, NEW prods,
         c.party # NoParty, c.date # NoDate, Priced(c) # {}
  PROVE  MayBeDuplicate(c, c, prods)
<1>1. SameParty(c, c)
  BY DEF SameParty
<1>2. DatesClose(c, c)
  BY DuplicatesAssumption DEF DatesClose, DateWindow
<1>3. TotalsClose(c, c)
  <2> DEFINE m == DocumentTotal(c)
             allowed == Max({m, m, 50})
  <2>1. m \in Int
    BY TotalsAreNumbers
  <2>2. allowed \in Int /\ allowed >= 50
    <3> HIDE DEF m
    <3> QED BY <2>1, LargestIn
  <2>3. 50 * (m - m) \in -allowed..allowed
    <3> HIDE DEF m, allowed
    <3> QED BY <2>1, <2>2
  <2> QED BY <2>3 DEF TotalsClose
<1> DEFINE three == {"supplier", "date", "total"}
           all == Signals(c, c, prods)
<1>4. three \subseteq all /\ all \subseteq {"supplier", "date", "total", "items"}
  BY <1>1, <1>2, <1>3 DEF Signals
<1>6. IsFiniteSet(three) /\ Cardinality(three) = 3
  <2>2. IsFiniteSet({"supplier"}) /\ Cardinality({"supplier"}) = 1
    BY FS_Singleton
  <2>3. IsFiniteSet({"supplier"} \cup {"date"}) /\ Cardinality({"supplier"} \cup {"date"}) = 2
    BY <2>2, FS_AddElement
  <2>4. /\ IsFiniteSet(({"supplier"} \cup {"date"}) \cup {"total"})
        /\ Cardinality(({"supplier"} \cup {"date"}) \cup {"total"}) = 3
    BY <2>3, FS_AddElement
  <2>5. ({"supplier"} \cup {"date"}) \cup {"total"} = three
    OBVIOUS
  <2> QED BY <2>4, <2>5
<1>5. IsFiniteSet({"supplier", "date", "total", "items"})
  <2>1. {"supplier", "date", "total", "items"} = three \cup {"items"}
    OBVIOUS
  <2> QED BY <1>6, <2>1, FS_AddElement
<1>7. IsFiniteSet(all) /\ Cardinality(three) <= Cardinality(all) /\ Cardinality(all) \in Nat
  BY <1>4, <1>5, FS_Subset, FS_CardinalityType
<1> HIDE DEF three, all
<1>8. Cardinality(all) >= 3
  BY <1>6, <1>7
<1> QED BY <1>8 DEF MayBeDuplicate, SignalThreshold, all

----------------------------------------------------------------------------
(* The invariant: what a check has found was uploaded before, of two        *)
(* documents that wait the check that reads the pending reviews later finds *)
(* the other, and what is flagged is what was compared.                     *)

DuplicatesTyped ==
  /\ content \in [Papers -> Contents \cup {NotUploaded}]
  /\ waiting \subseteq Papers /\ active \subseteq Catalogue
  /\ check \in [Papers -> [stage : {"idle", "target", "pending", "done"},
                           found : SUBSET Papers, prods : SUBSET Catalogue,
                           flagged : SUBSET Papers]]
UploadedFirst ==
  /\ \A r \in waiting : content[r] # NotUploaded
  /\ \A r \in Papers :
       /\ check[r].stage # "idle" => content[r] # NotUploaded
       /\ \A q \in check[r].found : content[q] # NotUploaded
LaterFindsEarlier ==
  \A q, r \in waiting :
    /\ q # r /\ content[q].incoming = content[r].incoming
    /\ check[q].stage \in {"pending", "done"} /\ check[r].stage \in {"pending", "done"}
    => q \in check[r].found \/ r \in check[q].found
FlaggedIsCompared ==
  \A r \in Papers :
    check[r].flagged = {q \in check[r].found :
      check[r].stage = "done" /\ MayBeDuplicate(content[r], content[q], check[r].prods)}
DuplicatesInv == DuplicatesTyped /\ UploadedFirst /\ LaterFindsEarlier /\ FlaggedIsCompared

LEMMA DuplicatesInitially == DuplicatesInit => DuplicatesInv
BY DEF DuplicatesInit, DuplicatesInv, DuplicatesTyped, UploadedFirst, LaterFindsEarlier,
       FlaggedIsCompared, NoCheck

LEMMA DuplicatesInductive == DuplicatesInv /\ [DuplicatesNext]_duplicateVars => DuplicatesInv'
<1> SUFFICES ASSUME DuplicatesInv, [DuplicatesNext]_duplicateVars PROVE DuplicatesInv'
  OBVIOUS
<1> USE DEF DuplicatesInv
<1>1. ASSUME NEW r \in Papers, NEW c \in Contents, Upload(r, c) PROVE DuplicatesInv'
  <2>1. check[r].stage = "idle" /\ \A q \in Papers : r \notin check[q].found
    BY <1>1 DEF Upload, DuplicatesTyped, UploadedFirst
  <2>2. c # NotUploaded
    BY DuplicatesAssumption
  <2>3. DuplicatesTyped'
    BY <1>1 DEF Upload, DuplicatesTyped
  <2>4. \A q \in Papers \ {r} : content'[q] = content[q]
    BY <1>1 DEF Upload, DuplicatesTyped
  <2>5. content'[r] = c /\ waiting' = waiting \cup {r} /\ check' = check
    BY <1>1 DEF Upload, DuplicatesTyped
  <2>6. UploadedFirst'
    BY <2>1, <2>2, <2>4, <2>5 DEF UploadedFirst, DuplicatesTyped
  <2>7. LaterFindsEarlier'
    BY <2>1, <2>4, <2>5 DEF LaterFindsEarlier, DuplicatesTyped
  <2>8. ASSUME NEW q \in Papers
        PROVE  check'[q].flagged =
                 {p \in check'[q].found :
                    check'[q].stage = "done" /\ MayBeDuplicate(content'[q], content'[p], check'[q].prods)}
    <3>1. check'[q] = check[q] /\ r \notin check[q].found /\ check[q].found \subseteq Papers
      BY <2>1, <2>5 DEF DuplicatesTyped
    <3>2. \A p \in check[q].found : content'[p] = content[p]
      BY <2>4, <3>1
    <3>3. CASE q = r
      BY <2>1, <2>5, <3>3 DEF FlaggedIsCompared
    <3>4. CASE q # r
      BY <2>4, <3>1, <3>2, <3>4 DEF FlaggedIsCompared
    <3> QED BY <3>3, <3>4
  <2> QED BY <2>3, <2>6, <2>7, <2>8 DEF FlaggedIsCompared
<1>2. ASSUME NEW r \in Papers, Settle(r) PROVE DuplicatesInv'
  BY <1>2 DEF Settle, DuplicatesTyped, UploadedFirst, LaterFindsEarlier, FlaggedIsCompared
<1>3. ASSUME NEW k \in Switchable, Switch(k) PROVE DuplicatesInv'
  BY <1>3, DuplicatesAssumption
     DEF Switch, DuplicatesTyped, UploadedFirst, LaterFindsEarlier, FlaggedIsCompared
<1>4. ASSUME NEW r \in Papers, ReadTarget(r) PROVE DuplicatesInv'
  <2>1. /\ UNCHANGED <<content, waiting, active>> /\ DuplicatesTyped'
        /\ content[r] # NotUploaded /\ check'[r].stage = "target"
        /\ check'[r].found = check[r].found
        /\ check[r].stage = "idle" /\ check'[r].flagged = check[r].flagged
        /\ \A q \in Papers \ {r} : check'[q] = check[q]
    BY <1>4 DEF ReadTarget, DuplicatesTyped
  <2>2. UploadedFirst'
    BY <2>1 DEF UploadedFirst, DuplicatesTyped
  <2>3. LaterFindsEarlier'
    BY <2>1 DEF LaterFindsEarlier, DuplicatesTyped
  <2>4. FlaggedIsCompared'
    <3>1. check'[r].flagged = {}
      BY <2>1 DEF FlaggedIsCompared
    <3> QED BY <2>1, <3>1 DEF FlaggedIsCompared
  <2> QED BY <2>1, <2>2, <2>3, <2>4
<1>5. ASSUME NEW r \in Papers, ReadPending(r) PROVE DuplicatesInv'
  <2> DEFINE others == {q \in waiting \ {r} : content[q].incoming = content[r].incoming}
  <2>1. /\ UNCHANGED <<content, waiting, active>> /\ DuplicatesTyped'
        /\ check[r].stage = "target" /\ check'[r].stage \in {"pending", "done"}
        /\ check'[r].found = others /\ check'[r].flagged = check[r].flagged
        /\ (check'[r].stage = "done") => (others = {})
        /\ \A q \in Papers \ {r} : check'[q] = check[q]
    BY <1>5 DEF ReadPending, DuplicatesTyped
  <2>2. UploadedFirst'
    BY <2>1 DEF UploadedFirst, DuplicatesTyped
  <2>3. LaterFindsEarlier'
    BY <2>1 DEF LaterFindsEarlier, DuplicatesTyped
  <2>4. FlaggedIsCompared'
    <3>1. check[r].flagged = {}
      BY <2>1 DEF FlaggedIsCompared
    <3>2. check'[r].flagged = {} /\ (check'[r].found = {} \/ check'[r].stage # "done")
      BY <2>1, <3>1
    <3> QED BY <2>1, <3>2 DEF FlaggedIsCompared
  <2> QED BY <2>1, <2>2, <2>3, <2>4
<1>6. ASSUME NEW r \in Papers, Compare(r) PROVE DuplicatesInv'
  <2> DEFINE copies == {q \in check[r].found : MayBeDuplicate(content[r], content[q], active)}
  <2>0. copies \subseteq check[r].found
    OBVIOUS
  <2>5. check' = [check EXCEPT ![r] = [stage |-> "done", found |-> @.found,
                                       prods |-> active, flagged |-> copies]]
    BY <1>6, Zenon DEF Compare
  <2> HIDE DEF copies
  <2>1. /\ UNCHANGED <<content, waiting, active>> /\ DuplicatesTyped'
        /\ check[r].stage = "pending" /\ check'[r].stage = "done"
        /\ check'[r].found = check[r].found /\ check'[r].prods = active
        /\ check'[r].flagged = copies
        /\ \A q \in Papers \ {r} : check'[q] = check[q]
    <3>1. UNCHANGED <<content, waiting, active>> /\ check[r].stage = "pending"
      BY <1>6 DEF Compare
    <3>2. copies \in SUBSET Papers /\ active \in SUBSET Catalogue
      BY <2>0 DEF DuplicatesTyped
    <3> QED BY <2>5, <3>1, <3>2 DEF DuplicatesTyped
  <2>2. UploadedFirst'
    BY <2>1 DEF UploadedFirst, DuplicatesTyped
  <2>3. LaterFindsEarlier'
    BY <2>1 DEF LaterFindsEarlier, DuplicatesTyped
  <2>4. FlaggedIsCompared'
    BY <2>1 DEF FlaggedIsCompared, copies
  <2> QED BY <2>1, <2>2, <2>3, <2>4
<1>7. CASE UNCHANGED duplicateVars
  BY <1>7 DEF duplicateVars, DuplicatesTyped, UploadedFirst, LaterFindsEarlier, FlaggedIsCompared
<1> QED BY <1>1, <1>2, <1>3, <1>4, <1>5, <1>6, <1>7 DEF DuplicatesNext

\* For any documents, checks and catalogue: two checks that saw each other's document
\* and the same products agree; of two copies that wait one is reported; and a new
\* product never hands a name from one product to another.
THEOREM CopiesAreReported ==
  DuplicatesSpec => [](DuplicatesAreMutual /\ NoPairSlipsBy /\ NamesKeepTheirProduct)
<1>1. ASSUME DuplicatesInv PROVE DuplicatesAreMutual
  <2> SUFFICES ASSUME NEW q \in Papers, NEW r \in Papers,
                      q \in check[r].found, r \in check[q].found,
                      check[q].stage = "done", check[r].stage = "done",
                      check[q].prods = check[r].prods
               PROVE  q \in check[r].flagged <=> r \in check[q].flagged
    BY DEF DuplicatesAreMutual
  <2>1. content[q] \in Contents /\ content[r] \in Contents
    BY <1>1 DEF DuplicatesInv, DuplicatesTyped, UploadedFirst
  <2>2. /\ q \in check[r].flagged <=> MayBeDuplicate(content[r], content[q], check[r].prods)
        /\ r \in check[q].flagged <=> MayBeDuplicate(content[q], content[r], check[r].prods)
    BY <1>1 DEF DuplicatesInv, FlaggedIsCompared
  <2> QED BY <2>1, <2>2, SignalsAreMutual
<1>2. ASSUME DuplicatesInv PROVE NoPairSlipsBy
  <2> SUFFICES ASSUME NEW q \in waiting, NEW r \in waiting, q # r, content[q] = content[r],
                      content[r].party # NoParty, content[r].date # NoDate, Priced(content[r]) # {},
                      check[q].stage = "done", check[r].stage = "done"
               PROVE  q \in check[r].flagged \/ r \in check[q].flagged
    BY DEF NoPairSlipsBy
  <2>1. q \in Papers /\ r \in Papers /\ content[r] \in Contents
    BY <1>2 DEF DuplicatesInv, DuplicatesTyped, UploadedFirst
  <2>2. q \in check[r].found \/ r \in check[q].found
    BY <1>2 DEF DuplicatesInv, LaterFindsEarlier
  <2>3. \A prods : MayBeDuplicate(content[r], content[r], prods)
    BY <2>1, CopiesHaveThreeSignals
  <2> QED BY <1>2, <2>1, <2>2, <2>3 DEF DuplicatesInv, FlaggedIsCompared
<1>3. NamesKeepTheirProduct
  <2> SUFFICES ASSUME NEW name \in ExtractedNames, NEW k \in Catalogue \ active
               PROVE  /\ MatchedTo(name, active \cup {k}) \subseteq MatchedTo(name, active) \cup {k}
                      /\ Standing(name, active \cup {k}) = "NOT_FOUND"
                           => Standing(name, active) = "NOT_FOUND"
    BY DEF NamesKeepTheirProduct
  <2>1. MatchedTo(name, active \cup {k}) \subseteq MatchedTo(name, active) \cup {k}
    BY DEF MatchedTo
  <2>2. \A prods : Standing(name, prods) = "NOT_FOUND"
                     <=> \A j \in prods : Likeness[name][j] < AmbiguousFloor
    BY DEF Standing
  <2> QED BY <2>1, <2>2
<1>4. DuplicatesInv => DuplicatesAreMutual /\ NoPairSlipsBy /\ NamesKeepTheirProduct
  BY <1>1, <1>2, <1>3
<1> QED BY <1>4, DuplicatesInitially, DuplicatesInductive, PTL DEF DuplicatesSpec

\* Whatever the model answers and however the checks of the documents interleave, what
\* the agents say of a document can be relied on.
THEOREM HintsHold == MatchingSpec /\ DuplicatesSpec => []HintsAreSound
BY SuggestionsKeepToTheRules, CopiesAreReported, PTL DEF HintsAreSound
=============================================================================
