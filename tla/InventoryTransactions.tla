----------------------- MODULE InventoryTransactions -----------------------
(***************************************************************************)
(* The stock core of the backend, at the grain at which PostgreSQL         *)
(* interleaves it: InventoryTransactionsService (create, update, complete, *)
(* cancel) with the two services it calls inside the same database         *)
(* transaction, ReservationsService (reserve, release, fulfill) and        *)
(* StockMovementsService (recordMovement, adjustInventory).                *)
(*                                                                         *)
(* Every request runs in one interactive database transaction under READ   *)
(* COMMITTED: a statement sees what is committed when it starts plus the   *)
(* session's own writes, UPDATE and SELECT ... FOR UPDATE wait for the row *)
(* lock and then see the row's latest committed version, and locks are     *)
(* kept until commit or rollback.  A session's uncommitted writes are kept *)
(* in tables of the same shape as the committed ones and laid over them.   *)
(***************************************************************************)
EXTENDS Integers, FiniteSets, FiniteSetsExt, Bags

CONSTANTS
  Products,        \* product ids, ordered as the code sorts them
  Warehouses,      \* warehouse ids, ordered as the code sorts them
  Txns,            \* InventoryTransaction ids the sequence may hand out
  Sessions,        \* requests being served at the same time
  ItemIds,         \* item ids, local to a transaction
  Orders,          \* bodies a client may send to create a transaction
  Patches,         \* bodies a client may send to update one
  Adjustments,     \* signed quantities an admin may adjust by
  OpeningStock,    \* stock per inventory row when the behaviour starts
  MaxReservations, \* bound: reservation rows ever written for a transaction
  MaxAdjustments,  \* bound: adjustments ever made
  NoTxn            \* the null transactionId of an adjustment

\* No warehouse: the null source of an INCOMING or destination of an OUTGOING,
\* and a field an update leaves out.
NoWarehouse == 0

Rows == Products \X Warehouses

TransactionTypes == {"INCOMING", "OUTGOING", "TRANSFER"}
MovementTypes ==
  {"INCOMING", "OUTGOING", "TRANSFER_IN", "TRANSFER_OUT", "ADJUSTMENT"}

ASSUME IdsAssumption ==
  /\ Products \subseteq Nat \ {0}
  /\ Warehouses \subseteq Nat \ {NoWarehouse}
  /\ NoTxn \notin Txns

\* Requests are served by a pool of connections, and bodies are finite.
ASSUME FiniteAssumption == IsFiniteSet(Sessions) /\ IsFiniteSet(ItemIds)

ASSUME BoundsAssumption ==
  /\ MaxReservations \in Nat
  /\ Cardinality(ItemIds) <= MaxReservations
  /\ MaxAdjustments \in Nat
  /\ Adjustments \subseteq Int \ {0}
  /\ DOMAIN OpeningStock \subseteq Rows
  /\ \A r \in DOMAIN OpeningStock : OpeningStock[r] \in Nat \ {0}

\* Bodies have the shape the request DTOs require: an order names the
\* warehouses of its type, an update leaves out what it gives as 0.
ASSUME BodiesAssumption ==
  /\ \A o \in Orders :
       /\ o.type \in TransactionTypes
       /\ o.src \in IF o.type = "INCOMING" THEN {NoWarehouse} ELSE Warehouses
       /\ o.dst \in IF o.type = "OUTGOING" THEN {NoWarehouse} ELSE Warehouses
       /\ DOMAIN o.items \subseteq ItemIds
       /\ \A i \in DOMAIN o.items :
            o.items[i].product \in Products /\ o.items[i].quantity \in Int
  /\ \A p \in Patches :
       /\ p.src \in Warehouses \cup {NoWarehouse}
       /\ p.dst \in Warehouses \cup {NoWarehouse}
       /\ \A i \in DOMAIN p.items :
            p.items[i].product \in Products \cup {0} /\ p.items[i].quantity \in Nat

VARIABLES
  transactions,  \* InventoryTransaction with its items: id -> row
  inventory,     \* WarehouseInventory: <<product, warehouse>> -> onHand
  reservations,  \* Reservation: <<transaction, n>> -> row
  movements,     \* StockMovement: a bag of ledger rows
  session,       \* what each request is doing, and its uncommitted writes
  held           \* row locks each session holds

vars == <<transactions, inventory, reservations, movements, session, held>>
tables == <<transactions, inventory, reservations, movements>>

----------------------------------------------------------------------------
(* Rows of the tables.                                                     *)

IsItem(item) ==
  item.product \in Products /\ item.quantity \in Nat /\ item.quantity > 0

IsTransaction(row) ==
  /\ row.type \in TransactionTypes
  /\ row.status \in {"PENDING", "COMPLETED", "CANCELLED"}
  /\ row.src \in IF row.type = "INCOMING" THEN {NoWarehouse} ELSE Warehouses
  /\ row.dst \in IF row.type = "OUTGOING" THEN {NoWarehouse} ELSE Warehouses
  /\ DOMAIN row.items \subseteq ItemIds
  /\ \A i \in DOMAIN row.items : IsItem(row.items[i])

IsReservation(row) ==
  /\ row.row \in Rows
  /\ row.quantity \in Nat /\ row.quantity > 0
  /\ row.status \in {"ACTIVE", "CANCELLED", "FULFILLED"}

IsMovement(m) ==
  /\ m.txn \in Txns \cup {NoTxn}
  /\ m.type \in MovementTypes
  /\ m.row \in Rows
  /\ m.quantity \in Int /\ m.quantity # 0

\* What a movement of each type does to onHand.
MovementDelta(type, quantity) ==
  IF type \in {"OUTGOING", "TRANSFER_OUT"} THEN -quantity ELSE quantity

Movement(t, type, row, quantity) ==
  [txn |-> t, type |-> type, row |-> row, quantity |-> quantity]

\* How often a row is in the ledger.
Copies(m, ledger) == IF m \in BagToSet(ledger) THEN ledger[m] ELSE 0

\* The active part of a reservation table, by row and by transaction.
ActiveOn(table, row) ==
  {id \in DOMAIN table : table[id].status = "ACTIVE" /\ table[id].row = row}

ActiveOf(table, t) ==
  {id \in DOMAIN table : table[id].status = "ACTIVE" /\ id[1] = t}

\* The _sum aggregate over the active reservations of an inventory row.
Reserved(table, row) ==
  MapThenSumSet(LAMBDA id : table[id].quantity, ActiveOn(table, row))

----------------------------------------------------------------------------
(* A session: the handler it runs, the statements it still has to issue    *)
(* and what it has written.  todo holds the calls of the handler's loops;  *)
(* seen is the onHand value of the row it has just locked.                 *)

Unread == -1
NoPatch == [src |-> NoWarehouse, dst |-> NoWarehouse, items |-> <<>>]
NoWrites == [transactions |-> <<>>, inventory |-> <<>>,
             reservations |-> <<>>, movements |-> EmptyBag]

Idle == [op |-> "idle", claimed |-> FALSE, txn |-> NoTxn, patch |-> NoPatch,
         todo |-> {}, seen |-> Unread, writes |-> NoWrites]

\* A table of one row, and rows laid over a table.  (The operators of the TLC
\* module for these have no definition the proof system can expand.)
Entry(key, row) == [k \in {key} |-> row]

Over(rows, table) ==
  [k \in DOMAIN rows \cup DOMAIN table |->
     IF k \in DOMAIN rows THEN rows[k] ELSE table[k]]

\* The tables as session s sees them.
SeenTransactions(s) == Over(session[s].writes.transactions, transactions)
SeenInventory(s) == Over(session[s].writes.inventory, inventory)
SeenReservations(s) == Over(session[s].writes.reservations, reservations)

\* Calls a handler still has to make: reserve, release, fulfill a reservation
\* and recordMovement.
Call(act, type, row, quantity, id) ==
  [act |-> act, type |-> type, row |-> row, quantity |-> quantity, id |-> id]

NoId == <<NoTxn, 0>>
Reserves(items, src) ==
  {Call("reserve", "none", <<items[i].product, src>>, items[i].quantity, NoId) :
     i \in DOMAIN items}
Records(type, items, dst) ==
  {Call("record", type, <<items[i].product, dst>>, items[i].quantity, NoId) :
     i \in DOMAIN items}
Releases(table, ids) ==
  {Call("release", "none", table[id].row, table[id].quantity, id) : id \in ids}
Fulfils(type, table, ids) ==
  {Call("fulfil", type, table[id].row, table[id].quantity, id) : id \in ids}

\* Mutant: a transfer fulfils at its source first and records at its destination
\* afterwards, instead of sorting both kinds of call together.
BeforeBySideOfTransfer(a, b) ==
  \/ a.act = "release"
  \/ /\ b.act # "release"
     /\ \/ a.act = "fulfil" /\ b.act = "record"
        \/ /\ a.act = b.act
           /\ \/ a.row[2] < b.row[2]
              \/ a.row[2] = b.row[2] /\ a.row[1] <= b.row[1]

\* The handlers release before they reserve, and lock inventory rows in
\* (warehouse, product) order.
Before(a, b) ==
  \/ a.act = "release"
  \/ /\ b.act # "release"
     /\ \/ a.row[2] < b.row[2]
        \/ a.row[2] = b.row[2] /\ a.row[1] <= b.row[1]

IsNext(s, call) ==
  call \in session[s].todo /\ \A other \in session[s].todo : Before(call, other)

\* Row locks.
TransactionLock(t) == <<"InventoryTransaction", t>>
InventoryLock(row) == <<"WarehouseInventory", row>>
ReservationLock(id) == <<"Reservation", id>>

Free(s, lock) == \A other \in Sessions \ {s} : lock \notin held[other]
Acquire(s, lock) == held' = [held EXCEPT ![s] = @ \cup {lock}]

\* Mutant: the end of a request leaves its locks behind.
FinishKeepingLocks(s) ==
  session' = [session EXCEPT ![s] = Idle] /\ UNCHANGED held

\* An exception in the handler, or the end of its database transaction.
Finish(s) ==
  /\ session' = [session EXCEPT ![s] = Idle]
  /\ held' = [held EXCEPT ![s] = {}]

Rollback(s) == Finish(s) /\ UNCHANGED tables

----------------------------------------------------------------------------
(* Creating a transaction: validate, insert it PENDING with its items,     *)
(* reserve its items at the source (an INCOMING reserves nothing).         *)

\* validateItems: items not empty, quantities positive, products distinct.
ValidItems(items) ==
  /\ DOMAIN items # {}
  /\ \A i \in DOMAIN items : items[i].quantity > 0
  /\ \A i, j \in DOMAIN items : items[i].product = items[j].product => i = j

InsertPending(s, t, order, calls) ==
  /\ session[s].op = "idle"
  /\ t \notin DOMAIN transactions
  /\ \A other \in Sessions : session[other].txn # t
  /\ ValidItems(order.items)
  /\ session' = [session EXCEPT ![s] =
       [Idle EXCEPT
          !.op = "create", !.claimed = TRUE, !.txn = t, !.todo = calls,
          !.writes.transactions = Entry(t,
             [type |-> order.type, status |-> "PENDING",
              src |-> order.src, dst |-> order.dst, items |-> order.items])]]
  /\ UNCHANGED <<tables, held>>

CreateIncoming(s, t, order) ==
  /\ order.type = "INCOMING"
  /\ InsertPending(s, t, order, {})

CreateOutgoing(s, t, order) ==
  /\ order.type = "OUTGOING"
  /\ InsertPending(s, t, order, Reserves(order.items, order.src))

CreateTransfer(s, t, order) ==
  /\ order.type = "TRANSFER"
  /\ order.src # order.dst
  /\ InsertPending(s, t, order, Reserves(order.items, order.src))

----------------------------------------------------------------------------
(* complete, cancel and update start by claiming the transaction row: a    *)
(* conditional UPDATE that waits for the row lock and matches only while   *)
(* the row is PENDING.                                                     *)

\* A client calls complete, cancel or update on a transaction it has seen.
Request(s, op, t, patch) ==
  /\ session[s].op = "idle"
  /\ t \in DOMAIN transactions
  /\ session' = [session EXCEPT ![s] =
       [Idle EXCEPT !.op = op, !.txn = t, !.patch = patch]]
  /\ UNCHANGED <<tables, held>>

\* Mutant: the row is read and then written, without waiting for its lock.
AtClaimUnlocked(s, op) == session[s].op = op /\ ~session[s].claimed

AtClaim(s, op) ==
  /\ session[s].op = op
  /\ ~session[s].claimed
  /\ Free(s, TransactionLock(session[s].txn))

\* Mutant: the UPDATE of the claim has no condition on the status.
AlwaysClaimable(s) == session[s].txn \in DOMAIN transactions

Claimable(s) == transactions[session[s].txn].status = "PENDING"

\* The claim succeeds: write the row and go on with the given calls.
Claim(s, row, calls) ==
  /\ session' = [session EXCEPT
       ![s].claimed = TRUE, ![s].todo = calls,
       ![s].writes.transactions = Entry(session[s].txn, row)]
  /\ Acquire(s, TransactionLock(session[s].txn))
  /\ UNCHANGED tables

\* findActiveReservationOrThrow, for one product of a transaction.
ActiveReservation(t, product) ==
  CHOOSE id \in ActiveOf(reservations, t) : reservations[id].row[1] = product

HasActiveReservation(t, product) ==
  \E id \in ActiveOf(reservations, t) : reservations[id].row[1] = product

ReservationsFor(t, items) ==
  {ActiveReservation(t, items[i].product) : i \in DOMAIN items}

\* Mutant: a transfer leaves its source and never arrives.
CompleteCallsAtSource(t) ==
  LET row == transactions[t]
      ids == ReservationsFor(t, row.items)
  IN IF row.type = "INCOMING" THEN Records("INCOMING", row.items, row.dst)
     ELSE Fulfils(IF row.type = "OUTGOING" THEN "OUTGOING" ELSE "TRANSFER_OUT",
                  reservations, ids)

CompleteCalls(t) ==
  LET row == transactions[t]
      ids == ReservationsFor(t, row.items)
  IN CASE row.type = "INCOMING" -> Records("INCOMING", row.items, row.dst)
       [] row.type = "OUTGOING" -> Fulfils("OUTGOING", reservations, ids)
       [] row.type = "TRANSFER" -> Fulfils("TRANSFER_OUT", reservations, ids)
                                     \cup Records("TRANSFER_IN", row.items, row.dst)

Complete(s) ==
  LET t == session[s].txn IN
  /\ AtClaim(s, "complete")
  /\ Claimable(s)
  /\ \/ transactions[t].type = "INCOMING"
     \/ \A i \in DOMAIN transactions[t].items :
          HasActiveReservation(t, transactions[t].items[i].product)
  /\ Claim(s, [transactions[t] EXCEPT !.status = "COMPLETED"], CompleteCalls(t))

\* Mutant: cancel does not look at the status.
CancelAnything(s) ==
  LET t == session[s].txn IN
  /\ AtClaim(s, "cancel")
  /\ Claim(s, [transactions[t] EXCEPT !.status = "CANCELLED"],
           Releases(reservations, ActiveOf(reservations, t)))

Cancel(s) ==
  LET t == session[s].txn IN
  /\ AtClaim(s, "cancel")
  /\ Claimable(s)
  /\ Claim(s, [transactions[t] EXCEPT !.status = "CANCELLED"],
           Releases(reservations, ActiveOf(reservations, t)))

\* The source, destination and items an update leaves the row with.
Merged(old, new, absent) == IF new = absent THEN old ELSE new

PatchedItems(items, changes) ==
  [i \in DOMAIN items |->
     IF i \in DOMAIN changes
       THEN [product |-> Merged(items[i].product, changes[i].product, 0),
             quantity |-> Merged(items[i].quantity, changes[i].quantity, 0)]
       ELSE items[i]]

Patched(row, patch) ==
  [row EXCEPT !.src = Merged(@, patch.src, NoWarehouse),
              !.dst = Merged(@, patch.dst, NoWarehouse),
              !.items = PatchedItems(@, patch.items)]

\* The checks updateWithClient makes once it has claimed the row.
ValidPatch(row, patch) ==
  LET after == Patched(row, patch) IN
  /\ patch.src # NoWarehouse => row.type # "INCOMING"
  /\ patch.dst # NoWarehouse => row.type # "OUTGOING"
  /\ row.type = "TRANSFER" => after.src # after.dst
  /\ DOMAIN patch.items \subseteq DOMAIN row.items
  /\ \A i, j \in DOMAIN after.items :
       after.items[i].product = after.items[j].product => i = j

\* Mutant: a new source warehouse does not move the reservations.
ResyncedItemsOnly(row, patch) ==
  IF row.type = "INCOMING" THEN {} ELSE DOMAIN patch.items

\* Items whose reservation is released and taken again: the changed ones, or
\* all of them when the update names a source warehouse.
Resynced(row, patch) ==
  IF row.type = "INCOMING" THEN {}
  ELSE IF patch.src # NoWarehouse THEN DOMAIN row.items
  ELSE DOMAIN patch.items

Update(s) ==
  LET t     == session[s].txn
      row   == transactions[t]
      after == Patched(row, session[s].patch)
      which == Resynced(row, session[s].patch)
  IN /\ AtClaim(s, "update")
     /\ Claimable(s)
     /\ ValidPatch(row, session[s].patch)
     /\ \A i \in which : HasActiveReservation(t, row.items[i].product)
     /\ Claim(s, after,
              Releases(reservations, ReservationsFor(t, Restrict(row.items, which)))
                \cup Reserves(Restrict(after.items, which), after.src))

----------------------------------------------------------------------------
(* The calls.                                                              *)

Running(s, act, call) ==
  /\ session[s].claimed
  /\ IsNext(s, call)
  /\ call.act = act

\* Mutant: the inventory row is read without FOR UPDATE.
ReadInventoryRow(s, call) ==
  /\ session[s].claimed
  /\ IsNext(s, call)
  /\ call.act # "release"
  /\ session[s].seen = Unread
  /\ call.row \in DOMAIN SeenInventory(s) \/ call.act # "reserve"
  /\ session' = [session EXCEPT
       ![s].seen = Over(SeenInventory(s), Entry(call.row, 0))[call.row]]
  /\ UNCHANGED <<tables, held>>

\* Statements that lock an inventory row: reserve() selects it FOR UPDATE if it
\* is there, recordMovement() first inserts it if it is not.
LockInventoryRow(s, call) ==
  /\ session[s].claimed
  /\ IsNext(s, call)
  /\ call.act # "release"
  /\ session[s].seen = Unread
  /\ Free(s, InventoryLock(call.row))
  /\ call.row \in DOMAIN SeenInventory(s) \/ call.act # "reserve"
  /\ session' = [session EXCEPT
       ![s].seen = Over(SeenInventory(s), Entry(call.row, 0))[call.row],
       ![s].writes.inventory =
          IF call.row \in DOMAIN SeenInventory(s) THEN @ ELSE Over(Entry(call.row, 0), @)]
  /\ Acquire(s, InventoryLock(call.row))
  /\ UNCHANGED tables

\* reserve() on a row that does not exist locks nothing and counts it as empty.
FindNoInventoryRow(s, call) ==
  /\ Running(s, "reserve", call)
  /\ session[s].seen = Unread
  /\ call.row \notin DOMAIN SeenInventory(s)
  /\ session' = [session EXCEPT ![s].seen = 0]
  /\ UNCHANGED <<tables, held>>

Done(call, todo) == todo \ {call}

\* The id the reservation sequence hands out next.
NewReservation(s, id) ==
  /\ id[1] = session[s].txn
  /\ id \notin DOMAIN SeenReservations(s)
  /\ \A n \in 1..(id[2] - 1) : <<id[1], n>> \in DOMAIN SeenReservations(s)

\* The second half of reserve(): aggregate the active reservations, compare,
\* insert the reservation.
Reserve(s, call) ==
  /\ Running(s, "reserve", call)
  /\ session[s].seen # Unread
  /\ call.quantity <= session[s].seen - Reserved(SeenReservations(s), call.row)
  /\ \E id \in Txns \X (1..MaxReservations) :
       /\ NewReservation(s, id)
       /\ session' = [session EXCEPT
            ![s].seen = Unread, ![s].todo = Done(call, @),
            ![s].writes.reservations = Over(Entry(id,
               [row |-> call.row, quantity |-> call.quantity, status |-> "ACTIVE"]), @)]
  /\ UNCHANGED <<tables, held>>

\* The conditional flip of an ACTIVE reservation, which locks its row.
CanFlip(s, id) ==
  /\ Free(s, ReservationLock(id))
  /\ SeenReservations(s)[id].status = "ACTIVE"

Flipped(s, id, status) ==
  Entry(id, [SeenReservations(s)[id] EXCEPT !.status = status])

Release(s, call) ==
  /\ Running(s, "release", call)
  /\ CanFlip(s, call.id)
  /\ session' = [session EXCEPT
       ![s].todo = Done(call, @),
       ![s].writes.reservations = Over(Flipped(s, call.id, "CANCELLED"), @)]
  /\ Acquire(s, ReservationLock(call.id))
  /\ UNCHANGED tables

\* recordMovement() on the locked row: never below zero, onHand and ledger together.
OnHandAfter(s, call) == session[s].seen + MovementDelta(call.type, call.quantity)

RecordMovement(s, call) ==
  /\ Running(s, "record", call)
  /\ session[s].seen # Unread
  /\ OnHandAfter(s, call) >= 0
  /\ session' = [session EXCEPT
       ![s].seen = Unread, ![s].todo = Done(call, @),
       ![s].writes.inventory = Over(Entry(call.row, OnHandAfter(s, call)), @),
       ![s].writes.movements = @ (+) SetToBag(
          {Movement(session[s].txn, call.type, call.row, call.quantity)})]
  /\ UNCHANGED <<tables, held>>

\* fulfill(): record the reservation's own movement, then flip it.
Fulfil(s, call) ==
  /\ Running(s, "fulfil", call)
  /\ session[s].seen # Unread
  /\ OnHandAfter(s, call) >= 0
  /\ CanFlip(s, call.id)
  /\ session' = [session EXCEPT
       ![s].seen = Unread, ![s].todo = Done(call, @),
       ![s].writes.inventory = Over(Entry(call.row, OnHandAfter(s, call)), @),
       ![s].writes.movements = @ (+) SetToBag(
          {Movement(session[s].txn, call.type, call.row, call.quantity)}),
       ![s].writes.reservations = Over(Flipped(s, call.id, "FULFILLED"), @)]
  /\ Acquire(s, ReservationLock(call.id))
  /\ UNCHANGED tables

\* adjustInventory(): one ADJUSTMENT movement in a database transaction of its own.
AdjustInventory(s, row, delta) ==
  /\ session[s].op = "idle"
  /\ session' = [session EXCEPT ![s] =
       [Idle EXCEPT !.op = "adjust", !.claimed = TRUE,
                    !.todo = {Call("record", "ADJUSTMENT", row, delta, NoId)}]]
  /\ UNCHANGED <<tables, held>>

Commit(s) ==
  /\ session[s].claimed
  /\ session[s].todo = {}
  /\ transactions' = SeenTransactions(s)
  /\ inventory' = SeenInventory(s)
  /\ reservations' = SeenReservations(s)
  /\ movements' = movements (+) session[s].writes.movements
  /\ Finish(s)

\* Every way a handler throws on its own: the claim matches no PENDING row, a
\* check after the claim fails, a reservation is missing, stock is short.
Refused(s) ==
  LET t == session[s].txn IN
  \/ /\ \E op \in {"complete", "cancel", "update"} : AtClaim(s, op)
     /\ ~Claimable(s)
  \/ /\ AtClaim(s, "complete")
     /\ Claimable(s)
     /\ transactions[t].type # "INCOMING"
     /\ \E i \in DOMAIN transactions[t].items :
          ~HasActiveReservation(t, transactions[t].items[i].product)
  \/ /\ AtClaim(s, "update")
     /\ Claimable(s)
     /\ ValidPatch(transactions[t], session[s].patch) =>
          \E i \in Resynced(transactions[t], session[s].patch) :
            ~HasActiveReservation(t, transactions[t].items[i].product)
  \/ \E call \in session[s].todo :
       /\ session[s].seen # Unread
       /\ \/ /\ Running(s, "reserve", call)
             /\ call.quantity > session[s].seen - Reserved(SeenReservations(s), call.row)
          \/ /\ \E act \in {"record", "fulfil"} : Running(s, act, call)
             /\ OnHandAfter(s, call) < 0
  \/ \E call \in session[s].todo :
       /\ \/ Running(s, "release", call)
          \/ Running(s, "fulfil", call) /\ session[s].seen # Unread
       /\ Free(s, ReservationLock(call.id))
       /\ SeenReservations(s)[call.id].status # "ACTIVE"

Refuse(s) == Refused(s) /\ Rollback(s)

\* The interactive transaction times out, the connection drops, the process
\* dies or a catalogue check (supplier, warehouse, product) throws: PostgreSQL
\* rolls back.
Abort(s) == session[s].op # "idle" /\ Rollback(s)

----------------------------------------------------------------------------
Init ==
  /\ transactions = <<>>
  /\ inventory = OpeningStock
  /\ reservations = <<>>
  /\ movements = SetToBag({Movement(NoTxn, "ADJUSTMENT", r, OpeningStock[r]) :
                             r \in DOMAIN OpeningStock})
  /\ session = [s \in Sessions |-> Idle]
  /\ held = [s \in Sessions |-> {}]

\* The bounds of a run.
AdjustmentsMade ==
  Cardinality({s \in Sessions : session[s].op = "adjust"})
    + MapThenSumSet(LAMBDA m : Copies(m, movements),
                    {m \in BagToSet(movements) : m.txn = NoTxn})
    - Cardinality(DOMAIN OpeningStock)

\* Every update on its way may reserve every item of t once more.
MayStillReserve(t) ==
  LET updates == {s \in Sessions : session[s].op = "update" /\ session[s].txn = t}
  IN Cardinality({id \in DOMAIN reservations : id[1] = t})
       + Cardinality(DOMAIN transactions[t].items) * (1 + Cardinality(updates))
     <= MaxReservations

Arrive(s) ==
  \/ \E t \in Txns, order \in Orders :
       \/ CreateIncoming(s, t, order)
       \/ CreateOutgoing(s, t, order)
       \/ CreateTransfer(s, t, order)
  \/ \E t \in Txns :
       \/ Request(s, "complete", t, NoPatch)
       \/ Request(s, "cancel", t, NoPatch)
       \/ /\ t \in DOMAIN transactions
          /\ MayStillReserve(t)
          /\ \E patch \in Patches : Request(s, "update", t, patch)
  \/ /\ AdjustmentsMade < MaxAdjustments
     /\ \E row \in Rows, delta \in Adjustments : AdjustInventory(s, row, delta)

Step(s) ==
  \/ Complete(s)
  \/ Cancel(s)
  \/ Update(s)
  \/ \E call \in session[s].todo :
       \/ LockInventoryRow(s, call)
       \/ FindNoInventoryRow(s, call)
       \/ Reserve(s, call)
       \/ Release(s, call)
       \/ RecordMovement(s, call)
       \/ Fulfil(s, call)
  \/ Commit(s)
  \/ Refuse(s)

Next == \E s \in Sessions : Arrive(s) \/ Step(s) \/ Abort(s)

Spec == Init /\ [][Next]_vars

\* A request that has arrived keeps being served.  PostgreSQL grants a row lock
\* to its waiters in turn, hence strong fairness of every step.
FairSpec == Spec /\ \A s \in Sessions : SF_vars(Step(s))
----------------------------------------------------------------------------
(* Properties.                                                             *)

\* A table maps its keys to rows of its kind.
IsTable(table, Keys, IsRow(_)) ==
  /\ DOMAIN table \subseteq Keys
  /\ \A k \in DOMAIN table : IsRow(table[k])

IsOnHand(n) == n \in Nat

TablesOK(t, i, r, m) ==
  /\ IsTable(t, Txns, IsTransaction)
  /\ IsTable(i, Rows, IsOnHand)
  /\ IsTable(r, Txns \X Nat, IsReservation)
  /\ \A x \in BagToSet(m) : IsMovement(x)

\* The type invariant of the tables, of what each session has read and of its writes.
TypeOK ==
  /\ TablesOK(transactions, inventory, reservations, movements)
  /\ \A s \in Sessions :
       /\ session[s].op \in {"idle", "create", "complete", "cancel", "update", "adjust"}
       /\ session[s].seen \in Nat \cup {Unread}
       /\ LET w == session[s].writes
          IN TablesOK(w.transactions, w.inventory, w.reservations, w.movements)

OnHand(row) == IF row \in DOMAIN inventory THEN inventory[row] ELSE 0

\* "Never allows available stock to go negative", whatever requests run at the
\* same time: what is reserved of a row is at most its onHand.  Negative
\* adjustments check onHand only: what they may do to it is what StockLedger's
\* OnlyAdjustmentsOversell says.
NeverOversold == \A row \in Rows : Reserved(reservations, row) <= OnHand(row)

\* A PENDING outgoing or transfer holds exactly one active reservation for each
\* of its items, of that product and quantity at the source; any other
\* transaction holds none.  findActiveReservationOrThrow relies on it, and every
\* interleaving of create, update, complete and cancel must keep it.
ReservationsMirrorItems ==
  \A t \in DOMAIN transactions :
    LET row == transactions[t]
        active == ActiveOf(reservations, t)
    IN IF row.status = "PENDING" /\ row.type # "INCOMING"
         THEN /\ Cardinality(active) = Cardinality(DOMAIN row.items)
              /\ \A i \in DOMAIN row.items : \E id \in active :
                   /\ reservations[id].row = <<row.items[i].product, row.src>>
                   /\ reservations[id].quantity = row.items[i].quantity
         ELSE active = {}

\* What the ledger says transaction t moved.
MovesOf(t) == {m \in BagToSet(movements) : m.txn = t}

ExpectedMoves(t) ==
  LET row == transactions[t]
      moves(type, warehouse) ==
        {Movement(t, type, <<row.items[i].product, warehouse>>, row.items[i].quantity) :
           i \in DOMAIN row.items}
  IN CASE row.type = "INCOMING" -> moves("INCOMING", row.dst)
       [] row.type = "OUTGOING" -> moves("OUTGOING", row.src)
       [] row.type = "TRANSFER" -> moves("TRANSFER_OUT", row.src)
                                     \cup moves("TRANSFER_IN", row.dst)

\* A completed transaction moved each of its items exactly once - a transfer out
\* of its source and into its destination - and one that is pending or cancelled
\* moved nothing, so no race completes twice or completes what was cancelled.
MovedExactlyOnce ==
  /\ \A t \in DOMAIN transactions :
       MovesOf(t) = IF transactions[t].status = "COMPLETED" THEN ExpectedMoves(t) ELSE {}
  /\ \A m \in BagToSet(movements) : m.txn # NoTxn => Copies(m, movements) = 1

\* reconcileInventory's equation: onHand is the sum of the row's movements.
LedgerSum(row) ==
  MapThenSumSet(LAMBDA m : Copies(m, movements) * MovementDelta(m.type, m.quantity),
                {m \in BagToSet(movements) : m.row = row})

LedgerExplainsStock == \A row \in Rows : OnHand(row) = LedgerSum(row)

\* A COMPLETED or CANCELLED transaction is never written again: not its status,
\* its warehouses or its items.
FinishedIsFinal ==
  [][\A t \in DOMAIN transactions :
       transactions[t].status # "PENDING" =>
         t \in DOMAIN transactions' /\ transactions'[t] = transactions[t]]_vars

\* The lock the next statement of s waits for, if it locks one.
Wanted(s) ==
  IF session[s].op \in {"complete", "cancel", "update"} /\ ~session[s].claimed
    THEN {TransactionLock(session[s].txn)}
  ELSE UNION {
    IF call.act = "release" THEN {ReservationLock(call.id)}
    ELSE IF session[s].seen # Unread
      THEN IF call.act = "fulfil" THEN {ReservationLock(call.id)} ELSE {}
    ELSE IF call.act = "reserve" /\ call.row \notin DOMAIN SeenInventory(s) THEN {}
    ELSE {InventoryLock(call.row)} : call \in {c \in session[s].todo : IsNext(s, c)}}

WaitsFor(s, other) == s # other /\ Wanted(s) \cap held[other] # {}

\* No set of sessions waits in a circle: PostgreSQL never has to break a deadlock.
NoDeadlock ==
  \A S \in (SUBSET Sessions) \ {{}} :
    \E s \in S : \A other \in S : ~WaitsFor(s, other)

LocksExclusive ==
  \A s, other \in Sessions : s # other => held[s] \cap held[other] = {}

\* Between its claim and its commit a request owns the transaction it works on:
\* it holds the row's lock, the row is still PENDING for everybody else, and it
\* writes no other transaction.  A transaction being created is known to its
\* creator alone.
OwnsTransaction(s) ==
  LET me == session[s]
      written == DOMAIN me.writes.transactions
  IN /\ me.op \in {"idle", "adjust"} => written = {} /\ me.txn = NoTxn
     /\ me.op = "create" =>
          /\ me.claimed /\ me.txn \in Txns
          /\ me.txn \notin DOMAIN transactions /\ written = {me.txn}
          /\ \A other \in Sessions \ {s} : session[other].txn # me.txn
     /\ me.op \in {"complete", "cancel", "update"} =>
          /\ me.txn \in DOMAIN transactions
          /\ IF me.claimed
               THEN /\ TransactionLock(me.txn) \in held[s]
                    /\ transactions[me.txn].status = "PENDING"
                    /\ written = {me.txn}
               ELSE written = {}

ClaimsHold == LocksExclusive /\ \A s \in Sessions : OwnsTransaction(s)

\* Every request that arrives is answered, although it may wait for others.
EveryRequestEnds == \A s \in Sessions : session[s].op # "idle" ~> session[s].op = "idle"

=============================================================================
