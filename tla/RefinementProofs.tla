-------------------------- MODULE RefinementProofs --------------------------
(***************************************************************************)
(* What the stock core promises about sums, and that its interleaved       *)
(* statements implement the atomic StockLedger.                            *)
(*                                                                         *)
(* No row has more reserved than on hand, and onHand is what the ledger of *)
(* movements adds up to.  Both are about rows a request has locked: there, *)
(* and only there, its uncommitted writes may differ from the tables, so   *)
(* they hold of the tables with its writes laid over them whenever it      *)
(* holds the lock, and a commit publishes what has held already.           *)
(*                                                                         *)
(* Every step but a commit leaves the tables alone.  A commit is one       *)
(* request of StockLedger: the row it publishes is what the request meant  *)
(* to make of the row it found (Intended), what it reserves fits what is   *)
(* on hand at that moment, although it was compared earlier (Secured), and *)
(* the sums of its reservations and movements are those of the plan,       *)
(* because each item has one reservation and one movement on each side     *)
(* (Mirroring, Booked) and onHand is what the ledger adds up to            *)
(* (Reconciled).                                                           *)
(***************************************************************************)
EXTENDS InventoryProofs, SumTheorems, InventoryRefinement

StockOf(table, row) == IF row \in DOMAIN table THEN table[row] ELSE 0
SeenOnHand(s, row) == StockOf(SeenInventory(s), row)
Locks(s, row) == InventoryLock(row) \in held[s]

WritesLocked(s) == \A row \in DOMAIN session[s].writes.inventory : Locks(s, row)

\* What a request has read of the row its next calls are about is still so: it
\* holds the lock, or it has found that there is no row to reserve from.
Sighted(s) ==
  session[s].seen # Unread =>
    /\ session[s].claimed
    /\ \A call \in session[s].todo :
         /\ call.act # "release"
         /\ IsNext(s, call) =>
              \/ Locks(s, call.row) /\ session[s].seen = SeenOnHand(s, call.row)
              \/ session[s].seen = 0 /\ call.act = "reserve"

\* A call that fulfils a reservation takes what is reserved, one that records a
\* movement of a transaction adds stock.
CallAddsUp(s, call) ==
  /\ call.act = "fulfil" =>
       /\ SeenReservations(s)[call.id].row = call.row
       /\ SeenReservations(s)[call.id].quantity = call.quantity
       /\ call.type \in {"OUTGOING", "TRANSFER_OUT"}
  /\ call.act = "record" =>
       /\ call.type \notin {"OUTGOING", "TRANSFER_OUT"}
       /\ call.quantity >= 0 \/ call.quantity \in Adjustments

Looks(s) ==
  /\ WritesLocked(s) /\ Sighted(s)
  /\ \A call \in session[s].todo : CallAddsUp(s, call)

Looked == \A s \in Sessions : Looks(s)

----------------------------------------------------------------------------
(* What statements do to the tables a session sees.                        *)

LEMMA LockSees ==
  ASSUME IInv, NEW s \in Sessions, NEW call, LockInventoryRow(s, call)
  PROVE  /\ session'[s].seen = SeenOnHand(s, call.row)
         /\ \A row : SeenOnHand(s, row)' = SeenOnHand(s, row)
         /\ \A row \in DOMAIN session'[s].writes.inventory :
              row \in DOMAIN session[s].writes.inventory \/ row = call.row
<1> DEFINE w == session[s].writes.inventory
           i == SeenInventory(s)
<1>1. /\ Mid(s)
      /\ session'[s].seen = Over(i, Entry(call.row, 0))[call.row]
      /\ session'[s].writes.inventory
           = IF call.row \in DOMAIN i THEN w ELSE Over(Entry(call.row, 0), w)
  BY LockEffect DEF IInv
<1>2. SeenInventory(s)' = Over(session'[s].writes.inventory, inventory)
  BY <1>1 DEF Mid, tables, SeenInventory
<1>3. i = Over(w, inventory)
  BY DEF SeenInventory
<1>4. session'[s].seen = StockOf(i, call.row)
  <2> HIDE DEF i
  <2> QED
    BY <1>1 DEF Over, Entry, StockOf
<1>5. CASE call.row \in DOMAIN i
  BY <1>1, <1>2, <1>3, <1>4, <1>5 DEF SeenOnHand
<1>6. CASE call.row \notin DOMAIN i
  <2> DEFINE v == Over(Entry(call.row, 0), w)
  <2>1. session'[s].writes.inventory = v
    BY <1>1, <1>6
  <2>2. DOMAIN v = {call.row} \cup DOMAIN w
    <3> HIDE DEF w
    <3> QED
      BY DEF Over, Entry
  <2>3. \A row : StockOf(Over(v, inventory), row) = StockOf(Over(w, inventory), row)
    <3> HIDE DEF w
    <3> QED
      BY <1>3, <1>6 DEF Over, Entry, StockOf
  <2> HIDE DEF v, w, i
  <2>4. \A row : SeenOnHand(s, row)' = StockOf(Over(v, inventory), row)
    BY <1>2, <2>1 DEF SeenOnHand
  <2> QED
    BY <1>3, <1>4, <2>1, <2>2, <2>3, <2>4 DEF SeenOnHand, i, w
<1> QED
  BY <1>5, <1>6

LEMMA MoveSees ==
  ASSUME NEW s \in Sessions, NEW call, Moves(s, call)
  PROVE  /\ SeenOnHand(s, call.row)' = OnHandAfter(s, call)
         /\ \A row : row # call.row => SeenOnHand(s, row)' = SeenOnHand(s, row)
         /\ \A row \in DOMAIN session'[s].writes.inventory :
              row \in DOMAIN session[s].writes.inventory \/ row = call.row
<1> DEFINE w == session[s].writes.inventory
           n == OnHandAfter(s, call)
           v == Over(Entry(call.row, n), w)
<1>1. session'[s].writes.inventory = v /\ SeenInventory(s)' = Over(v, inventory)
  BY DEF Moves, Mid, tables, SeenInventory
<1>2. SeenInventory(s) = Over(w, inventory)
  BY DEF SeenInventory
<1> HIDE DEF w, n
<1>3. /\ DOMAIN v = {call.row} \cup DOMAIN w
      /\ StockOf(Over(v, inventory), call.row) = n
      /\ \A row : row # call.row =>
           StockOf(Over(v, inventory), row) = StockOf(Over(w, inventory), row)
  BY DEF Over, Entry, StockOf
<1> HIDE DEF v
<1> QED
  BY <1>1, <1>2, <1>3 DEF SeenOnHand, n, w

\* Ending a reservation changes its status.
LEMMA FlippedRow ==
  ASSUME NEW r, NEW w, NEW id, NEW row, id \in DOMAIN Over(w, r)
  PROVE  LET old == Over(w, r)
             new == Over(Over(Entry(id, row), w), r)
         IN /\ DOMAIN new = DOMAIN old /\ new[id] = row
            /\ \A k \in DOMAIN old \ {id} : new[k] = old[k]
BY DEF Over, Entry

\* Making one adds a row.
LEMMA ReserveSees ==
  ASSUME IInv, NEW s \in Sessions, NEW call, Reserve(s, call)
  PROVE  \E id \in Txns \X Nat :
           /\ id \notin DOMAIN SeenReservations(s)
           /\ DOMAIN SeenReservations(s)' = DOMAIN SeenReservations(s) \cup {id}
           /\ SeenReservations(s)'[id]
                = [row |-> call.row, quantity |-> call.quantity, status |-> "ACTIVE"]
           /\ \A k \in DOMAIN SeenReservations(s) :
                SeenReservations(s)'[k] = SeenReservations(s)[k]
<1> DEFINE w == session[s].writes.reservations
           row == [row |-> call.row, quantity |-> call.quantity, status |-> "ACTIVE"]
<1>1. PICK id \in Txns \X (1..MaxReservations) :
        /\ NewReservation(s, id)
        /\ session'[s].writes.reservations = Over(Entry(id, row), w)
  BY ReserveEffect DEF IInv
<1>2. /\ SeenReservations(s) = Over(w, reservations)
      /\ SeenReservations(s)' = Over(Over(Entry(id, row), w), reservations)
  BY <1>1, ReserveEffect DEF IInv, Mid, tables, SeenReservations
<1>3. id \notin DOMAIN Over(w, reservations)
  BY <1>1, <1>2 DEF NewReservation
<1>4. id \in Txns \X Nat
  BY BoundsAssumption
<1> DEFINE old == Over(w, reservations)
           new == Over(Over(Entry(id, row), w), reservations)
<1> HIDE DEF w, row
<1>5. /\ DOMAIN new = DOMAIN old \cup {id} /\ new[id] = row
      /\ \A k \in DOMAIN old : new[k] = old[k]
  BY <1>3 DEF Over, Entry
<1>7. SeenReservations(s) = old /\ SeenReservations(s)' = new /\ id \notin DOMAIN old
  BY <1>2, <1>3
<1> HIDE DEF old, new
<1>6. /\ DOMAIN SeenReservations(s)' = DOMAIN SeenReservations(s) \cup {id}
      /\ SeenReservations(s)'[id] = row
      /\ \A k \in DOMAIN SeenReservations(s) :
           SeenReservations(s)'[k] = SeenReservations(s)[k]
      /\ id \notin DOMAIN SeenReservations(s)
  BY <1>5, <1>7
<1> QED
  BY <1>4, <1>6 DEF row

LEMMA FlipSees ==
  ASSUME IInv, Typed, NEW s \in Sessions, NEW call \in session[s].todo,
         Release(s, call) \/ Fulfil(s, call)
  PROVE  LET old == SeenReservations(s)
             new == SeenReservations(s)'
         IN /\ call.id \in DOMAIN old /\ old[call.id].status = "ACTIVE"
            /\ DOMAIN new = DOMAIN old
            /\ new[call.id].status # "ACTIVE"
            /\ new[call.id].row = old[call.id].row
            /\ new[call.id].quantity = old[call.id].quantity
            /\ \A k \in DOMAIN old \ {call.id} : new[k] = old[k]
<1> DEFINE w == session[s].writes.reservations
           id == call.id
           old == SeenReservations(s)
<1>1. PICK status \in {"CANCELLED", "FULFILLED"} :
        session'[s].writes.reservations = Over(Flipped(s, id, status), w)
  BY ReleaseEffect, FulfilEffect DEF IInv
<1> DEFINE row == [old[id] EXCEPT !.status = status]
<1>2. /\ Mid(s) /\ Ends(call)
  <2>1. CASE Release(s, call)
    BY <2>1, ReleaseEffect, CallMade DEF IInv, Ends
  <2>2. CASE Fulfil(s, call)
    BY <2>2, FulfilEffect, MovesMeans, CallMade DEF IInv, Ends
  <2> QED
    BY <2>1, <2>2
<1>3. /\ old = Over(w, reservations)
      /\ SeenReservations(s)' = Over(Over(Entry(id, row), w), reservations)
  BY <1>1, <1>2 DEF Mid, tables, SeenReservations, Flipped
<1>4. id \in DOMAIN old /\ old[id].status = "ACTIVE"
  <2>1. SeenReservations(s)[call.id].status = "ACTIVE"
    <3>1. Release(s, call) => SeenReservations(s)[call.id].status = "ACTIVE"
      BY Zenon DEF Release, CanFlip
    <3>2. Fulfil(s, call) => SeenReservations(s)[call.id].status = "ACTIVE"
      BY Zenon DEF Fulfil, CanFlip
    <3> QED
      BY <3>1, <3>2
  <2>2. id \in DOMAIN old
    BY <1>2, FlipTyped
  <2> QED
    BY <2>1, <2>2
<1>5. ReservationRow(old[id])
  BY <1>4, SeenTyped DEF TablesTyped, ReservationTable
<1>6. row.status = status /\ row.row = old[id].row /\ row.quantity = old[id].quantity
  <2> HIDE DEF old, id
  <2> QED
    BY <1>5 DEF ReservationRow
<1>7. status # "ACTIVE"
  OBVIOUS
<1> HIDE DEF w, row
<1> QED
  BY <1>3, <1>4, <1>6, <1>7, FlippedRow

----------------------------------------------------------------------------
(* Looked is inductive.                                                    *)

\* The next calls are all about one row, once the releases are made.
LEMMA NextRow ==
  ASSUME Typed, NEW s \in Sessions, NEW a \in session[s].todo, NEW b \in session[s].todo,
         IsNext(s, a), IsNext(s, b), a.act # "release"
  PROVE  a.row = b.row /\ b.act # "release"
<1>1. a.row \in Products \X Warehouses /\ b.row \in Products \X Warehouses
  BY DEF Typed, SessionTyped, CallTyped, Rows
<1>2. Before(a, b) /\ Before(b, a)
  BY DEF IsNext
<1>3. \A p \in Products \X Warehouses :
        p[1] \in Products /\ p[2] \in Warehouses /\ p = <<p[1], p[2]>>
  OBVIOUS
<1>4. /\ a.row[1] \in Nat /\ a.row[2] \in Nat /\ b.row[1] \in Nat /\ b.row[2] \in Nat
      /\ a.row = <<a.row[1], a.row[2]>> /\ b.row = <<b.row[1], b.row[2]>>
  BY <1>1, <1>3, IdsAssumption
<1>5. /\ b.act # "release"
      /\ a.row[2] < b.row[2] \/ (a.row[2] = b.row[2] /\ a.row[1] <= b.row[1])
  BY <1>2 DEF Before
<1>6. b.row[2] < a.row[2] \/ (b.row[2] = a.row[2] /\ b.row[1] <= a.row[1])
  BY <1>2, <1>5 DEF Before
<1>7. a.row[1] = b.row[1] /\ a.row[2] = b.row[2]
  BY <1>4, <1>5, <1>6
<1> QED
  BY <1>4, <1>5, <1>7

\* What one request does leaves what the others have read and are to do.
LEMMA OthersLook ==
  ASSUME IInv, Looked, NEW s \in Sessions, OthersKept(s),
         NEW x \in Sessions \ {s},
         \A row : Locks(x, row) => SeenOnHand(x, row)' = SeenOnHand(x, row),
         \A call \in session[x].todo : call.act = "fulfil" =>
           SeenReservations(x)'[call.id] = SeenReservations(x)[call.id]
  PROVE  Looks(x)'
<1>1. session'[x] = session[x] /\ held'[x] = held[x] /\ Looks(x)
  BY DEF OthersKept, Looked
<1>2. WritesLocked(x)'
  BY <1>1 DEF Looks, WritesLocked, Locks
<1>3. Sighted(x)'
  BY <1>1 DEF Looks, Sighted, Locks, IsNext
<1>4. \A call \in session'[x].todo : CallAddsUp(x, call)'
  <2> SUFFICES ASSUME NEW call \in session[x].todo PROVE CallAddsUp(x, call)'
    BY <1>1
  <2>1. CallAddsUp(x, call)
    BY <1>1 DEF Looks
  <2> QED
    BY <2>1 DEF CallAddsUp
<1> QED
  BY <1>2, <1>3, <1>4 DEF Looks

LEMMA QuietLooked ==
  ASSUME IInv, Looked, NEW s \in Sessions, OthersKept(s), UNCHANGED tables, Looks(s)'
  PROVE  Looked'
<1> SUFFICES ASSUME NEW x \in Sessions \ {s} PROVE Looks(x)'
  BY DEF Looked
<1>1. session'[x] = session[x]
  BY DEF OthersKept
<1>2. SeenInventory(x)' = SeenInventory(x) /\ SeenReservations(x)' = SeenReservations(x)
  BY <1>1 DEF tables, SeenInventory, SeenReservations
<1> QED
  BY <1>2, OthersLook DEF SeenOnHand

\* A statement that ends with its call made.
LEMMA DoneLooks ==
  ASSUME Looked, NEW s \in Sessions, Mid(s), NEW call \in session[s].todo,
         session'[s].todo = Done(call, session[s].todo), session'[s].seen = Unread,
         \A row \in DOMAIN session'[s].writes.inventory :
           row \in DOMAIN session[s].writes.inventory \/ Locks(s, row),
         held[s] \subseteq held'[s],
         \A c \in session[s].todo : c.act = "fulfil" /\ c # call =>
           /\ SeenReservations(s)'[c.id].row = SeenReservations(s)[c.id].row
           /\ SeenReservations(s)'[c.id].quantity = SeenReservations(s)[c.id].quantity
  PROVE  Looks(s)'
<1>1. Looks(s)
  BY DEF Looked
<1>2. WritesLocked(s)'
  BY <1>1 DEF Looks, WritesLocked, Locks
<1>3. Sighted(s)'
  BY DEF Sighted
<1>4. \A c \in session'[s].todo : CallAddsUp(s, c)'
  <2> SUFFICES ASSUME NEW c \in session[s].todo, c # call PROVE CallAddsUp(s, c)'
    BY DEF Done
  <2>1. CallAddsUp(s, c)
    BY <1>1 DEF Looks
  <2> QED
    BY <2>1 DEF CallAddsUp
<1> QED
  BY <1>2, <1>3, <1>4 DEF Looks

\* A request that moves stock has the lock and has read the row under it.
LEMMA MoveLocked ==
  ASSUME Looked, NEW s \in Sessions, NEW call \in session[s].todo,
         RecordMovement(s, call) \/ Fulfil(s, call)
  PROVE  Locks(s, call.row) /\ session[s].seen = SeenOnHand(s, call.row)
<1>1. IsNext(s, call)
  <2>1. RecordMovement(s, call) => IsNext(s, call)
    BY Zenon DEF RecordMovement, Running
  <2>2. Fulfil(s, call) => IsNext(s, call)
    BY Zenon DEF Fulfil, Running
  <2> QED
    BY <2>1, <2>2
<1>2. session[s].seen # Unread /\ call.act \in {"record", "fulfil"}
  BY MoveAllowed, CallMade
<1>3. Sighted(s)
  BY DEF Looked, Looks
<1> QED
  BY <1>1, <1>2, <1>3 DEF Sighted

LEMMA StatementsLooked ==
  ASSUME IInv, Typed, Mirroring, Booked, Looked,
         NEW s \in Sessions, NEW call \in session[s].todo,
         \/ LockInventoryRow(s, call) \/ FindNoInventoryRow(s, call)
         \/ Reserve(s, call) \/ Release(s, call)
         \/ RecordMovement(s, call) \/ Fulfil(s, call)
  PROVE  Looked'
<1>0. /\ Looks(s) /\ Shape /\ Moving(s)
      /\ \A c \in session[s].todo : Ends(c) => c.id \in DOMAIN SeenReservations(s)
  <2>1. \A c \in session[s].todo : Ends(c) => c.id \in DOMAIN reservations
    BY DEF Typed, SessionTyped, CallFits
  <2>2. DOMAIN reservations \subseteq DOMAIN SeenReservations(s)
    BY DEF SeenReservations, Over
  <2> QED
    BY <2>1, <2>2 DEF Looked, IInv, Booked
<1>1. CASE LockInventoryRow(s, call)
  <2>1. /\ Mid(s) /\ session'[s].todo = session[s].todo
        /\ session'[s].writes.reservations = session[s].writes.reservations
        /\ held'[s] = held[s] \cup {InventoryLock(call.row)}
    BY <1>0, <1>1, LockEffect
  <2>2. /\ session'[s].seen = SeenOnHand(s, call.row)
        /\ \A row : SeenOnHand(s, row)' = SeenOnHand(s, row)
        /\ \A row \in DOMAIN session'[s].writes.inventory :
             row \in DOMAIN session[s].writes.inventory \/ row = call.row
    BY <1>1, LockSees
  <2>3. WritesLocked(s)'
    BY <1>0, <2>1, <2>2 DEF Looks, WritesLocked, Locks
  <2>4. session[s].claimed /\ call.act # "release" /\ IsNext(s, call)
    BY <1>1 DEF LockInventoryRow
  <2>5. \A c \in session[s].todo : c.act # "release"
    BY <2>4 DEF IsNext, Before
  <2>6. \A c \in session[s].todo : IsNext(s, c) => c.row = call.row
    BY <2>4, NextRow
  <2>7. Sighted(s)'
    <3>1. session'[s].claimed
      BY <2>1, <2>4 DEF Mid
    <3>2. ASSUME NEW c \in session'[s].todo
          PROVE  /\ c.act # "release"
                 /\ IsNext(s, c)' => Locks(s, c.row)' /\ session'[s].seen = SeenOnHand(s, c.row)'
      BY <2>1, <2>2, <2>5, <2>6 DEF IsNext, Locks
    <3> QED
      BY <3>1, <3>2 DEF Sighted
  <2>8. \A c \in session'[s].todo : CallAddsUp(s, c)'
    <3>1. SeenReservations(s)' = SeenReservations(s)
      BY <2>1 DEF Mid, tables, SeenReservations
    <3> QED
      BY <1>0, <2>1, <3>1 DEF Looks, CallAddsUp
  <2> QED
    BY <2>1, <2>3, <2>7, <2>8, QuietLooked DEF Looks, Mid
<1>2. CASE FindNoInventoryRow(s, call)
  <2>1. /\ Mid(s) /\ session'[s].todo = session[s].todo /\ session'[s].seen = 0
        /\ session'[s].writes = session[s].writes /\ held'[s] = held[s]
    BY <1>0, <1>2, FindEffect
  <2>2. session[s].claimed /\ call.act = "reserve" /\ IsNext(s, call)
    BY <1>2 DEF FindNoInventoryRow, Running
  <2>3. \A c \in session[s].todo : c.act # "release"
    BY <2>2 DEF IsNext, Before
  <2>4. session[s].op \in {"create", "cancel", "update"}
    <3>1. session[s].op = "complete" => call.act \in {"record", "fulfil"}
      BY <1>0, <2>2 DEF Moving
    <3>2. session[s].op = "adjust" => call.act = "record"
      BY DEF Mirroring, Owned
    <3>3. session[s].op \in Ops /\ session[s].op # "idle"
      BY <1>0, <2>2 DEF Shape, Typed, NotStarted
    <3> QED
      BY <2>2, <3>1, <3>2, <3>3 DEF Ops
  <2>5. \A c \in session[s].todo : c.act = "reserve"
    BY <1>0, <2>3, <2>4 DEF Moving
  <2>6. Sighted(s)'
    BY <2>1, <2>2, <2>5 DEF Sighted, Mid
  <2>7. SeenReservations(s)' = SeenReservations(s)
    BY <2>1 DEF Mid, tables, SeenReservations
  <2>8. Looks(s)'
    BY <1>0, <2>1, <2>6, <2>7 DEF Looks, WritesLocked, Locks, CallAddsUp
  <2> QED
    BY <2>1, <2>8, QuietLooked DEF Mid
<1>3. CASE Reserve(s, call)
  <2>1. /\ Mid(s) /\ session'[s].todo = Done(call, session[s].todo) /\ session'[s].seen = Unread
        /\ session'[s].writes.inventory = session[s].writes.inventory /\ held'[s] = held[s]
    BY <1>0, <1>3, ReserveEffect
  <2>2. \A k \in DOMAIN SeenReservations(s) :
          SeenReservations(s)'[k] = SeenReservations(s)[k]
    BY <1>3, ReserveSees
  <2>3. Looks(s)'
    BY <1>0, <2>1, <2>2, DoneLooks DEF Ends
  <2> QED
    BY <2>1, <2>3, QuietLooked DEF Mid
<1>4. CASE Release(s, call)
  <2>1. /\ Mid(s) /\ session'[s].todo = Done(call, session[s].todo)
        /\ session'[s].seen = session[s].seen
        /\ session'[s].writes.inventory = session[s].writes.inventory
        /\ held'[s] = held[s] \cup {ReservationLock(call.id)}
    BY <1>0, <1>4, ReleaseEffect
  <2>2. session[s].seen = Unread
    BY <1>0, <1>4 DEF Looks, Sighted, Release, Running
  <2>3. \A k \in DOMAIN SeenReservations(s) :
          /\ SeenReservations(s)'[k].row = SeenReservations(s)[k].row
          /\ SeenReservations(s)'[k].quantity = SeenReservations(s)[k].quantity
    BY <1>4, FlipSees
  <2>4. Looks(s)'
    BY <1>0, <2>1, <2>2, <2>3, DoneLooks DEF Ends
  <2> QED
    BY <2>1, <2>4, QuietLooked DEF Mid
<1>5. CASE RecordMovement(s, call) \/ Fulfil(s, call)
  <2>1. /\ Moves(s, call) /\ held[s] \subseteq held'[s] /\ Locks(s, call.row)
    BY <1>0, <1>5, RecordEffect, FulfilEffect, MoveLocked
  <2>2. \A row \in DOMAIN session'[s].writes.inventory :
          row \in DOMAIN session[s].writes.inventory \/ Locks(s, row)
    BY <2>1, MoveSees
  <2>3. \A k \in DOMAIN SeenReservations(s) :
          /\ SeenReservations(s)'[k].row = SeenReservations(s)[k].row
          /\ SeenReservations(s)'[k].quantity = SeenReservations(s)[k].quantity
    <3>1. CASE RecordMovement(s, call)
      <4>1. SeenReservations(s)' = SeenReservations(s)
        BY <1>0, <3>1, RecordEffect DEF Moves, Mid, tables, SeenReservations
      <4> QED
        BY <4>1
    <3>2. CASE Fulfil(s, call)
      BY <3>2, FlipSees
    <3> QED
      BY <1>5, <3>1, <3>2
  <2>4. Mid(s) /\ session'[s].todo = Done(call, session[s].todo) /\ session'[s].seen = Unread
    BY <2>1 DEF Moves
  <2>5. Looks(s)'
    BY <1>0, <2>1, <2>2, <2>3, <2>4, DoneLooks DEF Ends
  <2> QED
    BY <2>4, <2>5, QuietLooked DEF Mid
<1> QED
  BY <1>1, <1>2, <1>3, <1>4, <1>5

\* A claim, with calls that add up.
LEMMA ClaimLooked ==
  ASSUME IInv, Typed, Looked, NEW s \in Sessions, NEW row, NEW calls, Claim(s, row, calls),
         ~session[s].claimed,
         \A call \in calls :
           /\ call.act = "fulfil" =>
                /\ call.id \in DOMAIN reservations
                /\ reservations[call.id].row = call.row
                /\ reservations[call.id].quantity = call.quantity
                /\ call.type \in {"OUTGOING", "TRANSFER_OUT"}
           /\ call.act = "record" =>
                call.type \notin {"OUTGOING", "TRANSFER_OUT"} /\ call.quantity >= 0
  PROVE  Looked'
<1>1. OthersKept(s) /\ UNCHANGED tables
  BY ClaimStep DEF IInv
<1>2. /\ session'[s].todo = calls /\ session'[s].seen = session[s].seen
      /\ session'[s].writes.inventory = session[s].writes.inventory
      /\ session'[s].writes.reservations = session[s].writes.reservations
  BY ClaimEffect DEF IInv
<1>3. session[s].seen = Unread
  BY DEF Looked, Looks, Sighted
<1>4. /\ DOMAIN session[s].writes.inventory = {} /\ DOMAIN session[s].writes.reservations = {}
  BY NothingWritten DEF Typed, NotStarted
<1>5. SeenReservations(s)' = Over(session[s].writes.reservations, reservations)
  BY <1>1, <1>2 DEF SeenReservations, tables
<1>6. \A id \in DOMAIN reservations : SeenReservations(s)'[id] = reservations[id]
  BY <1>4, <1>5 DEF Over
<1>7. \A call \in session'[s].todo : CallAddsUp(s, call)'
  BY <1>2, <1>6 DEF CallAddsUp
<1>8. Looks(s)'
  BY <1>2, <1>3, <1>4, <1>7 DEF Looks, WritesLocked, Sighted
<1> QED
  BY <1>1, <1>8, QuietLooked

LEMMA RecordsAre ==
  ASSUME NEW type, NEW items, NEW dst
  PROVE  \A call \in Records(type, items, dst) :
           /\ call.act = "record" /\ call.type = type
           /\ \E i \in DOMAIN items : call.quantity = items[i].quantity
BY DEF Records, Call

LEMMA FulfilsAre ==
  ASSUME NEW type, NEW table, NEW ids
  PROVE  \A call \in Fulfils(type, table, ids) :
           /\ call.act = "fulfil" /\ call.type = type /\ call.id \in ids
           /\ table[call.id].row = call.row /\ table[call.id].quantity = call.quantity
BY DEF Fulfils, Call

LEMMA ReleasesReserves ==
  ASSUME NEW table, NEW ids, NEW items, NEW src
  PROVE  \A call \in Releases(table, ids) \cup Reserves(items, src) :
           call.act \in {"release", "reserve"}
BY DEF Releases, Reserves, Call

LEMMA ClaimsLooked ==
  ASSUME IInv, Typed, Looked, NEW s \in Sessions, Complete(s) \/ Cancel(s) \/ Update(s)
  PROVE  Looked'
<1> DEFINE t == session[s].txn
           row == transactions[t]
<1>1. CASE Complete(s)
  <2> DEFINE ids == ReservationsFor(t, row.items)
             after == [row EXCEPT !.status = "COMPLETED"]
  <2>1. /\ Claim(s, after, CompleteCalls(t)) /\ ~session[s].claimed
        /\ session[s].op = "complete"
        /\ row.type = "INCOMING" \/ \A i \in DOMAIN row.items :
             HasActiveReservation(t, row.items[i].product)
    BY <1>1, Zenon DEF Complete, AtClaim
  <2>2. TransactionRow(row)
    BY <2>1, ClaimedRow
  <2>3. \A i \in DOMAIN row.items : row.items[i].quantity >= 0
    BY <2>2 DEF TransactionRow, IsTransaction, IsItem
  <2>4. row.type # "INCOMING" => ids \subseteq DOMAIN reservations
    <3>1. ASSUME row.type # "INCOMING" PROVE ids \in SUBSET ActiveOf(reservations, t)
      BY <2>1, <3>1, FoundReservations
    <3> QED
      BY <3>1 DEF ActiveOf
  <2>5. CASE row.type = "INCOMING"
    <3>1. CompleteCalls(t) = Records("INCOMING", row.items, row.dst)
      BY <2>5 DEF CompleteCalls
    <3>2. \A call \in CompleteCalls(t) :
            call.act = "record" /\ call.type = "INCOMING" /\ call.quantity >= 0
      BY <2>3, <3>1, RecordsAre
    <3> HIDE DEF row, t
    <3> QED
      BY <2>1, <3>2, ClaimLooked
  <2>6. CASE row.type = "OUTGOING"
    <3>1. CompleteCalls(t) = Fulfils("OUTGOING", reservations, ids)
      BY <2>6 DEF CompleteCalls
    <3>2. \A call \in CompleteCalls(t) :
            /\ call.act = "fulfil" /\ call.type = "OUTGOING" /\ call.id \in DOMAIN reservations
            /\ reservations[call.id].row = call.row
            /\ reservations[call.id].quantity = call.quantity
      BY <2>4, <2>6, <3>1, FulfilsAre
    <3> HIDE DEF row, t
    <3> QED
      BY <2>1, <3>2, ClaimLooked
  <2>7. CASE row.type = "TRANSFER"
    <3>1. CompleteCalls(t) = Fulfils("TRANSFER_OUT", reservations, ids)
                               \cup Records("TRANSFER_IN", row.items, row.dst)
      BY <2>7 DEF CompleteCalls
    <3>2. \A call \in Records("TRANSFER_IN", row.items, row.dst) :
            call.act = "record" /\ call.type = "TRANSFER_IN" /\ call.quantity >= 0
      BY <2>3, RecordsAre
    <3>3. \A call \in Fulfils("TRANSFER_OUT", reservations, ids) :
            /\ call.act = "fulfil" /\ call.type = "TRANSFER_OUT"
            /\ call.id \in DOMAIN reservations
            /\ reservations[call.id].row = call.row
            /\ reservations[call.id].quantity = call.quantity
      BY <2>4, <2>7, FulfilsAre
    <3> HIDE DEF row, t, ids
    <3> QED
      BY <2>1, <3>1, <3>2, <3>3, ClaimLooked
  <2> QED
    BY <2>2, <2>5, <2>6, <2>7 DEF TransactionRow, IsTransaction, TransactionTypes
<1>2. CASE Cancel(s) \/ Update(s)
  <2>1. PICK after, calls :
          /\ Claim(s, after, calls) /\ ~session[s].claimed
          /\ \A call \in calls : call.act \in {"release", "reserve"}
    <3>1. CASE Cancel(s)
      <4>1. Claim(s, [row EXCEPT !.status = "CANCELLED"],
                  Releases(reservations, ActiveOf(reservations, t))) /\ ~session[s].claimed
        BY <3>1 DEF Cancel, AtClaim
      <4>2. \A call \in Releases(reservations, ActiveOf(reservations, t)) :
              call.act \in {"release", "reserve"}
        BY ReleasesReserves
      <4> QED
        BY <4>1, <4>2
    <3>2. CASE Update(s)
      <4> DEFINE after == Patched(row, session[s].patch)
                 which == Resynced(row, session[s].patch)
                 calls == Releases(reservations, ReservationsFor(t, Restrict(row.items, which)))
                            \cup Reserves(Restrict(after.items, which), after.src)
      <4>1. Claim(s, after, calls) /\ ~session[s].claimed
        BY <3>2, Zenon DEF Update, AtClaim
      <4>2. \A call \in calls : call.act \in {"release", "reserve"}
        BY ReleasesReserves
      <4> QED
        BY <4>1, <4>2
    <3> QED
      BY <1>2, <3>1, <3>2
  <2> QED
    BY <2>1, ClaimLooked
<1> QED
  BY <1>1, <1>2

LEMMA ArriveLooked ==
  ASSUME IInv, Typed, Looked, NEW s \in Sessions, Arrive(s)
  PROVE  Looked'
<1> USE DEF IInv
<1>1. ASSUME OthersKept(s), UNCHANGED tables, session'[s].seen = Unread,
             DOMAIN session'[s].writes.inventory = {},
             \A call \in session'[s].todo :
               /\ call.act # "fulfil"
               /\ call.act = "record" =>
                    call.type = "ADJUSTMENT" /\ call.quantity \in Adjustments
      PROVE  Looked'
  <2>1. Looks(s)'
    BY <1>1 DEF Looks, WritesLocked, Sighted, CallAddsUp
  <2> QED
    BY <1>1, <2>1, QuietLooked
<1>2. ASSUME NEW t \in Txns, NEW order \in Orders, NEW calls,
             InsertPending(s, t, order, calls),
             calls = {} \/ calls = Reserves(order.items, order.src)
      PROVE  Looked'
  <2>1. OthersKept(s) /\ UNCHANGED tables
    BY <1>2, InsertStep
  <2>2. /\ session'[s].todo = calls /\ session'[s].seen = Unread
        /\ session'[s].writes.inventory = NoWrites.inventory
    BY <1>2, InsertEffect DEF NoWrites
  <2>3. \A call \in calls : call.act = "reserve"
    BY <1>2 DEF Reserves, Call
  <2> QED
    BY <1>1, <2>1, <2>2, <2>3, NothingWritten
<1>3. ASSUME NEW op \in {"complete", "cancel", "update"}, NEW t \in Txns,
             NEW patch, Request(s, op, t, patch)
      PROVE  Looked'
  <2>1. OthersKept(s) /\ UNCHANGED tables
    BY <1>3, RequestStep
  <2>2. session'[s].writes = NoWrites /\ session'[s].todo = {} /\ session'[s].seen = Unread
    BY <1>3, RequestEffect
  <2> QED
    BY <1>1, <2>1, <2>2, NothingWritten
<1>4. ASSUME NEW row \in Rows, NEW delta \in Adjustments, AdjustInventory(s, row, delta)
      PROVE  Looked'
  <2>1. OthersKept(s) /\ UNCHANGED tables
    BY <1>4, AdjustStep
  <2>2. /\ session'[s].writes = NoWrites /\ session'[s].seen = Unread
        /\ session'[s].todo = {Call("record", "ADJUSTMENT", row, delta, NoId)}
    BY <1>4, AdjustEffect
  <2>3. \A call \in session'[s].todo :
          call.act = "record" /\ call.type = "ADJUSTMENT" /\ call.quantity = delta
    BY <2>2 DEF Call
  <2> QED
    BY <1>1, <2>1, <2>2, <2>3, NothingWritten
<1>5. CASE \E t \in Txns, order \in Orders :
             \/ CreateIncoming(s, t, order)
             \/ CreateOutgoing(s, t, order)
             \/ CreateTransfer(s, t, order)
  BY <1>2, <1>5 DEF CreateIncoming, CreateOutgoing, CreateTransfer
<1>6. CASE \E t \in Txns : \/ Request(s, "complete", t, NoPatch)
                           \/ Request(s, "cancel", t, NoPatch)
                           \/ \E patch \in Patches : Request(s, "update", t, patch)
  BY <1>3, <1>6
<1>7. CASE \E row \in Rows, delta \in Adjustments : AdjustInventory(s, row, delta)
  BY <1>4, <1>7
<1> QED
  BY <1>5, <1>6, <1>7 DEF Arrive

LEMMA IdleLooks ==
  ASSUME NEW s \in Sessions, session[s] = Idle
  PROVE  Looks(s)
BY NothingWritten DEF Looks, WritesLocked, Sighted, Idle

\* What a commit writes of a row, it has locked: nobody else has.
LEMMA CommitKeeps ==
  ASSUME IInv, Looked, NEW s \in Sessions, Commit(s), NEW x \in Sessions \ {s},
         NEW row, Locks(x, row)
  PROVE  /\ row \notin DOMAIN session[s].writes.inventory
         /\ SeenOnHand(x, row)' = SeenOnHand(x, row)
<1>1. row \notin DOMAIN session[s].writes.inventory
  BY DEF IInv, ClaimsHold, LocksExclusive, Looked, Looks, WritesLocked, Locks
<1>2. session'[x] = session[x]
  BY FinishStep DEF Commit, IInv, OthersKept
<1>3. inventory' = Over(session[s].writes.inventory, inventory)
  BY DEF Commit, SeenInventory
<1> DEFINE w == session[x].writes.inventory
           i == inventory'
<1>4. SeenInventory(x)' = Over(w, i) /\ SeenInventory(x) = Over(w, inventory)
  BY <1>2 DEF SeenInventory
<1>5. StockOf(Over(w, i), row) = StockOf(Over(w, inventory), row)
  <2>1. row \in DOMAIN i <=> row \in DOMAIN inventory
    BY <1>1, <1>3 DEF Over
  <2>2. row \in DOMAIN i => i[row] = inventory[row]
    BY <1>1, <1>3 DEF Over
  <2> HIDE DEF w, i
  <2> QED
    BY <2>1, <2>2 DEF Over, StockOf
<1> HIDE DEF w, i
<1> QED
  BY <1>1, <1>4, <1>5 DEF SeenOnHand

LEMMA CommitLooked ==
  ASSUME IInv, Typed, Mirroring, Looked, NEW s \in Sessions, Commit(s)
  PROVE  Looked'
<1>1. OthersKept(s) /\ session'[s] = Idle
  BY FinishStep DEF Commit, IInv
<1>2. Looks(s)'
  BY <1>1, NothingWritten DEF Looks, WritesLocked, Sighted, Idle
<1>3. ASSUME NEW x \in Sessions \ {s} PROVE Looks(x)'
  <2>1. \A row : Locks(x, row) => SeenOnHand(x, row)' = SeenOnHand(x, row)
    BY CommitKeeps
  <2>2. ASSUME NEW call \in session[x].todo, call.act = "fulfil"
        PROVE  SeenReservations(x)'[call.id] = SeenReservations(x)[call.id]
    <3>1. /\ call.id \in DOMAIN reservations /\ call.id[1] = session[x].txn
          /\ session[x].op \in {"complete", "cancel", "update"}
      BY <2>2 DEF Typed, SessionTyped, CallFits, Ends
    <3>2. Works(x)
      BY <2>2, <3>1 DEF Typed, NotStarted, Works
    <3> DEFINE v == session[s].writes.reservations
               w == session[x].writes.reservations
    <3>3. /\ reservations' = Over(v, reservations)
          /\ \A id \in DOMAIN v : Works(s) /\ id[1] = session[s].txn
      BY CommitTables
    <3>4. call.id \notin DOMAIN v
      BY <3>1, <3>2, <3>3, WorkApart
    <3>5. /\ SeenReservations(x) = Over(w, reservations)
          /\ SeenReservations(x)' = Over(w, Over(v, reservations))
      BY <1>1, <3>3 DEF SeenReservations, OthersKept
    <3> HIDE DEF v, w
    <3>6. Over(w, Over(v, reservations))[call.id] = Over(w, reservations)[call.id]
      BY <3>1, <3>4 DEF Over
    <3> QED
      BY <3>5, <3>6
  <2> QED
    BY <1>1, <2>1, <2>2, OthersLook
<1> QED
  BY <1>2, <1>3 DEF Looked

LEMMA LookedInductive ==
  IInv /\ Typed /\ Mirroring /\ Booked /\ Looked /\ [Next]_vars => Looked'
<1> SUFFICES ASSUME IInv, Typed, Mirroring, Booked, Looked, [Next]_vars PROVE Looked'
  OBVIOUS
<1>1. ASSUME NEW s \in Sessions, Arrive(s) \/ Step(s) \/ Abort(s) PROVE Looked'
  <2>1. CASE \E call \in session[s].todo :
               \/ LockInventoryRow(s, call) \/ FindNoInventoryRow(s, call)
               \/ Reserve(s, call) \/ Release(s, call)
               \/ RecordMovement(s, call) \/ Fulfil(s, call)
    BY <2>1, StatementsLooked
  <2>2. CASE Refuse(s) \/ Abort(s)
    <3>1. OthersKept(s) /\ session'[s] = Idle /\ UNCHANGED tables
      BY <2>2, FinishStep DEF Refuse, Abort, Rollback, IInv
    <3>2. Looks(s)'
      BY <3>1, NothingWritten DEF Looks, WritesLocked, Sighted, Idle
    <3> QED
      BY <3>1, <3>2, QuietLooked
  <2> QED
    BY <1>1, <2>1, <2>2, ClaimsLooked, ArriveLooked, CommitLooked DEF Step
<1>2. CASE UNCHANGED vars
  <2>1. \A s \in Sessions : SeenInventory(s)' = SeenInventory(s)
                            /\ SeenReservations(s)' = SeenReservations(s)
    BY <1>2 DEF vars, SeenInventory, SeenReservations
  <2> QED
    BY <1>2, <2>1 DEF vars, Looked, Looks, WritesLocked, Sighted, CallAddsUp, Locks, IsNext,
                      SeenOnHand
<1> QED
  BY <1>1, <1>2 DEF Next

LEMMA InitLooked == Init => Looked
BY IdleLooks DEF Init, Looked

----------------------------------------------------------------------------
(* Sums of reservations.                                                   *)

ActiveQuantities(table, row) == [id \in ActiveOn(table, row) |-> table[id].quantity]

\* The code's aggregate is a sum in the sense of SumTheorems.
LEMMA ReservedTotal ==
  ASSUME NEW table, NEW row, IsFiniteSet(ActiveOn(table, row))
  PROVE  Reserved(table, row) = Total(ActiveQuantities(table, row), ActiveOn(table, row))
<1> DEFINE S == ActiveOn(table, row)
           q == ActiveQuantities(table, row)
           P(g) == g = [s \in SUBSET S |->
                          IF s = {} THEN 0 ELSE table[Pick(s)].quantity + g[s \ {Pick(s)}]]
           h == CHOOSE g : P(g)
           k == CHOOSE g : Sums(q, S, g)
<1>1. Reserved(table, row) = h[S]
  BY DEF Reserved, MapThenSumSet, MapThenFoldSet, Pick
<1>2. Sums(q, S, k)
  BY SumsExist
<1>3. \A s \in SUBSET S : s # {} => q[Pick(s)] = table[Pick(s)].quantity
  BY PickIn DEF ActiveQuantities
<1> HIDE DEF S, q
<1>4. \A g : P(g) <=> Sums(q, S, g)
  BY <1>3 DEF Sums
<1>5. P(k)
  BY <1>2, <1>4
<1> HIDE DEF P, k
<1>6. P(h)
  BY <1>5
<1>7. Sums(q, S, h)
  BY <1>4, <1>6
<1> HIDE DEF h
<1>8. h[S] = k[S]
  BY <1>2, <1>7, SumsAgree DEF S
<1> QED
  BY <1>1, <1>8, TotalSums DEF k, S, q

Small(table) == ReservationTable(table) /\ IsFiniteSet(DOMAIN table)

LEMMA SmallSums ==
  ASSUME NEW table, Small(table), NEW row
  PROVE  /\ IsFiniteSet(ActiveOn(table, row))
         /\ \A id \in ActiveOn(table, row) : ActiveQuantities(table, row)[id] = table[id].quantity
         /\ \A id \in ActiveOn(table, row) : table[id].quantity \in Nat
         /\ \A id \in ActiveOn(table, row) : id \in DOMAIN table
<1>1. ActiveOn(table, row) \subseteq DOMAIN table
  BY DEF ActiveOn
<1>2. IsFiniteSet(ActiveOn(table, row))
  BY <1>1, FS_Subset DEF Small
<1> QED
  BY <1>1, <1>2 DEF ActiveQuantities, Small, ReservationTable, ReservationRow, IsReservation

LEMMA ReservedNat ==
  ASSUME NEW table, Small(table), NEW row
  PROVE  Reserved(table, row) \in Nat
<1> DEFINE S == ActiveOn(table, row)
           q == ActiveQuantities(table, row)
<1>1. Reserved(table, row) = Total(q, S) /\ IsFiniteSet(S) /\ \A id \in S : q[id] \in Nat
  BY SmallSums, ReservedTotal
<1> HIDE DEF S, q
<1>2. Total(q, {}) <= Total(q, S) /\ Total(q, {}) = 0
  BY <1>1, TotalGrows, TotalEmpty
<1>3. Total(q, S) \in Int
  BY <1>1, TotalType
<1> QED
  BY <1>1, <1>2, <1>3

\* What a holds of a row active is active, of that quantity, in b.
Within(a, b, row) ==
  \A id \in ActiveOn(a, row) : id \in ActiveOn(b, row) /\ a[id].quantity = b[id].quantity

LEMMA ReservedWithin ==
  ASSUME NEW a, NEW b, Small(a), Small(b), NEW row, Within(a, b, row)
  PROVE  Reserved(a, row) <= Reserved(b, row)
<1> DEFINE S == ActiveOn(b, row)
           R == ActiveOn(a, row)
           q == ActiveQuantities(b, row)
           p == ActiveQuantities(a, row)
<1>1. /\ Reserved(a, row) = Total(p, R) /\ Reserved(b, row) = Total(q, S)
      /\ IsFiniteSet(R) /\ IsFiniteSet(S)
  BY SmallSums, ReservedTotal
<1>2. (\A id \in S : q[id] \in Nat) /\ R \in SUBSET S /\ (\A id \in R : p[id] = q[id])
  BY SmallSums DEF Within
<1> HIDE DEF S, R, q, p
<1>3. Total(p, R) = Total(q, R)
  BY <1>1, <1>2, TotalAgrees
<1>4. Total(q, R) <= Total(q, S)
  BY <1>1, <1>2, TotalGrows
<1> QED
  BY <1>1, <1>3, <1>4

LEMMA ReservedSame ==
  ASSUME NEW a, NEW b, Small(a), Small(b), NEW row, Within(a, b, row), Within(b, a, row)
  PROVE  Reserved(a, row) = Reserved(b, row)
BY ReservedWithin, ReservedNat

\* One more reservation.
LEMMA ReservedAdds ==
  ASSUME NEW old, NEW new, Small(old), Small(new), NEW id, id \notin DOMAIN old,
         DOMAIN new = DOMAIN old \cup {id}, new[id].status = "ACTIVE",
         \A k \in DOMAIN old : new[k] = old[k]
  PROVE  /\ Reserved(new, new[id].row) = new[id].quantity + Reserved(old, new[id].row)
         /\ \A row : row # new[id].row => Within(new, old, row) /\ Within(old, new, row)
<1> DEFINE row == new[id].row
           S == ActiveOn(old, row)
           q == ActiveQuantities(new, row)
           p == ActiveQuantities(old, row)
<1>1. ActiveOn(new, row) = S \cup {id} /\ id \notin S
  BY DEF ActiveOn
<1>2. /\ Reserved(new, row) = Total(q, S \cup {id}) /\ Reserved(old, row) = Total(p, S)
      /\ IsFiniteSet(S)
  <2>1. IsFiniteSet(S) /\ IsFiniteSet(ActiveOn(new, row))
    BY SmallSums
  <2>2. Reserved(old, row) = Total(p, S) /\ Reserved(new, row) = Total(q, ActiveOn(new, row))
    BY <2>1, ReservedTotal
  <2> HIDE DEF S, q, p, row
  <2> QED
    BY <1>1, <2>1, <2>2
<1>3. (\A k \in S \cup {id} : q[k] \in Int) /\ (\A k \in S : p[k] = q[k])
      /\ q[id] = new[id].quantity
  <2>1. \A k \in S \cup {id} : q[k] = new[k].quantity /\ new[k].quantity \in Nat
    BY <1>1, SmallSums
  <2>2. \A k \in S : p[k] = old[k].quantity /\ k \in DOMAIN old
    BY SmallSums
  <2> HIDE DEF S, q, p
  <2> QED
    BY <2>1, <2>2
<1>4. \A r : r # row => Within(new, old, r) /\ Within(old, new, r)
  BY DEF Within, ActiveOn
<1> HIDE DEF S, q, p
<1>5. Total(q, S \cup {id}) = q[id] + Total(q, S)
  BY <1>1, <1>2, <1>3, TotalWith
<1>6. Total(p, S) = Total(q, S)
  BY <1>2, <1>3, TotalAgrees
<1> QED
  BY <1>2, <1>3, <1>4, <1>5, <1>6

\* One less.
LEMMA ReservedLess ==
  ASSUME NEW old, NEW new, Small(old), Small(new), NEW id \in DOMAIN old,
         DOMAIN new = DOMAIN old, old[id].status = "ACTIVE", new[id].status # "ACTIVE",
         \A k \in DOMAIN old \ {id} : new[k] = old[k]
  PROVE  /\ Reserved(old, old[id].row) = old[id].quantity + Reserved(new, old[id].row)
         /\ \A row : row # old[id].row => Within(old, new, row)
         /\ \A row : Within(new, old, row)
<1> DEFINE row == old[id].row
           S == ActiveOn(old, row)
           q == ActiveQuantities(old, row)
           p == ActiveQuantities(new, row)
<1>1. ActiveOn(new, row) = S \ {id} /\ id \in S
  BY DEF ActiveOn
<1>2. /\ Reserved(old, row) = Total(q, S) /\ Reserved(new, row) = Total(p, S \ {id})
      /\ IsFiniteSet(S) /\ IsFiniteSet(S \ {id})
  <2>1. IsFiniteSet(S) /\ IsFiniteSet(ActiveOn(new, row))
    BY SmallSums
  <2>2. Reserved(old, row) = Total(q, S) /\ Reserved(new, row) = Total(p, ActiveOn(new, row))
    BY <2>1, ReservedTotal
  <2> HIDE DEF S, q, p, row
  <2> QED
    BY <1>1, <2>1, <2>2
<1>3. (\A k \in S : q[k] \in Int) /\ (\A k \in S \ {id} : p[k] = q[k])
      /\ q[id] = old[id].quantity
  <2>1. \A k \in S \ {id} : p[k] = new[k].quantity
    BY <1>1, SmallSums
  <2>2. \A k \in S : q[k] = old[k].quantity /\ k \in DOMAIN old /\ old[k].quantity \in Nat
    BY SmallSums
  <2> HIDE DEF S, q, p
  <2> QED
    BY <1>1, <2>1, <2>2
<1>4. /\ \A r : r # row => Within(old, new, r)
      /\ \A r : Within(new, old, r)
  BY DEF Within, ActiveOn
<1> HIDE DEF S, q, p
<1>5. Total(q, S) = q[id] + Total(q, S \ {id})
  BY <1>1, <1>2, <1>3, TotalWithout
<1>6. Total(p, S \ {id}) = Total(q, S \ {id})
  BY <1>2, <1>3, TotalAgrees
<1> QED
  BY <1>2, <1>3, <1>4, <1>5, <1>6
----------------------------------------------------------------------------
(* NeverOversold.  Of a row it has locked, a request sees no more reserved     *)
(* than on hand; of any other row, all it has done to the reservations is to   *)
(* end some.                                                                   *)

FewReservations ==
  /\ IsFiniteSet(DOMAIN reservations)
  /\ \A s \in Sessions : IsFiniteSet(DOMAIN SeenReservations(s))

BackedOn(s, row) ==
  IF Locks(s, row) THEN Reserved(SeenReservations(s), row) <= SeenOnHand(s, row)
  ELSE Within(SeenReservations(s), reservations, row)

Backed(s) == \A row \in Rows : BackedOn(s, row)

Sound == NeverOversold /\ FewReservations /\ \A s \in Sessions : Backed(s)

\* Adjustments that only add: what the others may do is OnlyAdjustmentsOversell.
AdjustmentsAdd == Adjustments \subseteq Nat

LEMMA FewSmall ==
  ASSUME Typed, FewReservations
  PROVE  Small(reservations) /\ \A s \in Sessions : Small(SeenReservations(s))
BY SeenTyped DEF FewReservations, Small, Typed, TablesTyped

LEMMA SeenSmall ==
  ASSUME Typed', NEW s \in Sessions, IsFiniteSet(DOMAIN SeenReservations(s)')
  PROVE  Small(SeenReservations(s)')
<1>1. /\ ReservationTable(session'[s].writes.reservations) /\ ReservationTable(reservations')
  BY DEF Typed, SessionTyped, TablesTyped
<1>2. SeenReservations(s)' = Over(session'[s].writes.reservations, reservations')
  BY DEF SeenReservations
<1> QED
  BY <1>1, <1>2, OverTyped DEF Small

LEMMA QuietSound ==
  ASSUME Sound, NEW s \in Sessions, OthersKept(s), UNCHANGED tables,
         Backed(s)', IsFiniteSet(DOMAIN SeenReservations(s))'
  PROVE  Sound'
<1>1. NeverOversold'
  BY DEF Sound, NeverOversold, OnHand, tables
<1>2. ASSUME NEW x \in Sessions \ {s}
      PROVE  /\ SeenReservations(x)' = SeenReservations(x)
             /\ SeenInventory(x)' = SeenInventory(x) /\ held'[x] = held[x]
  BY DEF OthersKept, tables, SeenReservations, SeenInventory
<1>3. FewReservations'
  BY <1>2 DEF Sound, FewReservations, tables
<1>4. ASSUME NEW x \in Sessions \ {s} PROVE Backed(x)'
  <2>1. reservations' = reservations /\ Backed(x)
    BY DEF tables, Sound
  <2> QED
    BY <1>2, <2>1 DEF Backed, BackedOn, Locks, SeenOnHand
<1> QED
  BY <1>1, <1>3, <1>4 DEF Sound

\* A step of s that changes neither the tables it sees nor its inventory locks.
LEMMA StillSound ==
  ASSUME Sound, NEW s \in Sessions, OthersKept(s), UNCHANGED tables,
         SeenReservations(s)' = SeenReservations(s),
         \A row \in Rows : SeenOnHand(s, row)' = SeenOnHand(s, row),
         \A row \in Rows : Locks(s, row)' <=> Locks(s, row)
  PROVE  Sound'
<1>1. Backed(s) /\ reservations' = reservations
  BY DEF Sound, tables
<1>2. Backed(s)'
  <2> SUFFICES ASSUME NEW row \in Rows PROVE BackedOn(s, row)'
    BY DEF Backed
  <2>1. BackedOn(s, row)
    BY <1>1 DEF Backed
  <2> QED
    BY <1>1, <2>1 DEF BackedOn
<1>3. IsFiniteSet(DOMAIN SeenReservations(s))'
  BY DEF Sound, FewReservations
<1> QED
  BY <1>2, <1>3, QuietSound

\* A request that has written nothing sees the tables, and reserves nothing yet.
LEMMA FreshSound ==
  ASSUME Sound, NEW s \in Sessions, OthersKept(s), UNCHANGED tables,
         DOMAIN session'[s].writes.reservations = {}, held'[s] = {}
  PROVE  Sound'
<1>1. SeenReservations(s)' = Over(session'[s].writes.reservations, reservations')
  BY DEF SeenReservations
<1>2. /\ DOMAIN SeenReservations(s)' = DOMAIN reservations'
      /\ \A k \in DOMAIN reservations' : SeenReservations(s)'[k] = reservations'[k]
  BY <1>1 DEF Over
<1>3. \A row \in Rows : BackedOn(s, row)'
  BY <1>2 DEF BackedOn, Locks, Within, ActiveOn
<1>4. IsFiniteSet(DOMAIN SeenReservations(s))'
  BY <1>2 DEF Sound, FewReservations, tables
<1> QED
  BY <1>3, <1>4, QuietSound DEF Backed

LEMMA ArriveSound ==
  ASSUME IInv, Typed, Sound, NEW s \in Sessions, Arrive(s)
  PROVE  Sound'
<1> USE DEF IInv
<1>1. held'[s] = {}
  BY Arrivals DEF Typed, NotStarted
<1>2. ASSUME OthersKept(s), UNCHANGED tables, DOMAIN session'[s].writes.reservations = {}
      PROVE  Sound'
  BY <1>1, <1>2, FreshSound
<1>3. ASSUME NEW t \in Txns, NEW order, NEW calls, InsertPending(s, t, order, calls)
      PROVE  Sound'
  BY <1>2, <1>3, InsertStep, InsertEffect, NothingWritten DEF NoWrites
<1>4. ASSUME NEW op \in {"complete", "cancel", "update"}, NEW t \in Txns,
             NEW patch, Request(s, op, t, patch)
      PROVE  Sound'
  BY <1>2, <1>4, RequestStep, RequestEffect, NothingWritten
<1>5. ASSUME NEW row \in Rows, NEW delta \in Adjustments, AdjustInventory(s, row, delta)
      PROVE  Sound'
  BY <1>2, <1>5, AdjustStep, AdjustEffect, NothingWritten
<1>6. CASE \E t \in Txns, order \in Orders :
             \/ CreateIncoming(s, t, order)
             \/ CreateOutgoing(s, t, order)
             \/ CreateTransfer(s, t, order)
  BY <1>3, <1>6 DEF CreateIncoming, CreateOutgoing, CreateTransfer
<1>7. CASE \E t \in Txns : \/ Request(s, "complete", t, NoPatch)
                           \/ Request(s, "cancel", t, NoPatch)
                           \/ \E patch \in Patches : Request(s, "update", t, patch)
  BY <1>4, <1>7
<1>8. CASE \E row \in Rows, delta \in Adjustments : AdjustInventory(s, row, delta)
  BY <1>5, <1>8
<1> QED
  BY <1>6, <1>7, <1>8 DEF Arrive

LEMMA ClaimSound ==
  ASSUME IInv, Sound, NEW s \in Sessions, NEW row, NEW calls, Claim(s, row, calls)
  PROVE  Sound'
<1>1. /\ OthersKept(s) /\ UNCHANGED tables
      /\ held'[s] = held[s] \cup {TransactionLock(session[s].txn)}
  BY ClaimStep DEF IInv
<1>2. /\ session'[s].writes.inventory = session[s].writes.inventory
      /\ session'[s].writes.reservations = session[s].writes.reservations
  BY ClaimEffect DEF IInv
<1>3. SeenReservations(s)' = SeenReservations(s) /\ SeenInventory(s)' = SeenInventory(s)
  BY <1>1, <1>2 DEF tables, SeenReservations, SeenInventory
<1>4. \A r \in Rows : Locks(s, r)' <=> Locks(s, r)
  BY <1>1 DEF Locks, InventoryLock, TransactionLock
<1> QED
  BY <1>1, <1>3, <1>4, StillSound DEF SeenOnHand

LEMMA LockSound ==
  ASSUME IInv, Typed, Looked, Sound, NEW s \in Sessions, NEW call \in session[s].todo,
         LockInventoryRow(s, call)
  PROVE  Sound'
<1>1. /\ Mid(s) /\ session'[s].writes.reservations = session[s].writes.reservations
      /\ held'[s] = held[s] \cup {InventoryLock(call.row)}
  BY LockEffect DEF IInv
<1>2. \A row : SeenOnHand(s, row)' = SeenOnHand(s, row)
  BY LockSees
<1>3. SeenReservations(s)' = SeenReservations(s) /\ reservations' = reservations
  BY <1>1 DEF Mid, tables, SeenReservations
<1>4. ASSUME NEW row \in Rows PROVE BackedOn(s, row)'
  <2>1. BackedOn(s, row)
    BY DEF Sound, Backed
  <2>2. CASE Locks(s, row) \/ row # call.row
    <3>1. Locks(s, row)' <=> Locks(s, row)
      BY <1>1, <2>2 DEF Locks, InventoryLock
    <3> QED
      BY <1>2, <1>3, <2>1, <3>1 DEF BackedOn
  <2>3. CASE ~Locks(s, row) /\ row = call.row
    <3>1. Within(SeenReservations(s), reservations, row)
      BY <2>1, <2>3 DEF BackedOn
    <3>2. row \notin DOMAIN session[s].writes.inventory
      BY <2>3 DEF Looked, Looks, WritesLocked
    <3>3. SeenOnHand(s, row) = OnHand(row)
      BY <3>2 DEF SeenOnHand, StockOf, SeenInventory, OnHand, Over
    <3>4. Small(reservations) /\ Small(SeenReservations(s))
      BY FewSmall DEF Sound
    <3>5. Reserved(SeenReservations(s), row) <= Reserved(reservations, row)
      BY <3>1, <3>4, ReservedWithin
    <3>6. Reserved(reservations, row) <= OnHand(row)
      BY DEF Sound, NeverOversold
    <3>7. /\ Reserved(SeenReservations(s), row) \in Nat /\ Reserved(reservations, row) \in Nat
          /\ OnHand(row) \in Nat
      BY <3>4, ReservedNat DEF Typed, TablesTyped, InventoryTable, OnHand
    <3>8. Reserved(SeenReservations(s), row) <= SeenOnHand(s, row)
      BY <3>3, <3>5, <3>6, <3>7
    <3>9. Locks(s, row)'
      BY <1>1, <2>3 DEF Locks
    <3> QED
      BY <1>2, <1>3, <3>8, <3>9 DEF BackedOn
  <2> QED
    BY <2>2, <2>3
<1>5. IsFiniteSet(DOMAIN SeenReservations(s))'
  BY <1>3 DEF Sound, FewReservations
<1> QED
  BY <1>1, <1>4, <1>5, QuietSound DEF Backed, Mid

LEMMA ReserveSound ==
  ASSUME IInv, Typed, Looked, Sound, NEW s \in Sessions, NEW call \in session[s].todo,
         Reserve(s, call), Typed'
  PROVE  Sound'
<1> DEFINE old == SeenReservations(s)
           new == SeenReservations(s)'
<1>1. /\ Mid(s) /\ held'[s] = held[s]
      /\ session'[s].writes.inventory = session[s].writes.inventory
  BY ReserveEffect DEF IInv
<1>2. PICK id \in Txns \X Nat :
        /\ id \notin DOMAIN old /\ DOMAIN new = DOMAIN old \cup {id}
        /\ new[id] = [row |-> call.row, quantity |-> call.quantity, status |-> "ACTIVE"]
        /\ \A k \in DOMAIN old : new[k] = old[k]
  BY ReserveSees
<1>3. /\ new[id].row = call.row /\ new[id].quantity = call.quantity
      /\ new[id].status = "ACTIVE"
  BY <1>2
<1>4. SeenInventory(s)' = SeenInventory(s) /\ reservations' = reservations
  BY <1>1 DEF Mid, tables, SeenInventory
<1>5. Small(old)
  BY FewSmall DEF Sound
<1>6. IsFiniteSet(DOMAIN new)
  BY <1>2, <1>5, FS_AddElement DEF Small
<1>7. Small(new)
  BY <1>6, SeenSmall
<1>8. /\ IsNext(s, call) /\ session[s].seen # Unread
      /\ call.act = "reserve" /\ call.quantity <= session[s].seen - Reserved(old, call.row)
  BY Zenon DEF Reserve, Running
<1>9. /\ call.row \in Rows /\ call.quantity \in Int /\ call.quantity > 0
      /\ session[s].seen \in Nat
  BY <1>8 DEF Typed, SessionTyped, CallTyped
<1>10. Reserved(old, call.row) \in Nat
  BY <1>5, ReservedNat
<1>11. Locks(s, call.row) /\ session[s].seen = SeenOnHand(s, call.row)
  <2>1. \/ Locks(s, call.row) /\ session[s].seen = SeenOnHand(s, call.row)
        \/ session[s].seen = 0
    BY <1>8 DEF Looked, Looks, Sighted
  <2>2. session[s].seen # 0
    BY <1>8, <1>9, <1>10
  <2> QED
    BY <2>1, <2>2
<1> HIDE DEF old, new
<1>12. /\ Reserved(new, call.row) = call.quantity + Reserved(old, call.row)
       /\ \A row : row # call.row => Within(new, old, row) /\ Within(old, new, row)
  BY <1>2, <1>3, <1>5, <1>7, ReservedAdds
<1>13. ASSUME NEW row \in Rows PROVE BackedOn(s, row)'
  <2>1. BackedOn(s, row)
    BY DEF Sound, Backed
  <2>2. (Locks(s, row)' <=> Locks(s, row)) /\ SeenOnHand(s, row)' = SeenOnHand(s, row)
    BY <1>1, <1>4 DEF Locks, SeenOnHand
  <2>3. CASE row = call.row
    <3>1. Reserved(new, row) <= SeenOnHand(s, row)
      BY <1>8, <1>9, <1>10, <1>11, <1>12, <2>3 DEF old
    <3> QED
      BY <1>11, <2>2, <2>3, <3>1 DEF BackedOn, new
  <2>4. CASE row # call.row
    <3>1. Within(new, old, row) /\ Within(old, new, row)
      BY <1>12, <2>4
    <3>2. Reserved(new, row) = Reserved(old, row)
      BY <1>5, <1>7, <3>1, ReservedSame
    <3>3. Within(old, reservations, row) => Within(new, reservations, row)
      BY <3>1 DEF Within
    <3> QED
      BY <1>4, <2>1, <2>2, <3>2, <3>3 DEF BackedOn, old, new
  <2> QED
    BY <2>3, <2>4
<1> QED
  BY <1>1, <1>6, <1>13, QuietSound DEF Backed, Mid, new
LEMMA ReleaseSound ==
  ASSUME IInv, Typed, Sound, NEW s \in Sessions, NEW call \in session[s].todo,
         Release(s, call), Typed'
  PROVE  Sound'
<1> DEFINE old == SeenReservations(s)
           new == SeenReservations(s)'
<1>1. /\ Mid(s) /\ session'[s].writes.inventory = session[s].writes.inventory
      /\ held'[s] = held[s] \cup {ReservationLock(call.id)}
  BY ReleaseEffect DEF IInv
<1>2. /\ call.id \in DOMAIN old /\ old[call.id].status = "ACTIVE"
      /\ DOMAIN new = DOMAIN old /\ new[call.id].status # "ACTIVE"
      /\ \A k \in DOMAIN old \ {call.id} : new[k] = old[k]
  BY FlipSees
<1>3. SeenInventory(s)' = SeenInventory(s) /\ reservations' = reservations
  BY <1>1 DEF Mid, tables, SeenInventory
<1>4. IsFiniteSet(DOMAIN new)
  BY <1>2 DEF Sound, FewReservations
<1>5. Small(old) /\ Small(new)
  BY <1>4, FewSmall, SeenSmall DEF Sound
<1> HIDE DEF old, new
<1>6. \A row : Within(new, old, row)
  BY <1>2, <1>5, ReservedLess
<1>7. ASSUME NEW row \in Rows PROVE BackedOn(s, row)'
  <2>1. BackedOn(s, row)
    BY DEF Sound, Backed
  <2>2. (Locks(s, row)' <=> Locks(s, row)) /\ SeenOnHand(s, row)' = SeenOnHand(s, row)
    BY <1>1, <1>3 DEF Locks, SeenOnHand, InventoryLock, ReservationLock
  <2>3. CASE Locks(s, row)
    <3>1. Reserved(old, row) <= SeenOnHand(s, row)
      BY <2>1, <2>3 DEF BackedOn, old
    <3>2. Reserved(new, row) <= Reserved(old, row)
      BY <1>5, <1>6, ReservedWithin
    <3>3. /\ Reserved(old, row) \in Nat /\ Reserved(new, row) \in Nat
          /\ SeenOnHand(s, row) \in Nat
      BY <1>5, ReservedNat, SeenTyped DEF TablesTyped, InventoryTable, SeenOnHand, StockOf
    <3>4. Reserved(new, row) <= SeenOnHand(s, row)
      BY <3>1, <3>2, <3>3
    <3> QED
      BY <2>2, <2>3, <3>4 DEF BackedOn, new
  <2>4. CASE ~Locks(s, row)
    <3>1. Within(old, reservations, row)
      BY <2>1, <2>4 DEF BackedOn, old
    <3>2. Within(new, reservations, row)
      BY <1>6, <3>1 DEF Within
    <3> QED
      BY <1>3, <2>2, <2>4, <3>2 DEF BackedOn, new
  <2> QED
    BY <2>3, <2>4
<1> QED
  BY <1>1, <1>4, <1>7, QuietSound DEF Backed, Mid, new

LEMMA RecordSound ==
  ASSUME AdjustmentsAdd, IInv, Typed, Looked, Sound,
         NEW s \in Sessions, NEW call \in session[s].todo, RecordMovement(s, call)
  PROVE  Sound'
<1>1. /\ Moves(s, call) /\ held'[s] = held[s]
      /\ session'[s].writes.reservations = session[s].writes.reservations
  BY RecordEffect DEF IInv
<1>2. /\ SeenOnHand(s, call.row)' = OnHandAfter(s, call)
      /\ \A row : row # call.row => SeenOnHand(s, row)' = SeenOnHand(s, row)
  BY <1>1, MoveSees
<1>3. SeenReservations(s)' = SeenReservations(s) /\ reservations' = reservations
  BY <1>1 DEF Moves, Mid, tables, SeenReservations
<1>4. Locks(s, call.row) /\ session[s].seen = SeenOnHand(s, call.row)
  BY MoveLocked
<1>5. call.act = "record"
  BY CallMade
<1>6. /\ call.type \notin {"OUTGOING", "TRANSFER_OUT"}
      /\ call.quantity \in Int /\ call.quantity >= 0
  BY <1>5 DEF Looked, Looks, CallAddsUp, AdjustmentsAdd, Typed, SessionTyped, CallTyped
<1>7. OnHandAfter(s, call) = SeenOnHand(s, call.row) + call.quantity
  BY <1>4, <1>6 DEF OnHandAfter, MovementDelta
<1>8. ASSUME NEW row \in Rows PROVE BackedOn(s, row)'
  <2>1. BackedOn(s, row)
    BY DEF Sound, Backed
  <2>2. Locks(s, row)' <=> Locks(s, row)
    BY <1>1 DEF Locks
  <2>3. CASE row = call.row
    <3>1. Small(SeenReservations(s))
      BY FewSmall DEF Sound
    <3>2. Reserved(SeenReservations(s), row) \in Nat /\ SeenOnHand(s, row) \in Nat
      BY <3>1, ReservedNat, SeenTyped DEF TablesTyped, InventoryTable, SeenOnHand, StockOf
    <3>3. Reserved(SeenReservations(s), row) <= SeenOnHand(s, row)
      BY <1>4, <2>1, <2>3 DEF BackedOn
    <3>4. Reserved(SeenReservations(s), row) <= SeenOnHand(s, row)'
      BY <1>2, <1>6, <1>7, <2>3, <3>2, <3>3
    <3> QED
      BY <1>3, <1>4, <2>2, <2>3, <3>4 DEF BackedOn
  <2>4. CASE row # call.row
    BY <1>2, <1>3, <2>1, <2>2, <2>4 DEF BackedOn
  <2> QED
    BY <2>3, <2>4
<1>9. IsFiniteSet(DOMAIN SeenReservations(s))'
  BY <1>3 DEF Sound, FewReservations
<1> QED
  BY <1>1, <1>8, <1>9, QuietSound DEF Backed, Moves, Mid

LEMMA FulfilSound ==
  ASSUME IInv, Typed, Looked, Sound, NEW s \in Sessions, NEW call \in session[s].todo,
         Fulfil(s, call), Typed'
  PROVE  Sound'
<1> DEFINE old == SeenReservations(s)
           new == SeenReservations(s)'
<1>1. Moves(s, call) /\ held'[s] = held[s] \cup {ReservationLock(call.id)}
  BY FulfilEffect DEF IInv
<1>2. /\ call.id \in DOMAIN old /\ old[call.id].status = "ACTIVE"
      /\ DOMAIN new = DOMAIN old /\ new[call.id].status # "ACTIVE"
      /\ \A k \in DOMAIN old \ {call.id} : new[k] = old[k]
  BY FlipSees
<1>3. /\ SeenOnHand(s, call.row)' = OnHandAfter(s, call)
      /\ \A row : row # call.row => SeenOnHand(s, row)' = SeenOnHand(s, row)
      /\ reservations' = reservations
  BY <1>1, MoveSees DEF Moves, Mid, tables
<1>4. IsFiniteSet(DOMAIN new)
  BY <1>2 DEF Sound, FewReservations
<1>5. Small(old) /\ Small(new)
  BY <1>4, FewSmall, SeenSmall DEF Sound
<1>6. Locks(s, call.row) /\ session[s].seen = SeenOnHand(s, call.row)
  BY MoveLocked
<1>7. call.act = "fulfil"
  BY CallMade
<1>8. /\ call.type \in {"OUTGOING", "TRANSFER_OUT"} /\ call.quantity \in Int
      /\ old[call.id].row = call.row /\ old[call.id].quantity = call.quantity
  BY <1>7 DEF Looked, Looks, CallAddsUp, Typed, SessionTyped, CallTyped
<1>9. \A row : SeenOnHand(s, row) \in Nat
  BY SeenTyped DEF TablesTyped, InventoryTable, SeenOnHand, StockOf
<1>10. OnHandAfter(s, call) = SeenOnHand(s, call.row) - call.quantity
  BY <1>6, <1>8, <1>9 DEF OnHandAfter, MovementDelta
<1> HIDE DEF old, new
<1>11. /\ Reserved(old, call.row) = call.quantity + Reserved(new, call.row)
       /\ \A row : Within(new, old, row)
  BY <1>2, <1>5, <1>8, ReservedLess
<1>12. \A row : Reserved(old, row) \in Nat /\ Reserved(new, row) \in Nat
  BY <1>5, ReservedNat
<1>13. ASSUME NEW row \in Rows PROVE BackedOn(s, row)'
  <2>1. BackedOn(s, row)
    BY DEF Sound, Backed
  <2>2. Locks(s, row)' <=> Locks(s, row)
    BY <1>1 DEF Locks, InventoryLock, ReservationLock
  <2>3. CASE Locks(s, row)
    <3>1. Reserved(old, row) <= SeenOnHand(s, row)
      BY <2>1, <2>3 DEF BackedOn, old
    <3>2. Reserved(new, row) <= Reserved(old, row)
      BY <1>5, <1>11, ReservedWithin
    <3>3. CASE row = call.row
      <4>1. Reserved(new, row) <= SeenOnHand(s, row)'
        BY <1>3, <1>8, <1>9, <1>10, <1>11, <1>12, <3>1, <3>3
      <4> QED
        BY <2>2, <2>3, <4>1 DEF BackedOn, new
    <3>4. CASE row # call.row
      <4>1. Reserved(new, row) <= SeenOnHand(s, row)'
        BY <1>3, <1>9, <1>12, <3>1, <3>2, <3>4
      <4> QED
        BY <2>2, <2>3, <4>1 DEF BackedOn, new
    <3> QED
      BY <3>3, <3>4
  <2>4. CASE ~Locks(s, row)
    <3>1. Within(old, reservations, row)
      BY <2>1, <2>4 DEF BackedOn, old
    <3>2. Within(new, reservations, row)
      BY <1>11, <3>1 DEF Within
    <3> QED
      BY <1>3, <2>2, <2>4, <3>2 DEF BackedOn, new
  <2> QED
    BY <2>3, <2>4
<1> QED
  BY <1>1, <1>4, <1>13, QuietSound DEF Backed, Moves, Mid, new

\* Laying the writes of x over a table with fewer active reservations on the row.
LEMMA OverWithin ==
  ASSUME NEW w, NEW a, NEW b, NEW row, Within(a, b, row)
  PROVE  Within(Over(w, a), Over(w, b), row)
BY DEF Within, ActiveOn, Over

\* Laying other writes over the table below.
LEMMA ApartWithin ==
  ASSUME NEW v, NEW w, NEW r, NEW row, DOMAIN v \cap DOMAIN w = {},
         Within(Over(w, r), r, row)
  PROVE  Within(Over(w, Over(v, r)), Over(v, r), row)
BY DEF Within, ActiveOn, Over

LEMMA CommitSound ==
  ASSUME IInv, Typed, Mirroring, Looked, Sound, NEW s \in Sessions, Commit(s), Typed'
  PROVE  Sound'
<1> DEFINE v == session[s].writes.reservations
<1>1. OthersKept(s) /\ session'[s] = Idle /\ held'[s] = {}
  BY FinishStep DEF Commit, IInv
<1>2. /\ reservations' = SeenReservations(s) /\ inventory' = SeenInventory(s)
  BY DEF Commit
<1>3. /\ reservations' = Over(v, reservations)
      /\ \A id \in DOMAIN v : Works(s) /\ id[1] = session[s].txn
  BY CommitTables
<1>4. \A row : OnHand(row)' = SeenOnHand(s, row)
  BY <1>2 DEF OnHand, SeenOnHand, StockOf
<1>5. \A x \in Sessions : Small(SeenReservations(x))
  BY FewSmall DEF Sound
<1>6. Small(reservations)
  BY FewSmall DEF Sound
<1>7. ASSUME NEW row \in Rows, ~Locks(s, row)
      PROVE  Within(reservations', reservations, row)
  BY <1>2, <1>7 DEF Sound, Backed, BackedOn
<1>8. Small(reservations')
  BY <1>2, <1>5
<1>9. NeverOversold'
  <2> SUFFICES ASSUME NEW row \in Rows PROVE Reserved(reservations', row) <= OnHand(row)'
    BY DEF NeverOversold
  <2>1. CASE Locks(s, row)
    BY <1>2, <1>4, <2>1 DEF Sound, Backed, BackedOn
  <2>2. CASE ~Locks(s, row)
    <3>1. row \notin DOMAIN session[s].writes.inventory
      BY <2>2 DEF Looked, Looks, WritesLocked
    <3>2. SeenOnHand(s, row) = OnHand(row)
      BY <3>1 DEF SeenOnHand, StockOf, SeenInventory, OnHand, Over
    <3>3. Reserved(reservations', row) <= Reserved(reservations, row)
      BY <1>6, <1>7, <1>8, <2>2, ReservedWithin
    <3>4. Reserved(reservations, row) <= OnHand(row)
      BY DEF Sound, NeverOversold
    <3>5. /\ Reserved(reservations', row) \in Nat /\ Reserved(reservations, row) \in Nat
          /\ OnHand(row) \in Nat
      BY <1>6, <1>8, ReservedNat DEF Typed, TablesTyped, InventoryTable, OnHand
    <3> QED
      BY <1>4, <3>2, <3>3, <3>4, <3>5
  <2> QED
    BY <2>1, <2>2
<1>10. ASSUME NEW x \in Sessions \ {s}
       PROVE  /\ SeenReservations(x) = Over(session[x].writes.reservations, reservations)
              /\ SeenReservations(x)'
                   = Over(session[x].writes.reservations, Over(v, reservations))
              /\ session'[x] = session[x] /\ held'[x] = held[x]
  BY <1>1, <1>3 DEF SeenReservations, OthersKept
<1>11. ASSUME NEW x \in Sessions \ {s} PROVE IsFiniteSet(DOMAIN SeenReservations(x))'
  <2> DEFINE w == session[x].writes.reservations
  <2>1. DOMAIN SeenReservations(x)' = DOMAIN SeenReservations(x) \cup DOMAIN SeenReservations(s)
    <3>1. /\ SeenReservations(x)' = Over(w, Over(v, reservations))
          /\ SeenReservations(x) = Over(w, reservations)
          /\ SeenReservations(s) = Over(v, reservations)
      BY <1>2, <1>3, <1>10
    <3> HIDE DEF w, v
    <3> QED
      BY <3>1 DEF Over
  <2> QED
    BY <1>5, <2>1, FS_Union DEF Small
<1>12. ASSUME NEW x \in Sessions \ {s} PROVE Backed(x)'
  <2> DEFINE w == session[x].writes.reservations
             a == SeenReservations(x)
             b == SeenReservations(x)'
  <2>1. a = Over(w, reservations) /\ b = Over(w, reservations')
    BY <1>3, <1>10
  <2>2. DOMAIN v \cap DOMAIN w = {}
    <3> SUFFICES ASSUME NEW id \in DOMAIN v, id \in DOMAIN w PROVE FALSE
      OBVIOUS
    <3>1. Works(s) /\ id[1] = session[s].txn
      BY <1>3
    <3>2. /\ id[1] = session[x].txn /\ session[x].op # "adjust"
      BY DEF Mirroring, Owned
    <3>3. session[x].claimed /\ session[x].op # "idle"
      BY NothingWritten DEF Typed, NotStarted
    <3>4. Works(x)
      BY <3>2, <3>3 DEF Works, IInv, Shape, Ops
    <3> QED
      BY <3>1, <3>2, <3>4, WorkApart
  <2> HIDE DEF w, v
  <2> SUFFICES ASSUME NEW row \in Rows PROVE BackedOn(x, row)'
    BY DEF Backed
  <2>3. BackedOn(x, row) /\ (Locks(x, row)' <=> Locks(x, row))
    BY <1>10 DEF Sound, Backed, Locks
  <2>4. CASE Locks(x, row)
    <3>1. ~Locks(s, row)
      BY <2>4 DEF Locks, IInv, ClaimsHold, LocksExclusive
    <3>2. Within(b, a, row)
      BY <1>7, <2>1, <3>1, OverWithin
    <3>3. Small(a) /\ Small(b)
      BY <1>5, <1>11, SeenSmall
    <3> HIDE DEF a, b
    <3>4. /\ Reserved(b, row) <= Reserved(a, row)
          /\ Reserved(a, row) \in Nat /\ Reserved(b, row) \in Nat
      BY <3>2, <3>3, ReservedWithin, ReservedNat
    <3>5. SeenOnHand(x, row) \in Nat
      BY SeenTyped DEF TablesTyped, InventoryTable, SeenOnHand, StockOf
    <3>6. SeenOnHand(x, row)' = SeenOnHand(x, row)
      BY <2>4, CommitKeeps
    <3>7. Reserved(a, row) <= SeenOnHand(x, row)
      BY <2>3, <2>4 DEF BackedOn, a
    <3>8. Reserved(b, row) <= SeenOnHand(x, row)'
      BY <3>4, <3>5, <3>6, <3>7
    <3> QED
      BY <2>3, <2>4, <3>8 DEF BackedOn, b
  <2>5. CASE ~Locks(x, row)
    <3>1. Within(a, reservations, row)
      BY <2>3, <2>5 DEF BackedOn
    <3>2. Within(b, reservations', row)
      BY <1>3, <2>1, <2>2, <3>1, ApartWithin
    <3> QED
      BY <2>3, <2>5, <3>2 DEF BackedOn
  <2> QED
    BY <2>4, <2>5
<1>13. /\ DOMAIN SeenReservations(s)' = DOMAIN reservations'
       /\ \A k \in DOMAIN reservations' : SeenReservations(s)'[k] = reservations'[k]
  <2>1. SeenReservations(s)' = Over(session'[s].writes.reservations, reservations')
    BY DEF SeenReservations
  <2>2. DOMAIN session'[s].writes.reservations = {}
    BY <1>1, NothingWritten DEF Idle
  <2> QED
    BY <2>1, <2>2 DEF Over
<1>14. Backed(s)'
  <2>1. ASSUME NEW row \in Rows PROVE BackedOn(s, row)'
    BY <1>1, <1>13 DEF BackedOn, Locks, Within, ActiveOn
  <2> QED
    BY <2>1 DEF Backed
<1>15. FewReservations'
  BY <1>8, <1>11, <1>13 DEF FewReservations, Small
<1> QED
  BY <1>9, <1>12, <1>14, <1>15 DEF Sound

LEMMA SoundInductive ==
  /\ AdjustmentsAdd /\ IInv /\ Typed /\ Mirroring /\ Looked /\ Sound
  /\ [Next]_vars /\ Typed'
  => Sound'
<1> SUFFICES ASSUME AdjustmentsAdd, IInv, Typed, Mirroring, Looked, Sound, [Next]_vars, Typed'
             PROVE  Sound'
  OBVIOUS
<1>1. ASSUME NEW s \in Sessions, Arrive(s) \/ Step(s) \/ Abort(s) PROVE Sound'
  <2>1. CASE \E call \in session[s].todo :
               \/ LockInventoryRow(s, call) \/ FindNoInventoryRow(s, call)
               \/ Reserve(s, call) \/ Release(s, call)
               \/ RecordMovement(s, call) \/ Fulfil(s, call)
    <3> PICK call \in session[s].todo :
               \/ LockInventoryRow(s, call) \/ FindNoInventoryRow(s, call)
               \/ Reserve(s, call) \/ Release(s, call)
               \/ RecordMovement(s, call) \/ Fulfil(s, call)
      BY <2>1
    <3>1. CASE FindNoInventoryRow(s, call)
      <4>1. /\ Mid(s) /\ session'[s].writes = session[s].writes /\ held'[s] = held[s]
        BY <3>1, FindEffect DEF IInv
      <4> QED
        BY <4>1, StillSound DEF Mid, tables, SeenReservations, SeenInventory, SeenOnHand, Locks
    <3> QED
      BY <3>1, LockSound, ReserveSound, ReleaseSound, RecordSound, FulfilSound
  <2>2. CASE Refuse(s) \/ Abort(s)
    <3>1. /\ OthersKept(s) /\ session'[s] = Idle /\ held'[s] = {} /\ UNCHANGED tables
      BY <2>2, FinishStep DEF Refuse, Abort, Rollback, IInv
    <3>2. DOMAIN session'[s].writes.reservations = {}
      BY <3>1, NothingWritten DEF Idle
    <3> QED
      BY <3>1, <3>2, FreshSound
  <2>3. CASE Complete(s) \/ Cancel(s) \/ Update(s)
    BY <2>3, ClaimStarts, ClaimSound
  <2> QED
    BY <1>1, <2>1, <2>2, <2>3, ArriveSound, CommitSound DEF Step
<1>2. CASE UNCHANGED vars
  <2>1. \A s \in Sessions : SeenInventory(s)' = SeenInventory(s)
                            /\ SeenReservations(s)' = SeenReservations(s)
    BY <1>2 DEF vars, SeenInventory, SeenReservations
  <2>2. NeverOversold' /\ FewReservations'
    BY <1>2, <2>1 DEF vars, Sound, NeverOversold, OnHand, FewReservations
  <2>3. ASSUME NEW s \in Sessions, NEW row \in Rows PROVE BackedOn(s, row)'
    <3>1. BackedOn(s, row)
      BY DEF Sound, Backed
    <3> QED
      BY <1>2, <2>1, <3>1 DEF vars, BackedOn, Locks, SeenOnHand
  <2> QED
    BY <2>2, <2>3 DEF Sound, Backed
<1> QED
  BY <1>1, <1>2 DEF Next

LEMMA InitSound == Init => Sound
<1> SUFFICES ASSUME Init PROVE Sound
  OBVIOUS
<1>1. reservations = <<>> /\ DOMAIN reservations = {}
  BY DEF Init
<1>2. ASSUME NEW s \in Sessions PROVE DOMAIN SeenReservations(s) = {}
  <2>1. session[s].writes.reservations = NoWrites.reservations
    BY DEF Init, Idle
  <2> QED
    BY <1>1, <2>1, NothingWritten DEF SeenReservations, Over
<1>3. IsFiniteSet({})
  BY FS_EmptySet
<1>4. FewReservations
  BY <1>1, <1>2, <1>3 DEF FewReservations
<1>5. \A s \in Sessions : Backed(s)
  BY <1>2 DEF Init, Backed, BackedOn, Locks, Within, ActiveOn
<1>6. NeverOversold
  <2> SUFFICES ASSUME NEW row \in Rows PROVE Reserved(reservations, row) <= OnHand(row)
    BY DEF NeverOversold
  <2>1. ActiveOn(reservations, row) = {}
    BY <1>1 DEF ActiveOn
  <2>2. Reserved(reservations, row) = 0
    BY <1>3, <2>1, ReservedTotal, TotalEmpty
  <2>3. OnHand(row) \in Nat
    BY BoundsAssumption DEF Init, OnHand
  <2> QED
    BY <2>2, <2>3
<1> QED
  BY <1>4, <1>5, <1>6 DEF Sound

\* What is reserved of a row is never more than its onHand, whatever requests run
\* at the same time, where the adjustments of an admin add stock (reserve's
\* aggregate under the row lock, fulfill's movement with its flip, and nothing
\* that takes stock otherwise).  Reading the row without FOR UPDATE breaks it.
THEOREM StockIsNeverOversold == AdjustmentsAdd => (Spec => []NeverOversold)
<1> SUFFICES ASSUME AdjustmentsAdd PROVE Spec => []NeverOversold
  OBVIOUS
<1>1. Init => IInv /\ Typed /\ Mirroring /\ Booked /\ Looked /\ Sound
  BY InitOwns, InitTyped, InitMirrored, InitBooked, InitLooked, InitSound
<1>2. IInv /\ Typed /\ Mirroring /\ Booked /\ Looked /\ Sound /\ [Next]_vars
        => IInv' /\ Typed' /\ Mirroring' /\ Booked' /\ Looked' /\ Sound'
  BY IInvInductive, TypedInductive, MirroringInductive, BookedInductive, LookedInductive,
     SoundInductive
<1>3. Sound => NeverOversold
  BY DEF Sound
<1> QED
  BY <1>1, <1>2, <1>3, PTL DEF Spec

\* Between two statements of a request nobody else touches the rows it works on: it
\* has locked every row it has written, no two requests have written the same row,
\* and what it has read for its next call is still what it sees.
RowsAreItsOwn ==
  \A s \in Sessions :
    /\ WritesLocked(s) /\ Sighted(s)
    /\ \A other \in Sessions \ {s} :
         DOMAIN session[s].writes.inventory \cap DOMAIN session[other].writes.inventory = {}

\* Nobody writes a row it has not locked (the SELECT ... FOR UPDATE of reserve and
\* recordMovement before their updates), whatever requests run at the same time.
THEOREM RowsAreWrittenUnderLock == Spec => []RowsAreItsOwn
<1>1. Init => IInv /\ Typed /\ Mirroring /\ Booked /\ Looked
  BY InitOwns, InitTyped, InitMirrored, InitBooked, InitLooked
<1>2. IInv /\ Typed /\ Mirroring /\ Booked /\ Looked /\ [Next]_vars
        => IInv' /\ Typed' /\ Mirroring' /\ Booked' /\ Looked'
  BY IInvInductive, TypedInductive, MirroringInductive, BookedInductive, LookedInductive
<1>3. IInv /\ Looked => RowsAreItsOwn
  <2> SUFFICES ASSUME IInv, Looked, NEW s \in Sessions
               PROVE  /\ WritesLocked(s) /\ Sighted(s)
                      /\ \A other \in Sessions \ {s} :
                           DOMAIN session[s].writes.inventory
                             \cap DOMAIN session[other].writes.inventory = {}
    BY DEF RowsAreItsOwn
  <2>1. ASSUME NEW x \in Sessions PROVE WritesLocked(x) /\ Sighted(x)
    BY <2>1 DEF Looked, Looks
  <2>2. ASSUME NEW other \in Sessions \ {s},
               NEW row \in DOMAIN session[s].writes.inventory,
               row \in DOMAIN session[other].writes.inventory
        PROVE  FALSE
    <3>1. InventoryLock(row) \in held[s] /\ InventoryLock(row) \in held[other]
      BY <2>1, <2>2 DEF WritesLocked, Locks
    <3>2. held[s] \cap held[other] = {}
      BY <2>2 DEF IInv, ClaimsHold, LocksExclusive
    <3> QED
      BY <3>1, <3>2
  <2> QED
    BY <2>1, <2>2
<1> QED
  BY <1>1, <1>2, <1>3, PTL DEF Spec

----------------------------------------------------------------------------
(* The ledger.  A bag of movements, row by row.                            *)

RowMoves(bag, row) == {m \in BagToSet(bag) : m.row = row}
Delta(m) == MovementDelta(m.type, m.quantity)
Deltas(bag, row) == [m \in RowMoves(bag, row) |-> Copies(m, bag) * Delta(m)]
LedgerOf(bag, row) == Total(Deltas(bag, row), RowMoves(bag, row))

\* Finitely many movements of the row, each as often as a natural number says.
Counted(bag, row) ==
  /\ IsFiniteSet(RowMoves(bag, row))
  /\ \A m \in RowMoves(bag, row) : bag[m] \in Nat /\ IsMovement(m)

LEMMA MovementDeltaInt ==
  ASSUME NEW m, IsMovement(m)
  PROVE  Delta(m) \in Int
BY DEF IsMovement, Delta, MovementDelta

LEMMA CountedDeltas ==
  ASSUME NEW bag, NEW row, Counted(bag, row), NEW m \in RowMoves(bag, row)
  PROVE  /\ Copies(m, bag) = bag[m] /\ bag[m] \in Nat /\ Delta(m) \in Int
         /\ Deltas(bag, row)[m] = bag[m] * Delta(m) /\ Deltas(bag, row)[m] \in Int
<1>1. bag[m] \in Nat /\ IsMovement(m)
  BY DEF Counted
<1>2. Delta(m) \in Int
  BY <1>1, MovementDeltaInt
<1>3. Copies(m, bag) = bag[m]
  BY DEF Copies, RowMoves
<1>4. Deltas(bag, row)[m] = bag[m] * Delta(m)
  BY <1>3 DEF Deltas
<1>5. bag[m] * Delta(m) \in Int
  <2> DEFINE a == bag[m]
             b == Delta(m)
  <2>1. a \in Int /\ b \in Int
    BY <1>1, <1>2
  <2> HIDE DEF a, b
  <2>2. a * b \in Int
    BY <2>1
  <2> QED
    BY <2>2 DEF a, b
<1> QED
  BY <1>1, <1>2, <1>3, <1>4, <1>5

\* reconcileInventory's sum is a sum in the sense of SumTheorems.
LEMMA LedgerTotal ==
  ASSUME NEW row, IsFiniteSet(RowMoves(movements, row))
  PROVE  LedgerSum(row) = LedgerOf(movements, row)
<1> DEFINE S == RowMoves(movements, row)
           q == Deltas(movements, row)
           P(g) == g = [s \in SUBSET S |->
                          IF s = {} THEN 0
                          ELSE Copies(Pick(s), movements)
                                 * MovementDelta(Pick(s).type, Pick(s).quantity)
                               + g[s \ {Pick(s)}]]
           h == CHOOSE g : P(g)
           k == CHOOSE g : Sums(q, S, g)
<1>1. LedgerSum(row) = h[S]
  BY DEF LedgerSum, MapThenSumSet, MapThenFoldSet, Pick, RowMoves
<1>2. Sums(q, S, k)
  BY SumsExist
<1>3. \A s \in SUBSET S : s # {} =>
        q[Pick(s)] = Copies(Pick(s), movements) * MovementDelta(Pick(s).type, Pick(s).quantity)
  BY PickIn DEF Deltas, Delta
<1> HIDE DEF S, q
<1>4. \A g : P(g) <=> Sums(q, S, g)
  BY <1>3 DEF Sums
<1>5. P(k)
  BY <1>2, <1>4
<1> HIDE DEF P, k
<1>6. P(h)
  BY <1>5
<1>7. Sums(q, S, h)
  BY <1>4, <1>6
<1> HIDE DEF h
<1>8. h[S] = k[S]
  BY <1>2, <1>7, SumsAgree DEF S
<1> QED
  BY <1>1, <1>8, TotalSums DEF k, S, q, LedgerOf

SameMoves(a, b, row) ==
  RowMoves(a, row) = RowMoves(b, row) /\ \A m \in RowMoves(a, row) : a[m] = b[m]

LEMMA LedgerSame ==
  ASSUME NEW a, NEW b, NEW row, Counted(a, row), SameMoves(a, b, row)
  PROVE  Counted(b, row) /\ LedgerOf(b, row) = LedgerOf(a, row)
<1>1. Counted(b, row)
  BY DEF Counted, SameMoves
<1> DEFINE S == RowMoves(a, row)
           q == Deltas(a, row)
           p == Deltas(b, row)
<1>2. IsFiniteSet(S) /\ RowMoves(b, row) = S
  BY DEF Counted, SameMoves
<1>3. \A m \in S : q[m] = p[m]
  BY <1>1, CountedDeltas DEF SameMoves
<1> HIDE DEF S, q, p
<1>4. Total(q, S) = Total(p, S)
  BY <1>2, <1>3, TotalAgrees
<1> QED
  BY <1>1, <1>2, <1>4 DEF LedgerOf, S, q, p

\* One more copy of m.
Gains(a, b, m) ==
  /\ BagToSet(b) = BagToSet(a) \cup {m}
  /\ \A x \in BagToSet(a) \ {m} : b[x] = a[x]
  /\ b[m] = 1 + Copies(m, a)

LEMMA LedgerGains ==
  ASSUME NEW a, NEW b, NEW m, Gains(a, b, m), IsMovement(m), Counted(a, m.row)
  PROVE  /\ Counted(b, m.row) /\ LedgerOf(b, m.row) = LedgerOf(a, m.row) + Delta(m)
         /\ \A row : row # m.row => SameMoves(a, b, row)
<1> DEFINE row == m.row
           S == RowMoves(a, row)
           q == Deltas(a, row)
           p == Deltas(b, row)
<1>1. RowMoves(b, row) = S \cup {m} /\ \A x \in S \ {m} : b[x] = a[x]
  BY DEF Gains, RowMoves
<1>2. \A r : r # m.row => SameMoves(a, b, r)
  BY DEF Gains, RowMoves, SameMoves
<1>3. IsFiniteSet(S) /\ IsFiniteSet(S \cup {m})
  BY FS_AddElement DEF Counted
<1>4. b[m] = 1 + (IF m \in S THEN a[m] ELSE 0)
  BY DEF Gains, Copies, RowMoves
<1>5. Counted(b, row)
  BY <1>1, <1>3, <1>4 DEF Counted
<1>6. Delta(m) \in Int
  BY MovementDeltaInt
<1>7. \A x \in S \ {m} : p[x] = q[x]
  BY <1>1, <1>5, CountedDeltas
<1>8. (\A x \in S : q[x] \in Int) /\ (\A x \in S \cup {m} : p[x] \in Int)
  BY <1>1, <1>5, CountedDeltas
<1>9. p[m] = Delta(m) + (IF m \in S THEN q[m] ELSE 0)
  <2> DEFINE d == Delta(m)
             n == IF m \in S THEN a[m] ELSE 0
  <2>1. n \in Int /\ d \in Int /\ b[m] = 1 + n
    BY <1>4, <1>6, CountedDeltas
  <2>2. p[m] = b[m] * d
    BY <1>1, <1>5, CountedDeltas
  <2>3. (IF m \in S THEN q[m] ELSE 0) = n * d
    BY <1>6, CountedDeltas
  <2> HIDE DEF d, n
  <2>4. (1 + n) * d = d + n * d
    BY <2>1
  <2> QED
    BY <2>1, <2>2, <2>3, <2>4 DEF d
<1> HIDE DEF S, q, p
<1>10. IsFiniteSet(S \ {m}) /\ Total(p, S \ {m}) = Total(q, S \ {m})
       /\ Total(q, S \ {m}) \in Int
  <2>1. IsFiniteSet(S \ {m})
    BY <1>3, FS_RemoveElement
  <2> QED
    BY <1>7, <1>8, <2>1, TotalAgrees, TotalType
<1>11. Total(p, S \cup {m}) = p[m] + Total(p, S \ {m})
  <2>1. (S \cup {m}) \ {m} = S \ {m}
    OBVIOUS
  <2> QED
    BY <1>3, <1>8, <2>1, TotalWithout
<1>12. Total(q, S) = (IF m \in S THEN q[m] ELSE 0) + Total(q, S \ {m})
  <2>1. m \in S => Total(q, S) = q[m] + Total(q, S \ {m})
    BY <1>3, <1>8, TotalWithout
  <2>2. m \notin S => S \ {m} = S
    OBVIOUS
  <2> QED
    BY <1>8, <1>10, <2>1, <2>2
<1>13. Total(p, S \cup {m}) = Total(q, S) + Delta(m)
  <2>1. (IF m \in S THEN q[m] ELSE 0) \in Int
    BY <1>8
  <2> QED
    BY <1>6, <1>9, <1>10, <1>11, <1>12, <2>1
<1> QED
  BY <1>1, <1>2, <1>5, <1>13 DEF LedgerOf, S, q, p, row

\* A ledger: counts of movements, finitely many for a row.
Tallied(bag) ==
  /\ \A m \in BagToSet(bag) : bag[m] \in Nat /\ IsMovement(m)
  /\ \A row \in Rows : IsFiniteSet(RowMoves(bag, row))

LEMMA TalliedCounted ==
  ASSUME NEW bag, Tallied(bag), NEW row \in Rows
  PROVE  Counted(bag, row)
BY DEF Tallied, Counted, RowMoves

LEMMA TalliedSum ==
  ASSUME NEW a, NEW b, Tallied(a), Tallied(b)
  PROVE  Tallied(a (+) b)
<1>1. /\ BagToSet(a (+) b) = BagToSet(a) \cup BagToSet(b)
      /\ \A m \in BagToSet(a (+) b) : (a (+) b)[m] \in Nat
  BY DEF Tallied, BagToSet, (+)
<1>2. \A m \in BagToSet(a (+) b) : IsMovement(m)
  BY <1>1 DEF Tallied
<1>3. ASSUME NEW row \in Rows PROVE IsFiniteSet(RowMoves(a (+) b, row))
  <2>1. RowMoves(a (+) b, row) = RowMoves(a, row) \cup RowMoves(b, row)
    BY <1>1 DEF RowMoves
  <2> QED
    BY <2>1, FS_Union DEF Tallied
<1> QED
  BY <1>1, <1>2, <1>3 DEF Tallied

LEMMA TalliedOne ==
  ASSUME NEW m, IsMovement(m)
  PROVE  Tallied(SetToBag({m}))
<1>1. BagToSet(SetToBag({m})) = {m} /\ SetToBag({m})[m] = 1
  BY DEF BagToSet, SetToBag
<1>2. IsFiniteSet({m})
  BY FS_Singleton
<1>3. \A row : RowMoves(SetToBag({m}), row) \subseteq {m}
  BY <1>1 DEF RowMoves
<1>4. \A row : IsFiniteSet(RowMoves(SetToBag({m}), row))
  BY <1>2, <1>3, FS_Subset
<1> QED
  BY <1>1, <1>4 DEF Tallied

LEMMA TalliedNothing ==
  ASSUME NEW bag, BagToSet(bag) = {}
  PROVE  Tallied(bag)
BY FS_EmptySet DEF Tallied, RowMoves

LEMMA GainsOne ==
  ASSUME NEW a, NEW m, Tallied(a)
  PROVE  Gains(a, a (+) SetToBag({m}), m)
<1>1. \A x \in BagToSet(a) : a[x] \in Nat
  BY DEF Tallied
<1> QED
  BY <1>1 DEF Gains, Copies, BagToSet, SetToBag, (+)

LEMMA GainsOver ==
  ASSUME NEW a, NEW b, NEW c, NEW m, Tallied(a), Tallied(b), Tallied(c), Gains(a, b, m)
  PROVE  Gains(c (+) a, c (+) b, m)
<1>1. \A x \in BagToSet(a) : a[x] \in Nat
  BY DEF Tallied
<1>2. \A x \in BagToSet(b) : b[x] \in Nat
  BY DEF Tallied
<1>3. \A x \in BagToSet(c) : c[x] \in Nat
  BY DEF Tallied
<1> QED
  BY <1>1, <1>2, <1>3 DEF Gains, Copies, BagToSet, (+)

\* A bag with none of the row adds none of it.
LEMMA NoneAdded ==
  ASSUME NEW a, NEW b, NEW row, Tallied(a), RowMoves(b, row) = {}
  PROVE  SameMoves(a, a (+) b, row)
<1>1. \A x \in BagToSet(a) : a[x] \in Nat
  BY DEF Tallied
<1> QED
  BY <1>1 DEF SameMoves, RowMoves, BagToSet, (+)

LEMMA SameUnder ==
  ASSUME NEW a, NEW b, NEW c, NEW row, SameMoves(a, b, row)
  PROVE  SameMoves(a (+) c, b (+) c, row)
BY DEF SameMoves, RowMoves, BagToSet, (+)

----------------------------------------------------------------------------
(* LedgerExplainsStock.  Of a row it has locked, a request sees the onHand     *)
(* that the ledger with its movements adds up to; of any other it moves nothing. *)

SeenMovements(s) == movements (+) session[s].writes.movements

ExplainedOn(s, row) ==
  IF Locks(s, row) THEN SeenOnHand(s, row) = LedgerOf(SeenMovements(s), row)
  ELSE RowMoves(session[s].writes.movements, row) = {}

Explained(s) ==
  Tallied(session[s].writes.movements) /\ \A row \in Rows : ExplainedOn(s, row)

Reconciled ==
  /\ Tallied(movements)
  /\ \A row \in Rows : OnHand(row) = LedgerOf(movements, row)
  /\ \A s \in Sessions : Explained(s)

LEMMA QuietReconciled ==
  ASSUME Reconciled, NEW s \in Sessions, OthersKept(s), UNCHANGED tables, Explained(s)'
  PROVE  Reconciled'
<1>1. ASSUME NEW x \in Sessions \ {s}
      PROVE  /\ SeenMovements(x)' = SeenMovements(x) /\ session'[x] = session[x]
             /\ SeenInventory(x)' = SeenInventory(x) /\ held'[x] = held[x]
  BY DEF OthersKept, tables, SeenMovements, SeenInventory
<1>2. ASSUME NEW x \in Sessions \ {s} PROVE Explained(x)'
  <2>1. Explained(x)
    BY DEF Reconciled
  <2> QED
    BY <1>1, <2>1 DEF Explained, ExplainedOn, Locks, SeenOnHand
<1> QED
  BY <1>2 DEF Reconciled, tables, OnHand

LEMMA StillReconciled ==
  ASSUME Reconciled, NEW s \in Sessions, OthersKept(s), UNCHANGED tables,
         session'[s].writes.movements = session[s].writes.movements,
         \A row \in Rows : SeenOnHand(s, row)' = SeenOnHand(s, row),
         \A row \in Rows : Locks(s, row)' <=> Locks(s, row)
  PROVE  Reconciled'
<1>1. Explained(s) /\ SeenMovements(s)' = SeenMovements(s)
  BY DEF Reconciled, tables, SeenMovements
<1>2. ASSUME NEW row \in Rows PROVE ExplainedOn(s, row)'
  <2>1. ExplainedOn(s, row)
    BY <1>1 DEF Explained
  <2> QED
    BY <1>1, <2>1 DEF ExplainedOn
<1> QED
  BY <1>1, <1>2, QuietReconciled DEF Explained

LEMMA FreshReconciled ==
  ASSUME Reconciled, NEW s \in Sessions, OthersKept(s), UNCHANGED tables,
         BagToSet(session'[s].writes.movements) = {}, held'[s] = {}
  PROVE  Reconciled'
<1>1. \A row \in Rows : ExplainedOn(s, row)'
  BY DEF ExplainedOn, Locks, RowMoves
<1>2. Tallied(session[s].writes.movements)'
  BY TalliedNothing
<1> QED
  BY <1>1, <1>2, QuietReconciled DEF Explained

LEMMA ArriveReconciled ==
  ASSUME IInv, Typed, Reconciled, NEW s \in Sessions, Arrive(s)
  PROVE  Reconciled'
<1> USE DEF IInv
<1>1. held'[s] = {}
  BY Arrivals DEF Typed, NotStarted
<1>2. ASSUME OthersKept(s), UNCHANGED tables, BagToSet(session'[s].writes.movements) = {}
      PROVE  Reconciled'
  BY <1>1, <1>2, FreshReconciled
<1>3. ASSUME NEW t \in Txns, NEW order, NEW calls, InsertPending(s, t, order, calls)
      PROVE  Reconciled'
  BY <1>2, <1>3, InsertStep, InsertEffect, NothingWritten DEF NoWrites
<1>4. ASSUME NEW op \in {"complete", "cancel", "update"}, NEW t \in Txns,
             NEW patch, Request(s, op, t, patch)
      PROVE  Reconciled'
  BY <1>2, <1>4, RequestStep, RequestEffect, NothingWritten
<1>5. ASSUME NEW row \in Rows, NEW delta \in Adjustments, AdjustInventory(s, row, delta)
      PROVE  Reconciled'
  BY <1>2, <1>5, AdjustStep, AdjustEffect, NothingWritten
<1>6. CASE \E t \in Txns, order \in Orders :
             \/ CreateIncoming(s, t, order)
             \/ CreateOutgoing(s, t, order)
             \/ CreateTransfer(s, t, order)
  BY <1>3, <1>6 DEF CreateIncoming, CreateOutgoing, CreateTransfer
<1>7. CASE \E t \in Txns : \/ Request(s, "complete", t, NoPatch)
                           \/ Request(s, "cancel", t, NoPatch)
                           \/ \E patch \in Patches : Request(s, "update", t, patch)
  BY <1>4, <1>7
<1>8. CASE \E row \in Rows, delta \in Adjustments : AdjustInventory(s, row, delta)
  BY <1>5, <1>8
<1> QED
  BY <1>6, <1>7, <1>8 DEF Arrive

LEMMA ClaimReconciled ==
  ASSUME IInv, Reconciled, NEW s \in Sessions, NEW row, NEW calls, Claim(s, row, calls)
  PROVE  Reconciled'
<1>1. /\ OthersKept(s) /\ UNCHANGED tables
      /\ held'[s] = held[s] \cup {TransactionLock(session[s].txn)}
  BY ClaimStep DEF IInv
<1>2. /\ session'[s].writes.inventory = session[s].writes.inventory
      /\ session'[s].writes.movements = session[s].writes.movements
  BY ClaimEffect DEF IInv
<1>3. SeenInventory(s)' = SeenInventory(s)
  BY <1>1, <1>2 DEF tables, SeenInventory
<1>4. \A r \in Rows : Locks(s, r)' <=> Locks(s, r)
  BY <1>1 DEF Locks, InventoryLock, TransactionLock
<1> QED
  BY <1>1, <1>2, <1>3, <1>4, StillReconciled DEF SeenOnHand

LEMMA LockReconciled ==
  ASSUME IInv, Typed, Looked, Reconciled, NEW s \in Sessions, NEW call \in session[s].todo,
         LockInventoryRow(s, call)
  PROVE  Reconciled'
<1>1. /\ Mid(s) /\ session'[s].writes.movements = session[s].writes.movements
      /\ held'[s] = held[s] \cup {InventoryLock(call.row)}
  BY LockEffect DEF IInv
<1>2. \A row : SeenOnHand(s, row)' = SeenOnHand(s, row)
  BY LockSees
<1>3. SeenMovements(s)' = SeenMovements(s)
  BY <1>1 DEF Mid, tables, SeenMovements
<1>4. ASSUME NEW row \in Rows PROVE ExplainedOn(s, row)'
  <2>1. ExplainedOn(s, row)
    BY DEF Reconciled, Explained
  <2>2. CASE Locks(s, row) \/ row # call.row
    <3>1. Locks(s, row)' <=> Locks(s, row)
      BY <1>1, <2>2 DEF Locks, InventoryLock
    <3> QED
      BY <1>1, <1>2, <1>3, <2>1, <3>1 DEF ExplainedOn
  <2>3. CASE ~Locks(s, row) /\ row = call.row
    <3>1. RowMoves(session[s].writes.movements, row) = {}
      BY <2>1, <2>3 DEF ExplainedOn
    <3>2. row \notin DOMAIN session[s].writes.inventory
      BY <2>3 DEF Looked, Looks, WritesLocked
    <3>3. SeenOnHand(s, row) = OnHand(row)
      BY <3>2 DEF SeenOnHand, StockOf, SeenInventory, OnHand, Over
    <3>4. Tallied(movements) /\ OnHand(row) = LedgerOf(movements, row)
      BY DEF Reconciled
    <3>5. SameMoves(movements, SeenMovements(s), row)
      BY <3>1, <3>4, NoneAdded DEF SeenMovements
    <3>6. LedgerOf(SeenMovements(s), row) = LedgerOf(movements, row)
      BY <3>4, <3>5, LedgerSame, TalliedCounted
    <3>7. Locks(s, row)'
      BY <1>1, <2>3 DEF Locks
    <3> QED
      BY <1>2, <1>3, <3>3, <3>4, <3>6, <3>7 DEF ExplainedOn
  <2> QED
    BY <2>2, <2>3
<1>5. Tallied(session'[s].writes.movements)
  BY <1>1 DEF Reconciled, Explained
<1> QED
  BY <1>1, <1>4, <1>5, QuietReconciled DEF Explained, Mid

\* onHand and the ledger move together.
LEMMA MoveReconciled ==
  ASSUME IInv, Typed, Looked, Reconciled, NEW s \in Sessions, NEW call \in session[s].todo,
         RecordMovement(s, call) \/ Fulfil(s, call)
  PROVE  Reconciled'
<1> DEFINE m == Movement(session[s].txn, call.type, call.row, call.quantity)
           w == session[s].writes.movements
           one == SetToBag({m})
<1>1. Moves(s, call) /\ \A row : Locks(s, row)' <=> Locks(s, row)
  <2>1. CASE RecordMovement(s, call)
    BY <2>1, RecordEffect DEF IInv, Locks
  <2>2. CASE Fulfil(s, call)
    BY <2>2, FulfilEffect DEF IInv, Locks, InventoryLock, ReservationLock
  <2> QED
    BY <2>1, <2>2
<1>2. /\ SeenOnHand(s, call.row)' = OnHandAfter(s, call)
      /\ \A row : row # call.row => SeenOnHand(s, row)' = SeenOnHand(s, row)
  BY <1>1, MoveSees
<1>3. Locks(s, call.row) /\ session[s].seen = SeenOnHand(s, call.row)
  BY MoveLocked
<1>4. /\ session'[s].writes.movements = w (+) one /\ movements' = movements
      /\ Mid(s)
  BY <1>1 DEF Moves, Mid, tables
<1>5. IsMovement(m) /\ m.row = call.row /\ Delta(m) = MovementDelta(call.type, call.quantity)
  <2>1. CallTyped(call) /\ call.act \in {"record", "fulfil"} /\ session[s].txn \in Txns \cup {NoTxn}
    BY CallMade DEF Typed, SessionTyped
  <2> QED
    BY <2>1 DEF CallTyped, IsMovement, Movement, Delta
<1> HIDE DEF m
<1>6. Tallied(w) /\ Tallied(movements) /\ Tallied(one)
  BY <1>5, TalliedOne DEF Reconciled, Explained
<1>7. Tallied(w (+) one)
  BY <1>6, TalliedSum
<1> HIDE DEF w
<1>8. Gains(w, w (+) one, m)
  BY <1>6, GainsOne
<1> HIDE DEF one
<1>9. Gains(movements (+) w, movements (+) (w (+) one), m)
  BY <1>6, <1>7, <1>8, GainsOver
<1>10. Tallied(movements (+) w)
  BY <1>6, TalliedSum
<1>11. /\ SeenMovements(s) = movements (+) w
       /\ SeenMovements(s)' = movements (+) (w (+) one)
  BY <1>4 DEF SeenMovements, w
<1> DEFINE a == SeenMovements(s)
           b == SeenMovements(s)'
<1>12. Gains(a, b, m) /\ Tallied(a)
  BY <1>9, <1>10, <1>11
<1> HIDE DEF a, b
<1>13. call.row \in Rows
  BY DEF Typed, SessionTyped, CallTyped
<1>14. /\ LedgerOf(b, call.row) = LedgerOf(a, call.row) + Delta(m)
       /\ \A row : row # call.row => SameMoves(a, b, row)
  BY <1>5, <1>12, <1>13, LedgerGains, TalliedCounted
<1>15. ASSUME NEW row \in Rows PROVE ExplainedOn(s, row)'
  <2>1. ExplainedOn(s, row)
    BY DEF Reconciled, Explained
  <2>2. CASE row = call.row
    <3>1. SeenOnHand(s, row) = LedgerOf(a, row)
      BY <1>3, <2>1, <2>2 DEF ExplainedOn, a
    <3>2. SeenOnHand(s, row)' = LedgerOf(b, row)
      BY <1>2, <1>3, <1>5, <1>14, <2>2, <3>1 DEF OnHandAfter
    <3> QED
      BY <1>1, <1>3, <2>2, <3>2 DEF ExplainedOn, b
  <2>3. CASE row # call.row /\ Locks(s, row)
    <3>1. LedgerOf(b, row) = LedgerOf(a, row)
      BY <1>12, <1>14, <2>3, LedgerSame, TalliedCounted
    <3> QED
      BY <1>1, <1>2, <2>1, <2>3, <3>1 DEF ExplainedOn, a, b
  <2>4. CASE row # call.row /\ ~Locks(s, row)
    <3>1. RowMoves(w, row) = {}
      BY <2>1, <2>4 DEF ExplainedOn, w
    <3>2. RowMoves(w (+) one, row) = {}
      BY <1>5, <1>8, <2>4, <3>1 DEF Gains, RowMoves
    <3> QED
      BY <1>1, <1>4, <2>4, <3>2 DEF ExplainedOn
  <2> QED
    BY <2>2, <2>3, <2>4
<1>16. Explained(s)'
  BY <1>4, <1>7, <1>15 DEF Explained
<1> QED
  BY <1>4, <1>16, QuietReconciled DEF Mid

LEMMA CommitReconciled ==
  ASSUME IInv, Typed, Looked, Reconciled, NEW s \in Sessions, Commit(s)
  PROVE  Reconciled'
<1> DEFINE v == session[s].writes.movements
<1>1. OthersKept(s) /\ session'[s] = Idle /\ held'[s] = {}
  BY FinishStep DEF Commit, IInv
<1>2. inventory' = SeenInventory(s) /\ movements' = movements (+) v
  BY DEF Commit
<1>3. Tallied(movements) /\ Tallied(v) /\ \A row \in Rows : ExplainedOn(s, row)
  BY DEF Reconciled, Explained
<1>4. Tallied(movements')
  BY <1>2, <1>3, TalliedSum
<1>5. \A row : OnHand(row)' = SeenOnHand(s, row)
  BY <1>2 DEF OnHand, SeenOnHand, StockOf
<1>6. ASSUME NEW row \in Rows, ~Locks(s, row) PROVE SameMoves(movements, movements', row)
  BY <1>2, <1>3, <1>6, NoneAdded DEF ExplainedOn
<1>7. ASSUME NEW row \in Rows PROVE OnHand(row)' = LedgerOf(movements', row)
  <2>1. CASE Locks(s, row)
    BY <1>2, <1>3, <1>5, <2>1 DEF ExplainedOn, SeenMovements
  <2>2. CASE ~Locks(s, row)
    <3>1. row \notin DOMAIN session[s].writes.inventory
      BY <2>2 DEF Looked, Looks, WritesLocked
    <3>2. SeenOnHand(s, row) = OnHand(row)
      BY <3>1 DEF SeenOnHand, StockOf, SeenInventory, OnHand, Over
    <3>3. LedgerOf(movements', row) = LedgerOf(movements, row)
      BY <1>3, <1>6, <2>2, LedgerSame, TalliedCounted
    <3> QED
      BY <1>5, <3>2, <3>3 DEF Reconciled
  <2> QED
    BY <2>1, <2>2
<1>8. ASSUME NEW x \in Sessions \ {s} PROVE Explained(x)'
  <2> DEFINE w == session[x].writes.movements
  <2>1. /\ session'[x] = session[x] /\ held'[x] = held[x] /\ Explained(x)
        /\ SeenMovements(x) = movements (+) w /\ SeenMovements(x)' = movements' (+) w
    BY <1>1 DEF OthersKept, SeenMovements, Reconciled
  <2>2. ASSUME NEW row \in Rows PROVE ExplainedOn(x, row)'
    <3>1. ExplainedOn(x, row)
      BY <2>1 DEF Explained
    <3>2. CASE Locks(x, row)
      <4>1. ~Locks(s, row)
        BY <3>2 DEF Locks, IInv, ClaimsHold, LocksExclusive
      <4>2. Tallied(movements (+) w)
        BY <1>3, <2>1, TalliedSum DEF Explained
      <4> HIDE DEF w
      <4>3. SameMoves(movements (+) w, movements' (+) w, row)
        BY <1>6, <4>1, SameUnder
      <4>4. LedgerOf(SeenMovements(x)', row) = LedgerOf(SeenMovements(x), row)
        BY <2>1, <4>2, <4>3, LedgerSame, TalliedCounted
      <4>5. SeenOnHand(x, row)' = SeenOnHand(x, row)
        BY <3>2, CommitKeeps
      <4> QED
        BY <2>1, <3>1, <3>2, <4>4, <4>5 DEF ExplainedOn, Locks
    <3>3. CASE ~Locks(x, row)
      BY <2>1, <3>1, <3>3 DEF ExplainedOn, Locks
    <3> QED
      BY <3>2, <3>3
  <2> QED
    BY <2>1, <2>2 DEF Explained
<1>9. Explained(s)'
  <2>1. BagToSet(session'[s].writes.movements) = {}
    BY <1>1, NothingWritten DEF Idle
  <2>2. \A row \in Rows : ExplainedOn(s, row)'
    BY <1>1, <2>1 DEF ExplainedOn, Locks, RowMoves
  <2> QED
    BY <2>1, <2>2, TalliedNothing DEF Explained
<1> QED
  BY <1>4, <1>7, <1>8, <1>9 DEF Reconciled

LEMMA ReconciledInductive ==
  IInv /\ Typed /\ Looked /\ Reconciled /\ [Next]_vars => Reconciled'
<1> SUFFICES ASSUME IInv, Typed, Looked, Reconciled, [Next]_vars PROVE Reconciled'
  OBVIOUS
<1>1. ASSUME NEW s \in Sessions, Arrive(s) \/ Step(s) \/ Abort(s) PROVE Reconciled'
  <2>1. CASE \E call \in session[s].todo :
               \/ LockInventoryRow(s, call) \/ FindNoInventoryRow(s, call)
               \/ Reserve(s, call) \/ Release(s, call)
               \/ RecordMovement(s, call) \/ Fulfil(s, call)
    <3> PICK call \in session[s].todo :
               \/ LockInventoryRow(s, call) \/ FindNoInventoryRow(s, call)
               \/ Reserve(s, call) \/ Release(s, call)
               \/ RecordMovement(s, call) \/ Fulfil(s, call)
      BY <2>1
    <3>1. ASSUME Mid(s), session'[s].writes.inventory = session[s].writes.inventory,
                 session'[s].writes.movements = session[s].writes.movements,
                 \A row : Locks(s, row)' <=> Locks(s, row)
          PROVE  Reconciled'
      <4>1. SeenInventory(s)' = SeenInventory(s)
        BY <3>1 DEF Mid, tables, SeenInventory
      <4> QED
        BY <3>1, <4>1, StillReconciled DEF Mid, SeenOnHand
    <3>2. CASE FindNoInventoryRow(s, call)
      BY <3>1, <3>2, FindEffect DEF IInv, Locks
    <3>3. CASE Reserve(s, call)
      BY <3>1, <3>3, ReserveEffect DEF IInv, Locks
    <3>4. CASE Release(s, call)
      BY <3>1, <3>4, ReleaseEffect DEF IInv, Locks, InventoryLock, ReservationLock
    <3> QED
      BY <3>2, <3>3, <3>4, LockReconciled, MoveReconciled
  <2>2. CASE Refuse(s) \/ Abort(s)
    <3>1. /\ OthersKept(s) /\ session'[s] = Idle /\ held'[s] = {} /\ UNCHANGED tables
      BY <2>2, FinishStep DEF Refuse, Abort, Rollback, IInv
    <3>2. BagToSet(session'[s].writes.movements) = {}
      BY <3>1, NothingWritten DEF Idle
    <3> QED
      BY <3>1, <3>2, FreshReconciled
  <2>3. CASE Complete(s) \/ Cancel(s) \/ Update(s)
    BY <2>3, ClaimStarts, ClaimReconciled
  <2> QED
    BY <1>1, <2>1, <2>2, <2>3, ArriveReconciled, CommitReconciled DEF Step
<1>2. CASE UNCHANGED vars
  <2>1. \A s \in Sessions : SeenInventory(s)' = SeenInventory(s)
                            /\ SeenMovements(s)' = SeenMovements(s)
    BY <1>2 DEF vars, SeenInventory, SeenMovements
  <2>2. ASSUME NEW s \in Sessions PROVE Explained(s)'
    <3>1. Explained(s)
      BY DEF Reconciled
    <3> QED
      BY <1>2, <2>1, <3>1 DEF vars, Explained, ExplainedOn, Locks, SeenOnHand
  <2> QED
    BY <1>2, <2>2 DEF vars, Reconciled, OnHand
<1> QED
  BY <1>1, <1>2 DEF Next

LEMMA InitReconciled == Init => Reconciled
<1> SUFFICES ASSUME Init PROVE Reconciled
  OBVIOUS
<1> DEFINE First(r) == Movement(NoTxn, "ADJUSTMENT", r, OpeningStock[r])
           all == {First(r) : r \in DOMAIN OpeningStock}
<1>1. BagToSet(movements) = all /\ \A m \in all : movements[m] = 1
  BY DEF Init, BagToSet, SetToBag
<1>2. \A r \in DOMAIN OpeningStock :
        /\ First(r).row = r /\ IsMovement(First(r)) /\ Delta(First(r)) = OpeningStock[r]
  BY BoundsAssumption DEF Movement, IsMovement, Delta, MovementDelta, MovementTypes
<1> HIDE DEF First
<1>3. ASSUME NEW row \in Rows
      PROVE  RowMoves(movements, row) = IF row \in DOMAIN OpeningStock THEN {First(row)} ELSE {}
  BY <1>1, <1>2 DEF RowMoves
<1>4. ASSUME NEW row \in Rows
      PROVE  IsFiniteSet(RowMoves(movements, row))
  <2>1. CASE row \in DOMAIN OpeningStock
    <3>1. RowMoves(movements, row) = {First(row)}
      BY <1>3, <2>1
    <3> QED BY <3>1, FS_Singleton
  <2>2. CASE row \notin DOMAIN OpeningStock
    <3>1. RowMoves(movements, row) = {}
      BY <1>3, <2>2
    <3> QED BY <3>1, FS_EmptySet
  <2> QED BY <2>1, <2>2
<1>5. Tallied(movements)
  BY <1>1, <1>2, <1>4 DEF Tallied
<1>6. ASSUME NEW row \in Rows PROVE OnHand(row) = LedgerOf(movements, row)
  <2> DEFINE q == Deltas(movements, row)
  <2>1. CASE row \in DOMAIN OpeningStock
    <3> DEFINE m == First(row)
    <3>1. m \in all /\ RowMoves(movements, row) = {m}
      BY <1>3, <2>1
    <3>2. Counted(movements, row)
      BY <1>5, TalliedCounted
    <3>3. q[m] = movements[m] * Delta(m) /\ q[m] \in Int
      BY <3>1, <3>2, CountedDeltas
    <3>4. movements[m] = 1 /\ Delta(m) = OpeningStock[row] /\ OpeningStock[row] \in Int
      BY <1>1, <1>2, <2>1, <3>1, BoundsAssumption
    <3>5. q[m] = OpeningStock[row]
      BY <3>3, <3>4
    <3> HIDE DEF q, m
    <3>6. Total(q, {m}) = q[m]
      <4>1. IsFiniteSet({}) /\ {} \cup {m} = {m} /\ m \notin {}
        BY FS_EmptySet
      <4>2. Total(q, {} \cup {m}) = q[m] + Total(q, {})
        BY <3>3, <4>1, TotalWith
      <4> QED
        BY <3>3, <4>1, <4>2, TotalEmpty
    <3> QED
      BY <2>1, <3>1, <3>5, <3>6 DEF LedgerOf, OnHand, Init, q
  <2>2. CASE row \notin DOMAIN OpeningStock
    BY <1>3, <2>2, TotalEmpty DEF LedgerOf, OnHand, Init
  <2> QED
    BY <2>1, <2>2
<1>7. ASSUME NEW s \in Sessions PROVE Explained(s)
  <2>1. BagToSet(session[s].writes.movements) = {} /\ held[s] = {}
    BY NothingWritten DEF Init, Idle
  <2>2. \A row \in Rows : ExplainedOn(s, row)
    BY <2>1 DEF ExplainedOn, Locks, RowMoves
  <2> QED
    BY <2>1, <2>2, TalliedNothing DEF Explained
<1> QED
  BY <1>5, <1>6, <1>7 DEF Reconciled

\* onHand of every row is the sum of its movements in the ledger, at every moment
\* and whatever requests run at the same time (recordMovement writes both under
\* the row's lock, and a rollback takes both back).
THEOREM LedgerAddsUp == Spec => []LedgerExplainsStock
<1>1. Init => IInv /\ Typed /\ Mirroring /\ Booked /\ Looked /\ Reconciled
  BY InitOwns, InitTyped, InitMirrored, InitBooked, InitLooked, InitReconciled
<1>2. IInv /\ Typed /\ Mirroring /\ Booked /\ Looked /\ Reconciled /\ [Next]_vars
        => IInv' /\ Typed' /\ Mirroring' /\ Booked' /\ Looked' /\ Reconciled'
  BY IInvInductive, TypedInductive, MirroringInductive, BookedInductive, LookedInductive,
     ReconciledInductive
<1>3. Reconciled => LedgerExplainsStock
  BY LedgerTotal DEF Reconciled, Tallied, LedgerExplainsStock
<1> QED
  BY <1>1, <1>2, <1>3, PTL DEF Spec

----------------------------------------------------------------------------
(* Of a row a request has reserved from, it holds the lock, and what it sees   *)
(* reserved still fits the committed onHand; of any other row, all it has done *)
(* to the reservations is to end some.  (Sound says this of the onHand the     *)
(* request sees, and of adjustments that add.)                                 *)

SecuredOn(s, row) ==
  \/ Within(SeenReservations(s), reservations, row)
  \/ Locks(s, row) /\ Reserved(SeenReservations(s), row) <= OnHand(row)

Secured == FewReservations /\ \A s \in Sessions, row \in Rows : SecuredOn(s, row)

LEMMA QuietSecured ==
  ASSUME Secured, NEW s \in Sessions, OthersKept(s), UNCHANGED tables,
         \A row \in Rows : SecuredOn(s, row)', IsFiniteSet(DOMAIN SeenReservations(s))'
  PROVE  Secured'
<1>1. ASSUME NEW x \in Sessions \ {s}
      PROVE  SeenReservations(x)' = SeenReservations(x) /\ held'[x] = held[x]
  BY DEF OthersKept, tables, SeenReservations
<1>2. FewReservations'
  BY <1>1 DEF Secured, FewReservations, tables
<1>3. ASSUME NEW x \in Sessions \ {s}, NEW row \in Rows PROVE SecuredOn(x, row)'
  <2>1. SecuredOn(x, row) /\ reservations' = reservations /\ OnHand(row)' = OnHand(row)
    BY DEF Secured, tables, OnHand
  <2> QED
    BY <1>1, <2>1 DEF SecuredOn, Locks
<1> QED
  BY <1>2, <1>3 DEF Secured

\* A step that reserves nothing and gives no lock back.
LEMMA FewerSecured ==
  ASSUME Typed, Typed', Secured, NEW s \in Sessions, OthersKept(s), UNCHANGED tables,
         \A row : Within(SeenReservations(s)', SeenReservations(s), row),
         \A row \in Rows : Locks(s, row) => Locks(s, row)',
         IsFiniteSet(DOMAIN SeenReservations(s)')
  PROVE  Secured'
<1> DEFINE old == SeenReservations(s)
           new == SeenReservations(s)'
<1>1. Small(old) /\ Small(new)
  BY FewSmall, SeenSmall DEF Secured
<1>2. ASSUME NEW row \in Rows PROVE SecuredOn(s, row)'
  <2>1. /\ SecuredOn(s, row) /\ reservations' = reservations /\ OnHand(row)' = OnHand(row)
        /\ OnHand(row) \in Nat
    BY DEF Secured, tables, OnHand, Typed, TablesTyped, InventoryTable
  <2>2. Within(new, old, row)
    OBVIOUS
  <2>3. CASE Within(old, reservations, row)
    BY <2>1, <2>2, <2>3 DEF SecuredOn, Within
  <2>4. CASE Locks(s, row) /\ Reserved(old, row) <= OnHand(row)
    <3> HIDE DEF old, new
    <3>1. Reserved(new, row) <= Reserved(old, row)
      BY <1>1, <2>2, ReservedWithin
    <3>2. Reserved(new, row) \in Nat /\ Reserved(old, row) \in Nat
      BY <1>1, ReservedNat
    <3>3. Reserved(new, row) <= OnHand(row)
      BY <2>1, <2>4, <3>1, <3>2
    <3> QED
      BY <2>1, <2>4, <3>3 DEF SecuredOn, new
  <2> QED
    BY <2>1, <2>3, <2>4 DEF SecuredOn
<1> QED
  BY <1>2, QuietSecured

\* A request that has written nothing.
LEMMA FreshSecured ==
  ASSUME Secured, NEW s \in Sessions, OthersKept(s), UNCHANGED tables,
         DOMAIN session'[s].writes.reservations = {}
  PROVE  Secured'
<1>1. SeenReservations(s)' = Over(session'[s].writes.reservations, reservations')
  BY DEF SeenReservations
<1>2. /\ DOMAIN SeenReservations(s)' = DOMAIN reservations'
      /\ \A k \in DOMAIN reservations' : SeenReservations(s)'[k] = reservations'[k]
  BY <1>1 DEF Over
<1>3. \A row \in Rows : SecuredOn(s, row)'
  BY <1>2 DEF SecuredOn, Within, ActiveOn
<1>4. IsFiniteSet(DOMAIN SeenReservations(s))'
  BY <1>2 DEF Secured, FewReservations, tables
<1> QED
  BY <1>3, <1>4, QuietSecured

\* A request that reserves moves nothing: the onHand it sees is the committed one.
LEMMA ReservingSees ==
  ASSUME IInv, Typed, Mirroring, Booked, Reconciled, NEW s \in Sessions,
         NEW call \in session[s].todo, call.act = "reserve", NEW row \in Rows, Locks(s, row)
  PROVE  SeenOnHand(s, row) = OnHand(row)
<1> DEFINE made == session[s].writes.movements
<1>1. session[s].claimed /\ session[s].op \in Ops /\ session[s].op # "idle"
  BY DEF Typed, NotStarted, IInv, Shape
<1>2. session[s].op # "adjust"
  BY DEF Mirroring, Owned
<1>3. session[s].op # "complete"
  BY <1>1 DEF Booked, Moving
<1>4. BagToSet(made) = {}
  BY <1>1, <1>2, <1>3 DEF Booked, Moving, Ops
<1>5. Tallied(movements) /\ RowMoves(made, row) = {}
  BY <1>4 DEF Reconciled, RowMoves
<1>6. SameMoves(movements, movements (+) made, row)
  BY <1>5, NoneAdded
<1>7. LedgerOf(movements (+) made, row) = LedgerOf(movements, row)
  BY <1>5, <1>6, LedgerSame, TalliedCounted
<1>8. SeenOnHand(s, row) = LedgerOf(SeenMovements(s), row)
  BY DEF Reconciled, Explained, ExplainedOn
<1> QED
  BY <1>7, <1>8 DEF Reconciled, SeenMovements

LEMMA ReserveSecured ==
  ASSUME IInv, Typed, Mirroring, Booked, Looked, Reconciled, Secured,
         NEW s \in Sessions, NEW call \in session[s].todo, Reserve(s, call), Typed'
  PROVE  Secured'
<1> DEFINE old == SeenReservations(s)
           new == SeenReservations(s)'
<1>1. Mid(s) /\ held'[s] = held[s]
  BY ReserveEffect DEF IInv
<1>2. PICK id \in Txns \X Nat :
        /\ id \notin DOMAIN old /\ DOMAIN new = DOMAIN old \cup {id}
        /\ new[id] = [row |-> call.row, quantity |-> call.quantity, status |-> "ACTIVE"]
        /\ \A k \in DOMAIN old : new[k] = old[k]
  BY ReserveSees
<1>3. /\ new[id].row = call.row /\ new[id].quantity = call.quantity
      /\ new[id].status = "ACTIVE"
  BY <1>2
<1>4. reservations' = reservations /\ \A row : OnHand(row)' = OnHand(row)
  BY <1>1 DEF Mid, tables, OnHand
<1>5. Small(old)
  BY FewSmall DEF Secured
<1>6. IsFiniteSet(DOMAIN new)
  BY <1>2, <1>5, FS_AddElement DEF Small
<1>7. Small(new)
  BY <1>6, SeenSmall
<1>8. /\ IsNext(s, call) /\ session[s].seen # Unread
      /\ call.act = "reserve" /\ call.quantity <= session[s].seen - Reserved(old, call.row)
  BY Zenon DEF Reserve, Running
<1>9. /\ call.row \in Rows /\ call.quantity \in Int /\ call.quantity > 0
      /\ session[s].seen \in Nat
  BY <1>8 DEF Typed, SessionTyped, CallTyped
<1>10. Reserved(old, call.row) \in Nat
  BY <1>5, ReservedNat
<1>11. Locks(s, call.row) /\ session[s].seen = SeenOnHand(s, call.row)
  <2>1. \/ Locks(s, call.row) /\ session[s].seen = SeenOnHand(s, call.row)
        \/ session[s].seen = 0
    BY <1>8 DEF Looked, Looks, Sighted
  <2>2. session[s].seen # 0
    BY <1>8, <1>9, <1>10
  <2> QED
    BY <2>1, <2>2
<1>12. session[s].seen = OnHand(call.row)
  BY <1>8, <1>9, <1>11, ReservingSees
<1> HIDE DEF old, new
<1>13. /\ Reserved(new, call.row) = call.quantity + Reserved(old, call.row)
       /\ \A row : row # call.row => Within(new, old, row) /\ Within(old, new, row)
  BY <1>2, <1>3, <1>5, <1>7, ReservedAdds
<1>14. ASSUME NEW row \in Rows PROVE SecuredOn(s, row)'
  <2>1. Locks(s, row)' <=> Locks(s, row)
    BY <1>1 DEF Locks
  <2>2. CASE row = call.row
    <3>1. Reserved(new, row) <= OnHand(row)
      BY <1>8, <1>9, <1>10, <1>12, <1>13, <2>2
    <3> QED
      BY <1>4, <1>11, <2>1, <2>2, <3>1 DEF SecuredOn, new
  <2>3. CASE row # call.row
    <3>1. Within(new, old, row) /\ Within(old, new, row)
      BY <1>13, <2>3
    <3>2. Reserved(new, row) = Reserved(old, row)
      BY <1>5, <1>7, <3>1, ReservedSame
    <3>3. Within(old, reservations, row) => Within(new, reservations, row)
      BY <3>1 DEF Within
    <3>4. SecuredOn(s, row)
      BY DEF Secured
    <3> QED
      BY <1>4, <2>1, <3>2, <3>3, <3>4 DEF SecuredOn, old, new
  <2> QED
    BY <2>2, <2>3
<1> QED
  BY <1>1, <1>6, <1>14, QuietSecured DEF Mid, new

LEMMA CommitSecured ==
  ASSUME IInv, Typed, Mirroring, Looked, Secured, NEW s \in Sessions, Commit(s), Typed'
  PROVE  Secured'
<1> DEFINE v == session[s].writes.reservations
<1>1. OthersKept(s) /\ session'[s] = Idle
  BY FinishStep DEF Commit, IInv
<1>2. /\ reservations' = SeenReservations(s) /\ inventory' = SeenInventory(s)
  BY DEF Commit
<1>3. /\ reservations' = Over(v, reservations)
      /\ \A id \in DOMAIN v : Works(s) /\ id[1] = session[s].txn
  BY CommitTables
<1>4. \A x \in Sessions : Small(SeenReservations(x))
  BY FewSmall DEF Secured
<1>5. ASSUME NEW row \in Rows, ~Locks(s, row)
      PROVE  Within(reservations', reservations, row) /\ OnHand(row)' = OnHand(row)
  <2>1. row \notin DOMAIN session[s].writes.inventory
    BY <1>5 DEF Looked, Looks, WritesLocked
  <2>2. OnHand(row)' = OnHand(row)
    BY <1>2, <2>1 DEF OnHand, SeenInventory, Over
  <2>3. SecuredOn(s, row)
    BY DEF Secured
  <2> QED
    BY <1>2, <1>5, <2>2, <2>3 DEF SecuredOn
<1>6. ASSUME NEW x \in Sessions \ {s}
      PROVE  /\ SeenReservations(x) = Over(session[x].writes.reservations, reservations)
             /\ SeenReservations(x)'
                  = Over(session[x].writes.reservations, Over(v, reservations))
             /\ session'[x] = session[x] /\ held'[x] = held[x]
  BY <1>1, <1>3 DEF SeenReservations, OthersKept
<1>7. ASSUME NEW x \in Sessions \ {s} PROVE IsFiniteSet(DOMAIN SeenReservations(x))'
  <2> DEFINE w == session[x].writes.reservations
  <2>1. DOMAIN SeenReservations(x)' = DOMAIN SeenReservations(x) \cup DOMAIN SeenReservations(s)
    <3>1. /\ SeenReservations(x)' = Over(w, Over(v, reservations))
          /\ SeenReservations(x) = Over(w, reservations)
          /\ SeenReservations(s) = Over(v, reservations)
      BY <1>2, <1>3, <1>6
    <3> HIDE DEF w, v
    <3> QED
      BY <3>1 DEF Over
  <2> QED
    BY <1>4, <2>1, FS_Union DEF Small
<1>8. ASSUME NEW x \in Sessions \ {s}, NEW row \in Rows PROVE SecuredOn(x, row)'
  <2> DEFINE w == session[x].writes.reservations
             a == SeenReservations(x)
             b == SeenReservations(x)'
  <2>1. a = Over(w, reservations) /\ b = Over(w, reservations')
    BY <1>3, <1>6
  <2>2. DOMAIN v \cap DOMAIN w = {}
    <3> SUFFICES ASSUME NEW id \in DOMAIN v, id \in DOMAIN w PROVE FALSE
      OBVIOUS
    <3>1. Works(s) /\ id[1] = session[s].txn
      BY <1>3
    <3>2. /\ id[1] = session[x].txn /\ session[x].op # "adjust"
      BY DEF Mirroring, Owned
    <3>3. session[x].claimed /\ session[x].op # "idle"
      BY NothingWritten DEF Typed, NotStarted
    <3>4. Works(x)
      BY <3>2, <3>3 DEF Works, IInv, Shape, Ops
    <3> QED
      BY <3>1, <3>2, <3>4, WorkApart
  <2> HIDE DEF w, v
  <2>3. SecuredOn(x, row) /\ (Locks(x, row)' <=> Locks(x, row))
    BY <1>6 DEF Secured, Locks
  <2>4. CASE Locks(x, row) /\ Reserved(a, row) <= OnHand(row)
    <3>1. ~Locks(s, row)
      BY <2>4 DEF Locks, IInv, ClaimsHold, LocksExclusive
    <3>2. Within(b, a, row) /\ OnHand(row)' = OnHand(row)
      BY <1>5, <2>1, <3>1, OverWithin
    <3>3. Small(a) /\ Small(b)
      BY <1>4, <1>7, SeenSmall
    <3> HIDE DEF a, b
    <3>4. /\ Reserved(b, row) <= Reserved(a, row)
          /\ Reserved(a, row) \in Nat /\ Reserved(b, row) \in Nat
      BY <3>2, <3>3, ReservedWithin, ReservedNat
    <3>5. OnHand(row) \in Nat
      BY DEF Typed, TablesTyped, InventoryTable, OnHand
    <3>6. Reserved(b, row) <= OnHand(row)
      BY <2>4, <3>4, <3>5
    <3> QED
      BY <2>3, <2>4, <3>2, <3>6 DEF SecuredOn, b
  <2>5. CASE Within(a, reservations, row)
    <3>1. Within(b, reservations', row)
      BY <1>3, <2>1, <2>2, <2>5, ApartWithin
    <3> QED
      BY <3>1 DEF SecuredOn
  <2> QED
    BY <2>3, <2>4, <2>5 DEF SecuredOn
<1>9. /\ DOMAIN SeenReservations(s)' = DOMAIN reservations'
      /\ \A k \in DOMAIN reservations' : SeenReservations(s)'[k] = reservations'[k]
  <2>1. SeenReservations(s)' = Over(session'[s].writes.reservations, reservations')
    BY DEF SeenReservations
  <2>2. DOMAIN session'[s].writes.reservations = {}
    BY <1>1, NothingWritten DEF Idle
  <2> QED
    BY <2>1, <2>2 DEF Over
<1>10. \A row \in Rows : SecuredOn(s, row)'
  BY <1>9 DEF SecuredOn, Within, ActiveOn
<1>11. FewReservations'
  BY <1>2, <1>4, <1>7, <1>9 DEF FewReservations, Small
<1> QED
  BY <1>8, <1>10, <1>11 DEF Secured

\* What an arrival changes: a session that has written nothing.
LEMMA ArrivesUnwritten ==
  ASSUME IInv, Typed, NEW s \in Sessions, Arrive(s)
  PROVE  OthersKept(s) /\ UNCHANGED tables /\ DOMAIN session'[s].writes.reservations = {}
<1> USE DEF IInv
<1>1. ASSUME NEW t \in Txns, NEW order, NEW calls, InsertPending(s, t, order, calls)
      PROVE  OthersKept(s) /\ UNCHANGED tables /\ DOMAIN session'[s].writes.reservations = {}
  BY <1>1, InsertStep, InsertEffect, NothingWritten DEF NoWrites
<1>2. ASSUME NEW op \in {"complete", "cancel", "update"}, NEW t \in Txns,
             NEW patch, Request(s, op, t, patch)
      PROVE  OthersKept(s) /\ UNCHANGED tables /\ DOMAIN session'[s].writes.reservations = {}
  BY <1>2, RequestStep, RequestEffect, NothingWritten
<1>3. ASSUME NEW row \in Rows, NEW delta \in Adjustments, AdjustInventory(s, row, delta)
      PROVE  OthersKept(s) /\ UNCHANGED tables /\ DOMAIN session'[s].writes.reservations = {}
  BY <1>3, AdjustStep, AdjustEffect, NothingWritten
<1>4. CASE \E t \in Txns, order \in Orders :
             \/ CreateIncoming(s, t, order)
             \/ CreateOutgoing(s, t, order)
             \/ CreateTransfer(s, t, order)
  BY <1>1, <1>4 DEF CreateIncoming, CreateOutgoing, CreateTransfer
<1>5. CASE \E t \in Txns : \/ Request(s, "complete", t, NoPatch)
                           \/ Request(s, "cancel", t, NoPatch)
                           \/ \E patch \in Patches : Request(s, "update", t, patch)
  BY <1>2, <1>5
<1>6. CASE \E row \in Rows, delta \in Adjustments : AdjustInventory(s, row, delta)
  BY <1>3, <1>6
<1> QED
  BY <1>4, <1>5, <1>6 DEF Arrive

LEMMA StatementsSecured ==
  ASSUME IInv, Typed, Mirroring, Booked, Looked, Reconciled, Secured, Typed',
         NEW s \in Sessions, NEW call \in session[s].todo,
         \/ LockInventoryRow(s, call) \/ FindNoInventoryRow(s, call)
         \/ Reserve(s, call) \/ Release(s, call)
         \/ RecordMovement(s, call) \/ Fulfil(s, call)
  PROVE  Secured'
<1>1. Continues(s)
  BY ContinueSteps DEF IInv
<1>2. /\ OthersKept(s) /\ UNCHANGED tables
      /\ \A row \in Rows : Locks(s, row) => Locks(s, row)'
  BY <1>1 DEF Continues, Locks
<1>3. IsFiniteSet(DOMAIN SeenReservations(s))
  BY DEF Secured, FewReservations
<1>4. CASE session'[s].writes.reservations = session[s].writes.reservations
  <2>1. SeenReservations(s)' = SeenReservations(s)
    BY <1>2, <1>4 DEF tables, SeenReservations
  <2>2. \A row : Within(SeenReservations(s)', SeenReservations(s), row)
    BY <2>1 DEF Within
  <2> QED
    BY <1>2, <1>3, <2>1, <2>2, FewerSecured
<1>5. CASE Release(s, call) \/ Fulfil(s, call)
  <2> DEFINE old == SeenReservations(s)
             new == SeenReservations(s)'
  <2>1. /\ DOMAIN new = DOMAIN old /\ new[call.id].status # "ACTIVE"
        /\ \A k \in DOMAIN old \ {call.id} : new[k] = old[k]
    BY <1>5, FlipSees
  <2> HIDE DEF old, new
  <2>2. \A row : Within(new, old, row)
    BY <2>1 DEF Within, ActiveOn
  <2> QED
    BY <1>2, <1>3, <2>1, <2>2, FewerSecured DEF old, new
<1>6. CASE FindNoInventoryRow(s, call)
  BY <1>4, <1>6, FindEffect DEF IInv
<1> QED
  BY <1>4, <1>5, <1>6, LockEffect, RecordEffect, ReserveSecured DEF IInv

LEMMA SecuredInductive ==
  /\ IInv /\ Typed /\ Mirroring /\ Booked /\ Looked /\ Reconciled /\ Secured
  /\ [Next]_vars /\ Typed'
  => Secured'
<1> SUFFICES ASSUME IInv, Typed, Mirroring, Booked, Looked, Reconciled, Secured,
                    [Next]_vars, Typed'
             PROVE  Secured'
  OBVIOUS
<1>1. ASSUME NEW s \in Sessions, Arrive(s) \/ Step(s) \/ Abort(s) PROVE Secured'
  <2>1. CASE Arrive(s)
    BY <2>1, ArrivesUnwritten, FreshSecured
  <2>2. CASE Refuse(s) \/ Abort(s)
    <3>1. OthersKept(s) /\ session'[s] = Idle /\ UNCHANGED tables
      BY <2>2, FinishStep DEF Refuse, Abort, Rollback, IInv
    <3> QED
      BY <3>1, NothingWritten, FreshSecured DEF Idle
  <2>3. CASE Complete(s) \/ Cancel(s) \/ Update(s)
    <3>1. PICK row, calls : Claim(s, row, calls)
      BY <2>3, ClaimStarts
    <3>2. DOMAIN session[s].writes.reservations = {}
      BY <2>3, ClaimStarts, NothingWritten DEF Typed, NotStarted
    <3> QED
      BY <3>1, <3>2, ClaimStep, ClaimEffect, FreshSecured DEF IInv
  <2>4. CASE \E call \in session[s].todo :
               \/ LockInventoryRow(s, call) \/ FindNoInventoryRow(s, call)
               \/ Reserve(s, call) \/ Release(s, call)
               \/ RecordMovement(s, call) \/ Fulfil(s, call)
    BY <2>4, StatementsSecured
  <2> QED
    BY <1>1, <2>1, <2>2, <2>3, <2>4, CommitSecured DEF Step
<1>2. CASE UNCHANGED vars
  <2>1. \A s \in Sessions : SeenReservations(s)' = SeenReservations(s)
    BY <1>2 DEF vars, SeenReservations
  <2> QED
    BY <1>2, <2>1 DEF vars, Secured, SecuredOn, FewReservations, Locks, OnHand
<1> QED
  BY <1>1, <1>2 DEF Next

LEMMA InitSecured == Init => Secured
<1> SUFFICES ASSUME Init PROVE Secured
  OBVIOUS
<1>1. Sound
  BY InitSound
<1>2. \A s \in Sessions, row \in Rows : ~Locks(s, row)
  BY DEF Init, Locks
<1> QED
  BY <1>1, <1>2 DEF Sound, Backed, BackedOn, Secured, SecuredOn

----------------------------------------------------------------------------
(* What a request means to publish.                                        *)

\* The quantities of a row are ones a body asked for, and a transfer goes somewhere.
Allowed(row) ==
  /\ \A i \in DOMAIN row.items : row.items[i].quantity \in Amounts
  /\ row.type = "TRANSFER" => row.src # row.dst

\* The row a request has written, beside the one it found.
Outcome(s) ==
  /\ Allowed(Written(s))
  /\ session[s].op \in {"create", "update"} => Written(s).status = "PENDING"
  /\ session[s].op = "complete" =>
       Written(s) = [transactions[session[s].txn] EXCEPT !.status = "COMPLETED"]
  /\ session[s].op = "cancel" =>
       Written(s) = [transactions[session[s].txn] EXCEPT !.status = "CANCELLED"]

AdjustCall(row, delta) == Call("record", "ADJUSTMENT", row, delta, NoId)
Adjustment(row, delta) == Movement(NoTxn, "ADJUSTMENT", row, delta)
Adjusted(row, delta) == EmptyBag (+) SetToBag({Adjustment(row, delta)})

\* An adjustment has its one call to make, or has made it.
Adjusts(s) ==
  \E row \in Rows, delta \in Adjustments :
    \/ session[s].todo = {AdjustCall(row, delta)} /\ session[s].writes.movements = EmptyBag
    \/ session[s].todo = {} /\ session[s].writes.movements = Adjusted(row, delta)

Intends(s) ==
  /\ Works(s) => Outcome(s)
  /\ session[s].op = "adjust" => session[s].txn = NoTxn /\ Adjusts(s)

Intended ==
  /\ \A t \in DOMAIN transactions : Allowed(transactions[t])
  /\ \A s \in Sessions : Intends(s)

LEMMA QuietIntended ==
  ASSUME Intended, NEW s \in Sessions, OthersKept(s), UNCHANGED tables, Intends(s)'
  PROVE  Intended'
<1>1. transactions' = transactions
  BY DEF tables
<1>2. ASSUME NEW x \in Sessions \ {s} PROVE Intends(x)'
  <2>1. Intends(x) /\ session'[x] = session[x]
    BY DEF Intended, OthersKept
  <2> QED
    BY <1>1, <2>1 DEF Intends, Works, Outcome, Written, Adjusts
<1> QED
  BY <1>1, <1>2 DEF Intended

\* A session that works on no row and adjusts nothing.
LEMMA RestIntended ==
  ASSUME Intended, NEW s \in Sessions, OthersKept(s), UNCHANGED tables,
         ~session'[s].claimed, session'[s].op # "adjust"
  PROVE  Intended'
BY QuietIntended DEF Intends, Works

LEMMA ArriveIntended ==
  ASSUME IInv, Intended, NEW s \in Sessions, Arrive(s)
  PROVE  Intended'
<1> USE DEF IInv
<1>1. ASSUME NEW t \in Txns, NEW order \in Orders, NEW calls, InsertPending(s, t, order, calls),
             order.type = "TRANSFER" => order.src # order.dst
      PROVE  Intended'
  <2> DEFINE record == [type |-> order.type, status |-> "PENDING",
                        src |-> order.src, dst |-> order.dst, items |-> order.items]
  <2>1. /\ OthersKept(s) /\ UNCHANGED tables /\ session'[s].op = "create"
        /\ session'[s].txn = t /\ session'[s].writes.transactions = Entry(t, record)
    BY <1>1, InsertStep, InsertEffect
  <2>2. /\ record.status = "PENDING" /\ record.items = order.items
        /\ record.type = "TRANSFER" => record.src # record.dst
    BY <1>1
  <2> HIDE DEF record
  <2>3. session'[s].writes.transactions[t] = record
    BY <2>1, EntryRow
  <2>4. \A i \in DOMAIN order.items : order.items[i].quantity > 0
    BY <1>1 DEF InsertPending, ValidItems
  <2>5. Allowed(record)
    BY <2>2, <2>4, AmountsAssumption DEF Allowed
  <2>6. Outcome(s)'
    BY <2>1, <2>2, <2>3, <2>5 DEF Outcome, Written, Allowed
  <2> QED
    BY <2>1, <2>6, QuietIntended DEF Intends
<1>2. ASSUME NEW op \in {"complete", "cancel", "update"}, NEW t \in Txns,
             NEW patch, Request(s, op, t, patch)
      PROVE  Intended'
  BY <1>2, RequestStep, RestIntended
<1>3. ASSUME NEW row \in Rows, NEW delta \in Adjustments, AdjustInventory(s, row, delta)
      PROVE  Intended'
  <2>1. /\ OthersKept(s) /\ UNCHANGED tables /\ session'[s].op = "adjust"
        /\ session'[s].txn = NoTxn
        /\ session'[s].todo = {AdjustCall(row, delta)}
        /\ session'[s].writes.movements = EmptyBag
    BY <1>3, AdjustStep, AdjustEffect DEF AdjustCall, NoWrites
  <2> QED
    BY <2>1, QuietIntended DEF Intends, Works, Adjusts
<1>4. CASE \E t \in Txns, order \in Orders :
             \/ CreateIncoming(s, t, order)
             \/ CreateOutgoing(s, t, order)
             \/ CreateTransfer(s, t, order)
  BY <1>1, <1>4 DEF CreateIncoming, CreateOutgoing, CreateTransfer
<1>5. CASE \E t \in Txns : \/ Request(s, "complete", t, NoPatch)
                           \/ Request(s, "cancel", t, NoPatch)
                           \/ \E patch \in Patches : Request(s, "update", t, patch)
  BY <1>2, <1>5
<1>6. CASE \E row \in Rows, delta \in Adjustments : AdjustInventory(s, row, delta)
  BY <1>3, <1>6
<1> QED
  BY <1>4, <1>5, <1>6 DEF Arrive

\* A claim writes the row it found with the outcome of its operation.
LEMMA ClaimIntended ==
  ASSUME IInv, Typed, Intended, NEW s \in Sessions, Complete(s) \/ Cancel(s) \/ Update(s)
  PROVE  Intended'
<1> DEFINE t == session[s].txn
           row == transactions[t]
<1>1. /\ session[s].op \in {"complete", "cancel", "update"} /\ row.status = "PENDING"
      /\ t \in DOMAIN transactions /\ TransactionRow(row)
  BY ClaimStarts, ClaimedRow
<1>2. ASSUME NEW after, NEW calls, Claim(s, after, calls), Allowed(after),
             \/ session[s].op = "update" /\ after.status = "PENDING"
             \/ session[s].op = "complete" /\ after = [row EXCEPT !.status = "COMPLETED"]
             \/ session[s].op = "cancel" /\ after = [row EXCEPT !.status = "CANCELLED"]
      PROVE  Intended'
  <2>1. /\ OthersKept(s) /\ UNCHANGED tables /\ session'[s].op = session[s].op
        /\ session'[s].txn = t /\ session'[s].writes.transactions = Entry(t, after)
    BY <1>2, ClaimStep, ClaimEffect DEF IInv
  <2>2. Entry(t, after)[t] = after
    BY EntryRow, Zenon
  <2> HIDE DEF t, row
  <2>3. session'[s].writes.transactions[t] = after /\ transactions' = transactions
    BY <2>1, <2>2 DEF tables
  <2>4. Outcome(s)'
    BY <1>2, <2>1, <2>3 DEF Outcome, Written, Allowed, row, t
  <2>5. session'[s].op # "adjust"
    BY <1>1, <2>1
  <2> QED
    BY <2>1, <2>4, <2>5, QuietIntended DEF Intends
<1>3. Allowed(row)
  BY <1>1 DEF Intended
<1>4. CASE Complete(s)
  <2>1. Allowed([row EXCEPT !.status = "COMPLETED"])
    BY <1>1, <1>3, StatusWritten DEF Allowed
  <2>2. session[s].op = "complete"
        /\ Claim(s, [row EXCEPT !.status = "COMPLETED"], CompleteCalls(t))
    BY <1>4 DEF Complete, AtClaim
  <2> QED
    BY <1>2, <2>1, <2>2
<1>5. CASE Cancel(s)
  <2>1. Allowed([row EXCEPT !.status = "CANCELLED"])
    BY <1>1, <1>3, StatusWritten DEF Allowed
  <2>2. session[s].op = "cancel"
        /\ Claim(s, [row EXCEPT !.status = "CANCELLED"],
                 Releases(reservations, ActiveOf(reservations, t)))
    BY <1>5 DEF Cancel, AtClaim
  <2> QED
    BY <1>2, <2>1, <2>2
<1>6. CASE Update(s)
  <2> DEFINE patch == session[s].patch
             after == Patched(row, patch)
  <2>1. /\ session[s].op = "update" /\ ValidPatch(row, patch)
        /\ \E calls : Claim(s, after, calls)
        /\ row.type = "TRANSFER" => after.src # after.dst
    <3>1. session[s].op = "update" /\ ValidPatch(row, patch) /\ \E calls : Claim(s, after, calls)
      BY <1>6, Zenon DEF Update, AtClaim
    <3> QED
      BY <3>1 DEF ValidPatch
  <2>2. patch \in Patches \cup {NoPatch}
    BY DEF Typed, SessionTyped
  <2>3. after.status = "PENDING" /\ after.type = row.type
    BY <1>1, <2>1, <2>2, PatchedRow
  <2>4. after.items = PatchedItems(row.items, patch.items)
    BY <1>1 DEF Patched, TransactionRow
  <2>5. \A i \in DOMAIN patch.items : patch.items[i].quantity \in Amounts
    BY <2>2, AmountsAssumption DEF NoPatch
  <2>6. Allowed(after)
    <3> DEFINE items == row.items
               changes == patch.items
    <3>1. \A i \in DOMAIN items : items[i].quantity \in Amounts
      BY <1>3 DEF Allowed
    <3>2. \A i \in DOMAIN changes : changes[i].quantity \in Amounts
      BY <2>5
    <3> HIDE DEF items, changes
    <3>3. \A i \in DOMAIN PatchedItems(items, changes) :
            PatchedItems(items, changes)[i].quantity \in Amounts
      BY <3>1, <3>2 DEF PatchedItems, Merged
    <3> HIDE DEF after
    <3> QED
      BY <2>1, <2>3, <2>4, <3>3 DEF Allowed, items, changes
  <2> HIDE DEF after
  <2> QED
    BY <1>2, <2>1, <2>3, <2>6
<1> QED
  BY <1>4, <1>5, <1>6

LEMMA StatementsIntended ==
  ASSUME IInv, Typed, Mirroring, Intended, NEW s \in Sessions, NEW call \in session[s].todo,
         \/ LockInventoryRow(s, call) \/ FindNoInventoryRow(s, call)
         \/ Reserve(s, call) \/ Release(s, call)
         \/ RecordMovement(s, call) \/ Fulfil(s, call)
  PROVE  Intended'
<1>1. /\ OthersKept(s) /\ UNCHANGED tables
      /\ session'[s].op = session[s].op /\ session'[s].claimed = session[s].claimed
      /\ session'[s].txn = session[s].txn
      /\ session'[s].writes.transactions = session[s].writes.transactions
  BY ContinueSteps DEF IInv, Continues
<1>2. Intends(s) /\ transactions' = transactions
  BY <1>1 DEF Intended, tables
<1>3. Works(s)' => Outcome(s)'
  BY <1>1, <1>2 DEF Intends, Works, Outcome, Written
<1>4. ASSUME session[s].op = "adjust" PROVE Adjusts(s)'
  <2>1. call.act = "record" /\ session[s].txn = NoTxn
    BY <1>2, <1>4 DEF Mirroring, Owned, Intends
  <2>2. PICK row \in Rows, delta \in Adjustments :
          /\ session[s].todo = {AdjustCall(row, delta)}
          /\ session[s].writes.movements = EmptyBag
    BY <1>2, <1>4 DEF Intends, Adjusts
  <2>3. call = AdjustCall(row, delta)
    BY <2>2
  <2>4. CASE LockInventoryRow(s, call)
    <3>1. session'[s].todo = session[s].todo
          /\ session'[s].writes.movements = session[s].writes.movements
      BY <2>4, LockEffect DEF IInv
    <3> QED
      BY <2>2, <3>1 DEF Adjusts
  <2>5. CASE RecordMovement(s, call)
    <3>1. /\ session'[s].todo = Done(call, session[s].todo)
          /\ session'[s].writes.movements = session[s].writes.movements (+) SetToBag(
               {Movement(session[s].txn, call.type, call.row, call.quantity)})
      BY <2>5, RecordEffect DEF IInv, Moves
    <3>2. call.type = "ADJUSTMENT" /\ call.row = row /\ call.quantity = delta
      BY <2>3 DEF AdjustCall, Call
    <3>3. session'[s].todo = {} /\ session'[s].writes.movements = Adjusted(row, delta)
      BY <2>1, <2>2, <2>3, <3>1, <3>2 DEF Done, Adjusted, Adjustment
    <3> QED
      BY <3>3 DEF Adjusts
  <2> QED
    BY <2>1, <2>4, <2>5, CallMade
<1> QED
  BY <1>1, <1>2, <1>3, <1>4, QuietIntended DEF Intends

LEMMA CommitIntended ==
  ASSUME IInv, Typed, Mirroring, Intended, NEW s \in Sessions, Commit(s)
  PROVE  Intended'
<1> DEFINE rows == session[s].writes.transactions
           me == session[s].txn
<1>1. /\ transactions' = Over(rows, transactions)
      /\ DOMAIN rows = IF Works(s) THEN {me} ELSE {}
  BY CommitTables
<1>2. OthersKept(s) /\ session'[s] = Idle
  BY FinishStep DEF Commit, IInv
<1>3. Works(s) => Allowed(rows[me])
  BY DEF Intended, Intends, Outcome, Written
<1>4. /\ DOMAIN transactions' = DOMAIN rows \cup DOMAIN transactions
      /\ \A t \in DOMAIN rows : transactions'[t] = rows[t]
      /\ \A t \in DOMAIN transactions \ DOMAIN rows : transactions'[t] = transactions[t]
  <2> HIDE DEF rows
  <2> QED
    BY <1>1 DEF Over
<1>5. \A t \in DOMAIN transactions' : Allowed(transactions'[t])
  <2> HIDE DEF rows, me
  <2> QED
    BY <1>1, <1>3, <1>4 DEF Intended
<1>6. ASSUME NEW x \in Sessions \ {s} PROVE Intends(x)'
  <2>1. Intends(x) /\ session'[x] = session[x] /\ (Works(x)' <=> Works(x))
    BY <1>2 DEF Intended, OthersKept, Works
  <2>2. ASSUME Works(x) PROVE Outcome(x)'
    <3>1. Outcome(x) /\ Written(x)' = Written(x)
      BY <2>1, <2>2 DEF Intends, Written
    <3>2. session[x].txn \notin DOMAIN rows
      BY <1>1, <2>2, WorkApart
    <3>3. session[x].op \in {"complete", "cancel"} => session[x].txn \in DOMAIN transactions
      BY DEF IInv, ClaimsHold, OwnsTransaction
    <3>4. session[x].op \in {"complete", "cancel"} =>
            transactions'[session[x].txn] = transactions[session[x].txn]
      BY <1>4, <3>2, <3>3
    <3> QED
      BY <2>1, <3>1, <3>4 DEF Outcome, Allowed
  <2>3. session[x].op = "adjust" => Adjusts(x)'
    BY <2>1 DEF Intends, Adjusts
  <2> QED
    BY <2>1, <2>2, <2>3 DEF Intends
<1>7. Intends(s)'
  BY <1>2 DEF Intends, Works, Idle
<1> QED
  BY <1>5, <1>6, <1>7 DEF Intended, Allowed

LEMMA IntendedInductive ==
  IInv /\ Typed /\ Mirroring /\ Intended /\ [Next]_vars => Intended'
<1> SUFFICES ASSUME IInv, Typed, Mirroring, Intended, [Next]_vars PROVE Intended'
  OBVIOUS
<1>1. ASSUME NEW s \in Sessions, Arrive(s) \/ Step(s) \/ Abort(s) PROVE Intended'
  <2>1. CASE Refuse(s) \/ Abort(s)
    <3>1. OthersKept(s) /\ session'[s] = Idle /\ UNCHANGED tables
      BY <2>1, FinishStep DEF Refuse, Abort, Rollback, IInv
    <3>2. ~session'[s].claimed /\ session'[s].op # "adjust"
      BY <3>1 DEF Idle
    <3> QED
      BY <3>1, <3>2, RestIntended
  <2>2. CASE \E call \in session[s].todo :
               \/ LockInventoryRow(s, call) \/ FindNoInventoryRow(s, call)
               \/ Reserve(s, call) \/ Release(s, call)
               \/ RecordMovement(s, call) \/ Fulfil(s, call)
    BY <2>2, StatementsIntended
  <2> QED
    BY <1>1, <2>1, <2>2, ArriveIntended, ClaimIntended, CommitIntended DEF Step
<1>2. CASE UNCHANGED vars
  BY <1>2 DEF vars, Intended, Intends, Works, Outcome, Written, Adjusts
<1> QED
  BY <1>1, <1>2 DEF Next

LEMMA InitIntended == Init => Intended
BY DEF Init, Idle, Intended, Intends, Works

----------------------------------------------------------------------------
(* What a transaction reserves of a row: the quantity of its one item there, or *)
(* nothing.                                                                     *)

OwnOn(table, t, row) == {id \in ActiveOn(table, row) : id[1] = t}

Owns(table, t, row, n) ==
  \/ OwnOn(table, t, row) = {} /\ n = 0
  \/ \E id : OwnOn(table, t, row) = {id} /\ table[id].quantity = n

\* The sum of the others' reservations.
Others(table, t, row) ==
  Total(ActiveQuantities(table, row), ActiveOn(table, row) \ OwnOn(table, t, row))

LEMMA ReservedApart ==
  ASSUME NEW table, Small(table), NEW t, NEW row, NEW n, Owns(table, t, row, n)
  PROVE  Reserved(table, row) = n + Others(table, t, row) /\ Others(table, t, row) \in Int
<1> DEFINE S == ActiveOn(table, row)
           own == OwnOn(table, t, row)
           q == ActiveQuantities(table, row)
<1>1. /\ IsFiniteSet(S) /\ Reserved(table, row) = Total(q, S)
      /\ \A id \in S : q[id] = table[id].quantity /\ q[id] \in Int
  BY SmallSums, ReservedTotal
<1>2. own \subseteq S
  BY DEF OwnOn
<1>3. Others(table, t, row) = Total(q, S \ own)
  BY DEF Others
<1>4. Owns(table, t, row, n) <=> \/ own = {} /\ n = 0
                                 \/ \E id : own = {id} /\ table[id].quantity = n
  BY DEF Owns
<1> HIDE DEF S, q, own
<1>5. IsFiniteSet(S \ own) /\ \A id \in S \ own : q[id] \in Int
  <2>1. S \ own \subseteq S
    OBVIOUS
  <2> QED
    BY <1>1, <2>1, FS_Subset
<1>6. Total(q, S \ own) \in Int
  BY <1>5, TotalType
<1>7. Total(q, S) = n + Total(q, S \ own)
  <2>1. CASE own = {} /\ n = 0
    <3>1. S \ own = S
      BY <2>1
    <3> QED
      BY <1>6, <2>1, <3>1
  <2>2. CASE \E id : own = {id} /\ table[id].quantity = n
    <3>1. PICK id : own = {id} /\ table[id].quantity = n
      BY <2>2
    <3>2. id \in S /\ q[id] = n
      BY <1>1, <1>2, <3>1
    <3>3. Total(q, S) = q[id] + Total(q, S \ {id})
      BY <1>1, <3>2, TotalWithout
    <3> QED
      BY <3>1, <3>2, <3>3
  <2> QED
    BY <1>4, <2>1, <2>2
<1> QED
  BY <1>1, <1>3, <1>6, <1>7

\* Two tables that agree on all transactions but t differ on a row by what t
\* reserves there.
LEMMA ReservedMoves ==
  ASSUME NEW a, NEW b, Small(a), Small(b), NEW t, \A u : u # t => Agree(a, b, u),
         NEW row, NEW m \in Nat, NEW n \in Nat, Owns(a, t, row, m), Owns(b, t, row, n)
  PROVE  Reserved(b, row) = Reserved(a, row) - m + n
<1> DEFINE R == ActiveOn(a, row) \ OwnOn(a, t, row)
           q == ActiveQuantities(a, row)
           p == ActiveQuantities(b, row)
<1>1. ActiveOn(b, row) \ OwnOn(b, t, row) = R
  BY DEF Agree, ActiveOn, OwnOn
<1>2. \A id \in R : a[id] = b[id] /\ id \in ActiveOn(a, row) /\ id \in ActiveOn(b, row)
  BY DEF Agree, ActiveOn, OwnOn
<1>3. \A id \in R : q[id] = p[id]
  BY <1>2, SmallSums
<1>4. IsFiniteSet(R)
  <2>1. R \subseteq ActiveOn(a, row)
    OBVIOUS
  <2> QED
    BY <2>1, SmallSums, FS_Subset
<1>5. Others(a, t, row) = Total(q, R) /\ Others(b, t, row) = Total(p, R)
  BY <1>1 DEF Others
<1> HIDE DEF R, q, p
<1>6. Total(q, R) = Total(p, R)
  BY <1>3, <1>4, TotalAgrees
<1>7. /\ Reserved(a, row) = m + Others(a, t, row) /\ Others(a, t, row) \in Int
      /\ Reserved(b, row) = n + Others(b, t, row)
  BY ReservedApart
<1> QED
  BY <1>5, <1>6, <1>7

\* Needs, a sum over the items of a product, is the quantity of its one item.
LEMMA NeedsTotal ==
  ASSUME NEW items, IsFiniteSet(DOMAIN items), NEW p \in Products
  PROVE  Needs(items)[p] = Total([i \in DOMAIN items |-> items[i].quantity],
                                 {i \in DOMAIN items : items[i].product = p})
<1> DEFINE S == {i \in DOMAIN items : items[i].product = p}
           q == [i \in DOMAIN items |-> items[i].quantity]
           P(g) == g = [s \in SUBSET S |->
                          IF s = {} THEN 0 ELSE items[Pick(s)].quantity + g[s \ {Pick(s)}]]
           h == CHOOSE g : P(g)
           k == CHOOSE g : Sums(q, S, g)
<1>0. IsFiniteSet(S)
  <2>1. S \subseteq DOMAIN items
    OBVIOUS
  <2> QED
    BY <2>1, FS_Subset
<1>1. Needs(items)[p] = h[S]
  BY DEF Needs, MapThenSumSet, MapThenFoldSet, Pick
<1>2. Sums(q, S, k)
  BY <1>0, SumsExist
<1>3. \A s \in SUBSET S : s # {} => q[Pick(s)] = items[Pick(s)].quantity
  BY PickIn
<1> HIDE DEF S, q
<1>4. \A g : P(g) <=> Sums(q, S, g)
  BY <1>3 DEF Sums
<1>5. P(k)
  BY <1>2, <1>4
<1> HIDE DEF P, k
<1>6. P(h)
  BY <1>5
<1>7. Sums(q, S, h)
  BY <1>4, <1>6
<1> HIDE DEF h
<1>8. h[S] = k[S]
  BY <1>0, <1>2, <1>7, SumsAgree
<1> QED
  BY <1>1, <1>8, TotalSums DEF k, S, q

LEMMA NeedsOne ==
  ASSUME NEW items, IsFiniteSet(DOMAIN items), NEW i \in DOMAIN items,
         items[i].product \in Products, items[i].quantity \in Int,
         \A j \in DOMAIN items : items[j].product = items[i].product => i = j
  PROVE  Needs(items)[items[i].product] = items[i].quantity
<1> DEFINE q == [j \in DOMAIN items |-> items[j].quantity]
<1>1. {j \in DOMAIN items : items[j].product = items[i].product} = {i}
  OBVIOUS
<1>2. Needs(items)[items[i].product] = Total(q, {i})
  BY <1>1, NeedsTotal
<1>3. q[i] = items[i].quantity
  OBVIOUS
<1> HIDE DEF q
<1>4. IsFiniteSet({}) /\ i \notin {} /\ {} \cup {i} = {i}
  BY FS_EmptySet
<1>5. Total(q, {} \cup {i}) = q[i] + Total(q, {})
  BY <1>3, <1>4, TotalWith
<1> QED
  BY <1>2, <1>3, <1>4, <1>5, TotalEmpty

LEMMA NeedsNone ==
  ASSUME NEW items, IsFiniteSet(DOMAIN items), NEW p \in Products,
         \A i \in DOMAIN items : items[i].product # p
  PROVE  Needs(items)[p] = 0
<1> DEFINE q == [i \in DOMAIN items |-> items[i].quantity]
<1>1. {i \in DOMAIN items : items[i].product = p} = {}
  OBVIOUS
<1>2. Needs(items)[p] = Total(q, {})
  BY <1>1, NeedsTotal
<1> HIDE DEF q
<1> QED
  BY <1>2, TotalEmpty

\* The rows of the tables: finitely many items, each of a product of its own, of
\* allowed quantities.
Proper(row) == TransactionRow(row) /\ DistinctProducts(row) /\ Allowed(row)

LEMMA ProperItems ==
  ASSUME NEW row, Proper(row)
  PROVE  /\ IsFiniteSet(DOMAIN row.items)
         /\ \A i \in DOMAIN row.items :
              /\ row.items[i].product \in Products /\ row.items[i].quantity \in Nat
              /\ row.items[i].quantity \in Amounts
              /\ Needs(row.items)[row.items[i].product] = row.items[i].quantity
<1>1. /\ DOMAIN row.items \subseteq ItemIds
      /\ \A i \in DOMAIN row.items :
           /\ row.items[i].product \in Products /\ row.items[i].quantity \in Nat
           /\ row.items[i].quantity \in Amounts
  BY DEF Proper, TransactionRow, IsTransaction, IsItem, Allowed
<1>2. IsFiniteSet(DOMAIN row.items)
  BY <1>1, FiniteAssumption, FS_Subset
<1>3. ASSUME NEW i \in DOMAIN row.items
      PROVE  Needs(row.items)[row.items[i].product] = row.items[i].quantity
  <2>1. \A j \in DOMAIN row.items : row.items[j].product = row.items[i].product => i = j
    BY DEF Proper, DistinctProducts
  <2> DEFINE items == row.items
  <2>2. /\ IsFiniteSet(DOMAIN items) /\ i \in DOMAIN items
        /\ items[i].product \in Products /\ items[i].quantity \in Int
    BY <1>1, <1>2
  <2> HIDE DEF items
  <2> QED
    BY <2>1, <2>2, NeedsOne DEF items
<1> QED
  BY <1>1, <1>2, <1>3

LEMMA NeedsAllowed ==
  ASSUME NEW row, Proper(row)
  PROVE  Needs(row.items) \in [Products -> Amounts]
<1>1. ASSUME NEW p \in Products PROVE Needs(row.items)[p] \in Amounts
  <2>1. CASE \E i \in DOMAIN row.items : row.items[i].product = p
    BY <2>1, ProperItems
  <2>2. CASE \A i \in DOMAIN row.items : row.items[i].product # p
    BY <2>2, ProperItems, NeedsNone, AmountsAssumption
  <2> QED
    BY <2>1, <2>2
<1>2. Needs(row.items) = [p \in Products |-> Needs(row.items)[p]]
  BY DEF Needs
<1> QED
  BY <1>1, <1>2

\* A plan's take and give at a row.
LEMMA PlanAt ==
  ASSUME NEW src, NEW dst, NEW need, NEW r \in Rows
  PROVE  /\ PlanOf(src, dst, need).take[r] = IF r[2] = src THEN need[r[1]] ELSE 0
         /\ PlanOf(src, dst, need).give[r] = IF r[2] = dst THEN need[r[1]] ELSE 0
BY DEF PlanOf, Quantities

Plan(row) == PlanOf(row.src, row.dst, Needs(row.items))

\* What a transaction still has to take of a row.
Outstanding(row, r) == IF row.status = "PENDING" THEN Plan(row).take[r] ELSE 0

LEMMA PlanAllowed ==
  ASSUME NEW row, Proper(row)
  PROVE  /\ Plan(row) \in AbstractPlans
         /\ \A r \in Rows : Plan(row).take[r] \in Nat /\ Plan(row).give[r] \in Nat
<1>1. Needs(row.items) \in [Products -> Amounts]
  BY NeedsAllowed
<1>2. row.src \in Warehouses \cup {NoWarehouse} /\ row.dst \in Warehouses \cup {NoWarehouse}
  BY DEF Proper, TransactionRow, IsTransaction
<1>3. Plan(row) \in AbstractPlans
  BY <1>1, <1>2 DEF AbstractPlans, Plan
<1>4. ASSUME NEW r \in Rows PROVE Plan(row).take[r] \in Nat /\ Plan(row).give[r] \in Nat
  <2> DEFINE need == Needs(row.items)
  <2>1. need[r[1]] \in Nat
    <3>1. r[1] \in Products
      BY DEF Rows
    <3> QED
      BY <1>1, <3>1, AmountsAssumption
  <2> HIDE DEF need
  <2> QED
    BY <2>1, PlanAt DEF Plan, need
<1> QED
  BY <1>3, <1>4

\* With one active reservation for each item of a pending order, what its
\* transaction reserves of a row is what its plan takes there.
LEMMA MirroredOwns ==
  ASSUME NEW row, Proper(row), NEW table, NEW t,
         OnItsWay(table, ActiveOf(table, t), {}, row), NEW r \in Rows
  PROVE  Owns(table, t, r, Outstanding(row, r)) /\ Outstanding(row, r) \in Nat
<1> DEFINE kept == ActiveOf(table, t)
           own == OwnOn(table, t, r)
           need == Needs(row.items)
           n == Outstanding(row, r)
<1>1. own = {id \in kept : table[id].row = r}
  BY DEF OwnOn, ActiveOn, ActiveOf
<1>2. n = IF row.status = "PENDING" /\ r[2] = row.src THEN need[r[1]] ELSE 0
  BY PlanAt DEF Outstanding, Plan
<1>3. n \in Nat
  BY PlanAllowed DEF Outstanding
<1>4. r = <<r[1], r[2]>> /\ r[1] \in Products /\ r[2] # NoWarehouse
  <2>1. r = <<r[1], r[2]>> /\ r[1] \in Products /\ r[2] \in Warehouses
    BY DEF Rows
  <2>2. NoWarehouse \notin Warehouses
    BY IdsAssumption
  <2> QED
    BY <2>1, <2>2
<1>5. /\ IsFiniteSet(DOMAIN row.items)
      /\ \A i \in DOMAIN row.items : need[row.items[i].product] = row.items[i].quantity
  BY ProperItems
<1>6. (own = {} /\ n = 0) \/ (\E id : own = {id} /\ table[id].quantity = n)
  <2>1. CASE ~Reserving(row)
    <3>1. own = {}
      BY <1>1, <2>1 DEF OnItsWay
    <3>2. row.status = "PENDING" => row.src = NoWarehouse
      BY <2>1 DEF Reserving, Proper, TransactionRow, IsTransaction
    <3> QED
      BY <1>2, <1>4, <3>1, <3>2
  <2>2. CASE Reserving(row)
    <3>1. /\ \A id \in kept : \E i \in DOMAIN row.items : Covers(table[id], row, i)
          /\ \A id, other \in kept : table[id].row[1] = table[other].row[1] => id = other
          /\ \A i \in DOMAIN row.items : \E id \in kept : Covers(table[id], row, i)
      BY <2>2 DEF OnItsWay
    <3>2. row.status = "PENDING"
      BY <2>2 DEF Reserving
    <3> HIDE DEF own, kept, need, n
    <3>3. CASE \E i \in DOMAIN row.items : <<row.items[i].product, row.src>> = r
      <4>1. PICK i \in DOMAIN row.items : <<row.items[i].product, row.src>> = r
        BY <3>3
      <4>2. PICK id \in kept : Covers(table[id], row, i)
        BY <3>1
      <4>3. table[id].row = r /\ table[id].quantity = row.items[i].quantity
        BY <4>1, <4>2 DEF Covers
      <4>4. own = {id}
        BY <1>1, <3>1, <4>3
      <4>5. r[1] = row.items[i].product /\ r[2] = row.src
        BY <4>1
      <4> QED
        BY <1>2, <1>5, <3>2, <4>3, <4>4, <4>5
    <3>4. CASE \A i \in DOMAIN row.items : <<row.items[i].product, row.src>> # r
      <4>0. ASSUME NEW id \in kept PROVE table[id].row # r
        <5>1. PICK i \in DOMAIN row.items : Covers(table[id], row, i)
          BY <3>1
        <5>2. table[id].row = <<row.items[i].product, row.src>>
          BY <5>1 DEF Covers
        <5> QED
          BY <3>4, <5>2
      <4>1. own = {}
        BY <1>1, <4>0
      <4>2. r[2] = row.src => \A i \in DOMAIN row.items : row.items[i].product # r[1]
        BY <1>4, <3>4
      <4>3. r[2] = row.src => need[r[1]] = 0
        BY <1>4, <1>5, <4>2, NeedsNone DEF need
      <4> QED
        BY <1>2, <4>1, <4>3
    <3> QED
      BY <3>3, <3>4
  <2> QED
    BY <2>1, <2>2
<1> QED
  BY <1>3, <1>6 DEF Owns

----------------------------------------------------------------------------
(* What a completed transaction moves at a row: one movement, or none.         *)

\* The movements of one side of a transaction.
LEMMA SideAt ==
  ASSUME NEW row, Proper(row), NEW t, NEW type, NEW w, NEW r \in Rows
  PROVE  LET side == {m \in ItemMoves(t, row, type, w) : m.row = r}
             n == Needs(row.items)[r[1]]
         IN /\ n \in Nat
            /\ \/ side = {} /\ (r[2] = w => n = 0)
               \/ side = {Movement(t, type, r, n)} /\ r[2] = w /\ n # 0
<1> DEFINE side == {m \in ItemMoves(t, row, type, w) : m.row = r}
           need == Needs(row.items)
           Of(i) == Movement(t, type, <<row.items[i].product, w>>, row.items[i].quantity)
<1>1. r = <<r[1], r[2]>> /\ r[1] \in Products
  BY DEF Rows
<1>2. /\ IsFiniteSet(DOMAIN row.items)
      /\ \A i \in DOMAIN row.items :
           need[row.items[i].product] = row.items[i].quantity /\ row.items[i].quantity # 0
  BY ProperItems DEF Proper, TransactionRow, IsTransaction, IsItem
<1>3. need[r[1]] \in Nat
  BY <1>1, NeedsAllowed, AmountsAssumption
<1>4. /\ \A i \in DOMAIN row.items : Of(i).row = <<row.items[i].product, w>>
      /\ \A m \in ItemMoves(t, row, type, w) : \E i \in DOMAIN row.items : m = Of(i)
      /\ \A i \in DOMAIN row.items : Of(i) \in ItemMoves(t, row, type, w)
  BY DEF ItemMoves, Movement
<1>5. \A i, j \in DOMAIN row.items : row.items[i].product = row.items[j].product => i = j
  BY DEF Proper, DistinctProducts
<1> HIDE DEF need
<1>6. CASE \E i \in DOMAIN row.items : <<row.items[i].product, w>> = r
  <2>1. PICK i \in DOMAIN row.items : <<row.items[i].product, w>> = r
    BY <1>6
  <2>2. r[1] = row.items[i].product /\ r[2] = w /\ need[r[1]] = row.items[i].quantity
    BY <1>2, <2>1
  <2>3. Of(i) = Movement(t, type, r, need[r[1]])
    BY <2>1, <2>2
  <2>4. \A j \in DOMAIN row.items : Of(j).row = r => j = i
    BY <1>4, <1>5, <2>1
  <2> HIDE DEF Of
  <2>5. side = {Of(i)}
    BY <1>4, <2>1, <2>4
  <2> QED
    BY <1>2, <1>3, <2>2, <2>3, <2>5 DEF need
<1>7. CASE \A i \in DOMAIN row.items : <<row.items[i].product, w>> # r
  <2>1. side = {}
    BY <1>4, <1>7
  <2>2. r[2] = w => \A i \in DOMAIN row.items : row.items[i].product # r[1]
    BY <1>1, <1>7
  <2>3. r[2] = w => need[r[1]] = 0
    BY <1>1, <1>2, <2>2, NeedsNone DEF need
  <2> QED
    BY <1>3, <2>1, <2>3 DEF need
<1> QED
  BY <1>6, <1>7

LEMMA DueAt ==
  ASSUME NEW row, Proper(row), NEW t \in Txns, NEW r \in Rows
  PROVE  LET due == {m \in MovesDue(t, row) : m.row = r}
             net == Plan(row).give[r] - Plan(row).take[r]
         IN \/ due = {} /\ net = 0
            \/ \E m : due = {m} /\ IsMovement(m) /\ m.row = r /\ Delta(m) = net
<1> DEFINE due == {m \in MovesDue(t, row) : m.row = r}
           side(type, w) == {m \in ItemMoves(t, row, type, w) : m.row = r}
           n == Needs(row.items)[r[1]]
           take == Plan(row).take[r]
           give == Plan(row).give[r]
<1>1. r[2] \in Warehouses /\ r[2] # NoWarehouse
  BY IdsAssumption DEF Rows
<1>2. /\ take = IF r[2] = row.src THEN n ELSE 0
      /\ give = IF r[2] = row.dst THEN n ELSE 0
  BY PlanAt DEF Plan
<1>3. /\ row.type \in TransactionTypes
      /\ row.type = "INCOMING" => row.src = NoWarehouse
      /\ row.type = "OUTGOING" => row.dst = NoWarehouse
      /\ row.type = "TRANSFER" => row.src # row.dst
  BY DEF Proper, TransactionRow, IsTransaction, Allowed
<1>4. n \in Nat
  BY SideAt
<1>5. ASSUME NEW type, NEW w
      PROVE  \/ side(type, w) = {} /\ (r[2] = w => n = 0)
             \/ side(type, w) = {Movement(t, type, r, n)} /\ r[2] = w /\ n # 0
  BY SideAt
<1>6. ASSUME NEW type \in MovementTypes, n # 0
      PROVE  LET m == Movement(t, type, r, n)
             IN /\ IsMovement(m) /\ m.row = r
                /\ Delta(m) = IF type \in {"OUTGOING", "TRANSFER_OUT"} THEN -n ELSE n
  BY <1>4, <1>6 DEF Movement, IsMovement, Delta, MovementDelta
<1>7. /\ row.type = "INCOMING" => due = side("INCOMING", row.dst)
      /\ row.type = "OUTGOING" => due = side("OUTGOING", row.src)
      /\ row.type = "TRANSFER" => due = side("TRANSFER_OUT", row.src)
                                          \cup side("TRANSFER_IN", row.dst)
  BY DEF MovesDue
<1> HIDE DEF side, n, take, give, due
<1>8. CASE row.type = "INCOMING"
  <2>1. take = 0
    BY <1>1, <1>2, <1>3, <1>8
  <2>2. CASE due = {} /\ (r[2] = row.dst => n = 0)
    BY <1>2, <2>1, <2>2 DEF take, give, due
  <2>3. CASE due = {Movement(t, "INCOMING", r, n)} /\ r[2] = row.dst /\ n # 0
    <3>1. give - take = n
      BY <1>2, <1>4, <2>1, <2>3
    <3> QED
      BY <1>6, <2>3, <3>1 DEF MovementTypes, take, give, due
  <2> QED
    BY <1>5, <1>7, <1>8, <2>2, <2>3
<1>9. CASE row.type = "OUTGOING"
  <2>1. give = 0
    BY <1>1, <1>2, <1>3, <1>9
  <2>2. CASE due = {} /\ (r[2] = row.src => n = 0)
    BY <1>2, <2>1, <2>2 DEF take, give, due
  <2>3. CASE due = {Movement(t, "OUTGOING", r, n)} /\ r[2] = row.src /\ n # 0
    <3>1. give - take = -n
      BY <1>2, <1>4, <2>1, <2>3
    <3> QED
      BY <1>6, <2>3, <3>1 DEF MovementTypes, take, give, due
  <2> QED
    BY <1>5, <1>7, <1>9, <2>2, <2>3
<1>10. CASE row.type = "TRANSFER"
  <2> DEFINE out == side("TRANSFER_OUT", row.src)
             in == side("TRANSFER_IN", row.dst)
  <2>1. due = out \cup in /\ row.src # row.dst
    BY <1>3, <1>7, <1>10
  <2>2. \/ out = {} /\ (r[2] = row.src => n = 0)
        \/ out = {Movement(t, "TRANSFER_OUT", r, n)} /\ r[2] = row.src /\ n # 0
    BY <1>5
  <2>3. \/ in = {} /\ (r[2] = row.dst => n = 0)
        \/ in = {Movement(t, "TRANSFER_IN", r, n)} /\ r[2] = row.dst /\ n # 0
    BY <1>5
  <2> HIDE DEF out, in
  <2>4. CASE out = {} /\ in = {}
    <3>1. give = 0 /\ take = 0
      BY <1>2, <2>2, <2>3, <2>4
    <3> QED
      BY <2>1, <2>4, <3>1 DEF take, give, due
  <2>5. CASE out # {}
    <3>1. /\ due = {Movement(t, "TRANSFER_OUT", r, n)} /\ n # 0
          /\ take = n /\ give = 0
      BY <1>2, <2>1, <2>2, <2>3, <2>5
    <3>2. give - take = -n
      BY <1>4, <3>1
    <3> QED
      BY <1>6, <3>1, <3>2 DEF MovementTypes, take, give, due
  <2>6. CASE in # {} /\ out = {}
    <3>1. /\ due = {Movement(t, "TRANSFER_IN", r, n)} /\ n # 0
          /\ take = 0 /\ give = n
      BY <1>2, <2>1, <2>2, <2>3, <2>6
    <3>2. give - take = n
      BY <1>4, <3>1
    <3> QED
      BY <1>6, <3>1, <3>2 DEF MovementTypes, take, give, due
  <2> QED
    BY <2>4, <2>5, <2>6
<1> QED
  BY <1>3, <1>8, <1>9, <1>10 DEF TransactionTypes

\* One movement of a row among those made.
LEMMA OneMade ==
  ASSUME NEW a, Tallied(a), NEW made, Tallied(made), NEW r \in Rows, NEW m,
         IsMovement(m), m.row = r, RowMoves(made, r) = {m}, made[m] = 1
  PROVE  LedgerOf(a (+) made, r) = LedgerOf(a, r) + Delta(m)
<1> DEFINE one == a (+) SetToBag({m})
<1>1. Gains(a, one, m)
  BY GainsOne
<1>2. Counted(one, r) /\ LedgerOf(one, r) = LedgerOf(a, r) + Delta(m)
  BY <1>1, LedgerGains, TalliedCounted
<1>3. SameMoves(one, a (+) made, r)
  <2>1. \A x \in BagToSet(a) : a[x] \in Nat
    BY DEF Tallied
  <2>2. \A x \in BagToSet(made) : made[x] \in Nat
    BY DEF Tallied
  <2> QED
    BY <2>1, <2>2 DEF SameMoves, RowMoves, BagToSet, SetToBag, (+)
<1> HIDE DEF one
<1> QED
  BY <1>2, <1>3, LedgerSame

----------------------------------------------------------------------------
(* A commit, table by table.                                                   *)

Coherent ==
  IInv /\ Typed /\ Mirroring /\ Booked /\ Looked /\ Reconciled /\ Secured /\ Intended

\* The row that is published, and the one that was there.
LEMMA CommitRow ==
  ASSUME Coherent, NEW s \in Sessions, Commit(s), Works(s)
  PROVE  LET me == session[s].txn
         IN /\ me \in Txns /\ Proper(Written(s))
            /\ me \in DOMAIN transactions' /\ transactions'[me] = Written(s)
            /\ \A u : u # me =>
                 /\ u \in DOMAIN transactions' <=> u \in DOMAIN transactions
                 /\ u \in DOMAIN transactions => transactions'[u] = transactions[u]
            /\ me \in DOMAIN transactions => /\ Proper(transactions[me])
                                             /\ transactions[me].status = "PENDING"
            /\ me \notin DOMAIN transactions <=> session[s].op = "create"
<1> DEFINE me == session[s].txn
           rows == session[s].writes.transactions
<1> USE DEF Coherent
<1>1. transactions' = Over(rows, transactions) /\ DOMAIN rows = {me}
  BY CommitTables
<1>2. /\ DOMAIN transactions' = {me} \cup DOMAIN transactions
      /\ transactions'[me] = rows[me]
      /\ \A u \in DOMAIN transactions : u # me => transactions'[u] = transactions[u]
  <2> HIDE DEF rows, me
  <2>1. transactions' = Over(rows, transactions) /\ DOMAIN rows = {me}
    BY <1>1
  <2> QED
    BY <2>1 DEF Over
<1>3. me \in Txns /\ TransactionRow(Written(s))
  BY <1>1 DEF Typed, SessionTyped, TablesTyped, TransactionTable, Written
<1>4. DistinctProducts(Written(s)) /\ Allowed(Written(s))
  BY DEF Mirroring, Underway, OnItsWay, Intended, Intends, Outcome
<1>5. me \in DOMAIN transactions => Proper(transactions[me])
  BY DEF Typed, TablesTyped, TransactionTable, Mirroring, Mirrored, OnItsWay, Intended, Proper
<1>6. OwnsTransaction(s) /\ session[s].claimed
      /\ session[s].op \in {"create", "complete", "cancel", "update"}
  BY DEF IInv, ClaimsHold, Works
<1>7. CASE session[s].op = "create"
  <2>1. me \notin DOMAIN transactions
    BY <1>6, <1>7 DEF OwnsTransaction
  <2> QED
    BY <1>2, <1>3, <1>4, <1>7, <2>1 DEF Written, Proper
<1>8. CASE session[s].op # "create"
  <2>1. me \in DOMAIN transactions /\ transactions[me].status = "PENDING"
    BY <1>6, <1>8 DEF OwnsTransaction
  <2> QED
    BY <1>2, <1>3, <1>4, <1>5, <1>8, <2>1 DEF Written, Proper
<1> QED
  BY <1>7, <1>8

\* What a transaction has reserved of a row.
TakenBy(t, r) == IF t \in DOMAIN transactions THEN Outstanding(transactions[t], r) ELSE 0

LEMMA CommitReserves ==
  ASSUME Coherent, NEW s \in Sessions, Commit(s), Works(s), NEW r \in Rows
  PROVE  LET m == TakenBy(session[s].txn, r)
             n == Outstanding(Written(s), r)
         IN /\ m \in Nat /\ n \in Nat
            /\ reservations' = SeenReservations(s)
            /\ Reserved(SeenReservations(s), r) = Reserved(reservations, r) - m + n
            /\ n > m => Reserved(SeenReservations(s), r) <= OnHand(r)
<1> DEFINE me == session[s].txn
           w == session[s].writes.reservations
           a == reservations
           b == SeenReservations(s)
           m == TakenBy(me, r)
           n == Outstanding(Written(s), r)
<1> USE DEF Coherent
<1>1. Small(a) /\ Small(b)
  BY FewSmall DEF Secured
<1>2. reservations' = b
  BY DEF Commit
<1>3. b = Over(w, a) /\ \A id \in DOMAIN w : id[1] = me
  BY CommitTables DEF SeenReservations
<1>4. \A u : u # me => Agree(a, b, u)
  <2> HIDE DEF w, me, a, b
  <2> QED
    BY <1>3 DEF Agree, Over
<1>5. Owns(b, me, r, n) /\ n \in Nat
  <2>1. session[s].todo = {}
    BY DEF Commit
  <2>2. Kept(s) = ActiveOf(b, me)
    BY <2>1 DEF Kept, Ending
  <2>3. OnItsWay(b, ActiveOf(b, me), {}, Written(s))
    BY <2>1, <2>2 DEF Mirroring, Underway
  <2>4. Proper(Written(s))
    BY CommitRow
  <2> HIDE DEF b, me
  <2> QED
    BY <2>3, <2>4, MirroredOwns
<1>6. Owns(a, me, r, m) /\ m \in Nat
  <2>1. CASE me \in DOMAIN transactions
    <3>1. OnItsWay(a, ActiveOf(a, me), {}, transactions[me])
      BY <2>1 DEF Mirroring, Mirrored
    <3>2. Proper(transactions[me])
      BY <2>1, CommitRow
    <3> HIDE DEF a, me
    <3> QED
      BY <2>1, <3>1, <3>2, MirroredOwns DEF TakenBy
  <2>2. CASE me \notin DOMAIN transactions
    <3>1. OwnOn(a, me, r) = {}
      BY <2>2 DEF Mirroring, OwnOn, ActiveOn
    <3> QED
      BY <2>2, <3>1 DEF TakenBy, Owns
  <2> QED
    BY <2>1, <2>2
<1>7. SecuredOn(s, r)
  BY DEF Secured
<1>8. Within(b, a, r) \/ Reserved(b, r) <= OnHand(r)
  BY <1>7 DEF SecuredOn
<1> HIDE DEF a, b, m, n, me
<1>9. Reserved(b, r) = Reserved(a, r) - m + n
  BY <1>1, <1>4, <1>5, <1>6, ReservedMoves
<1>10. Reserved(a, r) \in Nat /\ Reserved(b, r) \in Nat
  BY <1>1, ReservedNat
<1>11. Within(b, a, r) => Reserved(b, r) <= Reserved(a, r)
  BY <1>1, ReservedWithin
<1>12. n > m => Reserved(b, r) <= OnHand(r)
  BY <1>5, <1>6, <1>8, <1>9, <1>10, <1>11
<1> QED
  BY <1>2, <1>5, <1>6, <1>9, <1>12 DEF a, b, m, n, me

\* What a commit adds to the stock of a row.
LEMMA OnHandIsLedger ==
  ASSUME Coherent, NEW s \in Sessions, Commit(s), NEW r \in Rows
  PROVE  LET made == session[s].writes.movements
         IN /\ OnHand(r) = LedgerOf(movements, r) /\ OnHand(r) \in Nat
            /\ OnHand(r)' = LedgerOf(movements (+) made, r)
            /\ Tallied(movements) /\ Tallied(made)
            /\ RowMoves(made, r) = {} => OnHand(r)' = OnHand(r)
<1> DEFINE made == session[s].writes.movements
<1> USE DEF Coherent
<1>1. Reconciled'
  BY CommitReconciled
<1>2. movements' = movements (+) made
  BY DEF Commit
<1>3. OnHand(r)' = LedgerOf(movements', r)
  BY <1>1 DEF Reconciled
<1>4. /\ OnHand(r) = LedgerOf(movements, r) /\ Tallied(movements)
      /\ Tallied(made)
  BY DEF Reconciled, Explained
<1>5. OnHand(r) \in Nat
  BY DEF Typed, TablesTyped, InventoryTable, OnHand
<1> HIDE DEF made
<1>6. RowMoves(made, r) = {} => LedgerOf(movements (+) made, r) = LedgerOf(movements, r)
  BY <1>4, NoneAdded, LedgerSame, TalliedCounted
<1> QED
  BY <1>2, <1>3, <1>4, <1>5, <1>6 DEF made

LEMMA CommitStock ==
  ASSUME Coherent, NEW s \in Sessions, Commit(s), Works(s), NEW r \in Rows
  PROVE  OnHand(r)' = OnHand(r) + IF Written(s).status = "COMPLETED"
                                    THEN Plan(Written(s)).give[r] - Plan(Written(s)).take[r]
                                    ELSE 0
<1> DEFINE made == session[s].writes.movements
           me == session[s].txn
           net == Plan(Written(s)).give[r] - Plan(Written(s)).take[r]
           due == {m \in MovesDue(me, Written(s)) : m.row = r}
<1> USE DEF Coherent
<1>1. /\ \A m \in BagToSet(made) : made[m] = 1
      /\ BagToSet(made) = IF Written(s).status = "COMPLETED"
                            THEN MovesDue(me, Written(s)) ELSE {}
  BY CommitMoves
<1>2. /\ OnHand(r) = LedgerOf(movements, r) /\ OnHand(r) \in Nat
      /\ OnHand(r)' = LedgerOf(movements (+) made, r)
      /\ Tallied(movements) /\ Tallied(made)
      /\ RowMoves(made, r) = {} => OnHand(r)' = OnHand(r)
  BY OnHandIsLedger
<1>3. CASE Written(s).status = "COMPLETED"
  <2>1. RowMoves(made, r) = due
    BY <1>1, <1>3 DEF RowMoves
  <2>2. \/ due = {} /\ net = 0
        \/ \E m : due = {m} /\ IsMovement(m) /\ m.row = r /\ Delta(m) = net
    <3>1. Proper(Written(s)) /\ me \in Txns
      BY CommitRow
    <3> QED
      BY <3>1, DueAt
  <2>3. \A m \in due : made[m] = 1
    BY <1>1, <2>1 DEF RowMoves
  <2> HIDE DEF due, net, made
  <2>4. CASE due = {} /\ net = 0
    BY <1>2, <1>3, <2>1, <2>4 DEF net
  <2>5. CASE \E m : due = {m} /\ IsMovement(m) /\ m.row = r /\ Delta(m) = net
    <3>1. PICK m : due = {m} /\ IsMovement(m) /\ m.row = r /\ Delta(m) = net
      BY <2>5
    <3>2. LedgerOf(movements (+) made, r) = LedgerOf(movements, r) + Delta(m)
      BY <1>2, <2>1, <2>3, <3>1, OneMade
    <3> QED
      BY <1>2, <1>3, <3>1, <3>2 DEF net
  <2> QED
    BY <2>2, <2>4, <2>5
<1>4. CASE Written(s).status # "COMPLETED"
  <2>1. RowMoves(made, r) = {}
    BY <1>1, <1>4 DEF RowMoves
  <2> QED
    BY <1>2, <1>4, <2>1
<1> QED
  BY <1>3, <1>4

\* A commit that works on no transaction: an adjustment, or nothing.
LEMMA OtherCommit ==
  ASSUME Coherent, NEW s \in Sessions, Commit(s), ~Works(s)
  PROVE  /\ \A u : /\ u \in DOMAIN transactions' <=> u \in DOMAIN transactions
                   /\ u \in DOMAIN transactions => transactions'[u] = transactions[u]
         /\ reservations' = SeenReservations(s)
         /\ \A r \in Rows : Reserved(SeenReservations(s), r) = Reserved(reservations, r)
         /\ \/ \A r \in Rows : OnHand(r)' = OnHand(r)
            \/ \E row \in Rows, delta \in Adjustments :
                 /\ OnHand(row)' = OnHand(row) + delta
                 /\ \A r \in Rows \ {row} : OnHand(r)' = OnHand(r)
<1> DEFINE made == session[s].writes.movements
           rows == session[s].writes.transactions
           w == session[s].writes.reservations
           a == reservations
           b == SeenReservations(s)
<1> USE DEF Coherent
<1>1. /\ transactions' = Over(rows, transactions) /\ reservations' = b
      /\ b = Over(w, a) /\ DOMAIN rows = {} /\ DOMAIN w = {}
  BY CommitTables DEF Commit, SeenReservations
<1>2. \A u : /\ u \in DOMAIN transactions' <=> u \in DOMAIN transactions
             /\ u \in DOMAIN transactions => transactions'[u] = transactions[u]
  <2> HIDE DEF rows
  <2>1. transactions' = Over(rows, transactions) /\ DOMAIN rows = {}
    BY <1>1
  <2> QED
    BY <2>1 DEF Over
<1>3. Small(a) /\ Small(b)
  BY FewSmall DEF Secured
<1>4. ASSUME NEW r \in Rows PROVE Reserved(b, r) = Reserved(a, r)
  <2> HIDE DEF a, b, w
  <2>1. Within(a, b, r) /\ Within(b, a, r)
    BY <1>1 DEF Within, ActiveOn, Over
  <2> QED
    BY <1>3, <2>1, ReservedSame
<1>5. session[s].claimed /\ session[s].todo = {} /\ session[s].op \in Ops
  BY DEF Commit, IInv, Shape
<1>6. CASE session[s].op = "adjust"
  <2>1. PICK row \in Rows, delta \in Adjustments : made = Adjusted(row, delta)
    BY <1>5, <1>6 DEF Intended, Intends, Adjusts
  <2> DEFINE m == Adjustment(row, delta)
  <2>2. BagToSet(made) = {m} /\ made[m] = 1
    <3> HIDE DEF m
    <3>1. made = EmptyBag (+) SetToBag({m})
      BY <2>1 DEF Adjusted, m
    <3> HIDE DEF made
    <3> QED
      BY <3>1 DEF BagToSet, SetToBag, EmptyBag, (+)
  <2>3. IsMovement(m) /\ m.row = row /\ Delta(m) = delta
    BY BoundsAssumption DEF Adjustment, Movement, IsMovement, Delta, MovementDelta, MovementTypes
  <2> HIDE DEF m
  <2>4. RowMoves(made, row) = {m} /\ \A r \in Rows \ {row} : RowMoves(made, r) = {}
    BY <2>2, <2>3 DEF RowMoves
  <2>5. /\ OnHand(row) = LedgerOf(movements, row)
        /\ OnHand(row)' = LedgerOf(movements (+) made, row)
        /\ Tallied(movements) /\ Tallied(made)
    BY OnHandIsLedger
  <2>6. \A r \in Rows \ {row} : OnHand(r)' = OnHand(r)
    BY <2>4, OnHandIsLedger
  <2> HIDE DEF made
  <2>7. LedgerOf(movements (+) made, row) = LedgerOf(movements, row) + Delta(m)
    BY <2>2, <2>3, <2>4, <2>5, OneMade
  <2>8. OnHand(row)' = OnHand(row) + delta
    BY <2>3, <2>5, <2>7
  <2> QED
    BY <1>1, <1>2, <1>4, <2>6, <2>8
<1>7. CASE session[s].op # "adjust"
  <2>1. session[s].op = "idle"
    BY <1>5, <1>7 DEF Works, Ops
  <2>2. BagToSet(made) = {}
    BY <2>1, NothingWritten DEF Typed, NotStarted
  <2>3. \A r \in Rows : RowMoves(made, r) = {}
    BY <2>2 DEF RowMoves
  <2>4. \A r \in Rows : OnHand(r)' = OnHand(r)
    BY <2>3, OnHandIsLedger
  <2> QED
    BY <1>1, <1>2, <1>4, <2>4
<1> QED
  BY <1>6, <1>7

----------------------------------------------------------------------------
(* A commit is a step of StockLedger.                                          *)

\* What the commit of a request that works on a transaction looks like there.
LEMMA WorkShows ==
  ASSUME Coherent, NEW s \in Sessions, Commit(s), Works(s), Typed'
  PROVE  LET t == session[s].txn
             p == Plan(Written(s))
         IN /\ t \in Txns /\ p \in AbstractPlans
            /\ AbstractStatus' = [AbstractStatus EXCEPT ![t] = Written(s).status]
            /\ AbstractPlan' = [AbstractPlan EXCEPT ![t] = p]
            /\ AbstractReserved' =
                 [r \in Rows |-> AbstractReserved[r] - TakenBy(t, r) + Outstanding(Written(s), r)]
            /\ \A r \in Rows : /\ TakenBy(t, r) \in Nat /\ Outstanding(Written(s), r) \in Nat
                               /\ AbstractReserved[r] \in Int
                               /\ Outstanding(Written(s), r) > TakenBy(t, r)
                                    => AbstractReserved'[r] <= AbstractOnHand[r]
            /\ AbstractOnHand' =
                 [r \in Rows |-> AbstractOnHand[r] +
                    IF Written(s).status = "COMPLETED" THEN p.give[r] - p.take[r] ELSE 0]
            /\ \A r \in Rows : /\ AbstractOnHand[r] \in Nat /\ AbstractOnHand'[r] \in Nat
                               /\ p.give[r] \in Nat /\ p.take[r] \in Nat
<1> DEFINE t == session[s].txn
           p == Plan(Written(s))
<1>1. /\ t \in Txns /\ Proper(Written(s))
      /\ t \in DOMAIN transactions' /\ transactions'[t] = Written(s)
      /\ \A u : u # t =>
           /\ u \in DOMAIN transactions' <=> u \in DOMAIN transactions
           /\ u \in DOMAIN transactions => transactions'[u] = transactions[u]
  BY CommitRow
<1>2. p \in AbstractPlans /\ \A r \in Rows : p.give[r] \in Nat /\ p.take[r] \in Nat
  BY <1>1, PlanAllowed
<1> DEFINE row == Written(s)
<1>3. AbstractStatus' = [AbstractStatus EXCEPT ![t] = row.status]
  <2> HIDE DEF t, row
  <2> QED
    BY <1>1 DEF AbstractStatus, row
<1>4. AbstractPlan' = [AbstractPlan EXCEPT ![t] = p]
  <2>1. p = PlanOf(row.src, row.dst, Needs(row.items))
    BY DEF Plan
  <2> HIDE DEF t, row, p
  <2> QED
    BY <1>1, <2>1 DEF AbstractPlan, row
<1>5. ASSUME NEW r \in Rows
      PROVE  /\ TakenBy(t, r) \in Nat /\ Outstanding(row, r) \in Nat
             /\ reservations' = SeenReservations(s)
             /\ Reserved(SeenReservations(s), r)
                  = Reserved(reservations, r) - TakenBy(t, r) + Outstanding(row, r)
             /\ Outstanding(row, r) > TakenBy(t, r)
                  => Reserved(SeenReservations(s), r) <= OnHand(r)
  BY CommitReserves
<1>6. ASSUME NEW r \in Rows PROVE AbstractReserved'[r] = Reserved(SeenReservations(s), r)
  <2>1. AbstractReserved'[r] = Reserved(reservations', r)
    BY DEF AbstractReserved
  <2> QED
    BY <1>5, <2>1
<1>7. ASSUME NEW r \in Rows PROVE AbstractReserved[r] = Reserved(reservations, r)
                                  /\ AbstractReserved[r] \in Int
  <2>1. Small(reservations)
    BY FewSmall DEF Coherent, Secured
  <2> QED
    BY <2>1, ReservedNat DEF AbstractReserved
<1>8. AbstractReserved' =
        [r \in Rows |-> AbstractReserved[r] - TakenBy(t, r) + Outstanding(row, r)]
  <2> DEFINE new == [r \in Rows |-> AbstractReserved[r] - TakenBy(t, r) + Outstanding(row, r)]
  <2>1. AbstractReserved' = [r \in Rows |-> AbstractReserved'[r]]
    BY DEF AbstractReserved
  <2>2. \A r \in Rows : AbstractReserved'[r] = new[r]
    BY <1>5, <1>6, <1>7
  <2> QED
    BY <2>1, <2>2
<1>9. ASSUME NEW r \in Rows
      PROVE  /\ OnHand(r)' = OnHand(r) +
                  IF row.status = "COMPLETED" THEN p.give[r] - p.take[r] ELSE 0
             /\ AbstractOnHand[r] = OnHand(r) /\ AbstractOnHand'[r] = OnHand(r)'
             /\ OnHand(r) \in Nat /\ OnHand(r)' \in Nat
  <2>1. OnHand(r) \in Nat /\ OnHand(r)' \in Nat
    BY DEF Coherent, Typed, TablesTyped, InventoryTable, OnHand
  <2>2. AbstractOnHand[r] = OnHand(r) /\ AbstractOnHand'[r] = OnHand(r)'
    BY DEF AbstractOnHand
  <2> QED
    BY <2>1, <2>2, CommitStock
<1>10. AbstractOnHand' =
         [r \in Rows |-> AbstractOnHand[r] +
            IF row.status = "COMPLETED" THEN p.give[r] - p.take[r] ELSE 0]
  <2> DEFINE new == [r \in Rows |-> AbstractOnHand[r] +
                       IF row.status = "COMPLETED" THEN p.give[r] - p.take[r] ELSE 0]
  <2>1. AbstractOnHand' = [r \in Rows |-> AbstractOnHand'[r]]
    BY DEF AbstractOnHand
  <2>2. \A r \in Rows : AbstractOnHand'[r] = new[r]
    BY <1>9
  <2> QED
    BY <2>1, <2>2
<1>11. \A r \in Rows :
         /\ TakenBy(t, r) \in Nat /\ Outstanding(row, r) \in Nat /\ AbstractReserved[r] \in Int
         /\ Outstanding(row, r) > TakenBy(t, r) => AbstractReserved'[r] <= AbstractOnHand[r]
         /\ AbstractOnHand[r] \in Nat /\ AbstractOnHand'[r] \in Nat
  BY <1>5, <1>6, <1>7, <1>9
<1> HIDE DEF t, p, row
<1> QED
  BY <1>1, <1>2, <1>3, <1>4, <1>8, <1>10, <1>11 DEF t, p, row

\* The status and the plan of a transaction, there and here.
LEMMA StoodBefore ==
  ASSUME Coherent, NEW s \in Sessions, Commit(s), Works(s)
  PROVE  LET t == session[s].txn
         IN /\ session[s].op = "create" =>
                 AbstractStatus[t] = "ABSENT" /\ \A r \in Rows : TakenBy(t, r) = 0
            /\ session[s].op # "create" =>
                 /\ AbstractStatus[t] = "PENDING"
                 /\ AbstractPlan[t] = Plan(transactions[t])
                 /\ \A r \in Rows : TakenBy(t, r) = AbstractPlan[t].take[r]
<1> DEFINE t == session[s].txn
<1>1. /\ t \in Txns
      /\ t \in DOMAIN transactions => transactions[t].status = "PENDING"
      /\ t \notin DOMAIN transactions <=> session[s].op = "create"
  BY CommitRow
<1> HIDE DEF t
<1>2. CASE session[s].op = "create"
  BY <1>1, <1>2 DEF AbstractStatus, TakenBy, t
<1>3. CASE session[s].op # "create"
  <2>1. /\ AbstractStatus[t] = "PENDING" /\ AbstractPlan[t] = Plan(transactions[t])
    BY <1>1, <1>3 DEF AbstractStatus, AbstractPlan, Plan
  <2>2. \A r \in Rows : TakenBy(t, r) = AbstractPlan[t].take[r]
    BY <1>1, <1>3, <2>1 DEF TakenBy, Outstanding
  <2> QED
    BY <1>3, <2>1, <2>2 DEF t
<1> QED
  BY <1>2, <1>3

LEMMA WorkImplements ==
  ASSUME Coherent, NEW s \in Sessions, Commit(s), Works(s), Typed'
  PROVE  Ledger!Next
<1> DEFINE t == session[s].txn
           row == Written(s)
           p == Plan(row)
<1>1. /\ t \in Txns /\ p \in AbstractPlans
      /\ AbstractStatus' = [AbstractStatus EXCEPT ![t] = row.status]
      /\ AbstractPlan' = [AbstractPlan EXCEPT ![t] = p]
      /\ AbstractReserved' =
           [r \in Rows |-> AbstractReserved[r] - TakenBy(t, r) + Outstanding(row, r)]
      /\ \A r \in Rows : /\ TakenBy(t, r) \in Nat /\ Outstanding(row, r) \in Nat
                         /\ AbstractReserved[r] \in Int
                         /\ Outstanding(row, r) > TakenBy(t, r)
                              => AbstractReserved'[r] <= AbstractOnHand[r]
      /\ AbstractOnHand' =
           [r \in Rows |-> AbstractOnHand[r] +
              IF row.status = "COMPLETED" THEN p.give[r] - p.take[r] ELSE 0]
      /\ \A r \in Rows : /\ AbstractOnHand[r] \in Nat /\ AbstractOnHand'[r] \in Nat
                         /\ p.give[r] \in Nat /\ p.take[r] \in Nat
  BY WorkShows
<1>2. /\ session[s].op = "create" =>
           AbstractStatus[t] = "ABSENT" /\ \A r \in Rows : TakenBy(t, r) = 0
      /\ session[s].op # "create" =>
           /\ AbstractStatus[t] = "PENDING"
           /\ AbstractPlan[t] = Plan(transactions[t])
           /\ \A r \in Rows : TakenBy(t, r) = AbstractPlan[t].take[r]
  BY StoodBefore
<1>3. /\ session[s].op \in {"create", "update"} => row.status = "PENDING"
      /\ session[s].op = "complete" => row = [transactions[t] EXCEPT !.status = "COMPLETED"]
      /\ session[s].op = "cancel" => row = [transactions[t] EXCEPT !.status = "CANCELLED"]
  BY DEF Coherent, Intended, Intends, Outcome
<1>4. session[s].op \in {"create", "complete", "cancel", "update"}
  BY DEF Works
<1>5. session[s].op # "create" => TransactionRow(transactions[t])
  BY CommitRow DEF Proper
<1>6. session[s].op \in {"complete", "cancel"} => p = Plan(transactions[t])
  BY <1>3, <1>5 DEF Plan, TransactionRow
<1>7. session[s].op = "complete" => row.status = "COMPLETED"
  BY <1>3, <1>5 DEF TransactionRow
<1>8. session[s].op = "cancel" => row.status = "CANCELLED"
  BY <1>3, <1>5 DEF TransactionRow
<1>9. \A r \in Rows : Outstanding(row, r) = IF row.status = "PENDING" THEN p.take[r] ELSE 0
  BY DEF Outstanding
<1>10. /\ AbstractPlan = [u \in Txns |-> AbstractPlan[u]]
       /\ AbstractOnHand = [r \in Rows |-> AbstractOnHand[r]]
       /\ AbstractStatus = [u \in Txns |-> AbstractStatus[u]]
  BY DEF AbstractPlan, AbstractOnHand, AbstractStatus
<1> HIDE DEF t, row, p
<1>11. row.status # "COMPLETED" => AbstractOnHand' = AbstractOnHand
  BY <1>1, <1>10
<1>12. \A r \in Rows : Ledger!NoPlan.take[r] = 0
  BY DEF Ledger!NoPlan, Ledger!Nothing
<1>13. CASE session[s].op = "create"
  <2>1. Ledger!Reserves(Ledger!NoPlan, p)
    BY <1>1, <1>2, <1>3, <1>9, <1>12, <1>13 DEF Ledger!Reserves
  <2>2. Ledger!Place(t, p)
    BY <1>1, <1>2, <1>3, <1>11, <1>13, <2>1 DEF Ledger!Place
  <2> QED
    BY <1>1, <2>2 DEF Ledger!Next
<1>14. CASE session[s].op = "update"
  <2>1. Ledger!Reserves(AbstractPlan[t], p)
    BY <1>1, <1>2, <1>3, <1>9, <1>14 DEF Ledger!Reserves
  <2>2. AbstractStatus' = AbstractStatus
    BY <1>1, <1>2, <1>3, <1>10, <1>14
  <2>3. Ledger!Revise(t, p)
    BY <1>1, <1>2, <1>3, <1>11, <1>14, <2>1, <2>2 DEF Ledger!Revise
  <2> QED
    BY <1>1, <2>3 DEF Ledger!Next
<1>15. CASE session[s].op \in {"complete", "cancel"}
  <2>1. AbstractPlan' = AbstractPlan /\ AbstractPlan[t] = p
    BY <1>1, <1>2, <1>6, <1>10, <1>15 DEF t
  <2>2. row.status = IF session[s].op = "complete" THEN "COMPLETED" ELSE "CANCELLED"
    BY <1>7, <1>8, <1>15
  <2>3. AbstractReserved' = [r \in Rows |-> AbstractReserved[r] - AbstractPlan[t].take[r]]
    BY <1>1, <1>2, <1>9, <1>15, <2>1, <2>2
  <2>4. CASE session[s].op = "complete"
    <3>1. AbstractOnHand' =
            [r \in Rows |-> AbstractOnHand[r] - AbstractPlan[t].take[r] + AbstractPlan[t].give[r]]
      BY <1>1, <2>1, <2>2, <2>4
    <3>2. \A r \in Rows : AbstractOnHand'[r] >= 0
      BY <1>1
    <3>3. Ledger!Complete(t)
      BY <1>1, <1>2, <1>15, <2>1, <2>2, <2>3, <2>4, <3>1, <3>2 DEF Ledger!Complete
    <3> QED
      BY <1>1, <3>3 DEF Ledger!Next
  <2>5. CASE session[s].op = "cancel"
    <3>1. Ledger!Cancel(t)
      BY <1>1, <1>2, <1>11, <1>15, <2>1, <2>2, <2>3, <2>5 DEF Ledger!Cancel
    <3> QED
      BY <1>1, <3>1 DEF Ledger!Next
  <2> QED
    BY <1>15, <2>4, <2>5
<1> QED
  BY <1>4, <1>13, <1>14, <1>15

LEMMA OtherImplements ==
  ASSUME Coherent, NEW s \in Sessions, Commit(s), ~Works(s), Typed'
  PROVE  Ledger!Next \/ UNCHANGED Ledger!vars
<1>1. /\ \A u : /\ u \in DOMAIN transactions' <=> u \in DOMAIN transactions
                /\ u \in DOMAIN transactions => transactions'[u] = transactions[u]
      /\ reservations' = SeenReservations(s)
      /\ \A r \in Rows : Reserved(SeenReservations(s), r) = Reserved(reservations, r)
      /\ \/ \A r \in Rows : OnHand(r)' = OnHand(r)
         \/ \E row \in Rows, delta \in Adjustments :
              /\ OnHand(row)' = OnHand(row) + delta
              /\ \A r \in Rows \ {row} : OnHand(r)' = OnHand(r)
  BY OtherCommit
<1>2. AbstractStatus' = AbstractStatus /\ AbstractPlan' = AbstractPlan
  BY <1>1 DEF AbstractStatus, AbstractPlan
<1>3. AbstractReserved' = AbstractReserved
  <2>1. \A r \in Rows : AbstractReserved'[r] = Reserved(reservations', r)
    BY DEF AbstractReserved
  <2>2. \A r \in Rows : AbstractReserved'[r] = AbstractReserved[r]
    BY <1>1, <2>1 DEF AbstractReserved
  <2>3. /\ AbstractReserved' = [r \in Rows |-> AbstractReserved'[r]]
        /\ AbstractReserved = [r \in Rows |-> AbstractReserved[r]]
    BY DEF AbstractReserved
  <2> QED
    BY <2>2, <2>3
<1>4. \A r \in Rows : /\ AbstractOnHand[r] = OnHand(r) /\ AbstractOnHand'[r] = OnHand(r)'
                      /\ OnHand(r)' \in Nat
  BY DEF AbstractOnHand, Typed, TablesTyped, InventoryTable, OnHand
<1>5. /\ AbstractOnHand = [r \in Rows |-> AbstractOnHand[r]]
      /\ AbstractOnHand' = [r \in Rows |-> AbstractOnHand'[r]]
  BY DEF AbstractOnHand
<1>6. CASE \A r \in Rows : OnHand(r)' = OnHand(r)
  <2>1. AbstractOnHand' = AbstractOnHand
    BY <1>4, <1>5, <1>6
  <2> QED
    BY <1>2, <1>3, <2>1 DEF Ledger!vars
<1>7. CASE \E row \in Rows, delta \in Adjustments :
             /\ OnHand(row)' = OnHand(row) + delta
             /\ \A r \in Rows \ {row} : OnHand(r)' = OnHand(r)
  <2>1. PICK row \in Rows, delta \in Adjustments :
             /\ OnHand(row)' = OnHand(row) + delta
             /\ \A r \in Rows \ {row} : OnHand(r)' = OnHand(r)
    BY <1>7
  <2>2. AbstractOnHand' = [AbstractOnHand EXCEPT ![row] = @ + delta]
    BY <1>4, <1>5, <2>1
  <2>3. AbstractOnHand[row] + delta >= 0
    BY <1>4, <2>1
  <2>4. Ledger!Adjust(row, delta)
    BY <1>2, <1>3, <2>2, <2>3 DEF Ledger!Adjust
  <2> QED
    BY <2>4 DEF Ledger!Next
<1> QED
  BY <1>1, <1>6, <1>7

\* Where the tables stay, the state of StockLedger stays.
LEMMA TablesStay ==
  ASSUME UNCHANGED tables
  PROVE  UNCHANGED Ledger!vars
<1>1. transactions' = transactions /\ inventory' = inventory /\ reservations' = reservations
  BY DEF tables
<1>2. AbstractReserved' = AbstractReserved
  <2>1. \A r \in Rows : AbstractReserved'[r] = Reserved(reservations', r)
    BY DEF AbstractReserved
  <2>2. \A r \in Rows : AbstractReserved'[r] = AbstractReserved[r]
    BY <1>1, <2>1 DEF AbstractReserved
  <2>3. /\ AbstractReserved' = [r \in Rows |-> AbstractReserved'[r]]
        /\ AbstractReserved = [r \in Rows |-> AbstractReserved[r]]
    BY DEF AbstractReserved
  <2> QED
    BY <2>2, <2>3
<1>3. AbstractOnHand' = AbstractOnHand
  BY <1>1 DEF AbstractOnHand, OnHand
<1>4. AbstractStatus' = AbstractStatus /\ AbstractPlan' = AbstractPlan
  BY <1>1 DEF AbstractStatus, AbstractPlan
<1> QED
  BY <1>2, <1>3, <1>4 DEF Ledger!vars

\* Only a commit writes the tables.
LEMMA OnlyCommitWrites ==
  ASSUME IInv, Typed, NEW s \in Sessions, Arrive(s) \/ Step(s) \/ Abort(s), ~Commit(s)
  PROVE  UNCHANGED tables
<1>1. CASE Arrive(s)
  BY <1>1, ArrivesUnwritten
<1>2. CASE Complete(s) \/ Cancel(s) \/ Update(s)
  BY <1>2, Zenon DEF Complete, Cancel, Update, Claim
<1>3. CASE \E call \in session[s].todo :
             \/ LockInventoryRow(s, call) \/ FindNoInventoryRow(s, call)
             \/ Reserve(s, call) \/ Release(s, call)
             \/ RecordMovement(s, call) \/ Fulfil(s, call)
  BY <1>3, ContinueSteps DEF IInv, Continues
<1>4. CASE Refuse(s) \/ Abort(s)
  BY <1>4 DEF Refuse, Abort, Rollback
<1> QED
  BY <1>1, <1>2, <1>3, <1>4 DEF Step

LEMMA StepImplements ==
  Coherent /\ [Next]_vars /\ Typed' => [Ledger!Next]_(Ledger!vars)
<1> SUFFICES ASSUME Coherent, [Next]_vars, Typed' PROVE [Ledger!Next]_(Ledger!vars)
  OBVIOUS
<1>1. CASE UNCHANGED vars
  BY <1>1, TablesStay DEF vars, tables
<1>2. ASSUME NEW s \in Sessions, Arrive(s) \/ Step(s) \/ Abort(s)
      PROVE  [Ledger!Next]_(Ledger!vars)
  <2>1. CASE Commit(s)
    BY <2>1, WorkImplements, OtherImplements
  <2>2. CASE ~Commit(s)
    BY <1>2, <2>2, OnlyCommitWrites, TablesStay DEF Coherent
  <2> QED
    BY <2>1, <2>2
<1> QED
  BY <1>1, <1>2 DEF Next

LEMMA InitImplements == Init => Ledger!Init
<1> SUFFICES ASSUME Init PROVE Ledger!Init
  OBVIOUS
<1>1. AbstractOnHand = [r \in Rows |-> IF r \in DOMAIN OpeningStock THEN OpeningStock[r] ELSE 0]
  BY DEF Init, AbstractOnHand, OnHand
<1>2. DOMAIN transactions = {} /\ DOMAIN reservations = {}
  BY DEF Init
<1>3. AbstractStatus = [t \in Txns |-> "ABSENT"]
  BY <1>2 DEF AbstractStatus
<1>4. AbstractPlan = [t \in Txns |-> Ledger!NoPlan]
  <2>1. PlanOf(NoWarehouse, NoWarehouse, [p \in Products |-> 0]) = Ledger!NoPlan
    BY DEF PlanOf, Quantities, Ledger!NoPlan, Ledger!Nothing, Rows
  <2> QED
    BY <1>2, <2>1 DEF AbstractPlan
<1>5. AbstractReserved = Ledger!Nothing
  <2>1. Small(reservations)
    BY <1>2, FS_EmptySet DEF Small, ReservationTable
  <2>2. \A r \in Rows : ActiveOn(reservations, r) = {}
    BY <1>2 DEF ActiveOn
  <2>3. \A r \in Rows : Reserved(reservations, r) = 0
    BY <2>1, <2>2, ReservedTotal, SmallSums, TotalEmpty
  <2> QED
    BY <2>3 DEF AbstractReserved, Ledger!Nothing
<1> QED
  BY <1>1, <1>3, <1>4, <1>5 DEF Ledger!Init

LEMMA CoherentInit == Init => Coherent
BY InitOwns, InitTyped, InitMirrored, InitBooked, InitLooked, InitReconciled, InitSecured,
   InitIntended DEF Coherent

LEMMA CoherentStays == Coherent /\ [Next]_vars => Coherent' /\ Typed'
<1> SUFFICES ASSUME Coherent, [Next]_vars PROVE Coherent'
  BY DEF Coherent
<1>1. IInv /\ Typed /\ Mirroring /\ Booked /\ Looked /\ Reconciled /\ Secured /\ Intended
  BY DEF Coherent
<1>2. IInv' /\ Typed' /\ Mirroring' /\ Booked' /\ Looked' /\ Reconciled'
  BY <1>1, IInvInductive, TypedInductive, MirroringInductive, BookedInductive, LookedInductive,
     ReconciledInductive
<1>3. Secured'
  BY <1>1, <1>2, SecuredInductive
<1>4. Intended'
  BY <1>1, IntendedInductive
<1> QED
  BY <1>2, <1>3, <1>4 DEF Coherent

\* Whatever requests interleave, lock, wait, fail and roll back, what they do to the
\* tables is what StockLedger allows: every commit places, revises, completes or
\* cancels one whole transaction or adjusts one row, of the stock that is there at
\* that moment, and nothing else changes them.
THEOREM RequestsAreAtomic == Spec => ImplementsStockLedger
<1>1. Init => Coherent /\ Ledger!Init
  BY CoherentInit, InitImplements
<1>2. Coherent /\ [Next]_vars => Coherent' /\ [Ledger!Next]_(Ledger!vars)
  BY CoherentStays, StepImplements
<1> QED
  BY <1>1, <1>2, PTL DEF Spec, ImplementsStockLedger, Ledger!Spec
=============================================================================
