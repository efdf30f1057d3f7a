------------------------------- MODULE Catalog -------------------------------
(***************************************************************************)
(* Products, warehouses and suppliers, whose services have the same shape, *)
(* next to the orders that refer to them.  Every statement sees what is    *)
(* committed when it runs: an entity may be switched off or removed        *)
(* between the checks of an order and its insertion.                       *)
(***************************************************************************)
EXTENDS Integers, Sequences, FiniteSets, SequencesExt

CONSTANTS
  Entities,   \* products, warehouses and suppliers
  OrderSlots, \* ids of orders
  Reserving,  \* the orders that hold reservations (OUTGOING, TRANSFER)
  Wants,      \* what an order may refer to, in the order it is checked
  Clients     \* requests that may be running at once

ASSUME CatalogAssumption ==
  /\ Reserving \subseteq OrderSlots
  /\ Wants \subseteq Seq(Entities) \ {<<>>}

VARIABLES
  row,      \* state of each entity's row
  placed,   \* status of each order, "none" before it is placed
  items,    \* what the rows of each order refer to
  traces,   \* what its movements and reservations refer to; never deleted
  request   \* what each client is doing

catalogVars == <<row, placed, items, traces, request>>

Idle == [op |-> "idle"]
NoOrder == "none"

Exists(e) == row[e] \in {"active", "inactive"}
Referenced(e) == \E o \in OrderSlots : e \in items[o] \cup traces[o]
Locked(o) == \E c \in Clients : request[c].op = "revise" /\ request[c].order = o

\* Entities that have been switched off since the request began.
SwitchOff(e, requests) ==
  [c \in Clients |->
     IF requests[c].op \in {"order", "revise"}
       THEN [requests[c] EXCEPT !.switched = @ \cup {e}] ELSE requests[c]]

Begin(c, what) == request[c] = Idle /\ request' = [request EXCEPT ![c] = what]
End(c) == [request EXCEPT ![c] = Idle]

CatalogInit ==
  /\ row = [e \in Entities |-> "unborn"]
  /\ placed = [o \in OrderSlots |-> NoOrder]
  /\ items = [o \in OrderSlots |-> {}]
  /\ traces = [o \in OrderSlots |-> {}]
  /\ request = [c \in Clients |-> Idle]

CreateEntity(e) ==
  /\ row[e] = "unborn"
  /\ row' = [row EXCEPT ![e] = "active"]
  /\ UNCHANGED <<placed, items, traces, request>>

\* findOne of update and remove; a missing row answers 404 and changes nothing.
FindOne(c, e, op) ==
  /\ Exists(e)
  /\ Begin(c, [op |-> op, entity |-> e])
  /\ UNCHANGED <<row, placed, items, traces>>

\* The write of update and of a removal that falls back on it; the row may be
\* gone by now, which fails the request.
WriteActive(c, op, value) ==
  /\ request[c].op = op
  /\ LET e == request[c].entity IN
       \/ /\ ~Exists(e)
          /\ request' = End(c)
          /\ UNCHANGED row
       \/ /\ Exists(e)
          /\ row' = [row EXCEPT ![e] = value]
          /\ request' = IF value = "inactive" THEN SwitchOff(e, End(c)) ELSE End(c)
  /\ UNCHANGED <<placed, items, traces>>
UpdateEntity(c) == \E value \in {"active", "inactive"} : WriteActive(c, "update", value)
DeactivateEntity(c) == WriteActive(c, "deactivate", "inactive")

\* The delete of remove: refused by a foreign key it is turned into an update.
DeleteEntity(c) ==
  /\ request[c].op = "remove"
  /\ LET e == request[c].entity IN
       \/ /\ ~Exists(e)
          /\ request' = End(c)
          /\ UNCHANGED row
       \/ /\ Exists(e) /\ Referenced(e)
          /\ request' = [request EXCEPT ![c].op = "deactivate"]
          /\ UNCHANGED row
       \/ /\ Exists(e) /\ ~Referenced(e)
          /\ row' = [row EXCEPT ![e] = "deleted"]
          /\ request' = End(c)
  /\ UNCHANGED <<placed, items, traces>>

StartOrder(c, o, want) ==
  /\ placed[o] = NoOrder
  /\ Begin(c, [op |-> "order", order |-> o, want |-> want, left |-> want,
               drop |-> {}, switched |-> {}])
  /\ UNCHANGED <<row, placed, items, traces>>

\* A revision locks its order and checks only what it brings in.
StartRevision(c, o, old, new) ==
  /\ placed[o] = "PENDING" /\ ~Locked(o)
  /\ old \in items[o] /\ new \notin items[o]
  /\ Begin(c, [op |-> "revise", order |-> o, want |-> <<new>>, left |-> <<new>>,
               drop |-> {old}, switched |-> {}])
  /\ UNCHANGED <<row, placed, items, traces>>

\* One of assertSupplierExists, assertWarehouseExists, assertProductsExist.
\* Mutant: only existence is checked.
CheckExistence(c) ==
  /\ request[c].op \in {"order", "revise"} /\ request[c].left # <<>>
  /\ request' = IF Exists(Head(request[c].left))
                  THEN [request EXCEPT ![c].left = Tail(@)] ELSE End(c)
  /\ UNCHANGED <<row, placed, items, traces>>
CheckEntity(c) ==
  /\ request[c].op \in {"order", "revise"} /\ request[c].left # <<>>
  /\ request' = IF row[Head(request[c].left)] = "active"
                  THEN [request EXCEPT ![c].left = Tail(@)] ELSE End(c)
  /\ UNCHANGED <<row, placed, items, traces>>

\* The inserts or the update, with the reservations.
\* Mutant: the rows are written without their foreign keys.
WriteUnchecked(c) ==
  /\ request[c].op \in {"order", "revise"} /\ request[c].left = <<>>
  /\ LET o == request[c].order
         new == ToSet(request[c].want) IN
       /\ placed' = [placed EXCEPT ![o] = "PENDING"]
       /\ items' = [items EXCEPT ![o] = (@ \ request[c].drop) \cup new]
       /\ traces' = IF o \in Reserving
                      THEN [traces EXCEPT ![o] = @ \cup new] ELSE traces
  /\ request' = End(c)
  /\ UNCHANGED row
WriteOrder(c) ==
  /\ request[c].op \in {"order", "revise"} /\ request[c].left = <<>>
  /\ LET o == request[c].order
         new == ToSet(request[c].want) IN
       \/ /\ (\E e \in new : ~Exists(e)) \/ (request[c].op = "order" /\ placed[o] # NoOrder)
          /\ UNCHANGED <<placed, items, traces>>
       \/ /\ \A e \in new : Exists(e)
          /\ request[c].op = "order" => placed[o] = NoOrder
          /\ placed' = [placed EXCEPT ![o] = "PENDING"]
          /\ items' = [items EXCEPT ![o] = (@ \ request[c].drop) \cup new]
          /\ traces' = IF o \in Reserving
                         THEN [traces EXCEPT ![o] = @ \cup new] ELSE traces
  /\ request' = End(c)
  /\ UNCHANGED row

\* Completing writes movements; nothing of it asks whether an entity is active.
FinishOrder(o, status) ==
  /\ placed[o] = "PENDING" /\ ~Locked(o)
  /\ placed' = [placed EXCEPT ![o] = status]
  /\ traces' = IF status = "COMPLETED"
                 THEN [traces EXCEPT ![o] = @ \cup items[o]] ELSE traces
  /\ UNCHANGED <<row, items, request>>

CatalogNext ==
  \/ \E e \in Entities : CreateEntity(e)
  \/ \E c \in Clients, e \in Entities, op \in {"update", "remove"} : FindOne(c, e, op)
  \/ \E c \in Clients : UpdateEntity(c)
  \/ \E c \in Clients : DeleteEntity(c)
  \/ \E c \in Clients : DeactivateEntity(c)
  \/ \E c \in Clients, o \in OrderSlots, want \in Wants : StartOrder(c, o, want)
  \/ \E c \in Clients, o \in OrderSlots, old, new \in Entities : StartRevision(c, o, old, new)
  \/ \E c \in Clients : CheckEntity(c)
  \/ \E c \in Clients : WriteOrder(c)
  \/ \E o \in OrderSlots, status \in {"COMPLETED", "CANCELLED"} : FinishOrder(o, status)

CatalogSpec == CatalogInit /\ [][CatalogNext]_catalogVars

-----------------------------------------------------------------------------
\* Every row, order and request is of the shape the services give it.
CatalogTypeOK ==
  /\ row \in [Entities -> {"unborn", "active", "inactive", "deleted"}]
  /\ placed \in [OrderSlots -> {NoOrder, "PENDING", "COMPLETED", "CANCELLED"}]
  /\ items \in [OrderSlots -> SUBSET Entities]
  /\ traces \in [OrderSlots -> SUBSET Entities]
  /\ \A c \in Clients :
       \/ request[c] = Idle
       \/ request[c].op \in {"update", "remove", "deactivate"} /\ request[c].entity \in Entities
       \/ /\ request[c].op \in {"order", "revise"}
          /\ request[c].order \in OrderSlots
          /\ IsSuffix(request[c].left, request[c].want)

\* No order, movement or reservation ever refers to a row that was removed:
\* remove turns into a deactivation, and an order whose product is removed
\* after its check is not placed.
ReferencesResolve ==
  \A o \in OrderSlots : \A e \in items[o] \cup traces[o] : Exists(e)

\* A new order, or a change to one, brings in an entity that is switched off
\* only when it was switched off while the request was running.
NewUsesWereActive ==
  [][\A c \in Clients, o \in OrderSlots : \A e \in items'[o] \ items[o] :
       (request[c].op \in {"order", "revise"} /\ request[c].order = o /\ request'[c] = Idle)
         => row[e] = "active" \/ e \in request[c].switched]_catalogVars
=============================================================================
