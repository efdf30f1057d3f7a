-------------------------- MODULE InventoryProofs --------------------------
(***************************************************************************)
(* Theorems about the interleaved stock core, for any products, warehouses,*)
(* transactions, bodies and number of concurrent requests.                 *)
(*                                                                         *)
(* The first invariant is ClaimsHold, with the shape of the session records*)
(* (IInv).  Typed, LocksInOrder, Mirroring and Booked are built on it, in  *)
(* this order, for the types, the locks, the reservations and the          *)
(* movements.  Each action is first reduced to what it does to the fields  *)
(* an invariant speaks of.                                                 *)
(***************************************************************************)
EXTENDS InventoryTransactions, FiniteSetTheorems, WellFoundedInduction, TLAPS

SessionFields == {"op", "claimed", "txn", "patch", "todo", "seen", "writes"}
WriteFields == {"transactions", "inventory", "reservations", "movements"}
Ops == {"idle", "create", "complete", "cancel", "update", "adjust"}

Shape ==
  /\ DOMAIN session = Sessions
  /\ DOMAIN held = Sessions
  /\ \A s \in Sessions : /\ DOMAIN session[s] = SessionFields
                         /\ DOMAIN session[s].writes = WriteFields
                         /\ session[s].op \in Ops

IInv == Shape /\ ClaimsHold

\* What s does leaves the other sessions alone.
OthersKept(s) ==
  \A x \in Sessions \ {s} : session'[x] = session[x] /\ held'[x] = held[x]

\* What the statements of a handler say of the call they make.
LEMMA CallMade ==
  ASSUME NEW s, NEW call
  PROVE  /\ LockInventoryRow(s, call) => session[s].claimed /\ call.act # "release"
         /\ FindNoInventoryRow(s, call) => session[s].claimed /\ call.act = "reserve"
         /\ Reserve(s, call) => session[s].claimed /\ call.act = "reserve"
         /\ Release(s, call) => session[s].claimed /\ call.act = "release"
         /\ RecordMovement(s, call) => session[s].claimed /\ call.act = "record"
         /\ Fulfil(s, call) => session[s].claimed /\ call.act = "fulfil"
<1>1. LockInventoryRow(s, call) => session[s].claimed /\ call.act # "release"
  BY Zenon DEF LockInventoryRow
<1>2. FindNoInventoryRow(s, call) => session[s].claimed /\ call.act = "reserve"
  BY Zenon DEF FindNoInventoryRow, Running
<1>3. Reserve(s, call) => session[s].claimed /\ call.act = "reserve"
  BY Zenon DEF Reserve, Running
<1>4. Release(s, call) => session[s].claimed /\ call.act = "release"
  BY Zenon DEF Release, Running
<1>5. RecordMovement(s, call) => session[s].claimed /\ call.act = "record"
  BY Zenon DEF RecordMovement, Running
<1>6. Fulfil(s, call) => session[s].claimed /\ call.act = "fulfil"
  BY Zenon DEF Fulfil, Running
<1> QED
  BY <1>1, <1>2, <1>3, <1>4, <1>5, <1>6, Zenon

\* A step in the middle of a handler: s goes on with the same claim, and may have
\* taken a lock nobody else held.
Continues(s) ==
  /\ UNCHANGED tables
  /\ Shape'
  /\ OthersKept(s)
  /\ session'[s].op = session[s].op
  /\ session'[s].claimed = session[s].claimed
  /\ session'[s].txn = session[s].txn
  /\ session'[s].writes.transactions = session[s].writes.transactions
  /\ \/ held'[s] = held[s]
     \/ \E lock : held'[s] = held[s] \cup {lock} /\ Free(s, lock)

LEMMA HeldGrows ==
  ASSUME Shape, NEW s \in Sessions, NEW lock, Acquire(s, lock)
  PROVE  /\ DOMAIN held' = Sessions
         /\ held'[s] = held[s] \cup {lock}
         /\ \A x \in Sessions \ {s} : held'[x] = held[x]
BY DEF Acquire, Shape

LEMMA IdleShape ==
  /\ DOMAIN Idle = SessionFields
  /\ DOMAIN Idle.writes = WriteFields
  /\ Idle.op = "idle" /\ Idle.txn = NoTxn /\ Idle.claimed = FALSE
  /\ DOMAIN Idle.writes.transactions = {}
<1>1. DOMAIN Idle = SessionFields
  BY DEF Idle, SessionFields
<1>2. /\ Idle.op = "idle" /\ Idle.txn = NoTxn /\ Idle.claimed = FALSE
      /\ Idle.writes = NoWrites
  BY DEF Idle
<1>3. DOMAIN NoWrites = WriteFields /\ NoWrites.transactions = <<>>
  BY DEF NoWrites, WriteFields
<1>4. DOMAIN <<>> = {}
  OBVIOUS
<1> QED
  BY <1>1, <1>2, <1>3, <1>4

\* What s writes in the middle of a handler leaves its claim alone.
LEMMA WritesKeepClaim ==
  ASSUME Shape, NEW s \in Sessions, NEW todo, NEW i, NEW m, NEW r,
         session' = [session EXCEPT
            ![s].seen = Unread, ![s].todo = todo,
            ![s].writes.inventory = i, ![s].writes.movements = m,
            ![s].writes.reservations = r]
  PROVE  /\ DOMAIN session' = Sessions
         /\ \A x \in Sessions \ {s} : session'[x] = session[x]
         /\ DOMAIN session'[s] = SessionFields
         /\ DOMAIN session'[s].writes = WriteFields
         /\ session'[s].op = session[s].op
         /\ session'[s].claimed = session[s].claimed
         /\ session'[s].txn = session[s].txn
         /\ session'[s].writes.transactions = session[s].writes.transactions
<1> USE DEF Shape, SessionFields, WriteFields
<1>1. /\ DOMAIN session' = Sessions
      /\ \A x \in Sessions \ {s} : session'[x] = session[x]
  OBVIOUS
<1>2. session'[s] = [session[s] EXCEPT
            !.seen = Unread, !.todo = todo,
            !.writes.inventory = i, !.writes.movements = m,
            !.writes.reservations = r]
  OBVIOUS
<1>3. /\ DOMAIN session'[s] = SessionFields
      /\ session'[s].op = session[s].op
      /\ session'[s].claimed = session[s].claimed
      /\ session'[s].txn = session[s].txn
  BY <1>2
<1>4. session'[s].writes = [session[s].writes EXCEPT
            !.inventory = i, !.movements = m, !.reservations = r]
  BY <1>2
<1>5. /\ DOMAIN session'[s].writes = WriteFields
      /\ session'[s].writes.transactions = session[s].writes.transactions
  BY <1>4
<1>6. QED
  BY <1>1, <1>3, <1>5, Zenon

LEMMA ContinueSteps ==
  ASSUME Shape, NEW s \in Sessions, NEW call \in session[s].todo,
         \/ LockInventoryRow(s, call) \/ FindNoInventoryRow(s, call)
         \/ Reserve(s, call) \/ Release(s, call)
         \/ RecordMovement(s, call) \/ Fulfil(s, call)
  PROVE  Continues(s)
<1> USE DEF Shape, SessionFields, WriteFields, Continues, OthersKept
<1>1. CASE LockInventoryRow(s, call)
  <2> DEFINE lock == InventoryLock(call.row)
  <2>1. /\ UNCHANGED tables /\ Acquire(s, lock) /\ Free(s, lock)
        /\ \E seen, i : session' = [session EXCEPT
             ![s].seen = seen, ![s].writes.inventory = i]
    BY <1>1 DEF LockInventoryRow
  <2>2. /\ DOMAIN held' = Sessions
        /\ held'[s] = held[s] \cup {lock}
        /\ \A x \in Sessions \ {s} : held'[x] = held[x]
    BY <2>1 DEF Acquire
  <2> QED
    BY <2>1, <2>2
<1>2. CASE FindNoInventoryRow(s, call)
  BY <1>2 DEF FindNoInventoryRow
<1>3. CASE Reserve(s, call)
  <2>1. PICK id \in Txns \X (1..MaxReservations) :
          session' = [session EXCEPT
            ![s].seen = Unread, ![s].todo = Done(call, @),
            ![s].writes.reservations = Over(Entry(id,
               [row |-> call.row, quantity |-> call.quantity, status |-> "ACTIVE"]), @)]
    BY <1>3 DEF Reserve
  <2>2. UNCHANGED <<tables, held>>
    BY <1>3 DEF Reserve
  <2>3. QED
    BY <2>1, <2>2
<1>4. CASE Release(s, call)
  BY <1>4, HeldGrows DEF Release, CanFlip
<1>5. CASE RecordMovement(s, call)
  BY <1>5 DEF RecordMovement
<1>6. CASE Fulfil(s, call)
  <2>1. PICK i, m, r : session' = [session EXCEPT
          ![s].seen = Unread, ![s].todo = Done(call, session[s].todo),
          ![s].writes.inventory = i, ![s].writes.movements = m,
          ![s].writes.reservations = r]
    BY <1>6, Zenon DEF Fulfil
  <2>2. UNCHANGED tables /\ Acquire(s, ReservationLock(call.id))
        /\ Free(s, ReservationLock(call.id))
    BY <1>6 DEF Fulfil, CanFlip
  <2>3. /\ DOMAIN held' = Sessions
        /\ held'[s] = held[s] \cup {ReservationLock(call.id)}
        /\ \A x \in Sessions \ {s} : held'[x] = held[x]
    <3> DEFINE lock == ReservationLock(call.id)
    <3>1. held' = [held EXCEPT ![s] = @ \cup {lock}]
      BY <2>2 DEF Acquire
    <3> HIDE DEF lock
    <3>2. DOMAIN held = Sessions
      OBVIOUS
    <3>3. /\ DOMAIN held' = Sessions /\ held'[s] = held[s] \cup {lock}
          /\ \A x \in Sessions \ {s} : held'[x] = held[x]
      BY <3>1, <3>2
    <3> QED
      BY <3>3 DEF lock
  <2>4. /\ DOMAIN session' = Sessions
        /\ \A x \in Sessions \ {s} : session'[x] = session[x]
        /\ DOMAIN session'[s] = SessionFields
        /\ DOMAIN session'[s].writes = WriteFields
        /\ session'[s].op = session[s].op
        /\ session'[s].claimed = session[s].claimed
        /\ session'[s].txn = session[s].txn
        /\ session'[s].writes.transactions = session[s].writes.transactions
    BY <2>1, WritesKeepClaim, Zenon
  <2>5. Shape' /\ OthersKept(s)
    BY <2>3, <2>4
  <2>6. QED
    BY <2>2, <2>3, <2>4, <2>5 DEF Continues
<1>7. QED
  BY <1>1, <1>2, <1>3, <1>4, <1>5, <1>6

\* Where the actions start: what arrives finds the session idle, what claims finds
\* a PENDING row whose lock is free.
LEMMA Arrivals ==
  ASSUME NEW s, Arrive(s)
  PROVE  /\ session[s].op = "idle" /\ held' = held
         /\ \E record : session' = [session EXCEPT ![s] = record]
<1> DEFINE Quiet == /\ session[s].op = "idle" /\ UNCHANGED <<tables, held>>
                    /\ \E record : session' = [session EXCEPT ![s] = record]
<1>1. \A t, order, calls : InsertPending(s, t, order, calls) => Quiet
  BY Zenon DEF InsertPending
<1>2. \A op, t, patch : Request(s, op, t, patch) => Quiet
  BY Zenon DEF Request
<1>3. \A row, delta : AdjustInventory(s, row, delta) => Quiet
  BY Zenon DEF AdjustInventory
<1>4. Quiet => held' = held
  OBVIOUS
<1>5. Quiet => session[s].op = "idle" /\ \E record : session' = [session EXCEPT ![s] = record]
  BY Zenon
<1> HIDE DEF Quiet
<1>6. \A t, order : \/ CreateIncoming(s, t, order)
                   \/ CreateOutgoing(s, t, order)
                   \/ CreateTransfer(s, t, order) => Quiet
  BY <1>1, Zenon DEF CreateIncoming, CreateOutgoing, CreateTransfer
<1> QED
  BY <1>2, <1>3, <1>4, <1>5, <1>6, Zenon DEF Arrive

LEMMA ClaimStarts ==
  ASSUME NEW s, Complete(s) \/ Cancel(s) \/ Update(s)
  PROVE  /\ session[s].op \in {"complete", "cancel", "update"} /\ ~session[s].claimed
         /\ Free(s, TransactionLock(session[s].txn))
         /\ transactions[session[s].txn].status = "PENDING"
         /\ \E row, calls : Claim(s, row, calls)
<1> DEFINE Starts(op) == /\ session[s].op = op /\ ~session[s].claimed
                         /\ Free(s, TransactionLock(session[s].txn))
                         /\ transactions[session[s].txn].status = "PENDING"
                         /\ \E row, calls : Claim(s, row, calls)
<1>1. Complete(s) => Starts("complete")
  BY Zenon DEF Complete, AtClaim, Claimable
<1>2. Cancel(s) => Starts("cancel")
  BY Zenon DEF Cancel, AtClaim, Claimable
<1>3. Update(s) => Starts("update")
  BY Zenon DEF Update, AtClaim, Claimable
<1> QED
  BY <1>1, <1>2, <1>3

\* A request that arrives: an unclaimed one on a transaction that exists, an
\* adjustment, or a creation under a new id.
LEMMA InsertStep ==
  ASSUME Shape, NEW s \in Sessions, NEW t \in Txns, NEW order, NEW calls,
         InsertPending(s, t, order, calls)
  PROVE  /\ Shape' /\ OthersKept(s) /\ UNCHANGED tables /\ held' = held
         /\ session'[s].op = "create" /\ session'[s].claimed
         /\ session'[s].txn = t /\ t \notin DOMAIN transactions
         /\ DOMAIN session'[s].writes.transactions = {t}
         /\ \A other \in Sessions : session[other].txn # t
<1>1. session'[s] = [Idle EXCEPT
          !.op = "create", !.claimed = TRUE, !.txn = t, !.todo = calls,
          !.writes.transactions = Entry(t,
             [type |-> order.type, status |-> "PENDING",
              src |-> order.src, dst |-> order.dst, items |-> order.items])]
  BY DEF InsertPending, Shape
<1>2. /\ DOMAIN session'[s] = SessionFields
      /\ DOMAIN session'[s].writes = WriteFields
      /\ session'[s].op = "create" /\ session'[s].claimed /\ session'[s].txn = t
      /\ DOMAIN session'[s].writes.transactions = {t}
  BY <1>1, IdleShape DEF SessionFields, WriteFields, Entry
<1>3. QED
  BY <1>2 DEF InsertPending, Shape, OthersKept, Ops

LEMMA RequestStep ==
  ASSUME Shape, NEW s \in Sessions, NEW op, NEW t, NEW patch,
         op \in {"complete", "cancel", "update"},
         Request(s, op, t, patch)
  PROVE  /\ Shape' /\ OthersKept(s) /\ UNCHANGED tables /\ held' = held
         /\ session'[s].op = op /\ ~session'[s].claimed
         /\ session'[s].txn = t /\ t \in DOMAIN transactions
         /\ DOMAIN session'[s].writes.transactions = {}
BY IdleShape DEF Request, Shape, SessionFields, WriteFields, OthersKept, Ops

LEMMA AdjustStep ==
  ASSUME Shape, NEW s \in Sessions, NEW row, NEW delta,
         AdjustInventory(s, row, delta)
  PROVE  /\ Shape' /\ OthersKept(s) /\ UNCHANGED tables /\ held' = held
         /\ session'[s].op = "adjust" /\ session'[s].txn = NoTxn
         /\ DOMAIN session'[s].writes.transactions = {}
BY IdleShape DEF AdjustInventory, Shape, SessionFields, WriteFields, OthersKept, Ops

LEMMA ClaimStep ==
  ASSUME Shape, NEW s \in Sessions, NEW row, NEW calls, Claim(s, row, calls)
  PROVE  /\ Shape' /\ OthersKept(s) /\ UNCHANGED tables
         /\ session'[s].op = session[s].op /\ session'[s].claimed
         /\ session'[s].txn = session[s].txn
         /\ DOMAIN session'[s].writes.transactions = {session[s].txn}
         /\ held'[s] = held[s] \cup {TransactionLock(session[s].txn)}
<1>1. /\ DOMAIN held' = Sessions
      /\ held'[s] = held[s] \cup {TransactionLock(session[s].txn)}
      /\ \A x \in Sessions \ {s} : held'[x] = held[x]
  BY HeldGrows DEF Claim
<1>2. QED
  BY <1>1 DEF Claim, Shape, SessionFields, WriteFields, OthersKept, Entry

LEMMA FinishStep ==
  ASSUME Shape, NEW s \in Sessions, Finish(s)
  PROVE  /\ Shape' /\ OthersKept(s)
         /\ session'[s] = Idle /\ held'[s] = {}
BY IdleShape DEF Finish, Shape, OthersKept, Ops

----------------------------------------------------------------------------
(* ClaimsHold is inductive: one lemma per kind of step.                    *)

LEMMA InitOwns == Init => IInv
<1> SUFFICES ASSUME Init PROVE IInv
  OBVIOUS
<1>1. Shape
  BY IdleShape DEF Init, Shape, Ops
<1>2. \A s \in Sessions : session[s] = Idle /\ held[s] = {}
  BY DEF Init
<1>3. QED
  BY <1>1, <1>2, IdleShape DEF IInv, ClaimsHold, LocksExclusive, OwnsTransaction

LEMMA ArriveOwns ==
  ASSUME IInv, NEW s \in Sessions, Arrive(s)
  PROVE  IInv' /\ UNCHANGED transactions
<1> USE DEF IInv, ClaimsHold, LocksExclusive, OwnsTransaction, OthersKept, tables
<1>1. CASE \E t \in Txns, order \in Orders : \E calls : InsertPending(s, t, order, calls)
  <2>1. PICK t \in Txns, order \in Orders : \E calls : InsertPending(s, t, order, calls)
    BY <1>1
  <2>2. QED
    BY <2>1, InsertStep
<1>2. CASE \E op \in {"complete", "cancel", "update"}, t \in Txns :
             \E patch : Request(s, op, t, patch)
  <2>1. PICK op \in {"complete", "cancel", "update"}, t \in Txns :
          \E patch : Request(s, op, t, patch)
    BY <1>2
  <2>2. QED
    BY <2>1, RequestStep
<1>3. CASE \E row \in Rows, delta \in Adjustments : AdjustInventory(s, row, delta)
  <2>1. PICK row \in Rows, delta \in Adjustments : AdjustInventory(s, row, delta)
    BY <1>3
  <2>2. QED
    BY <2>1, AdjustStep, IdsAssumption
<1>4. QED
  BY <1>1, <1>2, <1>3 DEF Arrive, CreateIncoming, CreateOutgoing, CreateTransfer

LEMMA ClaimOwns ==
  ASSUME IInv, NEW s \in Sessions, Complete(s) \/ Cancel(s) \/ Update(s)
  PROVE  IInv' /\ UNCHANGED transactions
<1> DEFINE me == session[s]
<1>1. /\ me.op \in {"complete", "cancel", "update"} /\ ~me.claimed
      /\ Free(s, TransactionLock(me.txn))
      /\ transactions[me.txn].status = "PENDING"
  BY ClaimStarts, Zenon
<1>2. PICK row, calls : Claim(s, row, calls)
  BY ClaimStarts, Zenon
<1>3. /\ Shape' /\ OthersKept(s) /\ UNCHANGED tables
      /\ session'[s].op = me.op /\ session'[s].claimed
      /\ session'[s].txn = me.txn
      /\ DOMAIN session'[s].writes.transactions = {me.txn}
      /\ held'[s] = held[s] \cup {TransactionLock(me.txn)}
  BY <1>2, ClaimStep DEF IInv
<1>4. LocksExclusive'
  BY <1>1, <1>3 DEF IInv, ClaimsHold, LocksExclusive, Free, OthersKept
<1>5. OwnsTransaction(s)'
  BY <1>1, <1>3 DEF IInv, ClaimsHold, OwnsTransaction, tables
<1>6. \A x \in Sessions \ {s} : OwnsTransaction(x)'
  BY <1>3 DEF IInv, ClaimsHold, OwnsTransaction, OthersKept, tables
<1>7. QED
  BY <1>3, <1>4, <1>5, <1>6 DEF IInv, ClaimsHold, tables

LEMMA ContinueOwns ==
  ASSUME IInv, NEW s \in Sessions, Continues(s)
  PROVE  IInv' /\ UNCHANGED transactions
<1> USE DEF Continues, OthersKept
<1>1. LocksExclusive'
  BY DEF IInv, ClaimsHold, LocksExclusive, Free
<1>2. held[s] \subseteq held'[s]
  OBVIOUS
<1>3. OwnsTransaction(s)'
  BY <1>2 DEF IInv, ClaimsHold, OwnsTransaction, tables
<1>4. \A x \in Sessions \ {s} : OwnsTransaction(x)'
  BY DEF IInv, ClaimsHold, OwnsTransaction, tables
<1>5. QED
  BY <1>1, <1>3, <1>4 DEF IInv, ClaimsHold, tables

LEMMA RollbackOwns ==
  ASSUME IInv, NEW s \in Sessions, Rollback(s)
  PROVE  IInv' /\ UNCHANGED transactions
<1>1. /\ Shape' /\ OthersKept(s) /\ session'[s] = Idle /\ held'[s] = {}
      /\ UNCHANGED tables
  BY FinishStep DEF Rollback, IInv
<1>2. LocksExclusive'
  BY <1>1 DEF IInv, ClaimsHold, LocksExclusive, OthersKept
<1>3. OwnsTransaction(s)'
  BY <1>1, IdleShape DEF OwnsTransaction
<1>4. \A x \in Sessions \ {s} : OwnsTransaction(x)'
  BY <1>1, IdleShape, IdsAssumption
  DEF IInv, ClaimsHold, OwnsTransaction, OthersKept, tables
<1>5. QED
  BY <1>1, <1>2, <1>3, <1>4 DEF IInv, ClaimsHold, tables

\* What a commit writes: its own transaction, which nobody else works on and
\* which, if the table has it, is PENDING there.
LEMMA CommitWrites ==
  ASSUME IInv, NEW s \in Sessions, Commit(s)
  PROVE  /\ DOMAIN transactions \subseteq DOMAIN transactions'
         /\ \A t \in DOMAIN transactions' :
              \/ /\ t \in DOMAIN transactions
                 /\ transactions'[t] = transactions[t]
              \/ /\ t = session[s].txn
                 /\ \/ t \notin DOMAIN transactions /\ session[s].op = "create"
                    \/ /\ transactions[t].status = "PENDING"
                       /\ session[s].op \in {"complete", "cancel", "update"}
                       /\ TransactionLock(t) \in held[s]
<1> DEFINE written == DOMAIN session[s].writes.transactions
<1>1. transactions' = Over(session[s].writes.transactions, transactions)
  BY DEF Commit, SeenTransactions
<1>2. session[s].claimed /\ session[s].op \in Ops /\ OwnsTransaction(s)
  BY DEF Commit, IInv, Shape, ClaimsHold
<1>3. /\ DOMAIN transactions' = written \cup DOMAIN transactions
      /\ \A t \in DOMAIN transactions \ written : transactions'[t] = transactions[t]
  BY <1>1 DEF Over
<1>4. \A t \in written :
        /\ t = session[s].txn
        /\ \/ t \notin DOMAIN transactions /\ session[s].op = "create"
           \/ /\ transactions[t].status = "PENDING"
              /\ session[s].op \in {"complete", "cancel", "update"}
              /\ TransactionLock(t) \in held[s]
  BY <1>2 DEF OwnsTransaction, Ops
<1>5. QED
  BY <1>3, <1>4

LEMMA CommitOwns ==
  ASSUME IInv, NEW s \in Sessions, Commit(s)
  PROVE  IInv'
<1>1. /\ Shape' /\ OthersKept(s) /\ session'[s] = Idle /\ held'[s] = {}
  BY FinishStep DEF Commit, IInv
<1>2. LocksExclusive'
  BY <1>1 DEF IInv, ClaimsHold, LocksExclusive, OthersKept
<1>3. OwnsTransaction(s)'
  BY <1>1, IdleShape DEF OwnsTransaction
<1>4. ASSUME NEW x \in Sessions \ {s}
      PROVE  OwnsTransaction(x)'
  <2>1. OwnsTransaction(x) /\ session'[x] = session[x] /\ held'[x] = held[x]
    BY <1>1 DEF IInv, ClaimsHold, OthersKept
  <2>2. session[x].op \in Ops
    BY DEF IInv, Shape
  <2>3. CASE session[x].op \in {"idle", "adjust"}
    BY <2>1, <2>3 DEF OwnsTransaction
  <2>4. CASE session[x].op = "create"
    <3>1. session[s].txn # session[x].txn
      BY <2>1, <2>4 DEF OwnsTransaction
    <3>2. session[x].txn \notin DOMAIN transactions'
      BY <2>1, <2>4, <3>1, CommitWrites DEF OwnsTransaction
    <3>3. \A other \in Sessions \ {x} : session'[other].txn # session[x].txn
      BY <1>1, <2>1, <2>4, IdleShape, IdsAssumption DEF OwnsTransaction, OthersKept
    <3>4. QED
      BY <2>1, <2>4, <3>2, <3>3 DEF OwnsTransaction
  <2>5. CASE session[x].op \in {"complete", "cancel", "update"}
    <3>1. session[x].txn \in DOMAIN transactions'
      BY <2>1, <2>5, CommitWrites DEF OwnsTransaction
    <3>2. CASE session[x].claimed
      <4>1. transactions[session[x].txn].status = "PENDING"
        BY <2>1, <2>5, <3>2 DEF OwnsTransaction
      <4>2. TransactionLock(session[x].txn) \notin held[s]
        BY <2>1, <2>5, <3>2 DEF OwnsTransaction, IInv, ClaimsHold, LocksExclusive
      <4>3. transactions'[session[x].txn] = transactions[session[x].txn]
        BY <2>1, <2>5, <3>1, <4>2, CommitWrites DEF OwnsTransaction
      <4>4. QED
        BY <2>1, <2>5, <3>1, <3>2, <4>1, <4>3 DEF OwnsTransaction
    <3>3. CASE ~session[x].claimed
      BY <2>1, <2>5, <3>1, <3>3 DEF OwnsTransaction
    <3>4. QED
      BY <3>2, <3>3
  <2>6. QED
    BY <2>2, <2>3, <2>4, <2>5 DEF Ops
<1>5. QED
  BY <1>1, <1>2, <1>3, <1>4 DEF IInv, ClaimsHold

LEMMA StepKinds ==
  ASSUME IInv, NEW s \in Sessions, Arrive(s) \/ Step(s) \/ Abort(s)
  PROVE  IInv' /\ (UNCHANGED transactions \/ Commit(s))
<1>1. CASE Arrive(s)
  BY <1>1, ArriveOwns
<1>2. CASE Complete(s) \/ Cancel(s) \/ Update(s)
  BY <1>2, ClaimOwns
<1>3. CASE \E call \in session[s].todo :
             \/ LockInventoryRow(s, call) \/ FindNoInventoryRow(s, call)
             \/ Reserve(s, call) \/ Release(s, call)
             \/ RecordMovement(s, call) \/ Fulfil(s, call)
  <2>1. Continues(s)
    BY <1>3, ContinueSteps DEF IInv
  <2>2. QED
    BY <2>1, ContinueOwns
<1>4. CASE Commit(s)
  BY <1>4, CommitOwns
<1>5. CASE Refuse(s) \/ Abort(s)
  BY <1>5, RollbackOwns DEF Refuse, Abort
<1>6. QED
  BY <1>1, <1>2, <1>3, <1>4, <1>5 DEF Step

LEMMA IInvInductive == IInv /\ [Next]_vars => IInv'
<1> SUFFICES ASSUME IInv, [Next]_vars PROVE IInv'
  OBVIOUS
<1>1. CASE Next
  BY <1>1, StepKinds DEF Next
<1>2. CASE UNCHANGED vars
  BY <1>2 DEF vars, IInv, Shape, ClaimsHold, LocksExclusive, OwnsTransaction
<1>3. QED
  BY <1>1, <1>2

----------------------------------------------------------------------------
\* However many requests run at once, the conditional UPDATE that complete,
\* cancel and update start with gives one of them the transaction: until it
\* commits or rolls back, the row stays PENDING for everybody else and nobody
\* else writes it.
THEOREM ClaimIsExclusive == Spec => []ClaimsHold
<1>1. IInv => ClaimsHold
  BY DEF IInv
<1>2. QED
  BY <1>1, InitOwns, IInvInductive, PTL DEF Spec

\* A transaction that has been completed or cancelled is never written again,
\* by any handler in any interleaving: every write to an existing row is made
\* under a claim, and a claim is made on a PENDING row only.
THEOREM FinishedStaysFinished == Spec => FinishedIsFinal
<1> DEFINE Final ==
      \A t \in DOMAIN transactions :
        transactions[t].status # "PENDING" =>
          t \in DOMAIN transactions' /\ transactions'[t] = transactions[t]
<1>1. ASSUME IInv, [Next]_vars PROVE [Final]_vars
  <2>1. CASE UNCHANGED transactions
    BY <2>1
  <2>2. ASSUME NEW s \in Sessions, Commit(s) PROVE Final
    BY <1>1, <2>2, CommitWrites
  <2>3. CASE Next
    BY <1>1, <2>1, <2>2, <2>3, StepKinds DEF Next
  <2>4. CASE UNCHANGED vars
    BY <2>4 DEF vars
  <2>5. QED
    BY <1>1, <2>3, <2>4
<1>2. QED
  BY <1>1, InitOwns, IInvInductive, PTL DEF Spec, FinishedIsFinal

----------------------------------------------------------------------------
(* What each step does to the fields of its session.                       *)

\* A statement in the middle of a handler: what the request is does not change.
Mid(s) ==
  /\ UNCHANGED tables
  /\ Shape'
  /\ OthersKept(s)
  /\ session'[s].op = session[s].op
  /\ session'[s].claimed = session[s].claimed
  /\ session'[s].txn = session[s].txn
  /\ session'[s].patch = session[s].patch
  /\ session'[s].writes.transactions = session[s].writes.transactions

LEMMA LockEffect ==
  ASSUME Shape, NEW s \in Sessions, NEW call, LockInventoryRow(s, call)
  PROVE  /\ Mid(s)
         /\ session'[s].todo = session[s].todo
         /\ session'[s].seen = Over(SeenInventory(s), Entry(call.row, 0))[call.row]
         /\ session'[s].writes.inventory =
              IF call.row \in DOMAIN SeenInventory(s) THEN session[s].writes.inventory
              ELSE Over(Entry(call.row, 0), session[s].writes.inventory)
         /\ session'[s].writes.reservations = session[s].writes.reservations
         /\ session'[s].writes.movements = session[s].writes.movements
         /\ held'[s] = held[s] \cup {InventoryLock(call.row)}
<1> USE DEF Shape, SessionFields, WriteFields
<1>1. /\ DOMAIN held' = Sessions
      /\ held'[s] = held[s] \cup {InventoryLock(call.row)}
      /\ \A x \in Sessions \ {s} : held'[x] = held[x]
  BY HeldGrows DEF LockInventoryRow
<1> DEFINE seen == Over(SeenInventory(s), Entry(call.row, 0))[call.row]
           i == IF call.row \in DOMAIN SeenInventory(s) THEN session[s].writes.inventory
                ELSE Over(Entry(call.row, 0), session[s].writes.inventory)
<1>2. /\ session' = [session EXCEPT ![s].seen = seen, ![s].writes.inventory = i]
      /\ UNCHANGED tables
  BY DEF LockInventoryRow
<1> HIDE DEF seen, i
<1>3. /\ DOMAIN session' = Sessions
      /\ \A x \in Sessions \ {s} : session'[x] = session[x]
      /\ session'[s] = [session[s] EXCEPT !.seen = seen, !.writes.inventory = i]
  BY <1>2
<1>4. session'[s].writes = [session[s].writes EXCEPT !.inventory = i]
  BY <1>3
<1>5. /\ DOMAIN session'[s].writes = WriteFields
      /\ session'[s].writes.inventory = i
      /\ session'[s].writes.transactions = session[s].writes.transactions
      /\ session'[s].writes.reservations = session[s].writes.reservations
      /\ session'[s].writes.movements = session[s].writes.movements
  BY <1>4
<1>6. /\ DOMAIN session'[s] = SessionFields
      /\ session'[s].op = session[s].op
      /\ session'[s].claimed = session[s].claimed
      /\ session'[s].txn = session[s].txn
      /\ session'[s].patch = session[s].patch
      /\ session'[s].todo = session[s].todo
      /\ session'[s].seen = seen
  BY <1>3
<1>7. Mid(s)
  BY <1>1, <1>2, <1>3, <1>5, <1>6 DEF Mid, OthersKept
<1> QED
  BY <1>1, <1>5, <1>6, <1>7 DEF i, seen

LEMMA FindEffect ==
  ASSUME Shape, NEW s \in Sessions, NEW call, FindNoInventoryRow(s, call)
  PROVE  /\ Mid(s)
         /\ session'[s].todo = session[s].todo
         /\ session'[s].seen = 0
         /\ session'[s].writes = session[s].writes
         /\ held'[s] = held[s]
BY DEF FindNoInventoryRow, Shape, SessionFields, WriteFields, Mid, OthersKept

LEMMA ReserveEffect ==
  ASSUME Shape, NEW s \in Sessions, NEW call, Reserve(s, call)
  PROVE  /\ Mid(s)
         /\ session'[s].todo = Done(call, session[s].todo)
         /\ session'[s].seen = Unread
         /\ \E id \in Txns \X (1..MaxReservations) :
              /\ NewReservation(s, id)
              /\ session'[s].writes.reservations = Over(Entry(id,
                   [row |-> call.row, quantity |-> call.quantity, status |-> "ACTIVE"]),
                   session[s].writes.reservations)
         /\ session'[s].writes.inventory = session[s].writes.inventory
         /\ session'[s].writes.movements = session[s].writes.movements
         /\ held'[s] = held[s]
<1> USE DEF Shape, SessionFields, WriteFields
<1>1. PICK id \in Txns \X (1..MaxReservations) :
        /\ NewReservation(s, id)
        /\ session' = [session EXCEPT
            ![s].seen = Unread, ![s].todo = Done(call, @),
            ![s].writes.reservations = Over(Entry(id,
               [row |-> call.row, quantity |-> call.quantity, status |-> "ACTIVE"]), @)]
  BY DEF Reserve
<1> DEFINE r == Over(Entry(id,
               [row |-> call.row, quantity |-> call.quantity, status |-> "ACTIVE"]),
               session[s].writes.reservations)
           todo == Done(call, session[s].todo)
<1>2. session' = [session EXCEPT
        ![s].seen = Unread, ![s].todo = todo, ![s].writes.reservations = r]
  BY <1>1
<1>3. UNCHANGED <<tables, held>>
  BY DEF Reserve
<1>9. session'[s].writes.reservations = r => \E i \in Txns \X (1..MaxReservations) :
              /\ NewReservation(s, i)
              /\ session'[s].writes.reservations = Over(Entry(i,
                   [row |-> call.row, quantity |-> call.quantity, status |-> "ACTIVE"]),
                   session[s].writes.reservations)
  BY <1>1
<1> HIDE DEF r, todo
<1>4. /\ DOMAIN session' = Sessions
      /\ \A x \in Sessions \ {s} : session'[x] = session[x]
      /\ session'[s] = [session[s] EXCEPT
           !.seen = Unread, !.todo = todo, !.writes.reservations = r]
  BY <1>2
<1>5. session'[s].writes = [session[s].writes EXCEPT !.reservations = r]
  BY <1>4
<1>6. /\ DOMAIN session'[s].writes = WriteFields
      /\ session'[s].writes.reservations = r
      /\ session'[s].writes.transactions = session[s].writes.transactions
      /\ session'[s].writes.inventory = session[s].writes.inventory
      /\ session'[s].writes.movements = session[s].writes.movements
  BY <1>5
<1>7. /\ DOMAIN session'[s] = SessionFields
      /\ session'[s].op = session[s].op
      /\ session'[s].claimed = session[s].claimed
      /\ session'[s].txn = session[s].txn
      /\ session'[s].patch = session[s].patch
      /\ session'[s].todo = todo
      /\ session'[s].seen = Unread
  BY <1>4
<1>8. Mid(s)
  <2>1. UNCHANGED tables /\ held' = held
    BY <1>3
  <2>2. OthersKept(s)
    BY <1>4, <2>1 DEF OthersKept
  <2>3. session'[s].op \in Ops
    BY <1>7
  <2>4. ASSUME NEW x \in Sessions
        PROVE  /\ DOMAIN session'[x] = SessionFields /\ DOMAIN session'[x].writes = WriteFields
               /\ session'[x].op \in Ops
    <3>1. /\ DOMAIN session[x] = SessionFields /\ DOMAIN session[x].writes = WriteFields
          /\ session[x].op \in Ops
      BY Zenon
    <3>2. x # s => session'[x] = session[x]
      BY <1>4
    <3> HIDE DEF Shape, SessionFields, WriteFields
    <3> QED
      BY <1>6, <1>7, <2>3, <3>1, <3>2, Zenon
  <2>5. Shape'
    BY <1>4, <2>1, <2>4
  <2> HIDE DEF Shape
  <2> QED
    BY <1>6, <1>7, <2>1, <2>2, <2>5 DEF Mid
<1> QED
  BY <1>3, <1>6, <1>7, <1>8, <1>9 DEF todo

LEMMA ReleaseEffect ==
  ASSUME Shape, NEW s \in Sessions, NEW call, Release(s, call)
  PROVE  /\ Mid(s)
         /\ session'[s].todo = Done(call, session[s].todo)
         /\ session'[s].seen = session[s].seen
         /\ session'[s].writes.reservations =
              Over(Flipped(s, call.id, "CANCELLED"), session[s].writes.reservations)
         /\ session'[s].writes.inventory = session[s].writes.inventory
         /\ session'[s].writes.movements = session[s].writes.movements
         /\ held'[s] = held[s] \cup {ReservationLock(call.id)}
<1> USE DEF Shape, SessionFields, WriteFields
<1> DEFINE r == Over(Flipped(s, call.id, "CANCELLED"), session[s].writes.reservations)
           todo == Done(call, session[s].todo)
<1>1. /\ DOMAIN held' = Sessions
      /\ held'[s] = held[s] \cup {ReservationLock(call.id)}
      /\ \A x \in Sessions \ {s} : held'[x] = held[x]
  BY HeldGrows DEF Release
<1>2. /\ session' = [session EXCEPT ![s].todo = todo, ![s].writes.reservations = r]
      /\ UNCHANGED tables
  BY DEF Release
<1> HIDE DEF r, todo
<1>4. /\ DOMAIN session' = Sessions
      /\ \A x \in Sessions \ {s} : session'[x] = session[x]
      /\ session'[s] = [session[s] EXCEPT !.todo = todo, !.writes.reservations = r]
  BY <1>2
<1>5. session'[s].writes = [session[s].writes EXCEPT !.reservations = r]
  BY <1>4
<1>6. /\ DOMAIN session'[s].writes = WriteFields
      /\ session'[s].writes.reservations = r
      /\ session'[s].writes.transactions = session[s].writes.transactions
      /\ session'[s].writes.inventory = session[s].writes.inventory
      /\ session'[s].writes.movements = session[s].writes.movements
  BY <1>5
<1>7. /\ DOMAIN session'[s] = SessionFields
      /\ session'[s].op = session[s].op
      /\ session'[s].claimed = session[s].claimed
      /\ session'[s].txn = session[s].txn
      /\ session'[s].patch = session[s].patch
      /\ session'[s].todo = todo
      /\ session'[s].seen = session[s].seen
  BY <1>4
<1>8. Mid(s)
  BY <1>1, <1>2, <1>4, <1>6, <1>7 DEF Mid, OthersKept
<1> QED
  BY <1>1, <1>6, <1>7, <1>8 DEF todo, r

\* What recordMovement and fulfill write besides the flip.
Moves(s, call) ==
  /\ Mid(s)
  /\ session'[s].todo = Done(call, session[s].todo)
  /\ session'[s].seen = Unread
  /\ session'[s].writes.inventory =
       Over(Entry(call.row, OnHandAfter(s, call)), session[s].writes.inventory)
  /\ session'[s].writes.movements = session[s].writes.movements (+) SetToBag(
       {Movement(session[s].txn, call.type, call.row, call.quantity)})

LEMMA MovesMeans ==
  ASSUME NEW s, NEW call, Moves(s, call)
  PROVE  /\ Mid(s) /\ session'[s].todo = Done(call, session[s].todo)
         /\ session'[s].seen = Unread
BY Zenon DEF Moves

LEMMA RecordEffect ==
  ASSUME Shape, NEW s \in Sessions, NEW call, RecordMovement(s, call)
  PROVE  /\ Moves(s, call)
         /\ session'[s].writes.reservations = session[s].writes.reservations
         /\ held'[s] = held[s]
<1> USE DEF Shape, SessionFields, WriteFields
<1> DEFINE i == Over(Entry(call.row, OnHandAfter(s, call)), session[s].writes.inventory)
           m == session[s].writes.movements (+) SetToBag(
                  {Movement(session[s].txn, call.type, call.row, call.quantity)})
           todo == Done(call, session[s].todo)
<1>1. /\ session' = [session EXCEPT ![s].seen = Unread, ![s].todo = todo,
             ![s].writes.inventory = i, ![s].writes.movements = m]
      /\ UNCHANGED <<tables, held>>
  BY DEF RecordMovement
<1> HIDE DEF i, m, todo
<1>4. /\ DOMAIN session' = Sessions
      /\ \A x \in Sessions \ {s} : session'[x] = session[x]
      /\ session'[s] = [session[s] EXCEPT !.seen = Unread, !.todo = todo,
             !.writes.inventory = i, !.writes.movements = m]
  BY <1>1
<1>5. session'[s].writes = [session[s].writes EXCEPT !.inventory = i, !.movements = m]
  BY <1>4
<1>6. /\ DOMAIN session'[s].writes = WriteFields
      /\ session'[s].writes.reservations = session[s].writes.reservations
      /\ session'[s].writes.transactions = session[s].writes.transactions
      /\ session'[s].writes.inventory = i
      /\ session'[s].writes.movements = m
  BY <1>5
<1>7. /\ DOMAIN session'[s] = SessionFields
      /\ session'[s].op = session[s].op
      /\ session'[s].claimed = session[s].claimed
      /\ session'[s].txn = session[s].txn
      /\ session'[s].patch = session[s].patch
      /\ session'[s].todo = todo
      /\ session'[s].seen = Unread
  BY <1>4
<1>8. Mid(s)
  BY <1>1, <1>4, <1>6, <1>7 DEF Mid, OthersKept
<1> QED
  BY <1>1, <1>6, <1>7, <1>8 DEF todo, i, m, Moves

LEMMA FulfilEffect ==
  ASSUME Shape, NEW s \in Sessions, NEW call, Fulfil(s, call)
  PROVE  /\ Moves(s, call)
         /\ session'[s].writes.reservations =
              Over(Flipped(s, call.id, "FULFILLED"), session[s].writes.reservations)
         /\ held'[s] = held[s] \cup {ReservationLock(call.id)}
<1> USE DEF Shape, SessionFields, WriteFields
<1> DEFINE i == Over(Entry(call.row, OnHandAfter(s, call)), session[s].writes.inventory)
           m == session[s].writes.movements (+) SetToBag(
                  {Movement(session[s].txn, call.type, call.row, call.quantity)})
           r == Over(Flipped(s, call.id, "FULFILLED"), session[s].writes.reservations)
           todo == Done(call, session[s].todo)
<1>1. /\ session' = [session EXCEPT ![s].seen = Unread, ![s].todo = todo,
             ![s].writes.inventory = i, ![s].writes.movements = m,
             ![s].writes.reservations = r]
      /\ UNCHANGED tables
  BY DEF Fulfil, Shape
<1>2. /\ DOMAIN held' = Sessions
      /\ held'[s] = held[s] \cup {ReservationLock(call.id)}
      /\ \A x \in Sessions \ {s} : held'[x] = held[x]
  BY HeldGrows DEF Fulfil
<1> HIDE DEF i, m, todo, r
<1>4. /\ DOMAIN session' = Sessions
      /\ \A x \in Sessions \ {s} : session'[x] = session[x]
      /\ session'[s] = [session[s] EXCEPT !.seen = Unread, !.todo = todo,
             !.writes.inventory = i, !.writes.movements = m, !.writes.reservations = r]
  BY <1>1
<1>5. session'[s].writes =
        [session[s].writes EXCEPT !.inventory = i, !.movements = m, !.reservations = r]
  BY <1>4
<1>6. /\ DOMAIN session'[s].writes = WriteFields
      /\ session'[s].writes.reservations = r
      /\ session'[s].writes.transactions = session[s].writes.transactions
      /\ session'[s].writes.inventory = i
      /\ session'[s].writes.movements = m
  BY <1>5
<1>7. /\ DOMAIN session'[s] = SessionFields
      /\ session'[s].op = session[s].op
      /\ session'[s].claimed = session[s].claimed
      /\ session'[s].txn = session[s].txn
      /\ session'[s].patch = session[s].patch
      /\ session'[s].todo = todo
      /\ session'[s].seen = Unread
  BY <1>4
<1>8. Mid(s)
  <2>1. UNCHANGED tables
    BY <1>1
  <2>2. OthersKept(s)
    BY <1>2, <1>4 DEF OthersKept
  <2> HIDE DEF SessionFields, WriteFields
  <2>3. DOMAIN session' = Sessions /\ \A x \in Sessions \ {s} : session'[x] = session[x]
    BY <1>4
  <2>4. Shape'
    BY <2>3, <1>2, <1>6, <1>7
  <2> QED
    BY <2>1, <2>2, <2>4, <1>6, <1>7 DEF Mid
<1> QED
  BY <1>2, <1>6, <1>7, <1>8 DEF todo, i, m, r, Moves

\* A claim changes the row, the calls and the locks.
LEMMA ClaimEffect ==
  ASSUME Shape, NEW s \in Sessions, NEW row, NEW calls, Claim(s, row, calls)
  PROVE  /\ session'[s].todo = calls
         /\ session'[s].seen = session[s].seen
         /\ session'[s].patch = session[s].patch
         /\ session'[s].writes.transactions = Entry(session[s].txn, row)
         /\ session'[s].writes.inventory = session[s].writes.inventory
         /\ session'[s].writes.reservations = session[s].writes.reservations
         /\ session'[s].writes.movements = session[s].writes.movements
<1> USE DEF Shape, SessionFields, WriteFields
<1> DEFINE x == Entry(session[s].txn, row)
<1>1. session' = [session EXCEPT
        ![s].claimed = TRUE, ![s].todo = calls, ![s].writes.transactions = x]
  BY DEF Claim
<1> HIDE DEF x
<1>2. session'[s] = [session[s] EXCEPT
        !.claimed = TRUE, !.todo = calls, !.writes.transactions = x]
  BY <1>1
<1>3. session'[s].writes = [session[s].writes EXCEPT !.transactions = x]
  BY <1>2
<1>4. /\ session'[s].todo = calls
      /\ session'[s].seen = session[s].seen
      /\ session'[s].patch = session[s].patch
  BY <1>2
<1> QED
  BY <1>3, <1>4 DEF x

LEMMA InsertEffect ==
  ASSUME Shape, NEW s \in Sessions, NEW t \in Txns, NEW order, NEW calls,
         InsertPending(s, t, order, calls)
  PROVE  /\ session'[s].todo = calls
         /\ session'[s].seen = Unread
         /\ session'[s].patch = NoPatch
         /\ session'[s].writes.transactions = Entry(t,
             [type |-> order.type, status |-> "PENDING",
              src |-> order.src, dst |-> order.dst, items |-> order.items])
         /\ session'[s].writes.inventory = <<>>
         /\ session'[s].writes.reservations = <<>>
         /\ session'[s].writes.movements = EmptyBag
<1> DEFINE x == Entry(t,
             [type |-> order.type, status |-> "PENDING",
              src |-> order.src, dst |-> order.dst, items |-> order.items])
<1>1. session'[s] = [Idle EXCEPT
          !.op = "create", !.claimed = TRUE, !.txn = t, !.todo = calls,
          !.writes.transactions = x]
  BY DEF InsertPending, Shape
<1> HIDE DEF x
<1>2. session'[s].writes = [NoWrites EXCEPT !.transactions = x]
  BY <1>1 DEF Idle
<1>3. /\ session'[s].todo = calls
      /\ session'[s].seen = Unread
      /\ session'[s].patch = NoPatch
  BY <1>1 DEF Idle
<1> QED
  BY <1>2, <1>3 DEF x, NoWrites

LEMMA RequestEffect ==
  ASSUME Shape, NEW s \in Sessions, NEW op, NEW t, NEW patch,
         Request(s, op, t, patch)
  PROVE  /\ session'[s].todo = {}
         /\ session'[s].seen = Unread
         /\ session'[s].patch = patch
         /\ session'[s].writes = NoWrites
BY DEF Request, Shape, Idle

LEMMA AdjustEffect ==
  ASSUME Shape, NEW s \in Sessions, NEW row, NEW delta,
         AdjustInventory(s, row, delta)
  PROVE  /\ session'[s].todo = {Call("record", "ADJUSTMENT", row, delta, NoId)}
         /\ session'[s].claimed
         /\ session'[s].seen = Unread
         /\ session'[s].patch = NoPatch
         /\ session'[s].writes = NoWrites
BY DEF AdjustInventory, Shape, Idle

----------------------------------------------------------------------------
(* Types.  Rows carry their fields, calls what the statements they stand for *)
(* need, and a request that has not claimed its transaction has done nothing.*)

TransactionRow(row) ==
  DOMAIN row = {"type", "status", "src", "dst", "items"} /\ IsTransaction(row)
ReservationRow(row) ==
  DOMAIN row = {"row", "quantity", "status"} /\ IsReservation(row)

TransactionTable(t) ==
  DOMAIN t \subseteq Txns /\ \A k \in DOMAIN t : TransactionRow(t[k])
InventoryTable(i) ==
  DOMAIN i \subseteq Rows /\ \A k \in DOMAIN i : i[k] \in Nat
ReservationTable(r) ==
  DOMAIN r \subseteq Txns \X Nat /\ \A k \in DOMAIN r : ReservationRow(r[k])

TablesTyped(t, i, r, m) ==
  /\ TransactionTable(t)
  /\ InventoryTable(i)
  /\ ReservationTable(r)
  /\ \A x \in BagToSet(m) : IsMovement(x)

Ends(call) == call.act \in {"release", "fulfil"}

CallTyped(call) ==
  /\ call.act \in {"reserve", "record", "release", "fulfil"}
  /\ call.row \in Rows
  /\ call.quantity \in Int /\ call.quantity # 0
  /\ call.act = "reserve" => call.quantity > 0
  /\ call.act \in {"record", "fulfil"} => call.type \in MovementTypes

\* A reservation that is ended is one of the request's own transaction.
CallFits(s, call) ==
  Ends(call) => /\ call.id \in DOMAIN reservations /\ call.id[1] = session[s].txn
                /\ session[s].op \in {"complete", "cancel", "update"}

SessionTyped(s) ==
  /\ session[s].txn \in Txns \cup {NoTxn}
  /\ session[s].seen \in Nat \cup {Unread}
  /\ session[s].patch \in Patches \cup {NoPatch}
  /\ TablesTyped(session[s].writes.transactions, session[s].writes.inventory,
                 session[s].writes.reservations, session[s].writes.movements)
  /\ \A call \in session[s].todo : CallTyped(call) /\ CallFits(s, call)

NotStarted(s) ==
  ~session[s].claimed \/ session[s].op = "idle" =>
    session[s].todo = {} /\ session[s].writes = NoWrites /\ held[s] = {}

Typed ==
  /\ TablesTyped(transactions, inventory, reservations, movements)
  /\ \A s \in Sessions : SessionTyped(s) /\ NotStarted(s)

----------------------------------------------------------------------------
(* Locks.                                                                  *)

NotAfter(a, b) == a[2] < b[2] \/ (a[2] = b[2] /\ a[1] <= b[1])

\* What a request holds: the row of its transaction, reservations of it, and
\* inventory rows none of which comes after one it still needs.
LockFits(s, lock) ==
  \/ lock = TransactionLock(session[s].txn)
  \/ /\ session[s].claimed
     /\ session[s].op \in {"complete", "cancel", "update"}
     /\ \E id : lock = ReservationLock(id) /\ id[1] = session[s].txn
  \/ \E row \in Rows :
       /\ lock = InventoryLock(row)
       /\ \A call \in session[s].todo : call.act # "release" /\ NotAfter(row, call.row)

LocksInOrder == \A s \in Sessions : \A lock \in held[s] : LockFits(s, lock)

----------------------------------------------------------------------------
(* Tables.                                                                 *)

LEMMA OverRows ==
  ASSUME NEW a, NEW b
  PROVE  /\ DOMAIN Over(a, b) = DOMAIN a \cup DOMAIN b
         /\ \A k \in DOMAIN a : Over(a, b)[k] = a[k]
         /\ \A k \in DOMAIN b \ DOMAIN a : Over(a, b)[k] = b[k]
BY DEF Over

LEMMA OverTyped ==
  ASSUME NEW a, NEW b
  PROVE  /\ TransactionTable(a) /\ TransactionTable(b) => TransactionTable(Over(a, b))
         /\ InventoryTable(a) /\ InventoryTable(b) => InventoryTable(Over(a, b))
         /\ ReservationTable(a) /\ ReservationTable(b) => ReservationTable(Over(a, b))
BY DEF Over, TransactionTable, InventoryTable, ReservationTable

LEMMA EntryTyped ==
  ASSUME NEW key, NEW row
  PROVE  /\ key \in Txns /\ TransactionRow(row) => TransactionTable(Entry(key, row))
         /\ key \in Rows /\ row \in Nat => InventoryTable(Entry(key, row))
         /\ key \in Txns \X Nat /\ ReservationRow(row) => ReservationTable(Entry(key, row))
BY DEF Entry, TransactionTable, InventoryTable, ReservationTable

LEMMA EntryRow ==
  ASSUME NEW key, NEW row
  PROVE  DOMAIN Entry(key, row) = {key} /\ Entry(key, row)[key] = row
BY DEF Entry

LEMMA BagRows ==
  ASSUME NEW a, NEW b
  PROVE  BagToSet(a (+) b) = BagToSet(a) \cup BagToSet(b)
BY DEF (+), BagToSet

LEMMA OneMore ==
  ASSUME NEW a, NEW m
  PROVE  /\ BagToSet(a (+) SetToBag({m})) = BagToSet(a) \cup {m}
         /\ m \notin BagToSet(a) => (a (+) SetToBag({m}))[m] = 1
BY DEF (+), SetToBag, BagToSet

LEMMA NothingWritten ==
  /\ DOMAIN NoWrites.transactions = {} /\ DOMAIN NoWrites.inventory = {}
  /\ DOMAIN NoWrites.reservations = {} /\ BagToSet(NoWrites.movements) = {}
BY DEF NoWrites, EmptyBag, SetToBag, BagToSet

LEMMA NothingTyped ==
  TablesTyped(NoWrites.transactions, NoWrites.inventory,
              NoWrites.reservations, NoWrites.movements)
BY NothingWritten DEF TablesTyped, TransactionTable, InventoryTable, ReservationTable

LEMMA SeenTyped ==
  ASSUME Typed, NEW s \in Sessions
  PROVE  TablesTyped(SeenTransactions(s), SeenInventory(s), SeenReservations(s),
                     movements (+) session[s].writes.movements)
<1> DEFINE w == session[s].writes
<1>1. /\ TablesTyped(transactions, inventory, reservations, movements)
      /\ TablesTyped(w.transactions, w.inventory, w.reservations, w.movements)
  BY DEF Typed, SessionTyped
<1>2. TransactionTable(SeenTransactions(s))
  BY <1>1, OverTyped DEF TablesTyped, SeenTransactions
<1>3. InventoryTable(SeenInventory(s))
  BY <1>1, OverTyped DEF TablesTyped, SeenInventory
<1>4. ReservationTable(SeenReservations(s))
  BY <1>1, OverTyped DEF TablesTyped, SeenReservations
<1>5. \A x \in BagToSet(movements (+) w.movements) : IsMovement(x)
  BY <1>1, BagRows DEF TablesTyped
<1> QED
  BY <1>2, <1>3, <1>4, <1>5 DEF TablesTyped

----------------------------------------------------------------------------
(* Typed is inductive.                                                     *)

LEMMA OthersTyped ==
  ASSUME Typed, NEW s \in Sessions, OthersKept(s),
         DOMAIN reservations \subseteq DOMAIN reservations'
  PROVE  \A x \in Sessions \ {s} : SessionTyped(x)' /\ NotStarted(x)'
BY DEF Typed, OthersKept, SessionTyped, NotStarted, CallFits

LEMMA MidTyped ==
  ASSUME Typed, NEW s \in Sessions, Mid(s), session[s].claimed, session[s].op # "idle",
         session'[s].seen \in Nat \cup {Unread},
         session'[s].todo \subseteq session[s].todo,
         TablesTyped(session[s].writes.transactions, session'[s].writes.inventory,
                     session'[s].writes.reservations, session'[s].writes.movements)
  PROVE  Typed'
<1>1. \A x \in Sessions \ {s} : SessionTyped(x)' /\ NotStarted(x)'
  BY OthersTyped DEF Mid, tables
<1>2. TablesTyped(transactions, inventory, reservations, movements)'
  BY DEF Mid, tables, Typed
<1>3. SessionTyped(s)'
  BY DEF Mid, tables, Typed, SessionTyped, CallFits
<1>4. NotStarted(s)'
  BY DEF Mid, NotStarted
<1> QED
  BY <1>1, <1>2, <1>3, <1>4 DEF Typed

\* Statements that write reservations or movements.
LEMMA FlipTyped ==
  ASSUME Typed, NEW s \in Sessions, NEW call \in session[s].todo, Ends(call),
         NEW status \in {"CANCELLED", "FULFILLED"}
  PROVE  /\ call.id \in DOMAIN SeenReservations(s)
         /\ DOMAIN Flipped(s, call.id, status) = {call.id}
         /\ Flipped(s, call.id, status)[call.id].status = status
         /\ Flipped(s, call.id, status)[call.id].row = SeenReservations(s)[call.id].row
         /\ ReservationRow(Flipped(s, call.id, status)[call.id])
         /\ ReservationTable(Over(Flipped(s, call.id, status), session[s].writes.reservations))
<1> DEFINE id == call.id
           row == SeenReservations(s)[id]
           flipped == [row EXCEPT !.status = status]
<1>1. id \in DOMAIN reservations
  BY DEF Typed, SessionTyped, CallFits
<1>2. id \in DOMAIN SeenReservations(s)
  BY <1>1, OverRows DEF SeenReservations
<1>3. ReservationRow(row) /\ id \in Txns \X Nat
  BY <1>2, SeenTyped DEF TablesTyped, TransactionTable, InventoryTable, ReservationTable
<1>4. /\ ReservationRow(flipped) /\ flipped.status = status /\ flipped.row = row.row
  BY <1>3 DEF ReservationRow, IsReservation
<1>5. DOMAIN Flipped(s, id, status) = {id} /\ Flipped(s, id, status)[id] = flipped
  BY EntryRow DEF Flipped
<1> HIDE DEF flipped, row, id
<1>6. ReservationTable(session[s].writes.reservations)
  BY DEF Typed, SessionTyped, TablesTyped
<1>7. ReservationTable(Over(Flipped(s, id, status), session[s].writes.reservations))
  <2>1. Flipped(s, id, status) = Entry(id, flipped)
    BY DEF Flipped, flipped, row
  <2> QED
    BY <2>1, <1>3, <1>4, <1>6, OverTyped, EntryTyped
<1> QED
  BY <1>2, <1>4, <1>5, <1>7 DEF row, id

LEMMA MovesTyped ==
  ASSUME Typed, NEW s \in Sessions, NEW call \in session[s].todo,
         call.act \in {"record", "fulfil"}, session[s].seen # Unread,
         OnHandAfter(s, call) >= 0
  PROVE  /\ InventoryTable(Over(Entry(call.row, OnHandAfter(s, call)), session[s].writes.inventory))
         /\ \A m \in BagToSet(session[s].writes.movements (+) SetToBag(
              {Movement(session[s].txn, call.type, call.row, call.quantity)})) : IsMovement(m)
<1>1. /\ call.row \in Rows /\ call.quantity \in Int /\ call.quantity # 0
      /\ call.type \in MovementTypes
      /\ session[s].seen \in Nat /\ session[s].txn \in Txns \cup {NoTxn}
  BY DEF Typed, SessionTyped, CallTyped
<1>2. OnHandAfter(s, call) \in Nat
  BY <1>1 DEF OnHandAfter, MovementDelta
<1>3. InventoryTable(session[s].writes.inventory)
      /\ \A m \in BagToSet(session[s].writes.movements) : IsMovement(m)
  BY DEF Typed, SessionTyped, TablesTyped
<1>4. IsMovement(Movement(session[s].txn, call.type, call.row, call.quantity))
  BY <1>1 DEF IsMovement, Movement
<1>5. InventoryTable(Over(Entry(call.row, OnHandAfter(s, call)), session[s].writes.inventory))
  BY <1>1, <1>2, <1>3, OverTyped, EntryTyped
<1>6. \A m \in BagToSet(session[s].writes.movements (+) SetToBag(
         {Movement(session[s].txn, call.type, call.row, call.quantity)})) : IsMovement(m)
  <2> DEFINE m == Movement(session[s].txn, call.type, call.row, call.quantity)
  <2> HIDE DEF m
  <2>1. BagToSet(session[s].writes.movements (+) SetToBag({m}))
          = BagToSet(session[s].writes.movements) \cup {m}
    BY OneMore
  <2>2. IsMovement(m)
    BY <1>4 DEF m
  <2>3. \A x \in BagToSet(session[s].writes.movements (+) SetToBag({m})) : IsMovement(x)
    BY <1>3, <2>1, <2>2
  <2> QED
    BY <2>3 DEF m
<1> QED
  BY <1>5, <1>6

\* What a movement makes of the rows a session has written.
LEMMA MovedTyped ==
  ASSUME Typed, NEW s \in Sessions, NEW call \in session[s].todo,
         call.act \in {"record", "fulfil"}, session[s].seen # Unread,
         OnHandAfter(s, call) >= 0, Moves(s, call)
  PROVE  /\ InventoryTable(session'[s].writes.inventory)
         /\ \A m \in BagToSet(session'[s].writes.movements) : IsMovement(m)
<1> DEFINE i == Over(Entry(call.row, OnHandAfter(s, call)), session[s].writes.inventory)
           b == session[s].writes.movements (+) SetToBag(
                  {Movement(session[s].txn, call.type, call.row, call.quantity)})
<1>1. InventoryTable(i) /\ \A m \in BagToSet(b) : IsMovement(m)
  BY MovesTyped
<1>2. session'[s].writes.inventory = i /\ session'[s].writes.movements = b
  BY Zenon DEF Moves
<1> HIDE DEF i, b
<1> QED
  BY <1>1, <1>2, Zenon

\* A movement is recorded of a row whose stock has been read and is enough.
LEMMA MoveAllowed ==
  ASSUME NEW s, NEW call, RecordMovement(s, call) \/ Fulfil(s, call)
  PROVE  session[s].seen # Unread /\ OnHandAfter(s, call) >= 0
<1>1. RecordMovement(s, call) => session[s].seen # Unread /\ OnHandAfter(s, call) >= 0
  BY Zenon DEF RecordMovement
<1>2. Fulfil(s, call) => session[s].seen # Unread /\ OnHandAfter(s, call) >= 0
  BY Zenon DEF Fulfil
<1> QED
  BY <1>1, <1>2, Zenon

LEMMA StatementsTyped ==
  ASSUME Shape, Typed, NEW s \in Sessions, NEW call \in session[s].todo,
         \/ LockInventoryRow(s, call) \/ FindNoInventoryRow(s, call)
         \/ Reserve(s, call) \/ Release(s, call)
         \/ RecordMovement(s, call) \/ Fulfil(s, call)
  PROVE  Typed'
<1> DEFINE w == session[s].writes
           w2 == session'[s].writes
<1>0. /\ CallTyped(call)
      /\ TablesTyped(w.transactions, w.inventory, w.reservations, w.movements)
      /\ TransactionTable(w.transactions) /\ InventoryTable(w.inventory)
      /\ ReservationTable(w.reservations) /\ \A m \in BagToSet(w.movements) : IsMovement(m)
      /\ session[s].seen \in Nat \cup {Unread} /\ session[s].op # "idle"
  BY DEF Typed, SessionTyped, TablesTyped, NotStarted
<1>1. SUFFICES /\ Mid(s) /\ session[s].claimed
               /\ session'[s].seen \in Nat \cup {Unread}
               /\ session'[s].todo \subseteq session[s].todo
               /\ InventoryTable(w2.inventory) /\ ReservationTable(w2.reservations)
               /\ \A m \in BagToSet(w2.movements) : IsMovement(m)
  <2>1. TablesTyped(w.transactions, w2.inventory, w2.reservations, w2.movements)
    BY <1>0, <1>1 DEF TablesTyped
  <2> QED
    BY <1>0, <1>1, <2>1, MidTyped
<1>2. Done(call, session[s].todo) \subseteq session[s].todo
  BY DEF Done
<1>3. CASE LockInventoryRow(s, call)
  <2>1. InventoryTable(SeenInventory(s))
    BY SeenTyped DEF TablesTyped
  <2>2. InventoryTable(Entry(call.row, 0))
    BY <1>0, EntryTyped DEF CallTyped
  <2>3. InventoryTable(Over(SeenInventory(s), Entry(call.row, 0)))
    BY <2>1, <2>2, OverTyped
  <2>4. call.row \in DOMAIN Over(SeenInventory(s), Entry(call.row, 0))
    BY DEF Over, Entry
  <2>5. session'[s].seen \in Nat
    BY <1>3, <2>3, <2>4, LockEffect DEF InventoryTable
  <2>6. InventoryTable(Over(Entry(call.row, 0), w.inventory))
    BY <1>0, <2>2, OverTyped
  <2>7. /\ Mid(s) /\ session'[s].todo = session[s].todo
        /\ InventoryTable(w2.inventory)
        /\ w2.reservations = w.reservations /\ w2.movements = w.movements
    BY <1>0, <1>3, <2>6, LockEffect
  <2>8. session[s].claimed
    BY <1>3, CallMade
  <2> QED
    BY <1>0, <2>5, <2>7, <2>8
<1>4. CASE FindNoInventoryRow(s, call)
  <2>1. /\ Mid(s) /\ session'[s].todo = session[s].todo /\ session'[s].seen = 0
        /\ session'[s].writes = session[s].writes
    BY <1>4, FindEffect
  <2> QED
    BY <1>0, <1>4, <2>1, CallMade
<1>5. CASE Reserve(s, call)
  <2> DEFINE row == [row |-> call.row, quantity |-> call.quantity, status |-> "ACTIVE"]
  <2>1. /\ Mid(s) /\ session'[s].todo = Done(call, session[s].todo)
        /\ session'[s].seen = Unread
        /\ w2.inventory = w.inventory /\ w2.movements = w.movements
    BY <1>5, ReserveEffect
  <2>2. PICK id \in Txns \X (1..MaxReservations) :
          w2.reservations = Over(Entry(id, row), w.reservations)
    BY <1>5, ReserveEffect
  <2>3. ReservationRow(row)
    BY <1>0, <1>5 DEF ReservationRow, IsReservation, CallTyped, Reserve, Running
  <2>4. id \in Txns \X Nat
    BY BoundsAssumption
  <2> HIDE DEF row
  <2>5. ReservationTable(w2.reservations)
    BY <1>0, <2>2, <2>3, <2>4, OverTyped, EntryTyped
  <2>6. session[s].claimed
    BY <1>5, CallMade
  <2> QED
    BY <1>0, <1>2, <2>1, <2>5, <2>6
<1>6. CASE Release(s, call)
  <2>1. /\ Mid(s) /\ session'[s].todo = Done(call, session[s].todo)
        /\ session'[s].seen = session[s].seen
        /\ w2.inventory = w.inventory /\ w2.movements = w.movements
        /\ w2.reservations = Over(Flipped(s, call.id, "CANCELLED"), w.reservations)
    BY <1>6, ReleaseEffect
  <2>3. session[s].claimed /\ Ends(call)
    BY <1>6, CallMade DEF Ends
  <2>2. ReservationTable(w2.reservations)
    BY <1>6, <2>1, <2>3, FlipTyped
  <2> QED
    BY <1>0, <1>2, <2>1, <2>2, <2>3
<1>7. CASE RecordMovement(s, call)
  <2>1. /\ Moves(s, call) /\ w2.reservations = w.reservations
    BY <1>7, RecordEffect
  <2>3. session[s].claimed /\ call.act \in {"record", "fulfil"}
    BY <1>7, CallMade
  <2>4. Mid(s) /\ session'[s].todo = Done(call, session[s].todo) /\ session'[s].seen = Unread
    BY <2>1, MovesMeans
  <2>2. InventoryTable(w2.inventory) /\ \A m \in BagToSet(w2.movements) : IsMovement(m)
    BY <1>7, <2>1, <2>3, MoveAllowed, MovedTyped
  <2> QED
    BY <1>0, <1>2, <2>1, <2>2, <2>3, <2>4
<1>8. CASE Fulfil(s, call)
  <2>1. /\ Moves(s, call)
        /\ w2.reservations = Over(Flipped(s, call.id, "FULFILLED"), w.reservations)
    BY <1>8, FulfilEffect
  <2>4. session[s].claimed /\ Ends(call)
    BY <1>8, CallMade DEF Ends
  <2>5. Mid(s) /\ session'[s].todo = Done(call, session[s].todo) /\ session'[s].seen = Unread
    BY <2>1, MovesMeans
  <2>6. call.act \in {"record", "fulfil"}
    BY <1>8, CallMade
  <2>2. InventoryTable(w2.inventory) /\ \A m \in BagToSet(w2.movements) : IsMovement(m)
    BY <1>8, <2>1, <2>6, MoveAllowed, MovedTyped
  <2>3. ReservationTable(w2.reservations)
    BY <1>8, <2>1, <2>4, FlipTyped
  <2> QED
    BY <1>0, <1>2, <2>1, <2>2, <2>3, <2>4, <2>5
<1> QED
  BY <1>3, <1>4, <1>5, <1>6, <1>7, <1>8

\* The calls a claim leaves for later.
LEMMA ReservesTyped ==
  ASSUME NEW items, NEW src \in Warehouses, \A i \in DOMAIN items : IsItem(items[i])
  PROVE  \A call \in Reserves(items, src) : CallTyped(call) /\ ~Ends(call)
BY DEF Reserves, Call, CallTyped, Ends, IsItem, Rows

LEMMA RecordsTyped ==
  ASSUME NEW type \in MovementTypes, NEW items, NEW dst \in Warehouses,
         \A i \in DOMAIN items : IsItem(items[i])
  PROVE  \A call \in Records(type, items, dst) : CallTyped(call) /\ ~Ends(call)
BY DEF Records, Call, CallTyped, Ends, IsItem, Rows

LEMMA EndsTyped ==
  ASSUME Typed, NEW t, NEW ids \in SUBSET ActiveOf(reservations, t),
         NEW type \in MovementTypes
  PROVE  \A call \in Releases(reservations, ids) \cup Fulfils(type, reservations, ids) :
           CallTyped(call) /\ call.id \in DOMAIN reservations /\ call.id[1] = t
<1>1. \A id \in ids : /\ id \in DOMAIN reservations /\ id[1] = t
                      /\ reservations[id].row \in Rows
                      /\ reservations[id].quantity \in Nat /\ reservations[id].quantity > 0
  BY DEF ActiveOf, Typed, TablesTyped, ReservationTable, ReservationRow, IsReservation
<1> QED
  BY <1>1 DEF Releases, Fulfils, Call, CallTyped

LEMMA FoundReservations ==
  ASSUME NEW t, NEW items, \A i \in DOMAIN items : HasActiveReservation(t, items[i].product)
  PROVE  /\ ReservationsFor(t, items) \in SUBSET ActiveOf(reservations, t)
         /\ \A i \in DOMAIN items :
              /\ ActiveReservation(t, items[i].product) \in ActiveOf(reservations, t)
              /\ reservations[ActiveReservation(t, items[i].product)].row[1] = items[i].product
<1>1. \A i \in DOMAIN items :
        /\ ActiveReservation(t, items[i].product) \in ActiveOf(reservations, t)
        /\ reservations[ActiveReservation(t, items[i].product)].row[1] = items[i].product
  BY DEF HasActiveReservation, ActiveReservation
<1> QED
  BY <1>1 DEF ReservationsFor

DistinctProducts(row) ==
  \A i, j \in DOMAIN row.items : row.items[i].product = row.items[j].product => i = j

LEMMA PatchedRow ==
  ASSUME NEW row, TransactionRow(row), NEW patch \in Patches \cup {NoPatch},
         ValidPatch(row, patch)
  PROVE  /\ TransactionRow(Patched(row, patch))
         /\ Patched(row, patch).type = row.type
         /\ Patched(row, patch).status = row.status
         /\ Patched(row, patch).src = Merged(row.src, patch.src, NoWarehouse)
         /\ DOMAIN Patched(row, patch).items = DOMAIN row.items
         /\ \A i \in DOMAIN row.items \ DOMAIN patch.items :
              Patched(row, patch).items[i] = row.items[i]
         /\ DistinctProducts(Patched(row, patch))
<1> DEFINE items == PatchedItems(row.items, patch.items)
           src == Merged(row.src, patch.src, NoWarehouse)
           dst == Merged(row.dst, patch.dst, NoWarehouse)
           after == Patched(row, patch)
<1>1. /\ patch.src \in Warehouses \cup {NoWarehouse}
      /\ patch.dst \in Warehouses \cup {NoWarehouse}
      /\ \A i \in DOMAIN patch.items :
           patch.items[i].product \in Products \cup {0} /\ patch.items[i].quantity \in Nat
  BY BodiesAssumption DEF NoPatch
<1>2. /\ DOMAIN items = DOMAIN row.items
      /\ \A i \in DOMAIN row.items \ DOMAIN patch.items : items[i] = row.items[i]
      /\ \A i \in DOMAIN row.items \cap DOMAIN patch.items :
           /\ items[i].product = Merged(row.items[i].product, patch.items[i].product, 0)
           /\ items[i].quantity = Merged(row.items[i].quantity, patch.items[i].quantity, 0)
  BY DEF PatchedItems
<1>3. \A i \in DOMAIN row.items : IsItem(items[i])
  BY <1>1, <1>2 DEF TransactionRow, IsTransaction, IsItem, Merged
<1>4. /\ row.type = "INCOMING" => src = row.src
      /\ row.type = "OUTGOING" => dst = row.dst
      /\ row.type # "INCOMING" => src \in Warehouses
      /\ row.type # "OUTGOING" => dst \in Warehouses
  BY <1>1 DEF ValidPatch, Merged, TransactionRow, IsTransaction
<1>5. after = [row EXCEPT !.src = src, !.dst = dst, !.items = items]
  BY DEF Patched
<1> HIDE DEF items, src, dst, after
<1>6. /\ DOMAIN after = {"type", "status", "src", "dst", "items"}
      /\ after.type = row.type /\ after.status = row.status
      /\ after.src = src /\ after.dst = dst /\ after.items = items
  BY <1>5 DEF TransactionRow
<1>7. TransactionRow(after)
  BY <1>2, <1>3, <1>4, <1>6 DEF TransactionRow, IsTransaction
<1>8. DistinctProducts(after)
  BY DEF ValidPatch, DistinctProducts, after
<1> QED
  BY <1>2, <1>6, <1>7, <1>8 DEF after, src

LEMMA ClaimTyped ==
  ASSUME Shape, Typed, NEW s \in Sessions, NEW row, NEW calls, Claim(s, row, calls),
         session[s].txn \in Txns, session[s].op \in {"complete", "cancel", "update"},
         TransactionRow(row),
         \A call \in calls :
           /\ CallTyped(call)
           /\ Ends(call) => call.id \in DOMAIN reservations /\ call.id[1] = session[s].txn
  PROVE  Typed'
<1>1. /\ OthersKept(s) /\ UNCHANGED tables
      /\ session'[s].op = session[s].op /\ session'[s].claimed
      /\ session'[s].txn = session[s].txn
  BY ClaimStep
<1>2. \A x \in Sessions \ {s} : SessionTyped(x)' /\ NotStarted(x)'
  BY <1>1, OthersTyped DEF tables
<1>3. TransactionTable(Entry(session[s].txn, row))
  BY EntryTyped
<1>4. SessionTyped(s)'
  <2>1. /\ session'[s].todo = calls
         /\ session'[s].seen = session[s].seen
         /\ session'[s].patch = session[s].patch
         /\ session'[s].writes.transactions = Entry(session[s].txn, row)
         /\ session'[s].writes.inventory = session[s].writes.inventory
         /\ session'[s].writes.reservations = session[s].writes.reservations
         /\ session'[s].writes.movements = session[s].writes.movements
    BY ClaimEffect
  <2>2. TablesTyped(session'[s].writes.transactions, session'[s].writes.inventory,
                    session'[s].writes.reservations, session'[s].writes.movements)
    BY <1>3, <2>1 DEF Typed, SessionTyped, TablesTyped
  <2> QED
    BY <1>1, <2>1, <2>2 DEF Typed, SessionTyped, tables, CallFits
<1>5. NotStarted(s)'
  BY <1>1 DEF NotStarted
<1> QED
  BY <1>1, <1>2, <1>4, <1>5 DEF Typed, tables

\* The row a claim finds.
LEMMA ClaimedRow ==
  ASSUME IInv, Typed, NEW s \in Sessions,
         session[s].op \in {"complete", "cancel", "update"}
  PROVE  /\ session[s].txn \in DOMAIN transactions /\ session[s].txn \in Txns
         /\ TransactionRow(transactions[session[s].txn])
BY DEF IInv, ClaimsHold, OwnsTransaction, Typed, TablesTyped, TransactionTable

LEMMA StatusWritten ==
  ASSUME NEW row, TransactionRow(row), NEW status \in {"PENDING", "COMPLETED", "CANCELLED"}
  PROVE  /\ TransactionRow([row EXCEPT !.status = status])
         /\ [row EXCEPT !.status = status].status = status
         /\ [row EXCEPT !.status = status].items = row.items
         /\ [row EXCEPT !.status = status].type = row.type
         /\ [row EXCEPT !.status = status].src = row.src
         /\ [row EXCEPT !.status = status].dst = row.dst
BY DEF TransactionRow, IsTransaction

LEMMA CompleteTyped ==
  ASSUME IInv, Typed, NEW s \in Sessions, Complete(s)
  PROVE  Typed'
<1> DEFINE t == session[s].txn
           row == transactions[t]
           after == [row EXCEPT !.status = "COMPLETED"]
           ids == ReservationsFor(t, row.items)
<1>1. session[s].op = "complete" /\ Claim(s, after, CompleteCalls(t))
  BY DEF Complete, AtClaim
<1>2. TransactionRow(row) /\ t \in Txns
  BY <1>1, ClaimedRow
<1>3. TransactionRow(after)
  BY <1>2, StatusWritten
<1>4. row.type # "INCOMING" => ids \in SUBSET ActiveOf(reservations, t)
  BY FoundReservations DEF Complete
<1>5. \A i \in DOMAIN row.items : IsItem(row.items[i])
  BY <1>2 DEF TransactionRow, IsTransaction
<1> DEFINE Fit(call) == CallTyped(call) /\
             (Ends(call) => call.id \in DOMAIN reservations /\ call.id[1] = t)
<1>6. row.type # "OUTGOING" => \A type \in MovementTypes :
        \A call \in Records(type, row.items, row.dst) : Fit(call)
  BY <1>2, <1>5, RecordsTyped DEF TransactionRow, IsTransaction
<1>7. row.type # "INCOMING" => \A type \in MovementTypes :
        \A call \in Fulfils(type, reservations, ids) : Fit(call)
  <2> SUFFICES ASSUME row.type # "INCOMING", NEW type \in MovementTypes,
                      NEW call \in Fulfils(type, reservations, ids)
               PROVE  Fit(call)
    OBVIOUS
  <2>1. ids \in SUBSET ActiveOf(reservations, t)
    BY <1>4
  <2> HIDE DEF ids, t
  <2>2. call \in Releases(reservations, ids) \cup Fulfils(type, reservations, ids)
    OBVIOUS
  <2>3. CallTyped(call) /\ call.id \in DOMAIN reservations /\ call.id[1] = t
    BY <2>1, <2>2, EndsTyped
  <2> QED
    BY <2>3
<1>8. \A call \in CompleteCalls(t) : Fit(call)
  <2>1. CASE row.type = "INCOMING"
    BY <1>6, <2>1 DEF CompleteCalls, MovementTypes
  <2>2. CASE row.type = "OUTGOING"
    BY <1>7, <2>2 DEF CompleteCalls, MovementTypes
  <2>3. CASE row.type = "TRANSFER"
    BY <1>6, <1>7, <2>3 DEF CompleteCalls, MovementTypes
  <2> QED
    BY <1>2, <2>1, <2>2, <2>3 DEF TransactionRow, IsTransaction, TransactionTypes
<1> HIDE DEF after
<1> QED
  BY <1>1, <1>2, <1>3, <1>8, ClaimTyped DEF IInv

LEMMA CancelTyped ==
  ASSUME IInv, Typed, NEW s \in Sessions, Cancel(s)
  PROVE  Typed'
<1> DEFINE t == session[s].txn
           after == [transactions[t] EXCEPT !.status = "CANCELLED"]
           calls == Releases(reservations, ActiveOf(reservations, t))
<1>1. session[s].op = "cancel" /\ Claim(s, after, calls)
  BY DEF Cancel, AtClaim
<1>2. TransactionRow(after) /\ t \in Txns
  BY <1>1, ClaimedRow, StatusWritten
<1>3. \A call \in calls :
        CallTyped(call) /\ call.id \in DOMAIN reservations /\ call.id[1] = t
  BY EndsTyped DEF MovementTypes
<1> HIDE DEF after, calls
<1> QED
  BY <1>1, <1>2, <1>3, ClaimTyped DEF IInv

\* An update resyncs items of the transaction only.
LEMMA ResyncedItems ==
  ASSUME NEW row, NEW patch, ValidPatch(row, patch)
  PROVE  Resynced(row, patch) \subseteq DOMAIN row.items
<1>1. DOMAIN patch.items \subseteq DOMAIN row.items
  BY Zenon DEF ValidPatch
<1> QED
  BY <1>1, Zenon DEF Resynced

LEMMA UpdateTyped ==
  ASSUME IInv, Typed, NEW s \in Sessions, Update(s)
  PROVE  Typed'
<1> DEFINE t == session[s].txn
           row == transactions[t]
           after == Patched(row, session[s].patch)
           which == Resynced(row, session[s].patch)
           gone == Releases(reservations, ReservationsFor(t, Restrict(row.items, which)))
           calls == gone \cup Reserves(Restrict(after.items, which), after.src)
<1>1. /\ session[s].op = "update" /\ Claim(s, after, calls)
      /\ ValidPatch(row, session[s].patch)
      /\ \A i \in which : HasActiveReservation(t, row.items[i].product)
  BY Zenon DEF Update, AtClaim
<1>2. TransactionRow(row) /\ t \in Txns
  BY <1>1, ClaimedRow
<1>3. session[s].patch \in Patches \cup {NoPatch}
  BY DEF Typed, SessionTyped
<1>4. /\ TransactionRow(after) /\ after.type = row.type
      /\ DOMAIN after.items = DOMAIN row.items
  BY <1>1, <1>2, <1>3, PatchedRow
<1>5. which \subseteq DOMAIN row.items
  BY <1>1, ResyncedItems
<1>6. ReservationsFor(t, Restrict(row.items, which)) \in SUBSET ActiveOf(reservations, t)
  <2>1. /\ DOMAIN Restrict(row.items, which) = which
        /\ \A i \in which : Restrict(row.items, which)[i] = row.items[i]
    BY DEF Restrict
  <2> HIDE DEF which
  <2> QED
    BY <1>1, <2>1, FoundReservations
<1>7. \A call \in gone : CallTyped(call) /\ call.id \in DOMAIN reservations /\ call.id[1] = t
  BY <1>6, EndsTyped DEF MovementTypes
<1>8. \A call \in Reserves(Restrict(after.items, which), after.src) :
        CallTyped(call) /\ ~Ends(call)
  <2>1. CASE row.type = "INCOMING"
    BY <2>1 DEF Resynced, Restrict, Reserves
  <2>2. CASE row.type # "INCOMING"
    <3>1. after.src \in Warehouses /\ \A i \in DOMAIN after.items : IsItem(after.items[i])
      BY <1>4, <2>2 DEF TransactionRow, IsTransaction
    <3> HIDE DEF after, which
    <3>2. /\ DOMAIN Restrict(after.items, which) = which
          /\ \A i \in which : Restrict(after.items, which)[i] = after.items[i]
      BY DEF Restrict
    <3> QED
      BY <3>1, <3>2, <1>4, <1>5, ReservesTyped
  <2> QED
    BY <2>1, <2>2
<1>9. \A call \in calls :
        /\ CallTyped(call)
        /\ Ends(call) => call.id \in DOMAIN reservations /\ call.id[1] = t
  BY <1>7, <1>8
<1> HIDE DEF after, calls
<1> QED
  BY <1>1, <1>2, <1>4, <1>9, ClaimTyped DEF IInv

\* Requests that arrive.
LEMMA ArriveTyped ==
  ASSUME IInv, Typed, NEW s \in Sessions, Arrive(s)
  PROVE  Typed'
<1> USE DEF IInv
<1>1. SUFFICES /\ OthersKept(s) /\ UNCHANGED tables
               /\ SessionTyped(s)' /\ NotStarted(s)'
  <2>1. \A x \in Sessions \ {s} : SessionTyped(x)' /\ NotStarted(x)'
    BY <1>1, OthersTyped DEF tables
  <2> QED
    BY <1>1, <2>1 DEF Typed, tables
<1>2. ASSUME NEW t \in Txns, NEW order \in Orders, NEW calls,
             InsertPending(s, t, order, calls),
             calls = IF order.type = "INCOMING" THEN {} ELSE Reserves(order.items, order.src)
      PROVE  OthersKept(s) /\ UNCHANGED tables /\ SessionTyped(s)' /\ NotStarted(s)'
  <2> DEFINE row == [type |-> order.type, status |-> "PENDING",
                     src |-> order.src, dst |-> order.dst, items |-> order.items]
  <2>1. \A i \in DOMAIN order.items : IsItem(order.items[i])
    BY <1>2, BodiesAssumption DEF InsertPending, ValidItems, IsItem
  <2>2. TransactionRow(row)
    BY <2>1, BodiesAssumption DEF TransactionRow, IsTransaction
  <2>3. \A call \in calls : CallTyped(call) /\ ~Ends(call)
    <3>1. CASE order.type = "INCOMING"
      BY <1>2, <3>1
    <3>2. CASE order.type # "INCOMING"
      <4>1. order.src \in Warehouses
        BY <3>2, BodiesAssumption
      <4> QED
        BY <1>2, <2>1, <3>2, <4>1, ReservesTyped
    <3> QED
      BY <3>1, <3>2
  <2>4. /\ OthersKept(s) /\ UNCHANGED tables
        /\ session'[s].op = "create" /\ session'[s].claimed /\ session'[s].txn = t
    BY <1>2, InsertStep
  <2>5. /\ session'[s].todo = calls
        /\ session'[s].seen = Unread
        /\ session'[s].patch = NoPatch
        /\ session'[s].writes.transactions = Entry(t, row)
        /\ session'[s].writes.inventory = NoWrites.inventory
        /\ session'[s].writes.reservations = NoWrites.reservations
        /\ session'[s].writes.movements = NoWrites.movements
    BY <1>2, InsertEffect DEF NoWrites
  <2> HIDE DEF row
  <2>6. TransactionTable(Entry(t, row))
    BY <2>2, EntryTyped
  <2>7. TablesTyped(session'[s].writes.transactions, session'[s].writes.inventory,
                    session'[s].writes.reservations, session'[s].writes.movements)
    BY <2>5, <2>6, NothingTyped DEF TablesTyped
  <2>8. SessionTyped(s)'
    BY <2>3, <2>4, <2>5, <2>7 DEF SessionTyped, CallFits
  <2> QED
    BY <2>4, <2>8 DEF NotStarted
<1>3. ASSUME NEW op \in {"complete", "cancel", "update"}, NEW t \in Txns,
             NEW patch \in Patches \cup {NoPatch}, Request(s, op, t, patch)
      PROVE  OthersKept(s) /\ UNCHANGED tables /\ SessionTyped(s)' /\ NotStarted(s)'
  <2>1. /\ OthersKept(s) /\ UNCHANGED tables /\ held' = held
        /\ session'[s].op = op /\ ~session'[s].claimed /\ session'[s].txn = t
    BY <1>3, RequestStep
  <2>2. /\ session'[s].todo = {} /\ session'[s].seen = Unread
        /\ session'[s].patch = patch /\ session'[s].writes = NoWrites
    BY <1>3, RequestEffect
  <2>3. SessionTyped(s)'
    BY <2>1, <2>2, NothingTyped DEF SessionTyped
  <2>4. session[s].op = "idle" /\ held' = held
    BY <1>3 DEF Request
  <2>5. held[s] = {}
    BY <2>4 DEF Typed, NotStarted
  <2> QED
    BY <2>1, <2>2, <2>3, <2>5 DEF NotStarted
<1>4. ASSUME NEW row \in Rows, NEW delta \in Adjustments, AdjustInventory(s, row, delta)
      PROVE  OthersKept(s) /\ UNCHANGED tables /\ SessionTyped(s)' /\ NotStarted(s)'
  <2>1. /\ OthersKept(s) /\ UNCHANGED tables /\ session'[s].op = "adjust"
        /\ session'[s].txn = NoTxn
    BY <1>4, AdjustStep
  <2>2. /\ session'[s].todo = {Call("record", "ADJUSTMENT", row, delta, NoId)}
        /\ session'[s].claimed /\ session'[s].seen = Unread
        /\ session'[s].patch = NoPatch /\ session'[s].writes = NoWrites
    BY <1>4, AdjustEffect
  <2>3. CallTyped(Call("record", "ADJUSTMENT", row, delta, NoId))
        /\ ~Ends(Call("record", "ADJUSTMENT", row, delta, NoId))
    BY BoundsAssumption DEF CallTyped, Ends, Call, MovementTypes
  <2>4. SessionTyped(s)'
    BY <2>1, <2>2, <2>3, NothingTyped DEF SessionTyped, CallFits
  <2> QED
    BY <2>1, <2>2, <2>4 DEF NotStarted
<1>5. CASE \E t \in Txns, order \in Orders :
             \/ CreateIncoming(s, t, order)
             \/ CreateOutgoing(s, t, order)
             \/ CreateTransfer(s, t, order)
  BY <1>2, <1>5 DEF CreateIncoming, CreateOutgoing, CreateTransfer
<1>6. CASE \E t \in Txns : \/ Request(s, "complete", t, NoPatch)
                           \/ Request(s, "cancel", t, NoPatch)
                           \/ \E patch \in Patches : Request(s, "update", t, patch)
  BY <1>3, <1>6
<1>7. CASE \E row \in Rows, delta \in Adjustments : AdjustInventory(s, row, delta)
  BY <1>4, <1>7
<1> QED
  BY <1>5, <1>6, <1>7 DEF Arrive

\* The ends of a request.
LEMMA IdleTyped ==
  ASSUME Typed, NEW s \in Sessions, OthersKept(s),
         session'[s] = Idle, held'[s] = {},
         DOMAIN reservations \subseteq DOMAIN reservations',
         TablesTyped(transactions, inventory, reservations, movements)'
  PROVE  Typed'
<1>1. \A x \in Sessions \ {s} : SessionTyped(x)' /\ NotStarted(x)'
  BY OthersTyped
<1>2. SessionTyped(s)' /\ NotStarted(s)'
  BY NothingTyped DEF SessionTyped, NotStarted, Idle
<1> QED
  BY <1>1, <1>2 DEF Typed

LEMMA EndTyped ==
  ASSUME IInv, Typed, NEW s \in Sessions, Commit(s) \/ Refuse(s) \/ Abort(s)
  PROVE  Typed'
<1>1. /\ OthersKept(s) /\ session'[s] = Idle /\ held'[s] = {}
  BY FinishStep DEF IInv, Commit, Refuse, Abort, Rollback
<1>2. CASE Commit(s)
  <2>1. TablesTyped(transactions, inventory, reservations, movements)'
    BY <1>2, SeenTyped DEF Commit
  <2>2. DOMAIN reservations \subseteq DOMAIN reservations'
    BY <1>2 DEF Commit, SeenReservations, Over
  <2> QED
    BY <1>1, <2>1, <2>2, IdleTyped
<1>3. CASE Refuse(s) \/ Abort(s)
  BY <1>1, <1>3, IdleTyped DEF Refuse, Abort, Rollback, tables, Typed
<1> QED
  BY <1>2, <1>3

LEMMA InitTyped == Init => Typed
<1> SUFFICES ASSUME Init PROVE Typed
  OBVIOUS
<1>1. \A s \in Sessions : session[s] = Idle /\ held[s] = {}
  BY DEF Init
<1>2. \A s \in Sessions : SessionTyped(s) /\ NotStarted(s)
  BY <1>1, NothingTyped DEF SessionTyped, NotStarted, Idle
<1>3. InventoryTable(inventory)
  BY BoundsAssumption DEF Init, InventoryTable
<1>4. \A x \in BagToSet(movements) : IsMovement(x)
  <2>1. BagToSet(movements) = {Movement(NoTxn, "ADJUSTMENT", r, OpeningStock[r]) :
                                 r \in DOMAIN OpeningStock}
    BY DEF Init, SetToBag, BagToSet
  <2>2. ASSUME NEW r \in DOMAIN OpeningStock
        PROVE  IsMovement(Movement(NoTxn, "ADJUSTMENT", r, OpeningStock[r]))
    BY BoundsAssumption DEF IsMovement, Movement, MovementTypes
  <2> QED
    BY <2>1, <2>2
<1>5. TransactionTable(transactions) /\ ReservationTable(reservations)
  BY DEF Init, TransactionTable, ReservationTable
<1> QED
  BY <1>2, <1>3, <1>4, <1>5 DEF Typed, TablesTyped

LEMMA TypedInductive == IInv /\ Typed /\ [Next]_vars => Typed'
<1> SUFFICES ASSUME IInv, Typed, [Next]_vars PROVE Typed'
  OBVIOUS
<1>1. ASSUME NEW s \in Sessions, Arrive(s) \/ Step(s) \/ Abort(s) PROVE Typed'
  <2>1. CASE Complete(s) \/ Cancel(s) \/ Update(s)
    BY <2>1, CompleteTyped, CancelTyped, UpdateTyped
  <2>2. CASE \E call \in session[s].todo :
               \/ LockInventoryRow(s, call) \/ FindNoInventoryRow(s, call)
               \/ Reserve(s, call) \/ Release(s, call)
               \/ RecordMovement(s, call) \/ Fulfil(s, call)
    BY <2>2, StatementsTyped DEF IInv
  <2> QED
    BY <1>1, <2>1, <2>2, ArriveTyped, EndTyped DEF Step
<1>2. CASE UNCHANGED vars
  BY <1>2 DEF vars, Typed, SessionTyped, NotStarted, CallFits
<1> QED
  BY <1>1, <1>2 DEF Next

\* What a request still has to do: each call is of one row, for a quantity that is
\* not zero, and a reservation it ends is there and of the request's own transaction.
CallsTyped ==
  \A s \in Sessions : \A call \in session[s].todo : CallTyped(call) /\ CallFits(s, call)

\* Whatever requests interleave, the tables and the uncommitted writes hold rows of
\* their kinds, so that no statement ever brings onHand below zero, and so do the calls
\* a handler's loops still have to make, although the reservations they were made from
\* were read some statements ago.
THEOREM StockIsTyped == Spec => [](TypeOK /\ CallsTyped)
<1>1. IInv /\ Typed => TypeOK /\ CallsTyped
  <2> SUFFICES ASSUME IInv, Typed PROVE TypeOK /\ CallsTyped
    OBVIOUS
  <2>1. ASSUME NEW t, NEW i, NEW r, NEW m, TablesTyped(t, i, r, m)
        PROVE  TablesOK(t, i, r, m)
    BY <2>1 DEF TablesOK, TablesTyped, TransactionTable, InventoryTable, ReservationTable,
                TransactionRow, ReservationRow, IsTable, IsOnHand
  <2>2. TablesOK(transactions, inventory, reservations, movements)
    BY <2>1 DEF Typed
  <2>3. ASSUME NEW s \in Sessions
        PROVE  /\ session[s].op \in Ops
               /\ session[s].seen \in Nat \cup {Unread}
               /\ TablesOK(session[s].writes.transactions, session[s].writes.inventory,
                           session[s].writes.reservations, session[s].writes.movements)
    BY <2>1 DEF Typed, SessionTyped, IInv, Shape
  <2>4. CallsTyped
    BY DEF Typed, SessionTyped, CallsTyped
  <2> QED
    BY <2>2, <2>3, <2>4 DEF TypeOK, Ops
<1>2. IInv /\ Typed /\ [Next]_vars => (IInv /\ Typed)'
  BY IInvInductive, TypedInductive
<1> QED
  BY <1>1, <1>2, InitOwns, InitTyped, PTL DEF Spec

----------------------------------------------------------------------------
(* LocksInOrder is inductive.                                              *)

LEMMA MidOrdered ==
  ASSUME IInv, LocksInOrder, NEW s \in Sessions, Mid(s),
         session'[s].todo \subseteq session[s].todo,
         \A lock \in held'[s] \ held[s] : LockFits(s, lock)
  PROVE  LocksInOrder'
<1>1. ASSUME NEW l, LockFits(s, l) PROVE LockFits(s, l)'
  BY <1>1 DEF LockFits, Mid
<1>2. \A l \in held'[s] : LockFits(s, l)
  BY DEF LocksInOrder
<1>3. ASSUME NEW x \in Sessions \ {s}, NEW l \in held'[x] PROVE LockFits(x, l)'
  <2>1. session'[x] = session[x] /\ held'[x] = held[x]
    BY DEF Mid, OthersKept
  <2> QED
    BY <2>1 DEF LocksInOrder, LockFits
<1> QED
  BY <1>1, <1>2, <1>3 DEF LocksInOrder

LEMMA StatementsOrdered ==
  ASSUME IInv, Typed, LocksInOrder, NEW s \in Sessions, NEW call \in session[s].todo,
         \/ LockInventoryRow(s, call) \/ FindNoInventoryRow(s, call)
         \/ Reserve(s, call) \/ Release(s, call)
         \/ RecordMovement(s, call) \/ Fulfil(s, call)
  PROVE  LocksInOrder'
<1> USE DEF IInv
<1>0. CallTyped(call) /\ CallFits(s, call)
  BY DEF Typed, SessionTyped
<1>1. CASE LockInventoryRow(s, call)
  <2>1. \A other \in session[s].todo :
          other.act # "release" /\ NotAfter(call.row, other.row)
    BY <1>1 DEF LockInventoryRow, IsNext, Before, NotAfter
  <2>2. LockFits(s, InventoryLock(call.row))
    BY <1>0, <2>1 DEF LockFits, CallTyped
  <2>3. /\ Mid(s) /\ session'[s].todo = session[s].todo
        /\ held'[s] = held[s] \cup {InventoryLock(call.row)}
    BY <1>1, LockEffect
  <2> QED
    BY <2>2, <2>3, MidOrdered
<1>2. CASE FindNoInventoryRow(s, call)
  <2>1. Mid(s) /\ session'[s].todo = session[s].todo /\ held'[s] = held[s]
    BY <1>2, FindEffect
  <2> QED
    BY <2>1, MidOrdered
<1>3. CASE Reserve(s, call) \/ RecordMovement(s, call)
  <2>1. Mid(s) /\ session'[s].todo \subseteq session[s].todo /\ held'[s] = held[s]
    <3>1. Mid(s) /\ session'[s].todo = Done(call, session[s].todo) /\ held'[s] = held[s]
      <4>1. CASE Reserve(s, call)
        BY <4>1, ReserveEffect
      <4>2. CASE RecordMovement(s, call)
        BY <4>2, RecordEffect, MovesMeans
      <4> QED
        BY <1>3, <4>1, <4>2
    <3> QED
      BY <3>1 DEF Done
  <2> QED
    BY <2>1, MidOrdered
<1>4. CASE Release(s, call) \/ Fulfil(s, call)
  <2>1. /\ Mid(s) /\ session'[s].todo \subseteq session[s].todo
        /\ held'[s] = held[s] \cup {ReservationLock(call.id)}
    <3>1. /\ Mid(s) /\ session'[s].todo = Done(call, session[s].todo)
          /\ held'[s] = held[s] \cup {ReservationLock(call.id)}
      <4>1. CASE Release(s, call)
        BY <4>1, ReleaseEffect
      <4>2. CASE Fulfil(s, call)
        BY <4>2, FulfilEffect, MovesMeans
      <4> QED
        BY <1>4, <4>1, <4>2
    <3> QED
      BY <3>1 DEF Done
  <2>2. Ends(call) /\ session[s].claimed
    BY <1>4, CallMade DEF Ends
  <2>3. LockFits(s, ReservationLock(call.id))
    BY <1>0, <2>2 DEF LockFits, CallFits
  <2> QED
    BY <2>1, <2>3, MidOrdered
<1> QED
  BY <1>1, <1>2, <1>3, <1>4

\* A step after which a request holds nothing but the row of its transaction.
LEMMA FewLocksOrdered ==
  ASSUME LocksInOrder, NEW s \in Sessions, OthersKept(s),
         held'[s] \subseteq {TransactionLock(session'[s].txn)}
  PROVE  LocksInOrder'
<1>1. ASSUME NEW x \in Sessions \ {s}, NEW l \in held'[x] PROVE LockFits(x, l)'
  <2>1. session'[x] = session[x] /\ held'[x] = held[x]
    BY DEF OthersKept
  <2> QED
    BY <2>1 DEF LocksInOrder, LockFits
<1>2. \A l \in held'[s] : LockFits(s, l)'
  BY DEF LockFits
<1> QED
  BY <1>1, <1>2 DEF LocksInOrder

LEMMA OrderInductive == IInv /\ Typed /\ LocksInOrder /\ [Next]_vars => LocksInOrder'
<1> SUFFICES ASSUME IInv, Typed, LocksInOrder, [Next]_vars PROVE LocksInOrder'
  OBVIOUS
<1>1. ASSUME NEW s \in Sessions, Arrive(s) PROVE LocksInOrder'
  <2>1. session[s].op = "idle" /\ held' = held
        /\ \A x \in Sessions \ {s} : session'[x] = session[x]
    <3>1. /\ session[s].op = "idle" /\ held' = held
          /\ \E record : session' = [session EXCEPT ![s] = record]
      BY <1>1, Arrivals, Zenon
    <3> QED
      BY <3>1 DEF IInv, Shape
  <2>2. held[s] = {}
    BY <2>1 DEF Typed, NotStarted
  <2> QED
    BY <2>1, <2>2, FewLocksOrdered DEF OthersKept
<1>2. ASSUME NEW s \in Sessions, Complete(s) \/ Cancel(s) \/ Update(s) PROVE LocksInOrder'
  <2>1. ~session[s].claimed
    BY <1>2, ClaimStarts, Zenon
  <2>2. held[s] = {}
    BY <2>1 DEF Typed, NotStarted
  <2>3. PICK row, calls : Claim(s, row, calls)
    BY <1>2, ClaimStarts, Zenon
  <2>4. /\ OthersKept(s) /\ session'[s].txn = session[s].txn
        /\ held'[s] = held[s] \cup {TransactionLock(session[s].txn)}
    BY <2>3, ClaimStep DEF IInv
  <2> QED
    BY <2>2, <2>4, FewLocksOrdered
<1>3. ASSUME NEW s \in Sessions, Commit(s) \/ Refuse(s) \/ Abort(s) PROVE LocksInOrder'
  <2>1. OthersKept(s) /\ held'[s] = {}
    BY <1>3, FinishStep DEF IInv, Commit, Refuse, Abort, Rollback
  <2> QED
    BY <2>1, FewLocksOrdered
<1>4. CASE UNCHANGED vars
  BY <1>4 DEF vars, LocksInOrder, LockFits
<1> QED
  BY <1>1, <1>2, <1>3, <1>4, StatementsOrdered DEF Next, Step

----------------------------------------------------------------------------
(* No circle of waiting requests: among those that wait, the one that wants *)
(* the last inventory row waits for nobody who waits.                      *)

Precedes(a, b) == NotAfter(a, b) /\ a # b

LEMMA LastOfMany ==
  ASSUME NEW S, IsFiniteSet(S), S # {}, NEW row, \A x \in S : row[x] \in Nat \X Nat
  PROVE  \E x \in S : \A y \in S : ~Precedes(row[x], row[y])
<1> DEFINE After == [x \in S |-> {y \in S : Precedes(row[x], row[y])}]
           Counts == {Cardinality(After[x]) : x \in S}
<1>1. \A x \in S : IsFiniteSet(After[x]) /\ Cardinality(After[x]) \in Nat
  BY FS_Subset, FS_CardinalityType
<1>2. PICK n \in Counts : \A m \in Counts : ~(<<m, n>> \in OpToRel(<, Nat))
  <2>1. Counts \subseteq Nat /\ Counts # {}
    BY <1>1
  <2> HIDE DEF Counts
  <2> QED
    BY <2>1, NatLessThanWellFounded, WFMin
<1>3. PICK x \in S : n = Cardinality(After[x])
  OBVIOUS
<1>4. ASSUME NEW y \in S, Precedes(row[x], row[y]) PROVE FALSE
  <2>0. \A z \in S : Precedes(row[y], row[z]) => Precedes(row[x], row[z])
    <3> SUFFICES ASSUME NEW z \in S, Precedes(row[y], row[z]) PROVE Precedes(row[x], row[z])
      OBVIOUS
    <3>1. row[x] \in Nat \X Nat /\ row[y] \in Nat \X Nat /\ row[z] \in Nat \X Nat
      OBVIOUS
    <3> HIDE DEF After, Counts
    <3> QED
      BY <1>4, <3>1 DEF Precedes, NotAfter
  <2>1. After[y] \subseteq After[x] /\ y \in After[x] /\ y \notin After[y]
    BY <1>4, <2>0 DEF Precedes
  <2>2. Cardinality(After[y]) < Cardinality(After[x])
    <3>1. After[y] \in SUBSET After[x] /\ After[y] # After[x]
      BY <2>1
    <3>2. IsFiniteSet(After[x]) /\ Cardinality(After[x]) \in Nat /\ Cardinality(After[y]) \in Nat
      BY <1>1
    <3> HIDE DEF After
    <3> QED
      BY <3>1, <3>2, FS_Subset
  <2>3. <<Cardinality(After[y]), n>> \in OpToRel(<, Nat)
    BY <1>1, <1>3, <2>2 DEF OpToRel
  <2> QED
    BY <1>2, <2>3
<1> QED
  BY <1>4

\* A claimed request waits only for an inventory row: nobody else holds its transaction
\* or, hence, a reservation of it.  The holder has claimed its transaction too, and is
\* at this row or past it.
LEMMA WaitsForRow ==
  ASSUME IInv, Typed, LocksInOrder, NEW s \in Sessions, NEW other \in Sessions,
         WaitsFor(s, other)
  PROVE  /\ s # other /\ session[other].claimed
         /\ session[s].claimed =>
              \E call \in session[s].todo :
                /\ call.row \in Rows
                /\ InventoryLock(call.row) \in held[other]
                /\ \A next \in session[other].todo :
                     next.act # "release" /\ NotAfter(call.row, next.row)
<1>1. s # other /\ held[other] # {}
  BY DEF WaitsFor
<1>2. session[other].claimed
  BY <1>1 DEF Typed, NotStarted
<1>3. ASSUME session[s].claimed
      PROVE  \E call \in session[s].todo :
                /\ call.row \in Rows
                /\ InventoryLock(call.row) \in held[other]
                /\ \A next \in session[other].todo :
                     next.act # "release" /\ NotAfter(call.row, next.row)
  <2>1. PICK lock \in Wanted(s) : lock \in held[other]
    BY DEF WaitsFor
  <2>2. PICK call \in session[s].todo :
          \/ Ends(call) /\ lock = ReservationLock(call.id)
          \/ lock = InventoryLock(call.row)
    BY <1>3, <2>1 DEF Wanted, Ends
  <2>3. LockFits(other, lock) /\ CallTyped(call) /\ CallFits(s, call)
    BY <2>1 DEF LocksInOrder, Typed, SessionTyped
  <2>4. lock # ReservationLock(call.id) \/ ~Ends(call)
    <3>1. SUFFICES ASSUME lock = ReservationLock(call.id), Ends(call) PROVE FALSE
      OBVIOUS
    <3>2. /\ call.id[1] = session[s].txn
          /\ session[s].op \in {"complete", "cancel", "update"}
      BY <2>3, <3>1 DEF CallFits
    <3>3. /\ session[other].op \in {"complete", "cancel", "update"}
          /\ call.id[1] = session[other].txn
      BY <2>3, <3>1 DEF LockFits, ReservationLock, TransactionLock, InventoryLock
    <3>4. /\ TransactionLock(session[s].txn) \in held[s]
          /\ TransactionLock(session[s].txn) \in held[other]
      BY <1>2, <1>3, <3>2, <3>3 DEF IInv, ClaimsHold, OwnsTransaction
    <3> QED
      BY <1>1, <3>4 DEF IInv, ClaimsHold, LocksExclusive
  <2>5. lock = InventoryLock(call.row)
    BY <2>2, <2>4
  <2>6. \A next \in session[other].todo :
          next.act # "release" /\ NotAfter(call.row, next.row)
    BY <2>3, <2>5 DEF LockFits, ReservationLock, TransactionLock, InventoryLock
  <2> QED
    BY <2>1, <2>3, <2>5, <2>6 DEF CallTyped
<1> QED
  BY <1>1, <1>2, <1>3

LEMMA NoCircle == IInv /\ Typed /\ LocksInOrder => NoDeadlock
<1> SUFFICES ASSUME IInv, Typed, LocksInOrder,
                    NEW S \in (SUBSET Sessions) \ {{}}
             PROVE  \E s \in S : \A other \in S : ~WaitsFor(s, other)
  BY DEF NoDeadlock
<1>0. S \subseteq Sessions /\ S # {}
  OBVIOUS
<1> SUFFICES ASSUME \A s \in S : \E other \in S : WaitsFor(s, other) PROVE FALSE
  OBVIOUS
<1> DEFINE C == {s \in S : session[s].claimed}
           WaitsAt(s, row) == \E other \in C : /\ s # other
                                              /\ InventoryLock(row) \in held[other]
                                              /\ \A next \in session[other].todo :
                                                   NotAfter(row, next.row)
           Rowed(s, row) == /\ row \in Rows /\ \E call \in session[s].todo : call.row = row
                            /\ WaitsAt(s, row)
           row == [s \in C |-> CHOOSE r : Rowed(s, r)]
<1>1. C # {}
  <2>1. PICK s \in S : s \in Sessions
    BY <1>0
  <2>2. PICK other \in S : WaitsFor(s, other)
    BY <2>1
  <2>3. session[other].claimed
    BY <1>0, <2>1, <2>2, WaitsForRow
  <2> QED
    BY <2>3
<1>2. ASSUME NEW s \in C PROVE \E r : Rowed(s, r)
  <2>1. PICK other \in S : WaitsFor(s, other)
    OBVIOUS
  <2>2. /\ s # other /\ other \in C
        /\ \E call \in session[s].todo :
             /\ call.row \in Rows
             /\ InventoryLock(call.row) \in held[other]
             /\ \A next \in session[other].todo : NotAfter(call.row, next.row)
    BY <1>0, <2>1, WaitsForRow
  <2> QED
    BY <2>2
<1>3. \A s \in C : Rowed(s, row[s])
  <2> SUFFICES ASSUME NEW s \in C PROVE Rowed(s, row[s])
    OBVIOUS
  <2>1. \E r : Rowed(s, r)
    BY <1>2
  <2>2. row[s] = CHOOSE r : Rowed(s, r)
    OBVIOUS
  <2> HIDE DEF Rowed, row
  <2> QED
    BY <2>1, <2>2
<1>4. \A s \in C : row[s] \in Nat \X Nat
  <2>1. \A s \in C : row[s] \in Rows
    BY <1>3
  <2>2. Rows \subseteq Nat \X Nat
    BY IdsAssumption DEF Rows
  <2> HIDE DEF row, C
  <2> QED
    BY <2>1, <2>2
<1>5. IsFiniteSet(C)
  BY <1>0, FiniteAssumption, FS_Subset
<1> HIDE DEF row
<1>6. PICK s \in C : \A u \in C : ~Precedes(row[s], row[u])
  <2> HIDE DEF C
  <2> QED
    BY <1>1, <1>4, <1>5, LastOfMany
<1>7. PICK other \in C : /\ s # other
                         /\ InventoryLock(row[s]) \in held[other]
                         /\ \A next \in session[other].todo : NotAfter(row[s], next.row)
  BY <1>3
<1>8. NotAfter(row[s], row[other])
  BY <1>3, <1>7
<1>9. row[s] # row[other]
  BY <1>0, <1>3, <1>7 DEF IInv, ClaimsHold, LocksExclusive
<1> QED
  BY <1>6, <1>8, <1>9 DEF Precedes

\* Whatever requests interleave, they never wait for each other in a circle: every
\* handler locks its transaction first and the inventory rows in one order, and the
\* reservations it locks are of the transaction it has.
THEOREM WaitsAreOrdered == Spec => []NoDeadlock
<1>1. Init => LocksInOrder
  BY DEF Init, LocksInOrder
<1>2. IInv /\ Typed /\ LocksInOrder /\ [Next]_vars => (IInv /\ Typed /\ LocksInOrder)'
  BY IInvInductive, TypedInductive, OrderInductive
<1> QED
  BY <1>1, <1>2, NoCircle, InitOwns, InitTyped, PTL DEF Spec

----------------------------------------------------------------------------
(* Reservations.  What a request keeps of its transaction's reservations, with *)
(* the ones it is still to make, is what the row it writes calls for.  A row  *)
(* that is committed is on its way with nothing left to do.                  *)

Works(s) == session[s].claimed /\ session[s].op \in {"create", "complete", "cancel", "update"}
Written(s) == session[s].writes.transactions[session[s].txn]

Reserving(row) == row.status = "PENDING" /\ row.type # "INCOMING"

Covers(reservation, row, i) ==
  /\ reservation.row = <<row.items[i].product, row.src>>
  /\ reservation.quantity = row.items[i].quantity

ReserveCall(row, i) ==
  Call("reserve", "none", <<row.items[i].product, row.src>>, row.items[i].quantity, NoId)

OnItsWay(table, kept, todo, row) ==
  /\ DistinctProducts(row)
  /\ Reserving(row) =>
       /\ \A id \in kept : \E i \in DOMAIN row.items : Covers(table[id], row, i)
       /\ \A id, other \in kept : table[id].row[1] = table[other].row[1] => id = other
       /\ \A i \in DOMAIN row.items :
            \/ \E id \in kept : Covers(table[id], row, i)
            \/ ReserveCall(row, i) \in todo
       /\ \A call \in todo : call.act = "reserve" =>
            /\ \E i \in DOMAIN row.items : call = ReserveCall(row, i)
            /\ \A id \in kept : table[id].row[1] # call.row[1]
  /\ ~Reserving(row) => kept = {} /\ \A call \in todo : call.act # "reserve"

\* The active reservations of its transaction a request does not mean to end.
Ending(s) == {call.id : call \in {c \in session[s].todo : Ends(c)}}
Kept(s) == ActiveOf(SeenReservations(s), session[s].txn) \ Ending(s)

Underway(s) == OnItsWay(SeenReservations(s), Kept(s), session[s].todo, Written(s))

Mirrored(t) == OnItsWay(reservations, ActiveOf(reservations, t), {}, transactions[t])

Owned(s) ==
  /\ \A id \in DOMAIN session[s].writes.reservations :
       id[1] = session[s].txn /\ session[s].op # "adjust"
  /\ session[s].op = "adjust" => \A call \in session[s].todo : call.act = "record"

Mirroring ==
  /\ \A id \in DOMAIN reservations : id[1] \in DOMAIN transactions
  /\ \A t \in DOMAIN transactions : Mirrored(t)
  /\ \A s \in Sessions : Owned(s) /\ (Works(s) => Underway(s))

LEMMA SameWay ==
  ASSUME NEW a, NEW b, NEW kept, NEW todo, NEW left, NEW row,
         \A id \in kept : b[id].row = a[id].row /\ b[id].quantity = a[id].quantity,
         left \subseteq todo, \A call \in todo \ left : call.act # "reserve",
         OnItsWay(a, kept, todo, row)
  PROVE  OnItsWay(b, kept, left, row)
<1>1. \A i \in DOMAIN row.items : ReserveCall(row, i).act = "reserve"
  BY DEF ReserveCall, Call
<1>2. CASE Reserving(row)
  <2>1. \A i \in DOMAIN row.items : ReserveCall(row, i) \in todo => ReserveCall(row, i) \in left
    BY <1>1
  <2> QED
    BY <1>2, <2>1 DEF OnItsWay, Covers
<1>3. CASE ~Reserving(row)
  BY <1>3 DEF OnItsWay
<1> QED
  BY <1>2, <1>3

LEMMA ReservedWay ==
  ASSUME NEW a, NEW b, NEW kept, NEW todo, NEW row, NEW call \in todo, NEW id,
         call.act = "reserve", id \notin kept,
         b[id].row = call.row, b[id].quantity = call.quantity,
         \A k \in kept : b[k] = a[k],
         OnItsWay(a, kept, todo, row)
  PROVE  OnItsWay(b, kept \cup {id}, todo \ {call}, row)
<1>0. Reserving(row) /\ DistinctProducts(row)
  BY DEF OnItsWay
<1>1. PICK i \in DOMAIN row.items : call = ReserveCall(row, i)
  BY <1>0 DEF OnItsWay
<1>2. /\ Covers(b[id], row, i)
      /\ call.row[1] = row.items[i].product /\ b[id].row[1] = call.row[1]
  BY <1>1 DEF Covers, ReserveCall, Call
<1>3. /\ \A k \in kept : b[k].row[1] # call.row[1]
      /\ \A k \in kept : \E j \in DOMAIN row.items : Covers(b[k], row, j)
      /\ \A k, other \in kept : b[k].row[1] = b[other].row[1] => k = other
  BY <1>0 DEF OnItsWay
<1>4. \A j \in DOMAIN row.items :
        \/ \E k \in kept \cup {id} : Covers(b[k], row, j)
        \/ ReserveCall(row, j) \in todo \ {call}
  <2> SUFFICES ASSUME NEW j \in DOMAIN row.items
               PROVE  \/ \E k \in kept \cup {id} : Covers(b[k], row, j)
                      \/ ReserveCall(row, j) \in todo \ {call}
    OBVIOUS
  <2>1. CASE \E k \in kept : Covers(a[k], row, j)
    BY <2>1
  <2>2. CASE ReserveCall(row, j) \in todo /\ ReserveCall(row, j) # call
    BY <2>2
  <2>3. CASE ReserveCall(row, j) = call
    <3>1. Covers(b[id], row, j)
      BY <2>3 DEF Covers, ReserveCall, Call
    <3> QED
      BY <3>1
  <2> QED
    BY <1>0, <2>1, <2>2, <2>3 DEF OnItsWay
<1>5. ASSUME NEW c \in todo \ {call}, c.act = "reserve"
      PROVE  /\ \E j \in DOMAIN row.items : c = ReserveCall(row, j)
             /\ \A k \in kept \cup {id} : b[k].row[1] # c.row[1]
  <2>1. PICK j \in DOMAIN row.items : c = ReserveCall(row, j)
    BY <1>0, <1>5 DEF OnItsWay
  <2>2. i # j
    BY <1>1, <1>5, <2>1
  <2>3. c.row[1] = row.items[j].product
    BY <2>1 DEF ReserveCall, Call
  <2>4. c.row[1] # b[id].row[1]
    BY <1>0, <1>2, <2>2, <2>3 DEF DistinctProducts
  <2>5. \A k \in kept : b[k].row[1] # c.row[1]
    BY <1>0, <1>5 DEF OnItsWay
  <2> QED
    BY <2>1, <2>4, <2>5
<1> QED
  BY <1>0, <1>2, <1>3, <1>4, <1>5 DEF OnItsWay

\* Tables that agree on a transaction.
Agree(a, b, t) ==
  /\ \A id \in DOMAIN a \cup DOMAIN b : id[1] = t => id \in DOMAIN a \cap DOMAIN b
  /\ \A id \in DOMAIN a \cap DOMAIN b : id[1] = t => a[id] = b[id]

LEMMA SameActive ==
  ASSUME NEW a, NEW b, NEW t, Agree(a, b, t)
  PROVE  /\ ActiveOf(a, t) = ActiveOf(b, t)
         /\ \A id \in ActiveOf(a, t) : a[id] = b[id]
BY DEF Agree, ActiveOf

\* What one request does leaves the others' reservations alone.
LEMMA OthersUnderway ==
  ASSUME Mirroring, NEW s \in Sessions, OthersKept(s),
         \A x \in Sessions \ {s} : Works(x) => Agree(reservations, reservations', session[x].txn)
  PROVE  \A x \in Sessions \ {s} : Owned(x)' /\ (Works(x)' => Underway(x)')
<1> SUFFICES ASSUME NEW x \in Sessions \ {s}
             PROVE  Owned(x)' /\ (Works(x)' => Underway(x)')
  OBVIOUS
<1>1. session'[x] = session[x]
  BY DEF OthersKept
<1>2. Owned(x)'
  BY <1>1 DEF Mirroring, Owned
<1>3. ASSUME Works(x)' PROVE Underway(x)'
  <2>1. Works(x) /\ Underway(x)
    BY <1>1, <1>3 DEF Mirroring, Works
  <2> DEFINE t == session[x].txn
             w == session[x].writes.reservations
             seen == Over(w, reservations)
             seen2 == Over(w, reservations')
  <2>2. Agree(seen, seen2, t)
    BY <2>1 DEF Agree, Over
  <2>3. /\ ActiveOf(seen, t) = ActiveOf(seen2, t)
        /\ \A id \in ActiveOf(seen, t) : seen[id] = seen2[id]
    BY <2>2, SameActive
  <2>4. /\ SeenReservations(x) = seen /\ SeenReservations(x)' = seen2
        /\ Ending(x)' = Ending(x) /\ Written(x)' = Written(x)
        /\ session'[x].todo = session[x].todo
    BY <1>1 DEF SeenReservations, Ending, Written
  <2>5. Kept(x)' = Kept(x)
    BY <1>1, <2>3, <2>4 DEF Kept
  <2>6. \A id \in Kept(x) : seen2[id] = seen[id]
    BY <2>3, <2>4 DEF Kept
  <2>7. OnItsWay(seen, Kept(x), session[x].todo, Written(x))
    BY <2>1, <2>4 DEF Underway
  <2> HIDE DEF seen, seen2, w, t
  <2>8. OnItsWay(seen2, Kept(x), session[x].todo, Written(x))
    BY <2>6, <2>7, SameWay
  <2> QED
    BY <2>4, <2>5, <2>8 DEF Underway
<1> QED
  BY <1>2, <1>3

\* Statements that leave the reservations alone.
LEMMA StaysUnderway ==
  ASSUME NEW s \in Sessions, Mid(s), Underway(s),
         session'[s].writes.reservations = session[s].writes.reservations,
         session'[s].todo \subseteq session[s].todo,
         \A call \in session[s].todo \ session'[s].todo : ~Ends(call) /\ call.act # "reserve"
  PROVE  Underway(s)'
<1>1. /\ SeenReservations(s)' = SeenReservations(s) /\ Written(s)' = Written(s)
      /\ session'[s].txn = session[s].txn
  BY DEF Mid, tables, SeenReservations, Written
<1>2. Ending(s)' = Ending(s)
  BY DEF Ending
<1>3. Kept(s)' = Kept(s)
  BY <1>1, <1>2 DEF Kept
<1> DEFINE seen == SeenReservations(s)
<1>4. OnItsWay(seen, Kept(s), session[s].todo, Written(s))
  BY DEF Underway
<1>5. OnItsWay(seen, Kept(s), session'[s].todo, Written(s))
  <2> HIDE DEF seen
  <2> QED
    BY <1>4, SameWay
<1> QED
  BY <1>1, <1>3, <1>5 DEF Underway

\* A reservation that is ended, or made, in the rows a session lays over the table.
LEMMA EndedActive ==
  ASSUME NEW f, NEW w, NEW r, NEW t, NEW id, DOMAIN f = {id}, f[id].status # "ACTIVE"
  PROVE  /\ ActiveOf(Over(Over(f, w), r), t) = ActiveOf(Over(w, r), t) \ {id}
         /\ \A k \in ActiveOf(Over(w, r), t) \ {id} : Over(Over(f, w), r)[k] = Over(w, r)[k]
BY DEF Over, ActiveOf

LEMMA MadeActive ==
  ASSUME NEW f, NEW w, NEW r, NEW t, NEW id, DOMAIN f = {id}, f[id].status = "ACTIVE",
         id[1] = t, id \notin DOMAIN Over(w, r)
  PROVE  /\ ActiveOf(Over(Over(f, w), r), t) = ActiveOf(Over(w, r), t) \cup {id}
         /\ Over(Over(f, w), r)[id] = f[id]
         /\ \A k \in ActiveOf(Over(w, r), t) : Over(Over(f, w), r)[k] = Over(w, r)[k]
BY DEF Over, ActiveOf

LEMMA FlipUnderway ==
  ASSUME Typed, NEW s \in Sessions, Mid(s), Underway(s),
         NEW call \in session[s].todo, Ends(call),
         NEW status \in {"CANCELLED", "FULFILLED"},
         session'[s].writes.reservations =
           Over(Flipped(s, call.id, status), session[s].writes.reservations),
         session'[s].todo = Done(call, session[s].todo)
  PROVE  Underway(s)'
<1> DEFINE f == Flipped(s, call.id, status)
           w == session[s].writes.reservations
           t == session[s].txn
           id == call.id
           a == Over(w, reservations)
           b == Over(Over(f, w), reservations)
<1>1. DOMAIN f = {id} /\ f[id].status # "ACTIVE"
  BY FlipTyped
<1>2. /\ SeenReservations(s) = a /\ SeenReservations(s)' = b
      /\ Written(s)' = Written(s) /\ session'[s].txn = t
  BY DEF Mid, tables, SeenReservations, Written
<1>3. ActiveOf(b, t) = ActiveOf(a, t) \ {id}
      /\ \A k \in ActiveOf(a, t) \ {id} : b[k] = a[k]
  <2> HIDE DEF f, w, t, id
  <2>1. DOMAIN f = {id} /\ f[id].status # "ACTIVE"
    BY <1>1
  <2> QED
    BY <2>1 DEF Over, ActiveOf
<1>4. Ending(s) = Ending(s)' \cup {id}
  BY DEF Ending, Done
<1> HIDE DEF a, b, f, w
<1>5. Kept(s)' = Kept(s) /\ \A k \in Kept(s) : b[k] = a[k]
  <2>1. Kept(s) = ActiveOf(a, t) \ Ending(s)
    BY <1>2 DEF Kept
  <2>2. Kept(s)' = ActiveOf(b, t) \ Ending(s)'
    BY <1>2 DEF Kept
  <2> HIDE DEF id, t
  <2> QED
    BY <1>3, <1>4, <2>1, <2>2
<1>6. OnItsWay(a, Kept(s), session[s].todo, Written(s))
  BY <1>2 DEF Underway
<1>7. \A c \in session[s].todo \ session'[s].todo : c.act # "reserve"
  BY DEF Done, Ends
<1>8. session'[s].todo \subseteq session[s].todo
  BY DEF Done
<1>9. OnItsWay(b, Kept(s), session'[s].todo, Written(s))
  BY <1>5, <1>6, <1>7, <1>8, SameWay
<1> QED
  BY <1>2, <1>5, <1>9 DEF Underway

LEMMA ReserveUnderway ==
  ASSUME IInv, Typed, NEW s \in Sessions, Underway(s),
         NEW call \in session[s].todo, Reserve(s, call)
  PROVE  Underway(s)'
<1>1. /\ Mid(s) /\ session'[s].todo = Done(call, session[s].todo)
      /\ call.act = "reserve"
  BY ReserveEffect DEF IInv, Reserve, Running
<1> DEFINE new == [row |-> call.row, quantity |-> call.quantity, status |-> "ACTIVE"]
<1>2. PICK id \in Txns \X (1..MaxReservations) :
        /\ NewReservation(s, id)
        /\ session'[s].writes.reservations
             = Over(Entry(id, new), session[s].writes.reservations)
  BY ReserveEffect DEF IInv
<1> DEFINE f == Entry(id, new)
           w == session[s].writes.reservations
           t == session[s].txn
           a == Over(w, reservations)
           b == Over(Over(f, w), reservations)
<1>3. /\ DOMAIN f = {id} /\ f[id] = new /\ new.status = "ACTIVE"
      /\ new.row = call.row /\ new.quantity = call.quantity
  BY EntryRow
<1>4. /\ SeenReservations(s) = a /\ SeenReservations(s)' = b
      /\ Written(s)' = Written(s) /\ session'[s].txn = t
  BY <1>1, <1>2 DEF Mid, tables, SeenReservations, Written
<1>5. id[1] = t /\ id \notin DOMAIN a
  BY <1>2, <1>4 DEF NewReservation
<1> HIDE DEF f, w, t, new
<1>6. /\ ActiveOf(b, t) = ActiveOf(a, t) \cup {id} /\ b[id] = new
      /\ \A k \in ActiveOf(a, t) : b[k] = a[k]
  BY <1>3, <1>5, MadeActive
<1> HIDE DEF b
<1>7. Ending(s)' = Ending(s)
  BY <1>1 DEF Ending, Done, Ends
<1>8. id \notin Ending(s)
  <2>1. \A c \in session[s].todo : Ends(c) => c.id \in DOMAIN reservations
    BY DEF Typed, SessionTyped, CallFits
  <2>2. DOMAIN reservations \subseteq DOMAIN a
    BY OverRows
  <2> QED
    BY <1>5, <2>1, <2>2 DEF Ending
<1> HIDE DEF a
<1>9. /\ Kept(s)' = Kept(s) \cup {id} /\ id \notin Kept(s)
      /\ \A k \in Kept(s) : b[k] = a[k]
  <2>1. Kept(s) = ActiveOf(a, t) \ Ending(s)
    BY <1>4 DEF Kept, t
  <2>2. Kept(s)' = ActiveOf(b, t) \ Ending(s)'
    BY <1>4 DEF Kept, t
  <2>3. id \notin ActiveOf(a, t)
    BY <1>5 DEF ActiveOf
  <2> QED
    BY <1>6, <1>7, <1>8, <2>1, <2>2, <2>3
<1>10. OnItsWay(a, Kept(s), session[s].todo, Written(s))
  BY <1>4 DEF Underway
<1>11. OnItsWay(b, Kept(s) \cup {id}, session[s].todo \ {call}, Written(s))
  BY <1>1, <1>3, <1>6, <1>9, <1>10, ReservedWay
<1> QED
  BY <1>1, <1>4, <1>9, <1>11 DEF Underway, Done

LEMMA MidMirrored ==
  ASSUME Mirroring, NEW s \in Sessions, Mid(s),
         \A id \in DOMAIN session'[s].writes.reservations :
           id[1] = session[s].txn /\ session[s].op # "adjust",
         session'[s].todo \subseteq session[s].todo,
         Works(s) => Underway(s)'
  PROVE  Mirroring'
<1>1. \A t : Agree(reservations, reservations', t)
  BY DEF Mid, tables, Agree
<1>2. \A x \in Sessions \ {s} : Owned(x)' /\ (Works(x)' => Underway(x)')
  BY <1>1, OthersUnderway DEF Mid
<1>3. Owned(s)'
  BY DEF Mirroring, Owned, Mid
<1>4. Works(s)' => Underway(s)'
  BY DEF Works, Mid
<1>5. /\ \A id \in DOMAIN reservations' : id[1] \in DOMAIN transactions'
      /\ \A t \in DOMAIN transactions' : Mirrored(t)'
  BY DEF Mid, tables, Mirroring, Mirrored
<1> QED
  BY <1>2, <1>3, <1>4, <1>5 DEF Mirroring

LEMMA StatementsMirrored ==
  ASSUME IInv, Typed, Mirroring, NEW s \in Sessions, NEW call \in session[s].todo,
         \/ LockInventoryRow(s, call) \/ FindNoInventoryRow(s, call)
         \/ Reserve(s, call) \/ Release(s, call)
         \/ RecordMovement(s, call) \/ Fulfil(s, call)
  PROVE  Mirroring'
<1> USE DEF IInv
<1>0. /\ Owned(s) /\ (Works(s) => Underway(s)) /\ CallFits(s, call)
      /\ \A id \in DOMAIN session[s].writes.reservations :
           id[1] = session[s].txn /\ session[s].op # "adjust"
      /\ session[s].op = "adjust" => call.act = "record"
  BY DEF Mirroring, Owned, Typed, SessionTyped
<1>1. CASE LockInventoryRow(s, call) \/ FindNoInventoryRow(s, call)
  <2>1. /\ Mid(s) /\ session'[s].todo = session[s].todo
        /\ session'[s].writes.reservations = session[s].writes.reservations
    BY <1>1, LockEffect, FindEffect
  <2>2. Works(s) => Underway(s)'
    BY <1>0, <2>1, StaysUnderway
  <2> QED
    BY <1>0, <2>1, <2>2, MidMirrored
<1>2. CASE RecordMovement(s, call)
  <2>1. /\ Mid(s) /\ session'[s].todo = Done(call, session[s].todo)
        /\ session'[s].writes.reservations = session[s].writes.reservations
        /\ call.act = "record"
    <3>1. Moves(s, call) /\ session'[s].writes.reservations = session[s].writes.reservations
      BY <1>2, RecordEffect
    <3> QED
      BY <1>2, <3>1, MovesMeans, CallMade
  <2>2. Works(s) => Underway(s)'
    BY <1>0, <2>1, StaysUnderway DEF Done, Ends
  <2> QED
    BY <1>0, <2>1, <2>2, MidMirrored DEF Done
<1>3. CASE Reserve(s, call)
  <2>1. /\ Mid(s) /\ session'[s].todo = Done(call, session[s].todo)
        /\ call.act = "reserve"
    <3>1. Mid(s) /\ session'[s].todo = Done(call, session[s].todo)
      BY <1>3, ReserveEffect
    <3> QED
      BY <1>3, <3>1, CallMade
  <2> DEFINE new == [row |-> call.row, quantity |-> call.quantity, status |-> "ACTIVE"]
  <2>4. PICK id \in Txns \X (1..MaxReservations) :
          /\ NewReservation(s, id)
          /\ session'[s].writes.reservations
               = Over(Entry(id, new), session[s].writes.reservations)
    BY <1>3, ReserveEffect
  <2>2. Works(s) => Underway(s)'
    BY <1>0, <1>3, ReserveUnderway
  <2>3. \A k \in DOMAIN session'[s].writes.reservations :
          k[1] = session[s].txn /\ session[s].op # "adjust"
    BY <1>0, <2>1, <2>4 DEF Over, Entry, NewReservation
  <2> QED
    BY <2>1, <2>2, <2>3, MidMirrored DEF Done
<1>4. CASE Release(s, call) \/ Fulfil(s, call)
  <2>1. /\ Mid(s) /\ session'[s].todo = Done(call, session[s].todo) /\ Ends(call)
    <3>1. CASE Release(s, call)
      BY <3>1, ReleaseEffect, CallMade DEF Ends
    <3>2. CASE Fulfil(s, call)
      BY <3>2, FulfilEffect, MovesMeans, CallMade DEF Ends
    <3> QED
      BY <1>4, <3>1, <3>2
  <2>2. PICK status \in {"CANCELLED", "FULFILLED"} :
          session'[s].writes.reservations
            = Over(Flipped(s, call.id, status), session[s].writes.reservations)
    BY <1>4, ReleaseEffect, FulfilEffect
  <2>3. Works(s) => Underway(s)'
    BY <1>0, <2>1, <2>2, FlipUnderway
  <2>4. call.id[1] = session[s].txn /\ session[s].op # "adjust"
    BY <1>0, <2>1 DEF CallFits
  <2>5. \A id \in DOMAIN session'[s].writes.reservations :
          id[1] = session[s].txn /\ session[s].op # "adjust"
    BY <1>0, <2>2, <2>4 DEF Over, Entry, Flipped
  <2> QED
    BY <2>1, <2>3, <2>5, MidMirrored DEF Done
<1> QED
  BY <1>1, <1>2, <1>3, <1>4

\* Claims and creations: a request starts with nothing written.
LEMMA StartsMirrored ==
  ASSUME Mirroring, NEW s \in Sessions, OthersKept(s), UNCHANGED tables,
         DOMAIN session'[s].writes.reservations = {}, session'[s].op # "adjust",
         NEW t, NEW row, NEW calls, session'[s].txn = t, session'[s].todo = calls,
         Works(s)' => session'[s].writes.transactions = Entry(t, row),
         Works(s)' => OnItsWay(reservations,
            ActiveOf(reservations, t) \ {c.id : c \in {call \in calls : Ends(call)}}, calls, row)
  PROVE  Mirroring'
<1>1. \A u : Agree(reservations, reservations', u)
  BY DEF tables, Agree
<1>2. \A x \in Sessions \ {s} : Owned(x)' /\ (Works(x)' => Underway(x)')
  BY <1>1, OthersUnderway
<1>3. Owned(s)'
  BY DEF Owned
<1>4. ASSUME Works(s)' PROVE Underway(s)'
  <2> DEFINE w == session'[s].writes.reservations
             a == reservations
             b == Over(w, reservations)
             ended == {c.id : c \in {call \in calls : Ends(call)}}
             kept == ActiveOf(a, t) \ ended
  <2>1. DOMAIN w = {}
    OBVIOUS
  <2>2. Agree(a, b, t)
    <3> HIDE DEF w
    <3> QED
      BY <2>1 DEF Agree, Over
  <2>3. /\ SeenReservations(s)' = b /\ Written(s)' = row /\ Ending(s)' = ended
    BY <1>4, EntryRow DEF SeenReservations, Written, Ending, tables
  <2>4. ActiveOf(a, t) = ActiveOf(b, t) /\ \A id \in ActiveOf(a, t) : a[id] = b[id]
    <3> HIDE DEF a, b
    <3> QED
      BY <2>2, SameActive
  <2>5. Kept(s)' = kept
    BY <2>3, <2>4 DEF Kept
  <2>6. OnItsWay(a, kept, calls, row)
    BY <1>4
  <2>7. \A id \in kept : a[id] = b[id]
    BY <2>4
  <2> HIDE DEF a, b, kept, ended
  <2>8. OnItsWay(b, kept, calls, row)
    BY <2>6, <2>7, SameWay
  <2> QED
    BY <2>3, <2>5, <2>8 DEF Underway
<1>5. /\ \A id \in DOMAIN reservations' : id[1] \in DOMAIN transactions'
      /\ \A u \in DOMAIN transactions' : Mirrored(u)'
  BY DEF tables, Mirroring, Mirrored
<1> QED
  BY <1>2, <1>3, <1>4, <1>5 DEF Mirroring

LEMMA ClaimMirrored ==
  ASSUME IInv, Typed, Mirroring, NEW s \in Sessions, NEW row, NEW calls, Claim(s, row, calls),
         ~session[s].claimed, session[s].op \in {"complete", "cancel", "update"},
         OnItsWay(reservations, ActiveOf(reservations, session[s].txn)
            \ {c.id : c \in {call \in calls : Ends(call)}}, calls, row)
  PROVE  Mirroring'
<1>1. /\ OthersKept(s) /\ UNCHANGED tables
      /\ session'[s].op = session[s].op /\ session'[s].txn = session[s].txn
  BY ClaimStep DEF IInv
<1>2. /\ session'[s].todo = calls
      /\ session'[s].writes.transactions = Entry(session[s].txn, row)
      /\ session'[s].writes.reservations = session[s].writes.reservations
  BY ClaimEffect DEF IInv
<1>3. DOMAIN session[s].writes.reservations = {}
  BY NothingWritten DEF Typed, NotStarted
<1> QED
  BY <1>1, <1>2, <1>3, StartsMirrored

\* The reservations a handler finds for items are theirs alone.
LEMMA FoundAre ==
  ASSUME NEW t, NEW row, NEW which \in SUBSET DOMAIN row.items,
         OnItsWay(reservations, ActiveOf(reservations, t), {}, row), Reserving(row),
         \A i \in which : HasActiveReservation(t, row.items[i].product),
         NEW items, DOMAIN items = which, \A i \in which : items[i] = row.items[i],
         NEW id \in ActiveOf(reservations, t), NEW i \in DOMAIN row.items,
         Covers(reservations[id], row, i)
  PROVE  id \in ReservationsFor(t, items) <=> i \in which
<1>1. \A j \in which :
        /\ ActiveReservation(t, items[j].product) \in ActiveOf(reservations, t)
        /\ reservations[ActiveReservation(t, items[j].product)].row[1] = row.items[j].product
  <2>1. \A j \in DOMAIN items : HasActiveReservation(t, items[j].product)
    BY DEF HasActiveReservation
  <2>2. \A j \in DOMAIN items :
          /\ ActiveReservation(t, items[j].product) \in ActiveOf(reservations, t)
          /\ reservations[ActiveReservation(t, items[j].product)].row[1] = items[j].product
    BY <2>1 DEF HasActiveReservation, ActiveReservation
  <2>3. \A j \in which : items[j].product = row.items[j].product
    OBVIOUS
  <2> QED
    BY <2>2, <2>3
<1>2. reservations[id].row[1] = row.items[i].product
  BY DEF Covers
<1>3. /\ DistinctProducts(row)
      /\ \A x, y \in ActiveOf(reservations, t) :
           reservations[x].row[1] = reservations[y].row[1] => x = y
  BY DEF OnItsWay
<1>4. ReservationsFor(t, items) = {ActiveReservation(t, items[j].product) : j \in which}
  BY DEF ReservationsFor
<1>5. ASSUME i \in which PROVE id \in ReservationsFor(t, items)
  <2>1. ActiveReservation(t, items[i].product) = id
    BY <1>1, <1>2, <1>3, <1>5
  <2> QED
    BY <1>4, <1>5, <2>1
<1>6. ASSUME id \in ReservationsFor(t, items) PROVE i \in which
  <2>1. PICK j \in which : id = ActiveReservation(t, items[j].product)
    BY <1>4, <1>6
  <2>2. row.items[j].product = row.items[i].product
    BY <1>1, <1>2, <2>1
  <2> QED
    BY <1>3, <2>1, <2>2 DEF DistinctProducts
<1> QED
  BY <1>5, <1>6

LEMMA ReleasesAll ==
  ASSUME NEW table, NEW ids
  PROVE  \A id \in ids : \E call \in Releases(table, ids) : Ends(call) /\ call.id = id
<1> SUFFICES ASSUME NEW id \in ids
             PROVE  \E call \in Releases(table, ids) : Ends(call) /\ call.id = id
  OBVIOUS
<1> DEFINE gone == Call("release", "none", table[id].row, table[id].quantity, id)
<1>1. gone \in Releases(table, ids)
  BY DEF Releases
<1>2. Ends(gone) /\ gone.id = id
  BY DEF Ends, Call
<1> QED
  BY <1>1, <1>2

LEMMA FulfilsAll ==
  ASSUME NEW table, NEW ids, NEW type
  PROVE  \A id \in ids : \E call \in Fulfils(type, table, ids) : Ends(call) /\ call.id = id
<1> SUFFICES ASSUME NEW id \in ids
             PROVE  \E call \in Fulfils(type, table, ids) : Ends(call) /\ call.id = id
  OBVIOUS
<1> DEFINE done == Call("fulfil", type, table[id].row, table[id].quantity, id)
<1>1. done \in Fulfils(type, table, ids)
  BY DEF Fulfils
<1>2. Ends(done) /\ done.id = id
  BY DEF Ends, Call
<1> QED
  BY <1>1, <1>2

LEMMA CompleteMirrored ==
  ASSUME IInv, Typed, Mirroring, NEW s \in Sessions, Complete(s)
  PROVE  Mirroring'
<1> DEFINE t == session[s].txn
           row == transactions[t]
           after == [row EXCEPT !.status = "COMPLETED"]
           ids == ReservationsFor(t, row.items)
           calls == CompleteCalls(t)
           active == ActiveOf(reservations, t)
<1>1. /\ session[s].op = "complete" /\ ~session[s].claimed /\ Claim(s, after, calls)
      /\ row.status = "PENDING"
      /\ \/ row.type = "INCOMING"
         \/ \A i \in DOMAIN row.items : HasActiveReservation(t, row.items[i].product)
  BY Zenon DEF Complete, AtClaim, Claimable
<1>2. TransactionRow(row) /\ t \in DOMAIN transactions
  BY <1>1, ClaimedRow
<1>3. OnItsWay(reservations, active, {}, row)
  BY <1>2 DEF Mirroring, Mirrored
<1>4. after.status = "COMPLETED" /\ after.items = row.items
  BY <1>2, StatusWritten
<1>5. DistinctProducts(after) /\ ~Reserving(after)
  BY <1>3, <1>4 DEF OnItsWay, DistinctProducts, Reserving
<1>6. \A call \in calls : call.act # "reserve"
  BY <1>2 DEF CompleteCalls, Records, Fulfils, Call, TransactionRow, IsTransaction, TransactionTypes
<1>7. active \ {c.id : c \in {call \in calls : Ends(call)}} = {}
  <2>1. CASE row.type = "INCOMING"
    BY <1>3, <2>1 DEF OnItsWay, Reserving
  <2>2. CASE row.type # "INCOMING"
    <3>1. active \subseteq ids
      <4> SUFFICES ASSUME NEW id \in active PROVE id \in ids
        OBVIOUS
      <4>1. Reserving(row)
        BY <1>1, <2>2 DEF Reserving
      <4>2. PICK i \in DOMAIN row.items : Covers(reservations[id], row, i)
        BY <1>3, <4>1 DEF OnItsWay
      <4>3. \A j \in DOMAIN row.items : HasActiveReservation(t, row.items[j].product)
        BY <1>1, <2>2
      <4> QED
        BY <1>3, <4>1, <4>2, <4>3, FoundAre
    <3>2. PICK type : Fulfils(type, reservations, ids) \subseteq calls
      BY <1>2, <2>2 DEF CompleteCalls, TransactionRow, IsTransaction, TransactionTypes
    <3> HIDE DEF ids, calls
    <3>3. \A id \in ids : \E call \in calls : Ends(call) /\ call.id = id
      <4>1. \A id \in ids : \E call \in Fulfils(type, reservations, ids) :
              Ends(call) /\ call.id = id
        BY FulfilsAll
      <4> QED
        BY <3>2, <4>1
    <3> QED
      BY <3>1, <3>3
  <2> QED
    BY <2>1, <2>2
<1> HIDE DEF after, calls
<1>8. OnItsWay(reservations, active \ {c.id : c \in {call \in calls : Ends(call)}}, calls, after)
  BY <1>5, <1>6, <1>7 DEF OnItsWay
<1> QED
  BY <1>1, <1>8, ClaimMirrored

LEMMA CancelMirrored ==
  ASSUME IInv, Typed, Mirroring, NEW s \in Sessions, Cancel(s)
  PROVE  Mirroring'
<1> DEFINE t == session[s].txn
           row == transactions[t]
           after == [row EXCEPT !.status = "CANCELLED"]
           active == ActiveOf(reservations, t)
           calls == Releases(reservations, active)
<1>1. session[s].op = "cancel" /\ ~session[s].claimed /\ Claim(s, after, calls)
  BY DEF Cancel, AtClaim
<1>2. TransactionRow(row) /\ t \in DOMAIN transactions
  BY <1>1, ClaimedRow
<1>3. OnItsWay(reservations, active, {}, row)
  BY <1>2 DEF Mirroring, Mirrored
<1>4. after.status = "CANCELLED" /\ after.items = row.items
  BY <1>2, StatusWritten
<1>5. DistinctProducts(after) /\ ~Reserving(after)
  BY <1>3, <1>4 DEF OnItsWay, DistinctProducts, Reserving
<1>6. \A call \in calls : call.act # "reserve"
  BY DEF Releases, Call
<1>7. \A id \in active : \E call \in calls : Ends(call) /\ call.id = id
  BY ReleasesAll
<1> HIDE DEF after, calls
<1>8. OnItsWay(reservations, active \ {c.id : c \in {call \in calls : Ends(call)}}, calls, after)
  BY <1>5, <1>6, <1>7 DEF OnItsWay
<1> QED
  BY <1>1, <1>8, ClaimMirrored

LEMMA UpdateMirrored ==
  ASSUME IInv, Typed, Mirroring, NEW s \in Sessions, Update(s)
  PROVE  Mirroring'
<1> DEFINE t == session[s].txn
           row == transactions[t]
           patch == session[s].patch
           after == Patched(row, patch)
           which == Resynced(row, patch)
           old == Restrict(row.items, which)
           new == Restrict(after.items, which)
           ids == ReservationsFor(t, old)
           calls == Releases(reservations, ids) \cup Reserves(new, after.src)
           active == ActiveOf(reservations, t)
           ended == {c.id : c \in {call \in calls : Ends(call)}}
<1>1. /\ session[s].op = "update" /\ ~session[s].claimed /\ Claim(s, after, calls)
      /\ row.status = "PENDING" /\ ValidPatch(row, patch)
      /\ \A i \in which : HasActiveReservation(t, row.items[i].product)
  BY DEF Update, AtClaim, Claimable
<1>2. TransactionRow(row) /\ t \in DOMAIN transactions
  BY <1>1, ClaimedRow
<1>3. OnItsWay(reservations, active, {}, row)
  BY <1>2 DEF Mirroring, Mirrored
<1>4. patch \in Patches \cup {NoPatch}
  BY DEF Typed, SessionTyped
<1>5. /\ after.type = row.type /\ after.status = row.status
      /\ after.src = Merged(row.src, patch.src, NoWarehouse)
      /\ DOMAIN after.items = DOMAIN row.items
      /\ \A i \in DOMAIN row.items \ DOMAIN patch.items : after.items[i] = row.items[i]
      /\ DistinctProducts(after)
  BY <1>1, <1>2, <1>4, PatchedRow
<1>6. which \in SUBSET DOMAIN row.items
  <2>1. which \subseteq DOMAIN row.items
    BY <1>1, ResyncedItems
  <2> QED
    BY <2>1, Zenon
<1>7. /\ DOMAIN old = which /\ \A i \in which : old[i] = row.items[i]
      /\ DOMAIN new = which /\ \A i \in which : new[i] = after.items[i]
  BY DEF Restrict
<1>8. \A call \in Reserves(new, after.src) :
        /\ ~Ends(call) /\ call.act = "reserve"
        /\ \E i \in which : call = ReserveCall(after, i)
  <2> HIDE DEF which, after, new
  <2> QED
    BY <1>7 DEF Reserves, ReserveCall, Call, Ends
<1>9. \A i \in which : ReserveCall(after, i) \in Reserves(new, after.src)
  <2> HIDE DEF which, after, new
  <2> QED
    BY <1>7 DEF Reserves, ReserveCall
<1>10. \A call \in Releases(reservations, ids) : call.act = "release" /\ call.id \in ids
  BY DEF Releases, Call
<1>11. ended = ids
  <2>1. \A id \in ids : \E call \in Releases(reservations, ids) : Ends(call) /\ call.id = id
    BY ReleasesAll
  <2> HIDE DEF ids, new, after
  <2> QED
    BY <1>8, <1>10, <2>1
<1>12. CASE row.type = "INCOMING"
  <2>1. active = {} /\ which = {}
    BY <1>3, <1>12 DEF OnItsWay, Reserving, Resynced
  <2>2. ~Reserving(after)
    BY <1>5, <1>12 DEF Reserving
  <2> HIDE DEF which, new, after, ids
  <2>3. \A call \in calls : call.act # "reserve"
    BY <1>8, <1>10, <2>1
  <2>4. active \ ended = {}
    BY <2>1
  <2> HIDE DEF calls, active, ended
  <2>5. OnItsWay(reservations, active \ ended, calls, after)
    BY <1>5, <2>2, <2>3, <2>4 DEF OnItsWay
  <2> QED
    BY <1>1, <2>5, ClaimMirrored DEF active, ended
<1>13. CASE row.type # "INCOMING"
  <2>1. Reserving(row) /\ Reserving(after)
    BY <1>1, <1>5, <1>13, Zenon DEF Reserving
  <2>2. ASSUME NEW i \in DOMAIN row.items \ which
        PROVE  after.items[i] = row.items[i] /\ after.src = row.src
    BY <1>5, <1>13 DEF Resynced, Merged
  <2> HIDE DEF after, which, new, old
  <2>3. ASSUME NEW id \in active, NEW i \in DOMAIN row.items, Covers(reservations[id], row, i)
        PROVE  id \in ids <=> i \in which
    BY <1>1, <1>3, <1>6, <1>7, <2>1, <2>3, FoundAre
  <2> HIDE DEF ids
  <2>4. ASSUME NEW id \in active \ ids
        PROVE  \E i \in DOMAIN row.items \ which :
                 Covers(reservations[id], row, i) /\ Covers(reservations[id], after, i)
    <3>1. PICK i \in DOMAIN row.items : Covers(reservations[id], row, i)
      BY <1>3, <2>1 DEF OnItsWay
    <3>2. i \notin which
      BY <2>3, <3>1
    <3> QED
      BY <2>2, <3>1, <3>2, Zenon DEF Covers
  <2>5. ASSUME NEW i \in DOMAIN after.items
        PROVE  \/ \E id \in active \ ids : Covers(reservations[id], after, i)
               \/ ReserveCall(after, i) \in calls
    <3>1. CASE i \in which
      BY <1>9, <3>1
    <3>2. CASE i \notin which
      <4>1. PICK id \in active : Covers(reservations[id], row, i)
        BY <1>3, <1>5, <2>1 DEF OnItsWay
      <4>2. id \notin ids
        BY <1>5, <2>3, <3>2, <4>1
      <4> QED
        BY <1>5, <2>2, <3>2, <4>1, <4>2, Zenon DEF Covers
    <3> QED
      BY <3>1, <3>2
  <2>6. ASSUME NEW call \in calls, call.act = "reserve"
        PROVE  /\ \E i \in DOMAIN after.items : call = ReserveCall(after, i)
               /\ \A id \in active \ ids : reservations[id].row[1] # call.row[1]
    <3>1. PICK i \in which : call = ReserveCall(after, i)
      BY <1>8, <1>10, <2>6
    <3>2. i \in DOMAIN after.items /\ call.row[1] = after.items[i].product
      BY <1>5, <1>6, <3>1 DEF ReserveCall, Call
    <3>3. ASSUME NEW id \in active \ ids PROVE reservations[id].row[1] # call.row[1]
      <4>1. PICK j \in DOMAIN row.items \ which : Covers(reservations[id], after, j)
        BY <2>4
      <4>2. reservations[id].row[1] = after.items[j].product /\ i # j
        BY <4>1 DEF Covers
      <4> QED
        BY <1>5, <3>2, <4>1, <4>2 DEF DistinctProducts
    <3> QED
      BY <3>1, <3>2, <3>3
  <2>7. \A id, other \in active :
          reservations[id].row[1] = reservations[other].row[1] => id = other
    BY <1>3, <2>1 DEF OnItsWay
  <2> HIDE DEF calls, active, ended
  <2>8. OnItsWay(reservations, active \ ids, calls, after)
    BY <1>5, <2>1, <2>4, <2>5, <2>6, <2>7 DEF OnItsWay
  <2> QED
    BY <1>1, <1>11, <2>8, ClaimMirrored DEF active, ended
<1> QED
  BY <1>12, <1>13

LEMMA ArriveMirrored ==
  ASSUME IInv, Typed, Mirroring, NEW s \in Sessions, Arrive(s)
  PROVE  Mirroring'
<1> USE DEF IInv
<1>1. ASSUME NEW t \in Txns, NEW order \in Orders, NEW calls,
             InsertPending(s, t, order, calls),
             calls = IF order.type = "INCOMING" THEN {} ELSE Reserves(order.items, order.src)
      PROVE  Mirroring'
  <2> DEFINE row == [type |-> order.type, status |-> "PENDING",
                     src |-> order.src, dst |-> order.dst, items |-> order.items]
             active == ActiveOf(reservations, t)
             ended == {c.id : c \in {call \in calls : Ends(call)}}
  <2>1. /\ OthersKept(s) /\ UNCHANGED tables
        /\ session'[s].op = "create" /\ session'[s].txn = t /\ t \notin DOMAIN transactions
    BY <1>1, InsertStep
  <2>2. /\ session'[s].todo = calls
        /\ session'[s].writes.transactions = Entry(t, row)
        /\ session'[s].writes.reservations = NoWrites.reservations
    BY <1>1, InsertEffect DEF NoWrites
  <2>3. active = {}
    BY <2>1 DEF Mirroring, ActiveOf
  <2>4. DistinctProducts(row)
    BY <1>1 DEF InsertPending, ValidItems, DistinctProducts
  <2>5. \A call \in calls : /\ order.type # "INCOMING"
                            /\ \E i \in DOMAIN row.items : call = ReserveCall(row, i)
    BY <1>1 DEF Reserves, ReserveCall
  <2>6. order.type # "INCOMING" => \A i \in DOMAIN row.items : ReserveCall(row, i) \in calls
    BY <1>1 DEF Reserves, ReserveCall
  <2>7. row.type = order.type /\ row.status = "PENDING"
    OBVIOUS
  <2>8. active \ ended = {}
    BY <2>3
  <2> HIDE DEF row, active, ended
  <2>9. OnItsWay(reservations, active \ ended, calls, row)
    BY <2>4, <2>5, <2>6, <2>7, <2>8 DEF OnItsWay, Reserving
  <2> QED
    BY <2>1, <2>2, <2>9, NothingWritten, StartsMirrored DEF active, ended
<1>2. ASSUME NEW op \in {"complete", "cancel", "update"}, NEW t \in Txns,
             NEW patch, Request(s, op, t, patch)
      PROVE  Mirroring'
  <2>1. /\ OthersKept(s) /\ UNCHANGED tables
        /\ session'[s].op = op /\ ~session'[s].claimed /\ session'[s].txn = t
    BY <1>2, RequestStep
  <2>2. session'[s].writes = NoWrites /\ session'[s].todo = {}
    BY <1>2, RequestEffect
  <2>3. ~Works(s)'
    BY <2>1 DEF Works
  <2> QED
    BY <2>1, <2>2, <2>3, NothingWritten, StartsMirrored
<1>3. ASSUME NEW row \in Rows, NEW delta \in Adjustments, AdjustInventory(s, row, delta)
      PROVE  Mirroring'
  <2>1. OthersKept(s) /\ UNCHANGED tables /\ session'[s].op = "adjust"
    BY <1>3, AdjustStep
  <2>2. /\ session'[s].todo = {Call("record", "ADJUSTMENT", row, delta, NoId)}
        /\ session'[s].writes = NoWrites
    BY <1>3, AdjustEffect
  <2>3. \A u : Agree(reservations, reservations', u)
    BY <2>1 DEF tables, Agree
  <2>4. \A x \in Sessions \ {s} : Owned(x)' /\ (Works(x)' => Underway(x)')
    BY <2>1, <2>3, OthersUnderway
  <2>5. Owned(s)' /\ ~Works(s)'
    BY <2>1, <2>2, NothingWritten DEF Owned, Works, Call
  <2>6. /\ \A id \in DOMAIN reservations' : id[1] \in DOMAIN transactions'
        /\ \A u \in DOMAIN transactions' : Mirrored(u)'
    BY <2>1 DEF tables, Mirroring, Mirrored
  <2> QED
    BY <2>4, <2>5, <2>6 DEF Mirroring
<1>4. CASE \E t \in Txns, order \in Orders :
             \/ CreateIncoming(s, t, order)
             \/ CreateOutgoing(s, t, order)
             \/ CreateTransfer(s, t, order)
  BY <1>1, <1>4 DEF CreateIncoming, CreateOutgoing, CreateTransfer
<1>5. CASE \E t \in Txns : \/ Request(s, "complete", t, NoPatch)
                           \/ Request(s, "cancel", t, NoPatch)
                           \/ \E patch \in Patches : Request(s, "update", t, patch)
  BY <1>2, <1>5
<1>6. CASE \E row \in Rows, delta \in Adjustments : AdjustInventory(s, row, delta)
  BY <1>3, <1>6
<1> QED
  BY <1>4, <1>5, <1>6 DEF Arrive

\* Two requests at work are at work on different transactions.
LEMMA WorkApart ==
  ASSUME IInv, NEW s \in Sessions, NEW x \in Sessions \ {s}, Works(s), Works(x)
  PROVE  session[x].txn # session[s].txn
<1>1. OwnsTransaction(s) /\ OwnsTransaction(x)
  BY DEF IInv, ClaimsHold
<1>2. CASE session[s].op = "create" \/ session[x].op = "create"
  BY <1>1, <1>2 DEF OwnsTransaction
<1>3. CASE session[s].op # "create" /\ session[x].op # "create"
  <2>1. /\ TransactionLock(session[s].txn) \in held[s]
        /\ TransactionLock(session[x].txn) \in held[x]
    BY <1>1, <1>3 DEF OwnsTransaction, Works
  <2> QED
    BY <2>1 DEF IInv, ClaimsHold, LocksExclusive
<1> QED
  BY <1>2, <1>3

\* What a commit does to the tables: the row and the reservations of one
\* transaction, if the request works on one, and of none otherwise.
LEMMA CommitTables ==
  ASSUME IInv, Typed, Mirroring, NEW s \in Sessions, Commit(s)
  PROVE  /\ transactions' = Over(session[s].writes.transactions, transactions)
         /\ reservations' = Over(session[s].writes.reservations, reservations)
         /\ DOMAIN session[s].writes.transactions
              = IF Works(s) THEN {session[s].txn} ELSE {}
         /\ \A id \in DOMAIN session[s].writes.reservations :
              Works(s) /\ id[1] = session[s].txn
<1>1. session[s].claimed /\ OwnsTransaction(s) /\ Owned(s) /\ session[s].op \in Ops
  BY DEF Commit, IInv, Shape, ClaimsHold, Mirroring
<1>2. session[s].op = "idle" => session[s].writes = NoWrites
  BY DEF Typed, NotStarted
<1>3. \A id \in DOMAIN session[s].writes.reservations : Works(s) /\ id[1] = session[s].txn
  BY <1>1, <1>2, NothingWritten DEF Owned, Works, Ops
<1>4. DOMAIN session[s].writes.transactions = IF Works(s) THEN {session[s].txn} ELSE {}
  BY <1>1 DEF OwnsTransaction, Works, Ops
<1> QED
  BY <1>3, <1>4 DEF Commit, SeenTransactions, SeenReservations

LEMMA CommitMirrored ==
  ASSUME IInv, Typed, Mirroring, NEW s \in Sessions, Commit(s)
  PROVE  Mirroring'
<1> DEFINE w == session[s].writes.reservations
           rows == session[s].writes.transactions
           me == session[s].txn
<1>1. /\ transactions' = Over(rows, transactions) /\ reservations' = Over(w, reservations)
      /\ DOMAIN rows = IF Works(s) THEN {me} ELSE {}
      /\ \A id \in DOMAIN w : Works(s) /\ id[1] = me
  BY CommitTables
<1>8. /\ DOMAIN transactions' = DOMAIN rows \cup DOMAIN transactions
      /\ \A t \in DOMAIN rows : transactions'[t] = rows[t]
      /\ \A t \in DOMAIN transactions \ DOMAIN rows : transactions'[t] = transactions[t]
      /\ DOMAIN reservations' = DOMAIN w \cup DOMAIN reservations
  <2> HIDE DEF rows, w
  <2>1. transactions' = Over(rows, transactions) /\ reservations' = Over(w, reservations)
    BY <1>1
  <2> QED
    BY <2>1 DEF Over
<1>2. OthersKept(s) /\ session'[s] = Idle
  BY FinishStep DEF Commit, IInv
<1>3. ASSUME NEW t, Works(s) => t # me PROVE Agree(reservations, reservations', t)
  <2> HIDE DEF w, me
  <2> QED
    BY <1>1, <1>3 DEF Agree, Over
<1>4. \A x \in Sessions \ {s} : Owned(x)' /\ (Works(x)' => Underway(x)')
  BY <1>2, <1>3, WorkApart, OthersUnderway
<1>5. Owned(s)' /\ ~Works(s)'
  BY <1>2, NothingWritten DEF Owned, Works, Idle
<1>6. \A id \in DOMAIN reservations' : id[1] \in DOMAIN transactions'
  BY <1>1, <1>8 DEF Mirroring
<1>7. ASSUME NEW t \in DOMAIN transactions' PROVE Mirrored(t)'
  <2>1. CASE t \in DOMAIN rows
    <3>1. Works(s) /\ t = me /\ transactions'[t] = Written(s)
      BY <1>1, <1>8, <2>1 DEF Written
    <3>2. session[s].todo = {}
      BY DEF Commit
    <3>3. Kept(s) = ActiveOf(SeenReservations(s), me)
      BY <3>2 DEF Kept, Ending
    <3>4. SeenReservations(s) = reservations'
      BY DEF Commit
    <3>5. OnItsWay(SeenReservations(s), Kept(s), {}, Written(s))
      BY <3>1, <3>2 DEF Mirroring, Underway
    <3> QED
      BY <3>1, <3>3, <3>4, <3>5 DEF Mirrored
  <2>2. CASE t \notin DOMAIN rows
    <3> DEFINE a == reservations
               b == Over(w, reservations)
    <3>1. t \in DOMAIN transactions /\ transactions'[t] = transactions[t]
      BY <1>8, <2>2
    <3>2. OnItsWay(a, ActiveOf(a, t), {}, transactions[t])
      BY <3>1 DEF Mirroring, Mirrored
    <3>3. Agree(a, b, t)
      BY <1>1, <1>3, <2>2
    <3> HIDE DEF a, b
    <3>4. ActiveOf(a, t) = ActiveOf(b, t) /\ \A id \in ActiveOf(a, t) : a[id] = b[id]
      BY <3>3, SameActive
    <3>5. OnItsWay(b, ActiveOf(a, t), {}, transactions[t])
      BY <3>2, <3>4, SameWay
    <3>6. reservations' = b
      BY <1>1 DEF b
    <3> QED
      BY <3>1, <3>4, <3>5, <3>6 DEF Mirrored
  <2> QED
    BY <2>1, <2>2
<1> QED
  BY <1>2, <1>4, <1>5, <1>6, <1>7 DEF Mirroring

LEMMA RollbackMirrored ==
  ASSUME IInv, Mirroring, NEW s \in Sessions, Rollback(s)
  PROVE  Mirroring'
<1>1. OthersKept(s) /\ session'[s] = Idle /\ UNCHANGED tables
  BY FinishStep DEF Rollback, IInv
<1>2. \A u : Agree(reservations, reservations', u)
  BY <1>1 DEF tables, Agree
<1>3. \A x \in Sessions \ {s} : Owned(x)' /\ (Works(x)' => Underway(x)')
  BY <1>1, <1>2, OthersUnderway
<1>4. Owned(s)' /\ ~Works(s)'
  BY <1>1, NothingWritten DEF Owned, Works, Idle
<1>5. /\ \A id \in DOMAIN reservations' : id[1] \in DOMAIN transactions'
      /\ \A u \in DOMAIN transactions' : Mirrored(u)'
  BY <1>1 DEF tables, Mirroring, Mirrored
<1> QED
  BY <1>3, <1>4, <1>5 DEF Mirroring

LEMMA InitMirrored == Init => Mirroring
<1> SUFFICES ASSUME Init PROVE Mirroring
  OBVIOUS
<1>1. \A s \in Sessions : session[s] = Idle
  BY DEF Init
<1>2. \A s \in Sessions : Owned(s) /\ ~Works(s)
  BY <1>1, NothingWritten DEF Owned, Works, Idle
<1>3. DOMAIN reservations = {} /\ DOMAIN transactions = {}
  BY DEF Init
<1> QED
  BY <1>2, <1>3 DEF Mirroring

LEMMA MirroringInductive == IInv /\ Typed /\ Mirroring /\ [Next]_vars => Mirroring'
<1> SUFFICES ASSUME IInv, Typed, Mirroring, [Next]_vars PROVE Mirroring'
  OBVIOUS
<1>1. ASSUME NEW s \in Sessions, Arrive(s) \/ Step(s) \/ Abort(s) PROVE Mirroring'
  <2>1. CASE Complete(s) \/ Cancel(s) \/ Update(s)
    BY <2>1, CompleteMirrored, CancelMirrored, UpdateMirrored
  <2>2. CASE \E call \in session[s].todo :
               \/ LockInventoryRow(s, call) \/ FindNoInventoryRow(s, call)
               \/ Reserve(s, call) \/ Release(s, call)
               \/ RecordMovement(s, call) \/ Fulfil(s, call)
    BY <2>2, StatementsMirrored
  <2>3. CASE Refuse(s) \/ Abort(s)
    BY <2>3, RollbackMirrored DEF Refuse, Abort
  <2> QED
    BY <1>1, <2>1, <2>2, <2>3, ArriveMirrored, CommitMirrored DEF Step
<1>2. CASE UNCHANGED vars
  <2>1. Mirroring' <=> Mirroring
    BY <1>2 DEF vars, Mirroring, Mirrored, Owned, Works, Underway, Kept, Ending, Written,
                SeenReservations
  <2> QED
    BY <2>1
<1> QED
  BY <1>1, <1>2 DEF Next

\* As many active reservations as items: each covers one item and no two the same.
LEMMA OnePerItem ==
  ASSUME NEW table, NEW kept, NEW row, OnItsWay(table, kept, {}, row), Reserving(row),
         IsFiniteSet(DOMAIN row.items)
  PROVE  Cardinality(kept) = Cardinality(DOMAIN row.items)
<1> DEFINE f == [i \in DOMAIN row.items |-> CHOOSE id \in kept : Covers(table[id], row, i)]
<1>1. \A i \in DOMAIN row.items : f[i] \in kept /\ Covers(table[f[i]], row, i)
  BY DEF OnItsWay
<1>2. DistinctProducts(row)
  BY DEF OnItsWay
<1>3. \A i, j \in DOMAIN row.items : f[i] = f[j] => i = j
  <2> HIDE DEF f
  <2> QED
    BY <1>1, <1>2 DEF Covers, DistinctProducts
<1>4. \A id \in kept : \E i \in DOMAIN row.items : f[i] = id
  <2> SUFFICES ASSUME NEW id \in kept PROVE \E i \in DOMAIN row.items : f[i] = id
    OBVIOUS
  <2>1. PICK i \in DOMAIN row.items : Covers(table[id], row, i)
    BY DEF OnItsWay
  <2> HIDE DEF f
  <2>2. f[i] \in kept /\ table[f[i]].row[1] = table[id].row[1]
    BY <1>1, <2>1 DEF Covers
  <2> QED
    BY <2>2 DEF OnItsWay
<1>5. f \in Bijection(DOMAIN row.items, kept)
  <2>1. f \in [DOMAIN row.items -> kept]
    BY <1>1
  <2> HIDE DEF f
  <2> QED
    BY <1>3, <1>4, <2>1 DEF Bijection, Injection, Surjection, IsInjective
<1>6. ExistsBijection(DOMAIN row.items, kept)
  BY <1>5 DEF ExistsBijection
<1> QED
  BY <1>6, FS_Bijection

LEMMA MirrorsItems == Typed /\ Mirroring => ReservationsMirrorItems
<1> SUFFICES ASSUME Typed, Mirroring, NEW t \in DOMAIN transactions
             PROVE  LET row == transactions[t]
                        active == ActiveOf(reservations, t)
                    IN IF row.status = "PENDING" /\ row.type # "INCOMING"
                         THEN /\ Cardinality(active) = Cardinality(DOMAIN row.items)
                              /\ \A i \in DOMAIN row.items : \E id \in active :
                                   /\ reservations[id].row = <<row.items[i].product, row.src>>
                                   /\ reservations[id].quantity = row.items[i].quantity
                         ELSE active = {}
  BY DEF ReservationsMirrorItems
<1> DEFINE row == transactions[t]
           active == ActiveOf(reservations, t)
<1>1. OnItsWay(reservations, active, {}, row)
  BY DEF Mirroring, Mirrored
<1>2. IsFiniteSet(DOMAIN row.items)
  <2>1. DOMAIN row.items \subseteq ItemIds
    BY DEF Typed, TablesTyped, TransactionTable, TransactionRow, IsTransaction
  <2> QED
    BY <2>1, FiniteAssumption, FS_Subset
<1>3. CASE Reserving(row)
  <2>1. Cardinality(active) = Cardinality(DOMAIN row.items)
    BY <1>1, <1>2, <1>3, OnePerItem
  <2>2. \A i \in DOMAIN row.items : \E id \in active : Covers(reservations[id], row, i)
    BY <1>1, <1>3 DEF OnItsWay
  <2> QED
    BY <1>3, <2>1, <2>2 DEF Reserving, Covers
<1>4. CASE ~Reserving(row)
  BY <1>1, <1>4 DEF OnItsWay, Reserving
<1> QED
  BY <1>3, <1>4

\* Every interleaving of create, update, complete and cancel, with any of them thrown
\* out half way, leaves a PENDING outgoing or transfer with exactly one active
\* reservation per item, and every other transaction with none.
THEOREM ReservationsFollowItems == Spec => []ReservationsMirrorItems
<1>1. IInv /\ Typed /\ Mirroring /\ [Next]_vars => (IInv /\ Typed /\ Mirroring)'
  BY IInvInductive, TypedInductive, MirroringInductive
<1> QED
  BY <1>1, MirrorsItems, InitOwns, InitTyped, InitMirrored, PTL DEF Spec

----------------------------------------------------------------------------
(* Movements.  What a completion has recorded, with what its calls will      *)
(* record, is what its row calls for; no other request records a movement of *)
(* a transaction.                                                            *)

MoveFor(t, call) == Movement(t, call.type, call.row, call.quantity)

MovesMade(t, calls) == {MoveFor(t, call) : call \in calls}
MoveApart(t, calls) == \A c, d \in calls : MoveFor(t, c) = MoveFor(t, d) => c = d

\* The reservations ids of a table cover the items of a row, one each.
CoverAll(table, ids, row) ==
  /\ \A id \in ids : \E i \in DOMAIN row.items : Covers(table[id], row, i)
  /\ \A i \in DOMAIN row.items : \E id \in ids : Covers(table[id], row, i)
  /\ \A id, other \in ids : table[id].row[1] = table[other].row[1] => id = other

\* The calls of todo and the ledger rows of made are together the moves of due,
\* each once.
Due(t, todo, made, due) ==
  /\ MovesMade(t, todo) \cup BagToSet(made) = due
  /\ \A call \in todo : MoveFor(t, call) \notin BagToSet(made)
  /\ MoveApart(t, todo)
  /\ \A m \in BagToSet(made) : made[m] = 1

ItemMoves(t, row, type, warehouse) ==
  {Movement(t, type, <<row.items[i].product, warehouse>>, row.items[i].quantity) :
     i \in DOMAIN row.items}

MovesDue(t, row) ==
  CASE row.type = "INCOMING" -> ItemMoves(t, row, "INCOMING", row.dst)
    [] row.type = "OUTGOING" -> ItemMoves(t, row, "OUTGOING", row.src)
    [] row.type = "TRANSFER" -> ItemMoves(t, row, "TRANSFER_OUT", row.src)
                                  \cup ItemMoves(t, row, "TRANSFER_IN", row.dst)

Moving(s) ==
  /\ session[s].op \in {"create", "cancel", "update"} =>
       /\ BagToSet(session[s].writes.movements) = {}
       /\ \A call \in session[s].todo : call.act \in {"reserve", "release"}
       /\ session[s].claimed => Written(s).status # "COMPLETED"
  /\ session[s].op = "adjust" =>
       \A m \in BagToSet(session[s].writes.movements) : m.txn = NoTxn
  /\ session[s].op = "complete" /\ session[s].claimed =>
       /\ Written(s).status = "COMPLETED"
       /\ \A call \in session[s].todo : call.act \in {"record", "fulfil"}
       /\ Due(session[s].txn, session[s].todo, session[s].writes.movements,
              MovesDue(session[s].txn, Written(s)))

MovedAsDue(t, row) ==
  MovesOf(t) = IF row.status = "COMPLETED" THEN MovesDue(t, row) ELSE {}

Booked ==
  /\ \A t \in DOMAIN transactions : MovedAsDue(t, transactions[t])
  /\ \A m \in BagToSet(movements) :
       m.txn # NoTxn => m.txn \in DOMAIN transactions /\ movements[m] = 1
  /\ \A s \in Sessions : Moving(s)

LEMMA BagAdds ==
  ASSUME NEW a, NEW b
  PROVE  /\ BagToSet(a (+) b) = BagToSet(a) \cup BagToSet(b)
         /\ \A m \in BagToSet(a) \ BagToSet(b) : a[m] = 1 => (a (+) b)[m] = 1
         /\ \A m \in BagToSet(b) \ BagToSet(a) : b[m] = 1 => (a (+) b)[m] = 1
BY DEF (+), BagToSet

LEMMA OneMoved ==
  ASSUME NEW t, NEW todo, NEW made, NEW due, NEW call \in todo, Due(t, todo, made, due)
  PROVE  Due(t, todo \ {call}, made (+) SetToBag({MoveFor(t, call)}), due)
<1> DEFINE m == MoveFor(t, call)
           one == SetToBag({m})
           more == made (+) one
<1>1. BagToSet(one) = {m} /\ one[m] = 1
  BY DEF BagToSet, SetToBag
<1>2. m \notin BagToSet(made)
  BY DEF Due
<1>3. BagToSet(more) = BagToSet(made) \cup {m}
      /\ \A x \in BagToSet(more) : more[x] = 1
  <2>1. \A x \in BagToSet(made) : made[x] = 1
    BY DEF Due
  <2> HIDE DEF m, one
  <2>2. /\ BagToSet(more) = BagToSet(made) \cup BagToSet(one)
        /\ \A x \in BagToSet(made) \ BagToSet(one) : made[x] = 1 => more[x] = 1
        /\ \A x \in BagToSet(one) \ BagToSet(made) : one[x] = 1 => more[x] = 1
    BY BagAdds
  <2> QED
    BY <1>1, <1>2, <2>1, <2>2
<1>4. MovesMade(t, todo) = MovesMade(t, todo \ {call}) \cup {m}
  BY DEF MovesMade
<1>5. \A c \in todo \ {call} : MoveFor(t, c) # m
  BY DEF Due, MoveApart
<1> HIDE DEF more, one, m
<1>6. MovesMade(t, todo \ {call}) \cup BagToSet(more) = due
  BY <1>3, <1>4 DEF Due
<1>7. \A c \in todo \ {call} : MoveFor(t, c) \notin BagToSet(more)
  BY <1>3, <1>5 DEF Due
<1>8. MoveApart(t, todo \ {call})
  BY DEF Due, MoveApart
<1>9. Due(t, todo \ {call}, more, due)
  BY <1>3, <1>6, <1>7, <1>8 DEF Due
<1> QED
  BY <1>9 DEF more, one, m

\* The moves the calls of a completion make.
LEMMA RecordMoves ==
  ASSUME NEW t, NEW row, NEW type, NEW dst
  PROVE  /\ MovesMade(t, Records(type, row.items, dst)) = ItemMoves(t, row, type, dst)
         /\ MoveApart(t, Records(type, row.items, dst))
<1> DEFINE R(i) == Call("record", type, <<row.items[i].product, dst>>, row.items[i].quantity, NoId)
           M(i) == Movement(t, type, <<row.items[i].product, dst>>, row.items[i].quantity)
<1>1. \A i \in DOMAIN row.items : MoveFor(t, R(i)) = M(i)
  BY DEF MoveFor, Call
<1>2. Records(type, row.items, dst) = {R(i) : i \in DOMAIN row.items}
  BY DEF Records
<1>3. ItemMoves(t, row, type, dst) = {M(i) : i \in DOMAIN row.items}
  BY DEF ItemMoves
<1>4. \A i, j \in DOMAIN row.items : M(i) = M(j) => R(i) = R(j)
  BY DEF Movement
<1> HIDE DEF R, M
<1> QED
  BY <1>1, <1>2, <1>3, <1>4 DEF MovesMade, MoveApart

LEMMA FulfilMoves ==
  ASSUME NEW t, NEW row, NEW type, NEW table, NEW ids,
         CoverAll(table, ids, row)
  PROVE  /\ MovesMade(t, Fulfils(type, table, ids)) = ItemMoves(t, row, type, row.src)
         /\ MoveApart(t, Fulfils(type, table, ids))
<1> DEFINE F(id) == Call("fulfil", type, table[id].row, table[id].quantity, id)
           N(id) == Movement(t, type, table[id].row, table[id].quantity)
           M(i) == Movement(t, type, <<row.items[i].product, row.src>>, row.items[i].quantity)
<1>1. \A id \in ids : MoveFor(t, F(id)) = N(id)
  BY DEF MoveFor, Call
<1>2. Fulfils(type, table, ids) = {F(id) : id \in ids}
  BY DEF Fulfils
<1>3. ItemMoves(t, row, type, row.src) = {M(i) : i \in DOMAIN row.items}
  BY DEF ItemMoves
<1>4. \A id \in ids : \E i \in DOMAIN row.items : N(id) = M(i)
  BY DEF CoverAll, Covers
<1>5. \A i \in DOMAIN row.items : \E id \in ids : N(id) = M(i)
  BY DEF CoverAll, Covers
<1>6. \A id, other \in ids : N(id) = N(other) => id = other
  BY DEF CoverAll, Movement
<1> HIDE DEF F, M, N
<1> QED
  BY <1>1, <1>2, <1>3, <1>4, <1>5, <1>6 DEF MovesMade, MoveApart

\* A completion is due what its calls make.
LEMMA CompletionDue ==
  ASSUME NEW t, NEW row, NEW after, TransactionRow(row),
         after.type = row.type, after.items = row.items,
         after.src = row.src, after.dst = row.dst,
         row = transactions[t], row.status = "PENDING",
         OnItsWay(reservations, ActiveOf(reservations, t), {}, row),
         row.type # "INCOMING" =>
           \A i \in DOMAIN row.items : HasActiveReservation(t, row.items[i].product),
         NEW made, BagToSet(made) = {}
  PROVE  /\ Due(t, CompleteCalls(t), made, MovesDue(t, after))
         /\ \A call \in CompleteCalls(t) : call.act \in {"record", "fulfil"}
<1> DEFINE ids == ReservationsFor(t, row.items)
           Rec(type) == Records(type, row.items, row.dst)
           Ful(type) == Fulfils(type, reservations, ids)
<1>1. /\ \A call \in CompleteCalls(t) : call.act \in {"record", "fulfil"}
  BY DEF CompleteCalls, Records, Fulfils, Call, TransactionRow, IsTransaction, TransactionTypes
<1>2. ASSUME NEW type
      PROVE  /\ MovesMade(t, Rec(type)) = ItemMoves(t, row, type, row.dst)
             /\ MoveApart(t, Rec(type))
  BY RecordMoves
<1>3. ASSUME NEW type, row.type # "INCOMING"
      PROVE  /\ MovesMade(t, Ful(type)) = ItemMoves(t, row, type, row.src)
             /\ MoveApart(t, Ful(type))
  <2>1. Reserving(row)
    BY <1>3 DEF Reserving
  <2>2. \A i \in DOMAIN row.items : HasActiveReservation(t, row.items[i].product)
    BY <1>3
  <2>3. ids \in SUBSET ActiveOf(reservations, t)
    BY <2>2, FoundReservations
  <2>4. \A id \in ActiveOf(reservations, t) : \A i \in DOMAIN row.items :
          Covers(reservations[id], row, i) => id \in ids
    BY <2>1, <2>2, FoundAre
  <2> HIDE DEF ids
  <2>5. CoverAll(reservations, ids, row)
    BY <2>1, <2>3, <2>4 DEF OnItsWay, CoverAll
  <2> QED
    BY <2>5, FulfilMoves
<1>4. ASSUME NEW calls, MovesMade(t, calls) = MovesDue(t, after),
             MoveApart(t, calls)
      PROVE  Due(t, calls, made, MovesDue(t, after))
  BY <1>4 DEF Due
<1>5. /\ \A w, type : ItemMoves(t, after, type, w) = ItemMoves(t, row, type, w)
  BY DEF ItemMoves
<1>6. CASE row.type = "INCOMING"
  <2>1. CompleteCalls(t) = Rec("INCOMING")
    BY <1>6 DEF CompleteCalls
  <2>2. MovesDue(t, after) = ItemMoves(t, row, "INCOMING", row.dst)
    BY <1>5, <1>6 DEF MovesDue
  <2> QED
    BY <1>1, <1>2, <1>4, <2>1, <2>2
<1>7. CASE row.type = "OUTGOING"
  <2>1. CompleteCalls(t) = Ful("OUTGOING")
    BY <1>7 DEF CompleteCalls
  <2>2. MovesDue(t, after) = ItemMoves(t, row, "OUTGOING", row.src)
    BY <1>5, <1>7 DEF MovesDue
  <2> QED
    BY <1>1, <1>3, <1>4, <1>7, <2>1, <2>2
<1>8. CASE row.type = "TRANSFER"
  <2> DEFINE out == Ful("TRANSFER_OUT")
             in == Rec("TRANSFER_IN")
  <2>1. CompleteCalls(t) = out \cup in
    BY <1>8 DEF CompleteCalls
  <2>2. MovesDue(t, after) = ItemMoves(t, row, "TRANSFER_OUT", row.src)
                               \cup ItemMoves(t, row, "TRANSFER_IN", row.dst)
    BY <1>5, <1>8 DEF MovesDue
  <2>3. \A c \in out, d \in in : MoveFor(t, c) # MoveFor(t, d)
    <3>1. /\ \A c \in out : MoveFor(t, c).type = "TRANSFER_OUT"
          /\ \A d \in in : MoveFor(t, d).type = "TRANSFER_IN"
      BY DEF Fulfils, Records, Call, MoveFor, Movement
    <3> QED
      BY <3>1
  <2>4. /\ MovesMade(t, out) = ItemMoves(t, row, "TRANSFER_OUT", row.src)
        /\ MoveApart(t, out)
    BY <1>3, <1>8
  <2>5. /\ MovesMade(t, in) = ItemMoves(t, row, "TRANSFER_IN", row.dst)
        /\ MoveApart(t, in)
    BY <1>2
  <2> HIDE DEF out, in
  <2>6. MovesMade(t, out \cup in) = MovesMade(t, out) \cup MovesMade(t, in)
    BY DEF MovesMade
  <2>7. MoveApart(t, out \cup in)
    BY <2>3, <2>4, <2>5 DEF MoveApart
  <2> QED
    BY <1>1, <1>4, <2>1, <2>2, <2>4, <2>5, <2>6, <2>7
<1> QED
  BY <1>6, <1>7, <1>8 DEF TransactionRow, IsTransaction, TransactionTypes

LEMMA OthersMoving ==
  ASSUME Booked, NEW s \in Sessions, OthersKept(s)
  PROVE  \A x \in Sessions \ {s} : Moving(x)'
BY DEF Booked, OthersKept, Moving, Written

\* A step that leaves the tables alone.
LEMMA QuietBooked ==
  ASSUME Booked, NEW s \in Sessions, OthersKept(s), UNCHANGED tables, Moving(s)'
  PROVE  Booked'
<1>1. \A x \in Sessions : Moving(x)'
  BY OthersMoving
<1> QED
  BY <1>1 DEF Booked, tables, MovedAsDue, MovesOf

LEMMA StatementsBooked ==
  ASSUME IInv, Typed, Mirroring, Booked, NEW s \in Sessions, NEW call \in session[s].todo,
         \/ LockInventoryRow(s, call) \/ FindNoInventoryRow(s, call)
         \/ Reserve(s, call) \/ Release(s, call)
         \/ RecordMovement(s, call) \/ Fulfil(s, call)
  PROVE  Booked'
<1> USE DEF IInv
<1>0. Moving(s) /\ OwnsTransaction(s)
  BY DEF Booked, ClaimsHold
<1>1. CASE \/ LockInventoryRow(s, call) \/ FindNoInventoryRow(s, call)
           \/ Reserve(s, call) \/ Release(s, call)
  <2>1. /\ Mid(s) /\ session'[s].todo \subseteq session[s].todo
        /\ \/ session'[s].todo = session[s].todo
           \/ call.act \in {"reserve", "release"}
        /\ session'[s].writes.movements = session[s].writes.movements
    <3>1. CASE LockInventoryRow(s, call)
      BY <3>1, LockEffect
    <3>2. CASE FindNoInventoryRow(s, call)
      BY <3>2, FindEffect
    <3>3. CASE Reserve(s, call)
      <4>1. call.act = "reserve"
        BY <3>3 DEF Reserve, Running
      <4> QED
        BY <3>3, <4>1, ReserveEffect DEF Done
    <3>4. CASE Release(s, call)
      BY <3>4, ReleaseEffect DEF Done, Release, Running
    <3> QED
      BY <1>1, <3>1, <3>2, <3>3, <3>4
  <2>2. Moving(s)'
    BY <1>0, <2>1 DEF Moving, Mid, Written
  <2> QED
    BY <2>1, <2>2, QuietBooked DEF Mid
<1>2. CASE RecordMovement(s, call) \/ Fulfil(s, call)
  <2> DEFINE t == session[s].txn
             made == session[s].writes.movements
             more == made (+) SetToBag({MoveFor(t, call)})
  <2>1. /\ Mid(s) /\ session'[s].todo = session[s].todo \ {call}
        /\ session'[s].writes.movements = more
        /\ call.act \in {"record", "fulfil"} /\ session[s].claimed
    <3>1. Moves(s, call)
      BY <1>2, RecordEffect, FulfilEffect
    <3>2. call.act \in {"record", "fulfil"} /\ session[s].claimed
      BY <1>2, CallMade
    <3> QED
      BY <3>1, <3>2 DEF Moves, Done, MoveFor
  <2>2. session[s].op \notin {"create", "cancel", "update"}
    BY <1>0, <2>1 DEF Moving
  <2>3. ASSUME session[s].op = "adjust"
        PROVE  \A m \in BagToSet(more) : m.txn = NoTxn
    <3> DEFINE m == MoveFor(t, call)
    <3>1. m.txn = NoTxn
      BY <1>0, <2>3 DEF OwnsTransaction, MoveFor, Movement
    <3>2. \A x \in BagToSet(made) : x.txn = NoTxn
      BY <1>0, <2>3 DEF Moving
    <3> HIDE DEF m, made
    <3>3. BagToSet(made (+) SetToBag({m})) = BagToSet(made) \cup {m}
      BY OneMore
    <3>4. \A x \in BagToSet(made (+) SetToBag({m})) : x.txn = NoTxn
      BY <3>1, <3>2, <3>3
    <3> QED
      BY <3>4 DEF m, made
  <2>4. ASSUME session[s].op = "complete"
        PROVE  Due(t, session[s].todo \ {call}, more, MovesDue(t, Written(s)))
    <3> DEFINE due == MovesDue(t, Written(s))
               todo == session[s].todo
    <3>1. Due(t, todo, made, due) /\ call \in todo
      BY <1>0, <2>1, <2>4 DEF Moving
    <3> HIDE DEF due, todo, made, t
    <3>2. Due(t, todo \ {call}, more, due)
      BY <3>1, OneMoved
    <3> QED
      BY <3>2 DEF due, todo
  <2> HIDE DEF more
  <2>5. Moving(s)'
    BY <1>0, <2>1, <2>2, <2>3, <2>4 DEF Moving, Mid, Written
  <2> QED
    BY <2>1, <2>5, QuietBooked DEF Mid
<1> QED
  BY <1>1, <1>2

LEMMA EndOrReserve ==
  ASSUME NEW table, NEW ids, NEW items, NEW src
  PROVE  \A call \in Releases(table, ids) \cup Reserves(items, src) :
           call.act \in {"reserve", "release"}
BY DEF Releases, Reserves, Call

LEMMA ClaimBooked ==
  ASSUME IInv, Typed, Booked, NEW s \in Sessions, NEW row, NEW calls, Claim(s, row, calls),
         ~session[s].claimed, session[s].op \in {"complete", "cancel", "update"},
         session[s].op \in {"cancel", "update"} =>
           /\ row.status # "COMPLETED"
           /\ \A call \in calls : call.act \in {"reserve", "release"},
         session[s].op = "complete" =>
           /\ row.status = "COMPLETED"
           /\ \A call \in calls : call.act \in {"record", "fulfil"}
           /\ Due(session[s].txn, calls, session[s].writes.movements,
                  MovesDue(session[s].txn, row))
  PROVE  Booked'
<1>1. /\ OthersKept(s) /\ UNCHANGED tables
      /\ session'[s].op = session[s].op /\ session'[s].txn = session[s].txn
  BY ClaimStep DEF IInv
<1>2. /\ session'[s].todo = calls
      /\ session'[s].writes.transactions = Entry(session[s].txn, row)
      /\ session'[s].writes.movements = session[s].writes.movements
  BY ClaimEffect DEF IInv
<1>3. BagToSet(session[s].writes.movements) = {}
  BY NothingWritten DEF Typed, NotStarted
<1>4. Written(s)' = row
  BY <1>1, <1>2 DEF Written, Entry
<1>5. Moving(s)'
  BY <1>1, <1>2, <1>3, <1>4 DEF Moving
<1> QED
  BY <1>1, <1>5, QuietBooked

LEMMA ClaimsBooked ==
  ASSUME IInv, Typed, Mirroring, Booked, NEW s \in Sessions,
         Complete(s) \/ Cancel(s) \/ Update(s)
  PROVE  Booked'
<1> DEFINE t == session[s].txn
           row == transactions[t]
           made == session[s].writes.movements
<1>0. /\ ~session[s].claimed /\ row.status = "PENDING"
      /\ session[s].op \in {"complete", "cancel", "update"}
  BY ClaimStarts, Zenon
<1>1. TransactionRow(row) /\ t \in DOMAIN transactions
  BY <1>0, ClaimedRow
<1>2. OnItsWay(reservations, ActiveOf(reservations, t), {}, row)
  BY <1>1 DEF Mirroring, Mirrored
<1>3. BagToSet(made) = {}
  BY <1>0, NothingWritten DEF Typed, NotStarted
<1>4. CASE Complete(s)
  <2> DEFINE after == [row EXCEPT !.status = "COMPLETED"]
  <2>1. /\ session[s].op = "complete" /\ Claim(s, after, CompleteCalls(t))
        /\ row.type # "INCOMING" =>
             \A i \in DOMAIN row.items : HasActiveReservation(t, row.items[i].product)
    BY <1>4, Zenon DEF Complete, AtClaim
  <2>2. /\ after.status = "COMPLETED" /\ after.type = row.type /\ after.items = row.items
        /\ after.src = row.src /\ after.dst = row.dst
    BY <1>1, StatusWritten
  <2> HIDE DEF after, made
  <2>3. /\ Due(t, CompleteCalls(t), made, MovesDue(t, after))
        /\ \A call \in CompleteCalls(t) : call.act \in {"record", "fulfil"}
    BY <1>0, <1>1, <1>2, <1>3, <2>1, <2>2, CompletionDue
  <2> QED
    BY <1>0, <2>1, <2>2, <2>3, ClaimBooked DEF made
<1>5. CASE Cancel(s)
  <2> DEFINE after == [row EXCEPT !.status = "CANCELLED"]
             calls == Releases(reservations, ActiveOf(reservations, t))
  <2>1. session[s].op = "cancel" /\ Claim(s, after, calls)
    BY <1>5 DEF Cancel, AtClaim
  <2>2. after.status = "CANCELLED"
    BY <1>1, StatusWritten
  <2>3. \A call \in calls : call.act \in {"reserve", "release"}
    BY DEF Releases, Call
  <2> HIDE DEF after, calls
  <2> QED
    BY <1>0, <2>1, <2>2, <2>3, ClaimBooked
<1>6. CASE Update(s)
  <2> DEFINE after == Patched(row, session[s].patch)
             which == Resynced(row, session[s].patch)
             calls == Releases(reservations, ReservationsFor(t, Restrict(row.items, which)))
                        \cup Reserves(Restrict(after.items, which), after.src)
  <2>1. /\ session[s].op = "update" /\ Claim(s, after, calls)
        /\ ValidPatch(row, session[s].patch)
    BY <1>6, Zenon DEF Update, AtClaim
  <2>2. after.status = "PENDING"
    BY <1>0, <1>1, <2>1, PatchedRow DEF Typed, SessionTyped
  <2>3. \A call \in calls : call.act \in {"reserve", "release"}
    BY EndOrReserve
  <2> HIDE DEF after, calls
  <2> QED
    BY <1>0, <2>1, <2>2, <2>3, ClaimBooked
<1> QED
  BY <1>4, <1>5, <1>6

LEMMA ArriveBooked ==
  ASSUME IInv, Typed, Booked, NEW s \in Sessions, Arrive(s)
  PROVE  Booked'
<1> USE DEF IInv
<1>1. ASSUME NEW t \in Txns, NEW order \in Orders, NEW calls,
             InsertPending(s, t, order, calls),
             calls = {} \/ calls = Reserves(order.items, order.src)
      PROVE  Booked'
  <2> DEFINE row == [type |-> order.type, status |-> "PENDING",
                     src |-> order.src, dst |-> order.dst, items |-> order.items]
  <2>1. /\ OthersKept(s) /\ UNCHANGED tables
        /\ session'[s].op = "create" /\ session'[s].txn = t
    BY <1>1, InsertStep
  <2>2. /\ session'[s].todo = calls
        /\ session'[s].writes.transactions = Entry(t, row)
        /\ session'[s].writes.movements = NoWrites.movements
    BY <1>1, InsertEffect DEF NoWrites
  <2>3. \A call \in calls : call.act \in {"reserve", "release"}
    BY <1>1 DEF Reserves, Call
  <2>4. Written(s)'.status = "PENDING"
    BY <2>1, <2>2 DEF Written, Entry
  <2>5. Moving(s)'
    BY <2>1, <2>2, <2>3, <2>4, NothingWritten DEF Moving
  <2> QED
    BY <2>1, <2>5, QuietBooked
<1>2. ASSUME NEW op \in {"complete", "cancel", "update"}, NEW t \in Txns,
             NEW patch, Request(s, op, t, patch)
      PROVE  Booked'
  <2>1. /\ OthersKept(s) /\ UNCHANGED tables
        /\ session'[s].op = op /\ ~session'[s].claimed
    BY <1>2, RequestStep
  <2>2. session'[s].writes = NoWrites /\ session'[s].todo = {}
    BY <1>2, RequestEffect
  <2>3. Moving(s)'
    BY <2>1, <2>2, NothingWritten DEF Moving
  <2> QED
    BY <2>1, <2>3, QuietBooked
<1>3. ASSUME NEW row \in Rows, NEW delta \in Adjustments, AdjustInventory(s, row, delta)
      PROVE  Booked'
  <2>1. OthersKept(s) /\ UNCHANGED tables /\ session'[s].op = "adjust"
    BY <1>3, AdjustStep
  <2>2. session'[s].writes = NoWrites
    BY <1>3, AdjustEffect
  <2>3. Moving(s)'
    BY <2>1, <2>2, NothingWritten DEF Moving
  <2> QED
    BY <2>1, <2>3, QuietBooked
<1>4. CASE \E t \in Txns, order \in Orders :
             \/ CreateIncoming(s, t, order)
             \/ CreateOutgoing(s, t, order)
             \/ CreateTransfer(s, t, order)
  BY <1>1, <1>4 DEF CreateIncoming, CreateOutgoing, CreateTransfer
<1>5. CASE \E t \in Txns : \/ Request(s, "complete", t, NoPatch)
                           \/ Request(s, "cancel", t, NoPatch)
                           \/ \E patch \in Patches : Request(s, "update", t, patch)
  BY <1>2, <1>5
<1>6. CASE \E row \in Rows, delta \in Adjustments : AdjustInventory(s, row, delta)
  BY <1>3, <1>6
<1> QED
  BY <1>4, <1>5, <1>6 DEF Arrive

\* The rows of the ledger a request adds when it commits.
LEMMA CommitMoves ==
  ASSUME IInv, Typed, Mirroring, Booked, NEW s \in Sessions, Commit(s)
  PROVE  LET made == session[s].writes.movements
             me == session[s].txn
         IN /\ \A m \in BagToSet(made) :
                 IF Works(s) THEN m.txn = me /\ made[m] = 1 ELSE m.txn = NoTxn
            /\ Works(s) => /\ me \in Txns
                           /\ \A m \in BagToSet(movements) : m.txn # me
                           /\ BagToSet(made) = IF Written(s).status = "COMPLETED"
                                                 THEN MovesDue(me, Written(s)) ELSE {}
<1> DEFINE made == session[s].writes.movements
           me == session[s].txn
<1>1. /\ session[s].claimed /\ session[s].todo = {} /\ session[s].op \in Ops
      /\ OwnsTransaction(s) /\ Moving(s)
  BY DEF Commit, IInv, Shape, ClaimsHold, Booked
<1>2. CASE ~Works(s)
  <2>1. session[s].op \in {"idle", "adjust"}
    BY <1>1, <1>2 DEF Works, Ops
  <2>2. session[s].op = "idle" => BagToSet(made) = {}
    BY NothingWritten DEF Typed, NotStarted
  <2> QED
    BY <1>1, <1>2, <2>1, <2>2 DEF Moving
<1>3. CASE Works(s)
  <2>1. me \in Txns /\ (me \in DOMAIN transactions => transactions[me].status = "PENDING")
    BY <1>1, <1>3 DEF Works, OwnsTransaction, Typed, TablesTyped, TransactionTable
  <2>2. ASSUME NEW m \in BagToSet(movements), m.txn = me PROVE FALSE
    <3>1. me # NoTxn
      BY <2>1, IdsAssumption
    <3>2. me \in DOMAIN transactions /\ transactions[me].status = "PENDING"
      BY <2>1, <2>2, <3>1 DEF Booked
    <3>3. MovesOf(me) = {}
      BY <3>2 DEF Booked, MovedAsDue
    <3> QED
      BY <2>2, <3>3 DEF MovesOf
  <2>3. CASE session[s].op = "complete"
    <3>1. /\ Written(s).status = "COMPLETED"
          /\ Due(me, {}, made, MovesDue(me, Written(s)))
      BY <1>1, <2>3 DEF Moving
    <3>2. BagToSet(made) = MovesDue(me, Written(s)) /\ \A m \in BagToSet(made) : made[m] = 1
      BY <3>1 DEF Due, MovesMade
    <3>3. \A m \in MovesDue(me, Written(s)) : m.txn = me
      <4>1. Written(s).type \in TransactionTypes
        <5>1. me \in DOMAIN session[s].writes.transactions
          BY <1>1, <2>3 DEF OwnsTransaction
        <5> QED
          BY <5>1 DEF Written, Typed, SessionTyped, TablesTyped, TransactionTable,
                      TransactionRow, IsTransaction
      <4> QED
        BY <4>1 DEF MovesDue, ItemMoves, Movement, TransactionTypes
    <3> QED
      BY <1>3, <2>1, <2>2, <3>1, <3>2, <3>3
  <2>4. CASE session[s].op # "complete"
    <3>1. BagToSet(made) = {} /\ Written(s).status # "COMPLETED"
      BY <1>1, <1>3, <2>4 DEF Moving, Works
    <3> QED
      BY <1>3, <2>1, <2>2, <3>1
  <2> QED
    BY <2>3, <2>4
<1> QED
  BY <1>2, <1>3

LEMMA CommitBooked ==
  ASSUME IInv, Typed, Mirroring, Booked, NEW s \in Sessions, Commit(s)
  PROVE  Booked'
<1> DEFINE made == session[s].writes.movements
           me == session[s].txn
           rows == session[s].writes.transactions
           due == MovesDue(me, Written(s))
           done == Written(s).status = "COMPLETED"
           after == movements (+) made
<1>1. /\ transactions' = Over(rows, transactions)
      /\ DOMAIN rows = IF Works(s) THEN {me} ELSE {}
  BY CommitTables
<1>2. /\ \A m \in BagToSet(made) :
           IF Works(s) THEN m.txn = me /\ made[m] = 1 ELSE m.txn = NoTxn
      /\ Works(s) => /\ me \in Txns
                     /\ \A m \in BagToSet(movements) : m.txn # me
                     /\ BagToSet(made) = IF done THEN due ELSE {}
  BY CommitMoves
<1>3. /\ OthersKept(s) /\ session'[s] = Idle /\ movements' = after
  BY FinishStep DEF Commit, IInv
<1>4. /\ DOMAIN transactions' = DOMAIN rows \cup DOMAIN transactions
      /\ \A t \in DOMAIN rows : transactions'[t] = rows[t]
      /\ \A t \in DOMAIN transactions \ DOMAIN rows : transactions'[t] = transactions[t]
  <2> HIDE DEF rows
  <2> QED
    BY <1>1 DEF Over
<1>5. Works(s) => rows[me] = Written(s)
  BY DEF Written
<1>6. /\ BagToSet(after) = BagToSet(movements) \cup BagToSet(made)
      /\ \A m \in BagToSet(movements) \ BagToSet(made) : movements[m] = 1 => after[m] = 1
      /\ \A m \in BagToSet(made) \ BagToSet(movements) : made[m] = 1 => after[m] = 1
  <2> HIDE DEF made
  <2> QED
    BY BagAdds
<1>7. DOMAIN transactions \subseteq Txns
  BY DEF Typed, TablesTyped, TransactionTable
<1> HIDE DEF made, rows, due, done, after
<1>8. ASSUME NEW t \in DOMAIN transactions' PROVE MovedAsDue(t, transactions[t])'
  <2>1. MovesOf(t)' = {m \in BagToSet(movements) : m.txn = t}
                        \cup {m \in BagToSet(made) : m.txn = t}
    BY <1>3, <1>6 DEF MovesOf
  <2>2. CASE t \in DOMAIN rows
    <3>1. Works(s) /\ t = me /\ transactions'[t] = Written(s)
      BY <1>1, <1>4, <1>5, <2>2
    <3>2. MovesOf(t)' = BagToSet(made)
      BY <1>2, <2>1, <3>1
    <3>3. MovesOf(t)' = IF done THEN due ELSE {}
      BY <1>2, <3>1, <3>2
    <3> QED
      BY <3>1, <3>3 DEF MovedAsDue, done, due
  <2>3. CASE t \notin DOMAIN rows
    <3>1. t \in DOMAIN transactions /\ transactions'[t] = transactions[t] /\ t # NoTxn
      BY <1>4, <1>7, <2>3, IdsAssumption
    <3>2. \A m \in BagToSet(made) : m.txn # t
      BY <1>1, <1>2, <2>3, <3>1
    <3>3. MovesOf(t)' = MovesOf(t)
      BY <2>1, <3>2 DEF MovesOf
    <3>4. MovedAsDue(t, transactions[t])
      BY <3>1 DEF Booked
    <3> QED
      BY <3>1, <3>3, <3>4 DEF MovedAsDue
  <2> QED
    BY <2>2, <2>3
<1>9. ASSUME NEW m \in BagToSet(movements'), m.txn # NoTxn
      PROVE  m.txn \in DOMAIN transactions' /\ movements'[m] = 1
  <2>1. CASE m \in BagToSet(made)
    <3>1. Works(s) /\ m.txn = me /\ made[m] = 1 /\ m \notin BagToSet(movements)
      BY <1>2, <1>9, <2>1
    <3> QED
      BY <1>1, <1>3, <1>4, <1>6, <2>1, <3>1
  <2>2. CASE m \notin BagToSet(made)
    <3>1. m \in BagToSet(movements)
      BY <1>3, <1>6, <1>9, <2>2
    <3>2. m.txn \in DOMAIN transactions /\ movements[m] = 1
      BY <1>9, <3>1 DEF Booked
    <3> QED
      BY <1>3, <1>4, <1>6, <2>2, <3>1, <3>2
  <2> QED
    BY <2>1, <2>2
<1>10. \A x \in Sessions \ {s} : Moving(x)'
  BY <1>3, OthersMoving
<1>11. Moving(s)'
  BY <1>3, NothingWritten DEF Moving, Idle
<1> QED
  BY <1>8, <1>9, <1>10, <1>11 DEF Booked

LEMMA RollbackBooked ==
  ASSUME IInv, Booked, NEW s \in Sessions, Rollback(s)
  PROVE  Booked'
<1>1. OthersKept(s) /\ session'[s] = Idle /\ UNCHANGED tables
  BY FinishStep DEF Rollback, IInv
<1>2. Moving(s)'
  BY <1>1, NothingWritten DEF Moving, Idle
<1> QED
  BY <1>1, <1>2, QuietBooked

LEMMA InitBooked == Init => Booked
<1> SUFFICES ASSUME Init PROVE Booked
  OBVIOUS
<1>1. \A s \in Sessions : session[s] = Idle
  BY DEF Init
<1>2. \A s \in Sessions : Moving(s)
  BY <1>1, NothingWritten DEF Moving, Idle
<1>3. BagToSet(movements) = {Movement(NoTxn, "ADJUSTMENT", r, OpeningStock[r]) :
                               r \in DOMAIN OpeningStock}
  BY DEF Init, SetToBag, BagToSet
<1>4. \A m \in BagToSet(movements) : m.txn = NoTxn
  BY <1>3 DEF Movement
<1>5. DOMAIN transactions = {}
  BY DEF Init
<1> QED
  BY <1>2, <1>4, <1>5 DEF Booked

LEMMA BookedInductive == IInv /\ Typed /\ Mirroring /\ Booked /\ [Next]_vars => Booked'
<1> SUFFICES ASSUME IInv, Typed, Mirroring, Booked, [Next]_vars PROVE Booked'
  OBVIOUS
<1>1. ASSUME NEW s \in Sessions, Arrive(s) \/ Step(s) \/ Abort(s) PROVE Booked'
  <2>1. CASE Complete(s) \/ Cancel(s) \/ Update(s)
    BY <2>1, ClaimsBooked
  <2>2. CASE \E call \in session[s].todo :
               \/ LockInventoryRow(s, call) \/ FindNoInventoryRow(s, call)
               \/ Reserve(s, call) \/ Release(s, call)
               \/ RecordMovement(s, call) \/ Fulfil(s, call)
    BY <2>2, StatementsBooked
  <2>3. CASE Refuse(s) \/ Abort(s)
    BY <2>3, RollbackBooked DEF Refuse, Abort
  <2> QED
    BY <1>1, <2>1, <2>2, <2>3, ArriveBooked, CommitBooked DEF Step
<1>2. CASE UNCHANGED vars
  <2>1. \A s \in Sessions : Moving(s)'
    BY <1>2 DEF vars, Booked, Moving, Written
  <2> QED
    BY <1>2, <2>1 DEF vars, Booked, MovedAsDue, MovesOf
<1> QED
  BY <1>1, <1>2 DEF Next

\* Whatever requests race, and whichever of them die half way, a completed transaction
\* has moved each of its items exactly once - out of its source, into its destination -
\* and a pending or cancelled one nothing at all.
THEOREM CompletionsMoveOnce == Spec => []MovedExactlyOnce
<1>1. Booked => MovedExactlyOnce
  <2> SUFFICES ASSUME Booked PROVE MovedExactlyOnce
    OBVIOUS
  <2>1. \A t \in DOMAIN transactions : ExpectedMoves(t) = MovesDue(t, transactions[t])
    BY DEF ExpectedMoves, MovesDue, ItemMoves
  <2>2. \A m \in BagToSet(movements) : Copies(m, movements) = movements[m]
    BY DEF Copies
  <2> QED
    BY <2>1, <2>2 DEF MovedExactlyOnce, Booked, MovedAsDue
<1>2. IInv /\ Typed /\ Mirroring /\ Booked /\ [Next]_vars
        => (IInv /\ Typed /\ Mirroring /\ Booked)'
  BY IInvInductive, TypedInductive, MirroringInductive, BookedInductive
<1> QED
  BY <1>1, <1>2, InitOwns, InitTyped, InitMirrored, InitBooked, PTL DEF Spec
=============================================================================
