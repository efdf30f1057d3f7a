------------------------------ MODULE DemoSeed ------------------------------
(***************************************************************************)
(* The script that fills the database of the demo.  It writes transactions,*)
(* reservations and movements statement by statement, beside the services  *)
(* and outside of any database transaction, computes the stock from the    *)
(* movements, and asserts some of what the demo is to show.  It may die    *)
(* anywhere and is then run again, which starts by emptying the tables.    *)
(***************************************************************************)
EXTENDS DemoScript, StockInsights, FiniteSetsExt

CONSTANT OldTables  \* what the tables may hold before the first run

VARIABLES
  phase,         \* "stopped", what is being written, "done" or "failed"
  step,          \* tables filled, calls made or rows created in this phase
  executed,      \* statements of the current call that have been executed
  masters,       \* tables of users, suppliers, products and warehouses that are filled
  orderTable, reservationTable, movementTable, rowTable

tables == <<masters, orderTable, reservationTable, movementTable, rowTable>>
seedVars == <<phase, step, executed, tables>>

Masters == <<"User", "Supplier", "Product", "Warehouse">>

\* The statements of a call, in their order; an adjustment has no transaction.
StatementsOf(k) ==
  LET c == Script[k]
      needed(table) ==
        CASE table = "orders" -> c.type # "ADJUSTMENT"
          [] table = "reservations" -> c.type \in {"OUTGOING", "TRANSFER"}
          [] table = "movements" -> c.status = "COMPLETED"
  IN SelectSeq(<<"orders", "reservations", "movements">>, needed)

ReservationStatus ==
  [PENDING |-> "ACTIVE", COMPLETED |-> "FULFILLED", CANCELLED |-> "CANCELLED"]

\* The reservations and the movements of call k: one of each line, and two
\* movements of each line of a transfer.
Lines(k) == SetToSeq(DOMAIN Script[k].lines)
ReservationsOf(k) ==
  LET c == Script[k] IN
  [i \in DOMAIN Lines(k) |->
     [row |-> <<Lines(k)[i], c.src>>, quantity |-> c.lines[Lines(k)[i]],
      status |-> ReservationStatus[c.status], order |-> k]]
Moved(k, type, w) ==
  LET c == Script[k] IN
  [i \in DOMAIN Lines(k) |->
     [row |-> <<Lines(k)[i], w>>, type |-> type, quantity |-> c.lines[Lines(k)[i]],
      age |-> c.age, order |-> k]]
MovementsOfCall(k) ==
  LET c == Script[k] IN
  CASE c.type = "TRANSFER" -> Moved(k, "TRANSFER_OUT", c.src) \o Moved(k, "TRANSFER_IN", c.dst)
    [] c.type = "INCOMING" -> Moved(k, "INCOMING", c.dst)
    [] OTHER -> Moved(k, c.type, c.src)

Increases == {"INCOMING", "TRANSFER_IN", "ADJUSTMENT"}
Delta(m) == IF m.type \in Increases THEN m.quantity ELSE -m.quantity
SumOf(ids) == MapThenSumSet(LAMBDA i : Delta(movementTable[i]), ids)
MovementsAt(row) == {i \in DOMAIN movementTable : movementTable[i].row = row}
RowsMoved == {movementTable[i].row : i \in DOMAIN movementTable}

SeedInit ==
  /\ phase = "stopped" /\ step = 0 /\ executed = 0
  /\ masters = {}
  /\ \E old \in OldTables :
       /\ orderTable = old.orders /\ reservationTable = old.reservations
       /\ movementTable = old.movements /\ rowTable = old.rows

Truncate ==
  /\ phase = "stopped"
  /\ phase' = "masters" /\ step' = 0 /\ executed' = 0
  /\ masters' = {} /\ orderTable' = <<>> /\ reservationTable' = <<>>
  /\ movementTable' = <<>> /\ rowTable' = <<>>

\* After the last statement of a phase comes the next one.
Advance(last, next) ==
  IF step + 1 = last THEN phase' = next /\ step' = 0 ELSE phase' = phase /\ step' = step + 1

CreateMasters ==
  /\ phase = "masters"
  /\ masters' = masters \cup {Masters[step + 1]}
  /\ Advance(Len(Masters), "calls")
  /\ UNCHANGED <<executed, orderTable, reservationTable, movementTable, rowTable>>

\* One statement of the current call.
Execute ==
  /\ phase = "calls"
  /\ LET k == step + 1
         table == StatementsOf(k)[executed + 1] IN
       /\ orderTable' = IF table = "orders" THEN Append(orderTable, k) ELSE orderTable
       /\ reservationTable' = IF table = "reservations"
            THEN reservationTable \o ReservationsOf(k) ELSE reservationTable
       /\ movementTable' = IF table = "movements"
            THEN movementTable \o MovementsOfCall(k) ELSE movementTable
       /\ IF executed + 1 < Len(StatementsOf(k))
            THEN executed' = executed + 1 /\ UNCHANGED <<phase, step>>
            ELSE executed' = 0 /\ Advance(Len(Script), "rows")
  /\ UNCHANGED <<masters, rowTable>>

\* Section 10: the totals are taken from the ledger in the order of its ids and
\* may never be negative on the way; then come the rows, one by one.
NeverNegative ==
  \A i \in DOMAIN movementTable :
    SumOf({j \in MovementsAt(movementTable[i].row) : j <= i}) >= 0
NextRow ==
  movementTable[Min({i \in DOMAIN movementTable : movementTable[i].row \notin DOMAIN rowTable})].row

CreateRow ==
  /\ phase = "rows"
  /\ IF step = 0 /\ ~NeverNegative
       THEN phase' = "failed" /\ UNCHANGED <<step, rowTable>>
       ELSE /\ rowTable' = rowTable @@ (NextRow :> SumOf(MovementsAt(NextRow)))
            /\ Advance(Cardinality(RowsMoved), "assertions")
  /\ UNCHANGED <<executed, masters, orderTable, reservationTable, movementTable>>

----------------------------------------------------------------------------
(* What the assertions and the reports read.                               *)

ReservedAt(row, status) ==
  MapThenSumSet(LAMBDA i : reservationTable[i].quantity,
    {i \in DOMAIN reservationTable :
       reservationTable[i].row = row /\ reservationTable[i].status = status})
AvailableAt(p, w) == rowTable[<<p, w>>] - ReservedAt(<<p, w>>, "ACTIVE")
PendingAt(p, w) ==
  MapThenSumSet(LAMBDA i : Script[orderTable[i]].lines[p],
    {i \in DOMAIN orderTable :
       LET c == Script[orderTable[i]] IN
       c.status = "PENDING" /\ c.dst = w /\ p \in DOMAIN c.lines})

SalesAt(p, w) == {i \in MovementsAt(<<p, w>>) : movementTable[i].type = "OUTGOING"}
\* Units sold from `older` days ago until before `newer` days ago.
OutgoingQty(p, w, older, newer) ==
  MapThenSumSet(LAMBDA i : movementTable[i].quantity,
    {i \in SalesAt(p, w) : movementTable[i].age <= older /\ movementTable[i].age > newer})

LowNotZero(p, w) == AvailableAt(p, w) > 0 /\ AvailableAt(p, w) < Threshold[p]
HasSurplus(p, w) == AvailableAt(p, w) > Threshold[p]

SeedAssertions ==
  /\ AvailableAt("keyboard", "beirut") = 0
  /\ LowNotZero("headphones", "tripoli") /\ HasSurplus("headphones", "saida")
  /\ LowNotZero("rainJacket", "tripoli") /\ HasSurplus("rainJacket", "zahle")
  /\ LowNotZero("coffeeMaker", "tripoli") /\ HasSurplus("coffeeMaker", "saida")
  /\ LowNotZero("bands", "saida") /\ HasSurplus("bands", "tripoli")
  /\ LowNotZero("dock", "saida")
  /\ AvailableAt("dock", "saida") + PendingAt("dock", "saida") >= Threshold["dock"]
  /\ LowNotZero("hoodie", "beirut")
  /\ AvailableAt("kettle", "tripoli") > 0
  /\ AvailableAt("kettle", "tripoli") + PendingAt("kettle", "tripoli") < Threshold["kettle"]
  /\ OutgoingQty("mouse", "beirut", 60, 30) = 10 /\ OutgoingQty("mouse", "beirut", 30, 0) = 50
  /\ OutgoingQty("notebook", "tripoli", 60, 30) = 80
  /\ OutgoingQty("notebook", "tripoli", 30, 0) = 20
  /\ OutgoingQty("yogaMat", "saida", 60, 30) = 0 /\ OutgoingQty("yogaMat", "saida", 30, 0) = 20
  /\ rowTable[<<"chair", "beirut">>] > 0 /\ SalesAt("chair", "beirut") = {}
  /\ SalesAt("desk", "tripoli") # {}
  /\ \A i \in SalesAt("desk", "tripoli") : movementTable[i].age >= 60
  /\ {movementTable[i].type : i \in DOMAIN movementTable}
       = {"INCOMING", "OUTGOING", "TRANSFER_OUT", "TRANSFER_IN", "ADJUSTMENT"}
  /\ {reservationTable[i].status : i \in DOMAIN reservationTable}
       = {"ACTIVE", "FULFILLED", "CANCELLED"}
  /\ \A type \in {"INCOMING", "OUTGOING", "TRANSFER"} : \E i \in DOMAIN orderTable :
       Script[orderTable[i]].type = type /\ Script[orderTable[i]].status = "COMPLETED"
  /\ {Script[orderTable[i]].status : i \in DOMAIN orderTable}
       = {"PENDING", "COMPLETED", "CANCELLED"}
  /\ \A p \in Articles : \E i \in DOMAIN orderTable : p \in DOMAIN Script[orderTable[i]].lines
  /\ \A row \in RowsMoved : rowTable[row] = SumOf(MovementsAt(row))

CheckAssertions ==
  /\ phase = "assertions"
  /\ phase' = IF SeedAssertions THEN "done" ELSE "failed"
  /\ UNCHANGED <<step, executed, tables>>

\* The process dies between two statements, or somebody runs the script again.
Stop ==
  /\ phase # "stopped"
  /\ phase' = "stopped" /\ step' = 0 /\ executed' = 0
  /\ UNCHANGED tables

SeedNext == Truncate \/ CreateMasters \/ Execute \/ CreateRow \/ CheckAssertions \/ Stop

SeedSpec == SeedInit /\ [][SeedNext]_seedVars

----------------------------------------------------------------------------
(* What the reports of the stock say of the rows.                          *)

LevelAt(row) == RiskLevel(AvailableAt(row[1], row[2]), Threshold[row[1]])
AtLevel(level) == {row \in DOMAIN rowTable : LevelAt(row) = level}
IsDead(row) ==
  rowTable[row] > 0 /\ \A i \in SalesAt(row[1], row[2]) : movementTable[i].age >= 60
DeadRows == {row \in DOMAIN rowTable : IsDead(row)}
Anomaly(row) ==
  ConsumptionChange(MapThenSumSet(LAMBDA i : movementTable[i].quantity,
                      {i \in SalesAt(row[1], row[2]) : movementTable[i].age <= 30}),
                    MapThenSumSet(LAMBDA i : movementTable[i].quantity,
                      {i \in SalesAt(row[1], row[2]) : movementTable[i].age \in 31..60}), 50, 0)
Anomalies == {<<row, Anomaly(row)>> : row \in DOMAIN rowTable} \ {<<row, "NONE">> : row \in DOMAIN rowTable}

\* The matches of the transfer planner, under its own policy or that of restocking.
StockOfDemo ==
  [row \in Articles \X Depots |->
     IF row \in DOMAIN rowTable
       THEN [available |-> AvailableAt(row[1], row[2]), incoming |-> PendingAt(row[1], row[2]),
             threshold |-> Threshold[row[1]], dead |-> IsDead(row)]
       ELSE [available |-> 0, incoming |-> 0, threshold |-> 0, dead |-> FALSE]]
Planner(onlyDead) ==
  INSTANCE TransferPlanner
    WITH Goods <- Articles, Sites <- Depots, Stocks <- {}, Rooms <- {}, Unlimited <- Nowhere,
         stock <- StockOfDemo, deadOnly <- onlyDead, room0 <- <<>>, need <- <<>>,
         surplus <- <<>>, room <- <<>>, available <- <<>>, projected <- <<>>, todo <- {},
         advice <- {}

----------------------------------------------------------------------------
(* Properties.                                                             *)

\* What the script leaves could have been left by the services: rows are the sum
\* of the ledger, which was never negative on any day either; a transaction has
\* the reservations and the movements of its status; nothing is oversold.
HistoryIsLegal ==
  /\ masters = ToSet(Masters) /\ DOMAIN rowTable = RowsMoved
  /\ \A row \in RowsMoved :
       /\ rowTable[row] = SumOf(MovementsAt(row))
       /\ \A i \in MovementsAt(row) :
            SumOf({j \in MovementsAt(row) : movementTable[j].age >= movementTable[i].age}) >= 0
       /\ ReservedAt(row, "ACTIVE") <= rowTable[row]
  /\ \A k \in DOMAIN Script :
       LET c == Script[k] IN
       /\ Cardinality({i \in DOMAIN orderTable : orderTable[i] = k})
            = IF c.type = "ADJUSTMENT" THEN 0 ELSE 1
       /\ {reservationTable[i].status :
             i \in {j \in DOMAIN reservationTable : reservationTable[j].order = k}}
            = IF c.type \in {"OUTGOING", "TRANSFER"} THEN {ReservationStatus[c.status]} ELSE {}
       /\ (\E i \in DOMAIN movementTable : movementTable[i].order = k) <=> c.status = "COMPLETED"

\* The reports say of the data what the comments of its scenarios announce, and
\* nothing else: these rows are short, dead or change, and these can be helped.
\* (The comment on donors calls the headphones of Saida dead as well; they sold.)
ScenariosShow ==
  /\ AtLevel("OUT_OF_STOCK") = {<<"keyboard", "beirut">>}
  /\ AtLevel("AT_RISK") =
       {<<"headphones", "tripoli">>, <<"dock", "saida">>, <<"hoodie", "beirut">>,
        <<"kettle", "tripoli">>, <<"rainJacket", "tripoli">>,
        <<"coffeeMaker", "tripoli">>, <<"bands", "saida">>}
  /\ DeadRows =
       {<<"chair", "beirut">>, <<"desk", "tripoli">>, <<"rainJacket", "zahle">>,
        <<"bands", "tripoli">>, <<"coffeeMaker", "saida">>}
  /\ Anomalies =
       {<< <<"mouse", "beirut">>, "INCREASE">>, << <<"notebook", "tripoli">>, "DECREASE">>,
        << <<"yogaMat", "saida">>, "INCREASE">>}
  /\ Planner(FALSE)!Matches =
       {<<"headphones", "tripoli", "saida">>, <<"rainJacket", "tripoli", "zahle">>,
        <<"coffeeMaker", "tripoli", "saida">>, <<"bands", "saida", "tripoli">>}

\* However often the script died before, a run that succeeds leaves a history
\* the services could have made, and the demo shows its scenarios.
DemoIsSound == phase = "done" => HistoryIsLegal /\ ScenariosShow
=============================================================================
