---------------------------- MODULE StockReaders ----------------------------
(***************************************************************************)
(* The read-only side of the stock: availability, routing, reconciliation  *)
(* and the control tower.  A report is made of several queries, each of    *)
(* which sees what is committed when it runs; nothing holds a snapshot     *)
(* across them, and the writers of StockLedger commit in between.          *)
(***************************************************************************)
EXTENDS StockLedger, StockInsights, FiniteSetsExt

CONSTANTS
  ProductOf, WarehouseOf,  \* what each row is a row of
  PageOf,                  \* the warehouse whose low stock is asked for
  Thresholds,              \* reorder thresholds a manager may set
  Orders,                  \* quantities of products a route is asked for
  Unread,                  \* the result of a query that has not run
  MaxCommits               \* bound: commits of each kind between a report's queries

ASSUME ReadersAssumption ==
  /\ Thresholds \subseteq Nat
  /\ 0 \in Thresholds
  /\ ProductOf \in [Rows -> Nat]
  /\ \A o \in Orders : \A p \in DOMAIN o : o[p] \in Nat \ {0}

VARIABLES
  threshold,    \* reorder threshold of each row
  corrections,  \* sum of the ADJUSTMENT movements of each row
  report,       \* the report that is being made, or "none"
  seen,         \* what each query of the report has returned
  during,       \* how often what has been committed since the report's first query
  moved         \* rows whose reservations changed after the report had summed them

dataVars == <<vars, threshold, corrections>>
readerVars == <<dataVars, report, seen, during, moved>>

Warehouses == {WarehouseOf[r] : r \in Rows}
Finished == {t \in Txns : status[t] = "COMPLETED"}
Pending == {t \in Txns : status[t] = "PENDING"}

\* Stock as the movements add up to it.
\* Mutant: a movement into a warehouse is not counted as an increase.
LedgerWithoutGifts ==
  [r \in Rows |-> OpeningStock[r] + corrections[r]
                    - MapThenSumSet(LAMBDA t : plan[t].take[r], Finished)]
LedgerTotal ==
  [r \in Rows |-> OpeningStock[r] + corrections[r]
                    + MapThenSumSet(LAMBDA t : plan[t].give[r] - plan[t].take[r], Finished)]

PendingIncoming ==
  [r \in Rows |-> MapThenSumSet(LAMBDA t : plan[t].give[r], Pending)]

\* What a query returns: of all rows, which have both their stock and threshold,
\* or of the single row that it names.
Result(q) ==
  CASE q[2] = "rows" -> [onHand |-> onHand, threshold |-> threshold]
    [] q[2] = "reserved" -> reserved
    [] q[2] = "movements" -> LedgerTotal
    [] q[2] = "pending" -> PendingIncoming
    [] q[2] = "row" -> onHand[q[1]]
    [] q[2] = "taken" -> reserved[q[1]]

ShownRows == {r \in Rows : WarehouseOf[r] = PageOf}

\* The queries of a report, each named for the computation that makes it and
\* its table, or for its row and what it asks of it.  The page of low stock lists
\* the rows of its warehouse and then reads each of them again with the sum of its
\* reservations.  The control tower computes stockout risk for its own alerts and
\* once more inside the restock recommendations.
QueriesOf ==
  [availability |-> {"single"} \X {"rows", "reserved"},
   lowStock |-> {<<"single", "rows">>} \cup (ShownRows \X {"row", "taken"}),
   reconcile |-> {"single"} \X {"rows", "movements"},
   tower |-> {<<"risk", "rows">>, <<"risk", "reserved">>}
               \cup {"restock"} \X {"rows", "reserved", "pending"},
   none |-> {}]
Reports == DOMAIN QueriesOf \ {"none"}
Queries == UNION {QueriesOf[k] : k \in Reports}

NothingSeen == [q \in Queries |-> Unread]
Missing == {q \in QueriesOf[report] : seen[q] = Unread}
Reading == Missing \notin {{}, QueriesOf[report]}

Undisturbed == [k \in {"reservations", "stock", "thresholds"} |-> 0]

\* The queries a report awaits before it sends query q: availability its rows
\* before the reservations, low stock its list, then the products one after the
\* other and of each the row before the sum.  The others start all together.
ReadBefore(q) ==
  CASE report = "availability" /\ q[2] = "reserved" -> {<<"single", "rows">>}
    [] report = "lowStock" /\ q[2] = "row" ->
         {<<"single", "rows">>}
           \cup {<<r, "taken">> : r \in {s \in ShownRows : ProductOf[s] < ProductOf[q[1]]}}
    [] report = "lowStock" /\ q[2] = "taken" -> {<<q[1], "row">>}
    [] OTHER -> {}

\* Mutant: the queries of every report are started together.
DueTogether(q) == q \in Missing
Due(q) == q \in Missing /\ ReadBefore(q) \cap Missing = {}

ReadersInit ==
  /\ Init
  /\ threshold = [r \in Rows |-> 0]
  /\ corrections = Nothing
  /\ report = "none"
  /\ seen = NothingSeen
  /\ during = Undisturbed
  /\ moved = {}

Ask(kind) ==
  /\ report = "none"
  /\ report' = kind
  /\ UNCHANGED <<dataVars, seen, during, moved>>

Read(q) ==
  /\ Due(q)
  /\ seen' = [seen EXCEPT ![q] = Result(q)]
  /\ UNCHANGED <<dataVars, report, during, moved>>

Answer ==
  /\ report # "none"
  /\ Missing = {}
  /\ report' = "none"
  /\ seen' = NothingSeen
  /\ during' = Undisturbed
  /\ moved' = {}
  /\ UNCHANGED dataVars

\* A commit of the writers, counted while a report is half read.  None falls
\* between the last query and the answer, which is computed from seen alone.
Summed == {r \in ShownRows : report = "lowStock" /\ seen[<<r, "taken">>] # Unread}
Commits(what) ==
  /\ report = "none" \/ Missing # {}
  /\ IF Reading
       THEN during[what] < MaxCommits /\ during' = [during EXCEPT ![what] = @ + 1]
       ELSE UNCHANGED during
  /\ moved' = moved \cup {r \in Summed : reserved'[r] # reserved[r]}
  /\ UNCHANGED <<report, seen>>

Write ==
  \/ /\ \E t \in Txns : Cancel(t) \/ \E p \in Plans : Place(t, p) \/ Revise(t, p)
     /\ Commits("reservations")
     /\ UNCHANGED <<threshold, corrections>>
  \/ /\ \E t \in Txns : Complete(t)
     /\ Commits("stock")
     /\ UNCHANGED <<threshold, corrections>>
  \/ \E r \in Rows, delta \in Adjustments :
       /\ Adjust(r, delta)
       /\ corrections' = [corrections EXCEPT ![r] = @ + delta]
       /\ Commits("stock")
       /\ UNCHANGED threshold

SetReorderThreshold(r, n) ==
  /\ threshold' = [threshold EXCEPT ![r] = n]
  /\ UNCHANGED <<vars, corrections>>
  /\ Commits("thresholds")

ReadersNext ==
  \/ Write
  \/ \E r \in Rows, n \in Thresholds : SetReorderThreshold(r, n)
  \/ \E kind \in Reports : Ask(kind)
  \/ \E q \in Queries : Read(q)
  \/ Answer

ReadersSpec == ReadersInit /\ [][ReadersNext]_readerVars

----------------------------------------------------------------------------
(* What the reports compute from the results of their queries, given as s. *)

AvailableIn(s, call) ==
  [r \in Rows |-> s[<<call, "rows">>].onHand[r] - s[<<call, "reserved">>][r]]

\* The lines of the low stock page have their stock and threshold from the list
\* and the rest from the product's own reading.
LineAvailable(s, r) == s[<<r, "row">>] - s[<<r, "taken">>]
LowStock(s) ==
  {r \in ShownRows : LineAvailable(s, r) <= s[<<"single", "rows">>].threshold[r]}

\* The rows of an order's products in warehouse w.
RowsFor(o, w) == {r \in Rows : WarehouseOf[r] = w /\ ProductOf[r] \in DOMAIN o}

\* The warehouses that can fulfil the whole of order o; a product without a row
\* there counts as none in stock.
\* Mutant: a warehouse that can fulfil some of the order.
EligibleForSome(s, o) ==
  {w \in Warehouses : \E r \in RowsFor(o, w) : AvailableIn(s, "single")[r] >= o[ProductOf[r]]}
Eligible(s, o) ==
  {w \in Warehouses :
     \A p \in DOMAIN o :
       \E r \in RowsFor(o, w) : ProductOf[r] = p /\ AvailableIn(s, "single")[r] >= o[p]}

\* How much of a low row the agent says is missing.
Deficit(s, r) ==
  AtLeastZero(s[<<"single", "rows">>].threshold[r] - LineAvailable(s, r))

Mismatches(s) ==
  {r \in Rows : s[<<"single", "movements">>][r] # s[<<"single", "rows">>].onHand[r]}

Level(s, call, r) ==
  RiskLevel(AvailableIn(s, call)[r], s[<<call, "rows">>].threshold[r])
ProjectedLevel(s, call, r) ==
  RiskLevel(AvailableIn(s, call)[r] + s[<<call, "pending">>][r],
            s[<<call, "rows">>].threshold[r])

StockoutAlerts(s) == {r \in Rows : Level(s, "risk", r) = "OUT_OF_STOCK"}

\* Mutant: a restock alert does not look at the current level.
RestockAlertsProjected(s) == {r \in Rows : ProjectedLevel(s, "restock", r) # "OK"}
RestockAlerts(s) ==
  {r \in Rows :
     /\ ProjectedLevel(s, "restock", r) # "OK"
     /\ Level(s, "restock", r) = "AT_RISK"}

----------------------------------------------------------------------------
(* Properties.                                                             *)

Ready(kind) == report = kind /\ Missing = {}

ReadersTypeOK ==
  /\ threshold \in [Rows -> Thresholds]
  /\ corrections \in [Rows -> Int]
  /\ report \in Reports \cup {"none"}
  /\ DOMAIN seen = Queries
  /\ during \in [{"reservations", "stock", "thresholds"} -> 0..MaxCommits]
  /\ moved \subseteq ShownRows

\* Orders placed, revised or cancelled while availability is being read never
\* make it wrong: unless stock itself moved in between, the answer is what is
\* available when it is given.
AvailabilityIsCurrent ==
  Ready("availability") /\ during["stock"] = 0 =>
    AvailableIn(seen, "single") = [r \in Rows |-> onHand[r] - reserved[r]]

\* The page of low stock is not of one moment, as an order can take a product that
\* it has been through while it reads the next.  But unless stock itself moved,
\* each of its lines adds up; and a product that nobody has ordered since its own
\* reservations were summed is listed if stockout risk would call it out of stock
\* or at risk now, with a deficit if it is at risk, and the agent finds no deficit
\* in one that is not listed.
LowStockIsTrue ==
  Ready("lowStock") /\ during["stock"] = 0 =>
    \A r \in ShownRows :
      LET listed == seen[<<"single", "rows">>]
          level == RiskLevel(onHand[r] - reserved[r], listed.threshold[r])
      IN /\ listed.onHand[r] - seen[<<r, "taken">>] = LineAvailable(seen, r)
         /\ r \notin moved =>
              /\ LineAvailable(seen, r) = onHand[r] - reserved[r]
              /\ level # "OK" => r \in LowStock(seen)
              /\ level = "AT_RISK" => Deficit(seen, r) > 0
              /\ Deficit(seen, r) > 0 => r \in LowStock(seen)

\* Routing and reserving agree: unless stock moved in between, a warehouse is
\* offered for an order exactly if the order could be placed there now.
Reservable(o, w) ==
  \A p \in DOMAIN o :
    \E r \in RowsFor(o, w) : ProductOf[r] = p /\ reserved[r] + o[p] <= onHand[r]
EligibleMeansReservable ==
  Ready("availability") /\ during["stock"] = 0 =>
    \A o \in Orders : Eligible(seen, o) = {w \in Warehouses : Reservable(o, w)}

\* Answers about what is available are true when they are given, unless stock
\* itself moved while they were computed, or the answer is a page whose lines are
\* of different moments.
AnswersAreCurrent == AvailabilityIsCurrent /\ LowStockIsTrue /\ EligibleMeansReservable

\* A reconciliation reports a mismatch only when stock moved between its two
\* queries: the ledger always explains the stock, so every mismatch is false.
MismatchesAreRaces ==
  Ready("reconcile") /\ Mismatches(seen) # {} => during["stock"] > 0

\* The control tower raises both alerts for a row only when something was
\* committed between its two computations of stockout risk.
BothAlertsAreRaces ==
  Ready("tower") /\ StockoutAlerts(seen) \cap RestockAlerts(seen) # {} =>
    \E k \in DOMAIN during : during[k] > 0

\* What the reports show as an inconsistency is one of their own making: stock
\* and ledger never disagree, and no row needs both alerts.
AnomaliesAreRaces == MismatchesAreRaces /\ BothAlertsAreRaces

\* Reports read their tables one after the other and still tell the truth, but for
\* what moves between their queries.
ReportsAreTrueOrRaced == AnswersAreCurrent /\ AnomaliesAreRaces
=============================================================================
