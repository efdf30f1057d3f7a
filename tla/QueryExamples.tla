--------------------------- MODULE QueryExamples ---------------------------
(***************************************************************************)
(* The example queries that the agent learns its SQL from, over the tables *)
(* that the services keep.  Requests are atomic here, as RefinementProofs  *)
(* shows them to be: an order of TradeHistory also reserves, a completion  *)
(* moves stock and fulfils, and an admin counts stock and takes products   *)
(* and warehouses out of use.  A query is what its result says: groups and *)
(* their sums, without the order of the rows; a NULL it coalesces is the 0 *)
(* the sum has anyway.  The order matters where a LIMIT cuts the rows off: *)
(* such a query is the set of the answers it may give.                     *)
(***************************************************************************)
EXTENDS TradeHistory

CONSTANTS
  CategoryName,   \* category of each product
  MaxCapacity,  \* maximum capacity of each warehouse, or NoOne
  Corrections,  \* signed quantities an admin may adjust by
  MaxCounts,    \* bound: adjustments ever made
  MaxInactive,  \* bound: products and warehouses ever taken out of use
  TopRows,      \* LIMIT of the queries about the most and the biggest, 10 in the code
  RecentRows,   \* LIMIT of the recently cancelled transactions, 50 in the code
  LastDays,     \* days of a query about the last 30 days
  MonthDays     \* days of a month

Products == DOMAIN CategoryName
Storehouses == DOMAIN MaxCapacity

ASSUME ExamplesAssumption ==
  /\ IsFiniteSet(Products) /\ IsFiniteSet(Storehouses)
  /\ \A d \in Deals :
       /\ d.good \in Products
       /\ d.type # "INCOMING" => d.src \in Storehouses
       /\ d.type # "OUTGOING" => d.dst \in Storehouses
  /\ \A d \in Deals : {"party", "country"} \subseteq DOMAIN d
  /\ \A s \in Storehouses : MaxCapacity[s] \in Nat \cup {NoOne}
  /\ Corrections \subseteq Int \ {0}
  /\ MaxCounts \in Nat /\ MaxInactive \in Nat /\ LastDays \in Nat /\ MonthDays \in Nat \ {0}
  /\ TopRows \in Nat \ {0} /\ RecentRows \in Nat \ {0}

VARIABLES
  inventory,     \* WarehouseInventory: <<product, warehouse>> -> units
  reservations,  \* Reservation: transaction -> row, quantity, status
  cancelledAt,   \* updatedAt of the transactions that are cancelled
  counts,        \* movements of the type ADJUSTMENT, in their order
  inactive       \* products and warehouses that are not active

exampleVars == <<historyVars, inventory, reservations, cancelledAt, counts, inactive>>

----------------------------------------------------------------------------
(* The requests.                                                           *)

UnitsHeld(table, is) == Total([i \in is |-> table[i].quantity], is)

\* Mutant: fulfilled and cancelled reservations still count.
EveryReservation(cell) == {i \in DOMAIN reservations : reservations[i].row = cell}
ActiveAt(cell) ==
  {i \in DOMAIN reservations : reservations[i].row = cell /\ reservations[i].status = "ACTIVE"}
HeldAt(cell) == IF cell \in DOMAIN inventory THEN inventory[cell] ELSE 0

ExamplesInit ==
  /\ HistoryInit
  /\ inventory = <<>> /\ reservations = <<>> /\ cancelledAt = <<>>
  /\ counts = <<>> /\ inactive = {}

\* Only what is active can be ordered, and only what is available.
PlaceAndReserve(d) ==
  LET i == Len(orders) + 1
      cell == <<d.good, d.src>>
  IN /\ PlaceDeal(d)
     /\ {<<"product", d.good>>, <<"warehouse", d.src>>, <<"warehouse", d.dst>>} \cap inactive = {}
     /\ IF d.type = "INCOMING" THEN UNCHANGED reservations
        ELSE /\ d.quantity <= HeldAt(cell) - UnitsHeld(reservations, ActiveAt(cell))
             /\ reservations' = [j \in DOMAIN reservations \cup {i} |->
                  IF j = i THEN [row |-> cell, quantity |-> d.quantity, status |-> "ACTIVE"]
                  ELSE reservations[j]]
     /\ UNCHANGED <<inventory, cancelledAt, counts, inactive>>

Flip(i, becomes) ==
  reservations' = [j \in DOMAIN reservations |->
    IF j = i THEN [reservations[i] EXCEPT !.status = becomes] ELSE reservations[j]]

Signed(m) == IF m.type \in {"OUTGOING", "TRANSFER_OUT"} THEN 0 - m.quantity ELSE m.quantity
MovedAt(ms, r) ==
  LET at == {m \in ms : <<m.good, m.site>> = r} IN Total([m \in at |-> Signed(m)], at)
After(ms) ==
  [r \in DOMAIN inventory \cup {<<m.good, m.site>> : m \in ms} |-> HeldAt(r) + MovedAt(ms, r)]

\* Rows that a set of movements changes are created with nothing in them, and no
\* row may fall below nothing.
Record(ms) ==
  /\ \A r \in DOMAIN After(ms) : After(ms)[r] >= 0
  /\ inventory' = After(ms)

CompleteAndMove(i) ==
  /\ CompleteOrder(i)
  /\ Record({[m EXCEPT !.at = moment] : m \in MovementsOf(i)})
  /\ Flip(i, "FULFILLED")
  /\ UNCHANGED <<cancelledAt, counts, inactive>>

CancelAndRelease(i) ==
  /\ CancelOrder(i)
  /\ Flip(i, "CANCELLED")
  /\ cancelledAt' = [j \in DOMAIN cancelledAt \cup {i} |->
                       IF j = i THEN moment ELSE cancelledAt[j]]
  /\ UNCHANGED <<inventory, counts, inactive>>

\* adjustInventory; its movement has no transaction.
Count(cell, quantity) ==
  LET m == [order |-> 0 - (Len(counts) + 1), type |-> "ADJUSTMENT", site |-> cell[2],
            good |-> cell[1], quantity |-> quantity, at |-> moment]
  IN /\ Len(counts) < MaxCounts
     /\ Record({m})
     /\ counts' = Append(counts, m)
     /\ UNCHANGED <<historyVars, reservations, cancelledAt, inactive>>

\* A product or a warehouse that history refers to is only switched off.
Deactivate(x) ==
  /\ Cardinality(inactive) < MaxInactive /\ x \notin inactive
  /\ inactive' = inactive \cup {x}
  /\ UNCHANGED <<historyVars, inventory, reservations, cancelledAt, counts>>

ExamplesNext ==
  \/ \E d \in Deals : PlaceAndReserve(d)
  \/ \E i \in Placed : CompleteAndMove(i) \/ CancelAndRelease(i)
  \/ \E cell \in Products \X Storehouses, q \in Corrections : Count(cell, q)
  \/ \E x \in ({"product"} \X Products) \cup ({"warehouse"} \X Storehouses) : Deactivate(x)
  \/ Later /\ UNCHANGED <<inventory, reservations, cancelledAt, counts, inactive>>

ExamplesSpec == ExamplesInit /\ [][ExamplesNext]_exampleVars

----------------------------------------------------------------------------
(* Stock.                                                                  *)

ActiveProducts == {g \in Products : <<"product", g>> \notin inactive}
ActiveWarehouses == {s \in Storehouses : <<"warehouse", s>> \notin inactive}
RowsOf(g) == {r \in DOMAIN inventory : r[1] = g}
RowsIn(s) == {r \in DOMAIN inventory : r[2] = s}
ActiveRows == {r \in DOMAIN inventory : r[1] \in ActiveProducts /\ r[2] \in ActiveWarehouses}

\* onHand, reserved and available of a set of rows.
Availability(rows) ==
  LET reserved == Total([r \in rows |-> UnitsHeld(reservations, ActiveAt(r))], rows)
  IN [onHand |-> Total(inventory, rows), reserved |-> reserved,
      available |-> Total(inventory, rows) - reserved]

PhysicalStock == [r \in ActiveRows |-> inventory[r]]
AvailableStock == [r \in ActiveRows |-> Availability({r})]
TotalAvailable ==
  [g \in {r[1] : r \in DOMAIN inventory} \cap ActiveProducts |-> Availability(RowsOf(g))]
AvailableOf(g) == [s \in {r[2] : r \in ActiveRows \cap RowsOf(g)} |-> Availability({<<g, s>>})]

\* It groups by product and stock, not by warehouse: rows of two warehouses whose
\* names match and that hold the same are one, with the stock of one of them.
AvailableInNamed(sites) ==
  LET rows == {r \in ActiveRows : r[2] \in sites}
  IN [k \in {<<r[1], inventory[r]>> : r \in rows} |->
        LET group == {r \in rows : r[1] = k[1] /\ inventory[r] = k[2]}
        IN [onHand |-> k[2], reserved |-> Availability(group).reserved,
            available |-> k[2] - Availability(group).reserved]]
StockByCategory ==
  LET rows(c) == {r \in DOMAIN inventory : CategoryName[r[1]] = c /\ r[1] \in ActiveProducts}
  IN [c \in {k \in {CategoryName[g] : g \in Products} : rows(k) # {}} |-> Availability(rows(c))]
InSeveralWarehouses ==
  LET rows(g) == {r \in ActiveRows \cap RowsOf(g) : inventory[r] > 0}
  IN [g \in {h \in ActiveProducts : Cardinality(rows(h)) > 1} |->
        [warehouses |-> Cardinality(rows(g)), onHand |-> Total(inventory, rows(g))]]
WithoutInventory == {g \in ActiveProducts : RowsOf(g) = {}}
AvailableByWarehouse ==
  [s \in {r[2] : r \in DOMAIN inventory} \cap ActiveWarehouses |-> Availability(RowsIn(s))]

----------------------------------------------------------------------------
(* Sales and purchases.                                                    *)

DealOf(i) == orders[i].deal
\* What a query groups by is a function of the orders.
GroupedBy(is, key) ==
  [k \in {key[i] : i \in is} |->
     LET group == {i \in is : key[i] = k}
     IN [orders |-> Cardinality(group), units |-> Sold(group), value |-> Revenue(group)]]

\* Mutant: ORDER BY without DESC.
LeastOf(table, column, n) ==
  {[k \in rows |-> table[k]] : rows \in
     {S \in SUBSET DOMAIN table :
        /\ Cardinality(S) = Min({n, Cardinality(DOMAIN table)})
        /\ \A k \in S, l \in DOMAIN table \ S : table[k][column] <= table[l][column]}}
\* ORDER BY column DESC LIMIT n: no row that is left out has more in the column than one
\* that is not, and rows that have the same come in any order.
TopOf(table, column, n) ==
  {[k \in rows |-> table[k]] : rows \in
     {S \in SUBSET DOMAIN table :
        /\ Cardinality(S) = Min({n, Cardinality(DOMAIN table)})
        /\ \A k \in S, l \in DOMAIN table \ S : table[k][column] >= table[l][column]}}

GoodOf == [i \in Placed |-> DealOf(i).good]
SalesByProduct == GroupedBy(Completed("OUTGOING"), GoodOf)
BestSellers == TopOf(SalesByProduct, "units", TopRows)
BestEarners == TopOf(SalesByProduct, "value", TopRows)
SalesByCustomer ==
  GroupedBy({i \in Completed("OUTGOING") : DealOf(i).party # NoOne}, [i \in Placed |-> DealOf(i).party])
Customers == TopOf(SalesByCustomer, "value", TopRows)
OrderHistory(party) ==
  [i \in {j \in Placed : DealOf(j).type = "OUTGOING" /\ DealOf(j).party = party} |-> orders[i]]
ShippedFrom == GroupedBy(Completed("OUTGOING"), [i \in Placed |-> DealOf(i).src])

\* CURRENT_DATE - INTERVAL '30 days' is a midnight.
Recent(is) == {i \in is : orders[i].actualDate >= Midnight(DayOf(moment) - LastDays)}
CompletedOn == [i \in Placed |-> DayOf(orders[i].actualDate)]
DailySales == GroupedBy(Recent(Completed("OUTGOING")), CompletedOn)

\* Mutant: one join of sales and purchases, in which every pair is a row.
JoinedMargin ==
  LET sold == Recent(Completed("OUTGOING"))
      bought == Recent(Completed("INCOMING"))
  IN [revenue |-> Revenue(sold) * Cardinality(bought), cost |-> Revenue(bought) * Cardinality(sold)]
Margin == [revenue |-> Revenue(Recent(Completed("OUTGOING"))), cost |-> Revenue(Recent(Completed("INCOMING")))]

\* This month and the eleven before it.
MonthOf(day) == day \div MonthDays
InLastYear(day) == MonthOf(day) >= MonthOf(DayOf(moment)) - 11
MonthlySales ==
  GroupedBy({i \in Completed("OUTGOING") : InLastYear(DayOf(orders[i].actualDate))},
            [i \in Placed |-> MonthOf(DayOf(orders[i].actualDate))])
Countries ==
  GroupedBy({i \in Completed("OUTGOING") : DealOf(i).country # NoOne}, [i \in Placed |-> DealOf(i).country])

SupplierOf == [i \in Placed |-> DealOf(i).supplier]
DeliveredBy == GroupedBy(Completed("INCOMING"), SupplierOf)
SpentWith == GroupedBy(Completed("INCOMING"), SupplierOf)
\* An average is a sum and a number: of the prices, whatever the quantities.
AveragePrices ==
  LET key(i) == <<DealOf(i).supplier, DealOf(i).good>>
  IN [k \in {key(i) : i \in Completed("INCOMING")} |->
        LET group == {i \in Completed("INCOMING") : key(i) = k}
        IN [sum |-> Total([i \in group |-> DealOf(i).price], group),
            number |-> Cardinality(group), units |-> Sold(group)]]

PendingOf(type) == {i \in Placed : orders[i].status = "PENDING" /\ DealOf(i).type = type}
PendingDeliveries ==
  [i \in PendingOf("INCOMING") |->
     [supplier |-> DealOf(i).supplier, warehouse |-> DealOf(i).dst,
      expectedDate |-> orders[i].expectedDate, units |-> Sold({i})]]

\* Mutant: a delivery that has arrived late is overdue, too.
OverdueWithLate ==
  {i \in Placed : /\ DealOf(i).type = "INCOMING" /\ orders[i].status # "CANCELLED"
                  /\ orders[i].expectedDate # NoOne /\ orders[i].expectedDate < moment}
OverdueDeliveries ==
  {i \in PendingOf("INCOMING") :
     orders[i].expectedDate # NoOne /\ orders[i].expectedDate < moment}

----------------------------------------------------------------------------
(* Reservations and transfers.                                             *)

ActiveReservations == {i \in DOMAIN reservations : reservations[i].status = "ACTIVE"}
ReservedByRow ==
  [r \in {reservations[i].row : i \in ActiveReservations} |-> UnitsHeld(reservations, ActiveAt(r))]
ReservingOrders ==
  [i \in ActiveReservations \cap PendingOf("OUTGOING") |-> reservations[i].quantity]
ReservingTransfers ==
  [i \in ActiveReservations \cap PendingOf("TRANSFER") |-> reservations[i]]

PendingTransfers == [i \in PendingOf("TRANSFER") |-> Sold({i})]
RecentTransfers == [i \in Recent(Completed("TRANSFER")) |-> Sold({i})]
BusiestRoutes == GroupedBy(Completed("TRANSFER"), [i \in Placed |-> <<DealOf(i).src, DealOf(i).dst>>])
TransfersByProduct == GroupedBy(Completed("TRANSFER"), GoodOf)
TransferredMost == TopOf(TransfersByProduct, "units", TopRows)

StockedIn(s) == Total(inventory, RowsIn(s))
Limited == {s \in ActiveWarehouses : MaxCapacity[s] # NoOne}
AlmostFull == {s \in Limited : MaxCapacity[s] # 0 /\ 100 * StockedIn(s) >= 80 * MaxCapacity[s]}
UnusedCapacity == [s \in Limited |-> MaxCapacity[s] - StockedIn(s)]

----------------------------------------------------------------------------
(* The ledger.                                                             *)

Ledger == Movements \cup {counts[k] : k \in DOMAIN counts}
Since(ms) == {m \in ms : m.at >= Midnight(DayOf(moment) - LastDays)}
LedgerOf(g) == {m \in Ledger : m.good = g}
MovedByWarehouse ==
  [k \in {<<m.site, m.type>> : m \in Since(Ledger)} |->
     Units({m \in Since(Ledger) : <<m.site, m.type>> = k})]

\* Mutant: an adjustment is a quantity without a sign.
NetWithoutSign(ms) ==
  Total([m \in ms |-> IF m.type = "ADJUSTMENT" THEN AtLeastZero(m.quantity) ELSE Signed(m)], ms)
Net(ms) == Total([m \in ms |-> Signed(m)], ms)
LedgerAt(ms, r) == {m \in ms : <<m.good, m.site>> = r}
LedgerDifferences ==
  [r \in {s \in DOMAIN inventory : inventory[s] # Net(LedgerAt(Ledger, s))} |->
     inventory[r] - Net(LedgerAt(Ledger, r))]
TransactionCounts ==
  [k \in {<<DealOf(i).type, orders[i].status>> : i \in Placed} |->
     Cardinality({i \in Placed : <<DealOf(i).type, orders[i].status>> = k})]
CancelledOrders ==
  [i \in {j \in Placed : orders[j].status = "CANCELLED"} |-> [updatedAt |-> cancelledAt[i]]]
RecentlyCancelled == TopOf(CancelledOrders, "updatedAt", RecentRows)

\* NoOne is the NULL of a product that was never sold or received.
Latest(is) == IF is = {} THEN NoOne ELSE Max({orders[i].actualDate : i \in is})
LastTrades ==
  [g \in Products |->
     [sold |-> Latest({i \in Completed("OUTGOING") : GoodOf[i] = g}),
      received |-> Latest({i \in Completed("INCOMING") : GoodOf[i] = g})]]
TransactionsOf(g) == [i \in {j \in Placed : GoodOf[j] = g} |-> orders[i]]
NetChange ==
  [r \in {<<m.good, m.site>> : m \in Since(Ledger)} |-> Net(LedgerAt(Since(Ledger), r))]

----------------------------------------------------------------------------
(* Properties.                                                             *)

SumOver(groups, column) == Total([k \in DOMAIN groups |-> groups[k][column]], DOMAIN groups)

\* What the examples say of the stock fits together and with the tables: the
\* totals of a product are those of its warehouses, with the ones that are out of
\* use; what is reserved is what pending orders and transfers wait for; and there
\* is less of nothing than the reservations take unless somebody counted less.
StockExamplesAgree ==
  /\ \A g \in DOMAIN TotalAvailable :
       TotalAvailable[g].available
         = SumOver(AvailableOf(g), "available")
             + Availability({r \in RowsOf(g) : r[2] \notin ActiveWarehouses}).available
  /\ SumOver(StockByCategory, "onHand") = SumOver(TotalAvailable, "onHand")
  /\ SumOver(AvailableByWarehouse, "onHand")
       = Total(PhysicalStock, DOMAIN PhysicalStock)
           + Total(inventory, {r \in DOMAIN inventory : r[1] \notin ActiveProducts /\ r[2] \in ActiveWarehouses})
  /\ \A s \in ActiveWarehouses :
       \A k \in DOMAIN AvailableInNamed({s}) :
         AvailableInNamed({s})[k] = AvailableStock[<<k[1], s>>]
  /\ WithoutInventory \cap DOMAIN TotalAvailable = {}
  /\ DOMAIN InSeveralWarehouses \subseteq DOMAIN TotalAvailable
  /\ \A r \in DOMAIN AvailableStock :
       AvailableStock[r].available < 0 =>
         \E k \in DOMAIN counts : counts[k].quantity < 0 /\ <<counts[k].good, counts[k].site>> = r
  /\ Total(ReservedByRow, DOMAIN ReservedByRow)
       = Total(ReservingOrders, DOMAIN ReservingOrders) + UnitsHeld(reservations, DOMAIN ReservingTransfers)
  /\ DOMAIN ReservingTransfers = DOMAIN PendingTransfers
  /\ DOMAIN ReservingOrders = PendingOf("OUTGOING")
  /\ \A s \in Limited : MaxCapacity[s] > 0 =>
       (s \in AlmostFull <=> 100 * UnusedCapacity[s] <= 20 * MaxCapacity[s])

\* A question about the most and the biggest has an answer.  Its rows are those of the
\* analytics, whoever it leaves out sold, earned or spent no more than anybody in it,
\* and with what it leaves out it is all there is; the products that earned the most
\* earned no less than those that sold the most.
TopExamplesAgree ==
  LET sold == Completed("OUTGOING")
      SpentBy(party) == Revenue({i \in sold : DealOf(i).party = party})
  IN /\ {} \notin {BestSellers, BestEarners, Customers, TransferredMost, RecentlyCancelled}
     /\ \A top \in BestSellers :
          /\ \A g \in DOMAIN top : top[g].units = Sold(ProductSales[g])
          /\ \A g \in DOMAIN top, h \in GoodsTraded \ DOMAIN top :
               Sold(ProductSales[h]) <= top[g].units
          /\ SumOver(top, "units") + Sold({i \in sold : GoodOf[i] \notin DOMAIN top}) = Sold(sold)
     /\ \A top \in BestEarners :
          /\ \A g \in DOMAIN top : top[g].value = Revenue(ProductSales[g])
          /\ \A g \in DOMAIN top, h \in GoodsTraded \ DOMAIN top :
               Revenue(ProductSales[h]) <= top[g].value
          /\ SumOver(top, "value") + Revenue({i \in sold : GoodOf[i] \notin DOMAIN top}) = Revenue(sold)
          /\ \A most \in BestSellers : SumOver(most, "value") <= SumOver(top, "value")
     /\ \A top \in Customers :
          /\ \A party \in DOMAIN top :
               /\ top[party].orders
                    = Cardinality({i \in DOMAIN OrderHistory(party) : orders[i].status = "COMPLETED"})
               /\ \A i \in sold : DealOf(i).party \notin DOMAIN top \cup {NoOne} =>
                    SpentBy(DealOf(i).party) <= top[party].value
          /\ SumOver(top, "value") + Revenue({i \in sold : DealOf(i).party \notin DOMAIN top}) = Revenue(sold)

\* What they say of sales and purchases is what the analytics say, however it is
\* grouped, and no order is counted twice.
TradeExamplesAgree ==
  /\ TopExamplesAgree
  /\ \A s \in DOMAIN ShippedFrom : ShippedFrom[s].units = Sold(WarehouseSales[s])
  /\ \A day \in DOMAIN DailySales : DailySales[day].value = Revenue(SalesTrends[day])
  /\ SumOver(DailySales, "value") = Margin.revenue
  /\ SumOver(MonthlySales, "value")
       = RevenueBy([day \in {d \in DOMAIN SalesTrends : InLastYear(d)} |-> SalesTrends[day]])
  /\ Margin.revenue <= Revenue(Completed("OUTGOING")) /\ Margin.cost <= SumOver(SpentWith, "value")
  /\ SumOver(Countries, "orders") <= SumOver(ShippedFrom, "orders")
  /\ \A v \in DOMAIN DeliveredBy : DeliveredBy[v].orders = Comparison(v).completed
  /\ SumOver(DeliveredBy, "units") = SumOver(AveragePrices, "units")

\* A delivery the example calls overdue is overdue for the backend, too, or due
\* today: the example asks for the instant, the backend for the day.
OverdueExampleAgrees ==
  /\ Overdue \cap PendingOf("INCOMING") \subseteq OverdueDeliveries
  /\ OverdueDeliveries \subseteq Overdue \cup Upcoming
  /\ \A i \in OverdueDeliveries \ Overdue : orders[i].expectedDate = StartOfToday
  /\ OverdueDeliveries \subseteq DOMAIN PendingDeliveries

\* The ledger explains the stock, as one of the examples asks; what has changed
\* in the last days and what there was before is what there is; transfers neither
\* make nor lose anything; the last sale of a product decides, with the stock,
\* whether it is dead everywhere; and what is listed as cancelled holds nothing back.
LedgerExamplesAgree ==
  /\ DOMAIN LedgerDifferences = {}
  /\ \A r \in DOMAIN inventory :
       inventory[r] = Net(LedgerAt(Ledger \ Since(Ledger), r))
                     + (IF r \in DOMAIN NetChange THEN NetChange[r] ELSE 0)
  /\ SumOver(BusiestRoutes, "units") = Units({m \in Ledger : m.type = "TRANSFER_OUT"})
  /\ SumOver(BusiestRoutes, "units") = Units({m \in Ledger : m.type = "TRANSFER_IN"})
  /\ \A top \in TransferredMost :
       SumOver(top, "units") + Sold({i \in Completed("TRANSFER") : GoodOf[i] \notin DOMAIN top})
         = SumOver(BusiestRoutes, "units")
  /\ Total(RecentTransfers, DOMAIN RecentTransfers)
       = Total(MovedByWarehouse, {k \in DOMAIN MovedByWarehouse : k[2] = "TRANSFER_IN"})
  /\ \A g \in Products :
       (LastTrades[g].sold # NoOne => LastTrades[g].sold \in {m.at : m \in LedgerOf(g)})
       /\ ((\A s \in Storehouses : DeadStock(g, s))
             <=> (LastTrades[g].sold = NoOne \/ LastTrades[g].sold <= moment - 2 * IdleDays))
  /\ Total(TransactionCounts, DOMAIN TransactionCounts)
       = Total([g \in Products |-> Cardinality(DOMAIN TransactionsOf(g))], Products)
  /\ \A top \in RecentlyCancelled :
       /\ Cardinality(DOMAIN top)
            = Min({RecentRows, Total(TransactionCounts, {k \in DOMAIN TransactionCounts : k[2] = "CANCELLED"})})
       /\ \A i \in DOMAIN top \cap DOMAIN reservations : reservations[i].status = "CANCELLED"

\* The examples tell one story of the tables, and the story of the reports, as soon
\* as there is one.
ExamplesAgree ==
  Placed # {} \/ counts # <<>> =>
    /\ StockExamplesAgree
    /\ TradeExamplesAgree
    /\ OverdueExampleAgrees
    /\ LedgerExamplesAgree
=============================================================================
