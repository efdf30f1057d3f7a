---------------------------- MODULE TradeHistory ----------------------------
(***************************************************************************)
(* Transactions as they are placed, completed and cancelled over time, and *)
(* what the due lists, the analytics, the supplier statistics and the      *)
(* movement reports make of the same history.  Time is counted in halves   *)
(* of a day, so that a day has a morning and an evening.                   *)
(***************************************************************************)
EXTENDS StockInsights, Sequences, Sums

CONSTANTS
  OrderIds,  \* transaction ids, 1..n, given out in this order
  Deals,     \* what may be ordered: type, src, dst, supplier, good, quantity, price, due
  Days,      \* bound: number of days
  Window,    \* days the due list looks ahead, and a consumption window lasts
  IdleDays,  \* days without a sale after which stock is dead
  NoOne     \* no supplier, no warehouse, no date

GoodsTraded == {d.good : d \in Deals}
SitesOf == {d.src : d \in Deals} \cup {d.dst : d \in Deals}

ASSUME HistoryAssumption ==
  /\ Window \in Nat \ {0} /\ IdleDays \in Nat /\ Days \in Nat \ {0}
  /\ NoOne \notin Int
  /\ IsFiniteSet(GoodsTraded) /\ IsFiniteSet(SitesOf)
  /\ \A d \in Deals :
       /\ d.type \in {"INCOMING", "OUTGOING", "TRANSFER"}
       /\ d.type # "INCOMING" => d.supplier = NoOne
       /\ d.quantity \in Nat \ {0} /\ d.price \in Nat
       /\ d.due \in Nat \cup {NoOne}  \* days from the order to the expected date

VARIABLES moment, orders

historyVars == <<moment, orders>>

DayOf(time) == time \div 2
Midnight(day) == 2 * day
Placed == DOMAIN orders

HistoryInit == moment = 0 /\ orders = <<>>

\* A date without a time of day, as the forms send it: midnight of the day.
PlaceDeal(d) ==
  /\ Len(orders) < Cardinality(OrderIds)
  /\ orders' = Append(orders,
       [deal |-> d, status |-> "PENDING", createdAt |-> moment, actualDate |-> NoOne,
        expectedDate |-> IF d.due = NoOne THEN NoOne ELSE Midnight(DayOf(moment) + d.due)])
  /\ UNCHANGED moment

\* Mutant: cancelling stamps the actual date, too.
CancelWithDate(i) ==
  /\ orders[i].status = "PENDING"
  /\ orders' = [orders EXCEPT ![i].status = "CANCELLED", ![i].actualDate = moment]
  /\ UNCHANGED moment
CancelOrder(i) ==
  /\ orders[i].status = "PENDING"
  /\ orders' = [orders EXCEPT ![i].status = "CANCELLED"]
  /\ UNCHANGED moment

CompleteOrder(i) ==
  /\ orders[i].status = "PENDING"
  /\ orders' = [orders EXCEPT ![i].status = "COMPLETED", ![i].actualDate = moment]
  /\ UNCHANGED moment

Later == moment < 2 * Days - 1 /\ moment' = moment + 1 /\ UNCHANGED orders

HistoryNext ==
  \/ \E d \in Deals : PlaceDeal(d)
  \/ \E i \in Placed : CompleteOrder(i) \/ CancelOrder(i)
  \/ Later

HistorySpec == HistoryInit /\ [][HistoryNext]_historyVars

----------------------------------------------------------------------------
(* The movements completing a transaction writes, at the time it does.     *)

Completed(type) == {i \in Placed : orders[i].status = "COMPLETED" /\ orders[i].deal.type = type}

MovementAt(i, type, site) ==
  [order |-> i, type |-> type, site |-> site, good |-> orders[i].deal.good,
   quantity |-> orders[i].deal.quantity, at |-> orders[i].actualDate]
MovementsOf(i) ==
  LET d == orders[i].deal
  IN CASE d.type = "INCOMING" -> {MovementAt(i, "INCOMING", d.dst)}
       [] d.type = "OUTGOING" -> {MovementAt(i, "OUTGOING", d.src)}
       [] d.type = "TRANSFER" -> {MovementAt(i, "TRANSFER_OUT", d.src), MovementAt(i, "TRANSFER_IN", d.dst)}
Movements ==
  UNION {MovementsOf(i) : i \in {j \in Placed : orders[j].status = "COMPLETED"}}

Units(ms) == Total([m \in ms |-> m.quantity], ms)
Sold(is) == Total([i \in is |-> orders[i].deal.quantity], is)
Revenue(is) == Total([i \in is |-> orders[i].deal.quantity * orders[i].deal.price], is)

----------------------------------------------------------------------------
(* The due lists.                                                          *)

Pendings == {i \in Placed : orders[i].status = "PENDING" /\ orders[i].expectedDate # NoOne}
StartOfToday == Midnight(DayOf(moment))

Upcoming ==
  {i \in Pendings : /\ orders[i].expectedDate >= StartOfToday
                    /\ orders[i].expectedDate <= Midnight(DayOf(moment) + Window + 1) - 1}

\* Mutant: what is due today is overdue, too.
OverdueToday == {i \in Pendings : orders[i].expectedDate <= StartOfToday}
Overdue == {i \in Pendings : orders[i].expectedDate < StartOfToday}

\* The purchase orders the agent lists, each with its value, and those it calls
\* overdue: it compares days.
OpenPurchaseOrders == {i \in Placed : orders[i].status = "PENDING" /\ orders[i].deal.type = "INCOMING"}
OrderValue(i) == orders[i].deal.quantity * orders[i].deal.price
OrdersValue(is) == Total([i \in is |-> OrderValue(i)], is)
CalledOverdue ==
  {i \in OpenPurchaseOrders :
     orders[i].expectedDate # NoOne /\ DayOf(orders[i].expectedDate) < DayOf(moment)}

----------------------------------------------------------------------------
(* The analytics.                                                          *)

\* Sales of a product, the top and lowest sellers; by warehouse; by day.
ProductSales == [g \in GoodsTraded |-> {i \in Completed("OUTGOING") : orders[i].deal.good = g}]
WarehouseSales == [s \in SitesOf |-> {i \in Completed("OUTGOING") : orders[i].deal.src = s}]

\* Mutant: trends are grouped by the day an order was placed, and only those
\* completed on it.
TrendsByPlacement ==
  [day \in 0..(Days - 1) |->
     {i \in Completed("OUTGOING") : /\ DayOf(orders[i].createdAt) = day
                               /\ DayOf(orders[i].actualDate) = day}]
SalesTrends ==
  [day \in 0..(Days - 1) |-> {i \in Completed("OUTGOING") : DayOf(orders[i].actualDate) = day}]
PurchaseTrends ==
  [day \in 0..(Days - 1) |-> {i \in Completed("INCOMING") : DayOf(orders[i].actualDate) = day}]

\* Where one product is asked for.
ProductDemand(g) ==
  [s \in SitesOf |-> {i \in Completed("OUTGOING") : orders[i].deal.good = g /\ orders[i].deal.src = s}]

\* All movements of one product.
StockHistory(g) == {m \in Movements : m.good = g}

Arrivals(g) == {m \in StockHistory(g) : m.type \in {"INCOMING", "TRANSFER_IN"}}

\* Products by what left the warehouses in the last days.
FastMoving(days) ==
  [g \in GoodsTraded |->
     Units({m \in Movements : m.type = "OUTGOING" /\ m.good = g /\ m.at >= moment - 2 * days})]

\* The supplier comparison of the analytics and the supplier's own statistics.
Purchases(v) == {i \in Placed : orders[i].deal.type = "INCOMING" /\ orders[i].deal.supplier = v}
Status(is, status) == {i \in is : orders[i].status = status}
Comparison(v) ==
  LET done == Status(Purchases(v), "COMPLETED")
      dated == {i \in done : orders[i].expectedDate # NoOne}
      inTime == {i \in dated : orders[i].actualDate <= orders[i].expectedDate}
  IN [completed |-> Cardinality(done),
      cancelled |-> Cardinality(Status(Purchases(v), "CANCELLED")),
      onTime |-> Cardinality(inTime), late |-> Cardinality(dated \ inTime)]
Statistics(v) ==
  LET all == {i \in Placed : orders[i].deal.supplier = v}
      dated == {i \in all : orders[i].expectedDate # NoOne /\ orders[i].actualDate # NoOne}
      inTime == {i \in dated : orders[i].actualDate <= orders[i].expectedDate}
  IN [completed |-> Cardinality(Status(all, "COMPLETED")),
      cancelled |-> Cardinality(Status(all, "CANCELLED")),
      onTime |-> Cardinality(inTime), late |-> Cardinality(dated \ inTime)]

----------------------------------------------------------------------------
(* The movement reports of one product in one warehouse that holds stock.  *)

Sales(g, s) == {m \in Movements : m.type = "OUTGOING" /\ m.good = g /\ m.site = s}

DeadStock(g, s) == \A m \in Sales(g, s) : m.at <= moment - 2 * IdleDays

\* Mutant: stock that leaves for another warehouse counts as consumed.
ChangeWithTransfers(g, s) ==
  LET out == {m \in Movements : m.type \in {"OUTGOING", "TRANSFER_OUT"} /\ m.good = g /\ m.site = s}
      recent == {m \in out : m.at >= moment - 2 * Window}
      older == {m \in out \ recent : m.at >= moment - 4 * Window}
  IN ConsumptionChange(Units(recent), Units(older), 50, 0)
Change(g, s) ==
  LET recent == {m \in Sales(g, s) : m.at >= moment - 2 * Window}
      older == {m \in Sales(g, s) \ recent : m.at >= moment - 4 * Window}
  IN ConsumptionChange(Units(recent), Units(older), 50, 0)

----------------------------------------------------------------------------
(* Properties.                                                             *)

HistoryTypeOK ==
  /\ moment \in 0..(2 * Days - 1)
  /\ \A i \in Placed :
       /\ orders[i].deal \in Deals
       /\ orders[i].status \in {"PENDING", "COMPLETED", "CANCELLED"}
       /\ orders[i].createdAt \in 0..moment
       /\ orders[i].actualDate \in 0..moment \cup {NoOne}

\* What the rows of a report add up to.
SoldBy(group) == Total([k \in DOMAIN group |-> Sold(group[k])], DOMAIN group)
RevenueBy(group) == Total([k \in DOMAIN group |-> Revenue(group[k])], DOMAIN group)

\* Every report of the sales adds up to the same units and money, whether it
\* groups by product, by warehouse or by day, and to what left the warehouses;
\* and what has moved of all products is what was bought and not sold.
SalesAddUp ==
  LET purchases == {i \in Placed : orders[i].deal.type = "INCOMING"}
  IN /\ SoldBy(ProductSales) = SoldBy(SalesTrends)
     /\ RevenueBy(ProductSales) = RevenueBy(SalesTrends)
     /\ Revenue(purchases)
          = OrdersValue(OpenPurchaseOrders) + OrdersValue(Status(purchases, "CANCELLED"))
              + RevenueBy(PurchaseTrends)
     /\ SoldBy(ProductSales) = SoldBy(WarehouseSales)
     /\ \A g \in GoodsTraded :
          FastMoving(Days)[g] = Sold(ProductSales[g]) /\ FastMoving(Days)[g] = SoldBy(ProductDemand(g))
     /\ Total([g \in GoodsTraded |-> Units(Arrivals(g)) - Units(StockHistory(g) \ Arrivals(g))], GoodsTraded)
          = SoldBy(PurchaseTrends) - SoldBy(SalesTrends)

\* The analytics, which look at status and type, and the supplier statistics,
\* which look at the dates alone, count the same deliveries on time and late.
SupplierReportsAgree ==
  \A v \in {d.supplier : d \in Deals} \ {NoOne} : Comparison(v) = Statistics(v)

\* Every pending order that is due before the window ends is in exactly one of
\* the two due lists, and the agent calls the same purchases overdue.
DueListsPartition ==
  /\ Upcoming \cap Overdue = {}
  /\ {i \in Pendings : orders[i].expectedDate <= StartOfToday + 2 * Window}
       \subseteq Upcoming \cup Overdue
  /\ CalledOverdue = Overdue \cap OpenPurchaseOrders

\* Stock that is reported dead is not reported as selling more, when stock is
\* dead only after more days than a consumption window has.
DeadStockDoesNotRise ==
  IdleDays > Window =>
    \A g \in GoodsTraded, s \in SitesOf : DeadStock(g, s) => Change(g, s) # "INCREASE"

\* Reports that are computed apart, from statuses, from dates or from movements,
\* tell one story of the same history, as soon as there is one.
ReportsAgree ==
  Placed # {} =>
    /\ SalesAddUp
    /\ SupplierReportsAgree
    /\ DeadStockDoesNotRise
    /\ DueListsPartition
=============================================================================
