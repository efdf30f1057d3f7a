--------------------------- MODULE TransferPlanner ---------------------------
(***************************************************************************)
(* The transfers the backend recommends: per product, warehouses that will *)
(* stay short are matched in turn with warehouses that have more than      *)
(* their reorder threshold, as far as the room of the receiver allows.     *)
(* Each step is one round of the matching loop.                            *)
(***************************************************************************)
EXTENDS StockInsights, FiniteSetsExt

CONSTANTS
  Goods, Sites,  \* product and warehouse ids
  Stocks,        \* what a cell may hold: available, incoming, threshold, dead
  Rooms,         \* what a warehouse may still take in, Unlimited included
  Unlimited

Cells == Goods \X Sites

ASSUME PlannerAssumption ==
  /\ Goods \subseteq Nat /\ Sites \subseteq Nat
  /\ Stocks \subseteq [available : Int, incoming : Nat, threshold : Nat, dead : BOOLEAN]
  /\ Rooms \subseteq Nat \cup {Unlimited}
  /\ Unlimited \notin Nat

VARIABLES
  stock,     \* the rows, as stockout risk lists them
  room0,     \* room of each warehouse at the start
  deadOnly,  \* only dead stock may be given away (the restock policy)
  need,      \* what each cell still lacks
  surplus,   \* what each cell can still give away
  room,      \* what each warehouse can still take in
  available, \* what each cell has after the transfers recommended so far
  projected, \* the same with what is on order
  todo,      \* pairs of the matching loop that have not been looked at
  advice     \* recommended transfers

plannerVars == <<stock, room0, deadOnly, need, surplus, room, available,
                projected, todo, advice>>

Projected(c) == stock[c].available + stock[c].incoming
StaysShort(c) == RiskLevel(Projected(c), stock[c].threshold) # "OK"

Lacks(c) ==
  IF StaysShort(c) THEN AtLeastZero(stock[c].threshold - Projected(c)) ELSE 0

\* Mutant: what is on order counts as stock to give away.
SparesIncoming(c) ==
  IF deadOnly => stock[c].dead
    THEN AtLeastZero(Projected(c) - stock[c].threshold) ELSE 0
Spares(c) ==
  IF deadOnly => stock[c].dead
    THEN AtLeastZero(stock[c].available - stock[c].threshold) ELSE 0

\* A pair of the loop: the product, the receiver and the donor.
Pairs == {pair \in Goods \X Sites \X Sites : pair[2] # pair[3]}
Receiver(pair) == <<pair[1], pair[2]>>
Donor(pair) == <<pair[1], pair[3]>>
Matches == {pair \in Pairs : Lacks(Receiver(pair)) > 0 /\ Spares(Donor(pair)) > 0}

\* Products in the order they appear in the list of risks, which starts with
\* the most urgent rows; receivers and donors by id.
Urgency(p) ==
  LET rank == [l \in {"OUT_OF_STOCK", "AT_RISK", "OK"} |->
                 IF l = "OUT_OF_STOCK" THEN 0 ELSE IF l = "AT_RISK" THEN 1 ELSE 2]
  IN Min({rank[RiskLevel(stock[<<p, s>>].available, stock[<<p, s>>].threshold)] : s \in Sites})
Earlier(a, b) ==
  \/ Urgency(a[1]) < Urgency(b[1])
  \/ Urgency(a[1]) = Urgency(b[1]) /\ a[1] < b[1]
  \/ a[1] = b[1] /\ a[2] < b[2]
  \/ a[1] = b[1] /\ a[2] = b[2] /\ a[3] < b[3]
IsNext(pair) == pair \in todo /\ \A other \in todo \ {pair} : Earlier(pair, other)

\* Mutant: the room of the receiver is not looked at.
AmountIgnoringRoom(pair) == Min({need[Receiver(pair)], surplus[Donor(pair)]})
Amount(pair) ==
  Min({need[Receiver(pair)], surplus[Donor(pair)]}
        \cup ({room[pair[2]]} \ {Unlimited}))

PlannerInit ==
  /\ stock \in [Cells -> Stocks]
  /\ room0 \in [Sites -> Rooms]
  /\ deadOnly \in BOOLEAN
  /\ need = [c \in Cells |-> Lacks(c)]
  /\ surplus = [c \in Cells |-> Spares(c)]
  /\ room = room0
  /\ available = [c \in Cells |-> stock[c].available]
  /\ projected = [c \in Cells |-> Projected(c)]
  /\ todo = Matches
  /\ advice = {}

Skip(pair) ==
  /\ IsNext(pair)
  /\ Amount(pair) <= 0
  /\ todo' = todo \ {pair}
  /\ UNCHANGED <<stock, room0, deadOnly, need, surplus, room, available, projected, advice>>

\* One transfer of Amount(pair): the books of the receiver and of the reports.
Transfer(pair) ==
  /\ IsNext(pair)
  /\ Amount(pair) > 0
  /\ need' = [need EXCEPT ![Receiver(pair)] = @ - Amount(pair)]
  /\ room' = [room EXCEPT ![pair[2]] = IF @ = Unlimited THEN @ ELSE @ - Amount(pair)]
  /\ available' = [available EXCEPT ![Donor(pair)] = @ - Amount(pair)]
  /\ projected' = [projected EXCEPT ![Receiver(pair)] = @ + Amount(pair)]
  /\ advice' = advice \cup {[pair |-> pair, quantity |-> Amount(pair)]}
  /\ UNCHANGED <<stock, room0, deadOnly>>

\* Mutant: what a donor has given away is not deducted.
RecommendForgetting(pair) ==
  /\ Transfer(pair)
  /\ todo' = todo \ {pair}
  /\ UNCHANGED surplus

\* Mutant: a receiver is matched with one donor only.
RecommendOnce(pair) ==
  /\ Transfer(pair)
  /\ surplus' = [surplus EXCEPT ![Donor(pair)] = @ - Amount(pair)]
  /\ todo' = {p \in todo : Receiver(p) # Receiver(pair)}

Recommend(pair) ==
  /\ Transfer(pair)
  /\ surplus' = [surplus EXCEPT ![Donor(pair)] = @ - Amount(pair)]
  /\ todo' = todo \ {pair}

PlannerNext == \E pair \in todo : Skip(pair) \/ Recommend(pair)

PlannerSpec == PlannerInit /\ [][PlannerNext]_plannerVars

----------------------------------------------------------------------------
(* What the agent makes of the recommendations for one cell that is short: *)
(* one transfer into it, or an order from a supplier if there is none.     *)

TransfersInto(c) == {a \in advice : Receiver(a.pair) = c}
Fix(c, ranked) ==
  IF TransfersInto(c) # {} THEN "transfer_in"
  ELSE IF ranked THEN "order_from_supplier" ELSE "no_solution"

----------------------------------------------------------------------------
(* Properties.                                                             *)

PlannerTypeOK ==
  /\ stock \in [Cells -> Stocks]
  /\ room0 \in [Sites -> Rooms]
  /\ deadOnly \in BOOLEAN
  /\ need \in [Cells -> Nat] /\ surplus \in [Cells -> Nat]
  /\ room \in [Sites -> Nat \cup {Unlimited}]
  /\ available \in [Cells -> Int] /\ projected \in [Cells -> Int]
  /\ todo \subseteq Pairs
  /\ advice \subseteq [pair : Pairs, quantity : Nat \ {0}]

\* All recommended transfers together leave a donor at or above its reorder
\* threshold from the stock it has today, whatever is on order, however many
\* receivers it is matched with; under the restock policy it is dead stock.
DonorsKeepTheirThreshold ==
  \A c \in Cells :
    available[c] # stock[c].available =>
      /\ available[c] >= stock[c].threshold
      /\ deadOnly => stock[c].dead

\* No cell is sent more than it will lack, and no cell both gives and receives.
NobodyGetsTooMuch ==
  \A c \in Cells :
    projected[c] # Projected(c) =>
      /\ projected[c] <= stock[c].threshold
      /\ available[c] = stock[c].available

\* The transfers of all products into one warehouse fit the room it had.
LandingAt(s) == MapThenSumSet(LAMBDA a : a.quantity, {a \in advice : a.pair[2] = s})
RoomIsShared == \A s \in Sites : room0[s] = Unlimited \/ LandingAt(s) <= room0[s]

\* All the recommended transfers can be carried out together.
TransfersAreSafe == DonorsKeepTheirThreshold /\ NobodyGetsTooMuch /\ RoomIsShared

\* When the loop ends nothing is left that could be moved: a cell that is told
\* to purchase has no donor left for it, or no room.  So where the agent tells a
\* manager that no other warehouse has a surplus to transfer, to order or that
\* there is no solution at all, no donor has one left, or the warehouse is full.
NothingLeftToMove ==
  todo = {} =>
    \A pair \in Pairs :
      /\ \/ need[Receiver(pair)] = 0
         \/ surplus[Donor(pair)] = 0
         \/ room[pair[2]] = 0
      /\ (\E ranked \in BOOLEAN : Fix(Receiver(pair), ranked) # "transfer_in") =>
           \/ ~StaysShort(Receiver(pair))
           \/ Lacks(Receiver(pair)) = 0
           \/ surplus[Donor(pair)] = 0
           \/ room[pair[2]] = 0

\* The plan can be carried out as a whole, and nothing it could have moved is bought.
PlanIsSound == TransfersAreSafe /\ NothingLeftToMove
=============================================================================
