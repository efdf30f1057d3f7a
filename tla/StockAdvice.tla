----------------------------- MODULE StockAdvice -----------------------------
(***************************************************************************)
(* The advice of the agent on one product that is short or idle in one     *)
(* warehouse.  A tool asks the backend several questions over HTTP, one    *)
(* after the other, and decides from the answers alone; customers buy,     *)
(* deliveries and transfers arrive and time passes in between, and several *)
(* managers ask at once, and somebody may take a warehouse or the product  *)
(* out of use: stockout risk is only computed of what is in use, dead      *)
(* stock is listed wherever it is.  One answer is of one moment here: what *)
(* its own queries may miss is the subject of StockReaders.                *)
(***************************************************************************)
EXTENDS StockInsights, Sequences, Sums

CONSTANTS
  Stores,      \* warehouse ids
  Shelves,     \* what the warehouses hold to start with
  Openings,    \* sets of warehouses that may be in use to start with
  Capacities,  \* what the warehouses can hold of this product beside the others
  Unbounded,   \* the capacity of a warehouse without one
  Advisors,    \* requests for advice that may run at once
  IdleTime,    \* how long stock has not been sold when it is called dead
  Horizon      \* bound: how long a behaviour lasts

Shelf == [onHand : Nat, reserved : Nat, incoming : Nat, least : Nat, lastSale : Nat]

ASSUME AdviceAssumption ==
  /\ Stores \subseteq Nat /\ IsFiniteSet(Stores)
  /\ Shelves \subseteq [Stores -> Shelf]
  /\ Openings \subseteq SUBSET Stores
  /\ Capacities \subseteq [Stores -> Nat \cup {Unbounded}]
  /\ Unbounded \notin Int
  /\ IdleTime \in Nat /\ Horizon \in Nat

VARIABLES
  shelf,     \* what each warehouse holds; lastSale is 0 if it never sold any
  capacity,  \* maximum capacity of each warehouse
  open,      \* the warehouses that are active
  retired,   \* whether the product is inactive
  switched,  \* when each warehouse, or the product, was last taken in or out of use
  clock,
  call       \* of each advisor: tool, warehouse of the alert, answers so far

useVars == <<open, retired, switched>>
storeVars == <<shelf, capacity, useVars, clock>>
adviceVars == <<storeVars, call>>

Free(w) == shelf[w].onHand - shelf[w].reserved
Expected(w) == Free(w) + shelf[w].incoming
Room(w) == IF capacity[w] = Unbounded THEN Unbounded ELSE capacity[w] - shelf[w].onHand
InUse(w) == w \in open /\ ~retired
Dead(w) == shelf[w].onHand > 0 /\ shelf[w].lastSale <= clock - IdleTime

\* The questions of a tool, in its order: the restock recommendations, the
\* capacity, the dead stock and the stockout risk; the dead stock, the agent's
\* own clock and the sales within the idle time before it.
Questions ==
  [none |-> <<>>,
   restock |-> <<"needs", "room", "dead", "rows">>,
   deadStock |-> <<"dead", "today", "sales">>]
NoAdvice == [tool |-> "none", at |-> 0, heard |-> <<>>]

Asked(a) == Questions[call[a].tool]
Heard(a, q) == call[a].heard[CHOOSE k \in DOMAIN Asked(a) : Asked(a)[k] = q]
HasHeard(a, q) == \E k \in DOMAIN call[a].heard : Asked(a)[k] = q

\* What the backend answers now, to advisor a.
\* Mutant: all sales are asked for, however old.
SalesEver(a) == [w \in {d \in Stores : shelf[d].lastSale > 0} |-> shelf[w].lastSale]
SalesSince(a) ==
  [w \in {d \in Stores : /\ shelf[d].lastSale > 0
                         /\ shelf[d].lastSale >= Heard(a, "today") - IdleTime}
     |-> shelf[w].lastSale]
AnswerTo(a, q) ==
  LET w == call[a].at
  IN CASE q = "needs" -> [short |-> InUse(w) /\ RiskLevel(Expected(w), shelf[w].least) # "OK",
                          need |-> AtLeastZero(shelf[w].least - Expected(w))]
       [] q = "room" -> Room(w)
       [] q = "dead" -> [time |-> clock,
                         onHand |-> [d \in {e \in Stores : Dead(e)} |-> shelf[d].onHand]]
       [] q = "rows" -> [d \in {e \in Stores : InUse(e)} |->
                           [free |-> Free(d), least |-> shelf[d].least]]
       [] q = "today" -> clock
       [] q = "sales" -> SalesSince(a)

\* The alert is no longer true when the tool looks: a LookupError.
Outdated(a) ==
  \/ HasHeard(a, "needs") /\ ~Heard(a, "needs").short
  \/ call[a].tool = "deadStock" /\ HasHeard(a, "dead") /\ call[a].at \notin DOMAIN Heard(a, "dead").onHand
Answered(a) ==
  call[a].tool # "none" /\ ~Outdated(a) /\ Len(call[a].heard) = Len(Asked(a))

----------------------------------------------------------------------------
(* What the restock tool decides.                                          *)

\* Donors have dead stock and a row in the stockout risk.
Need(a) == Heard(a, "needs").need
DeadElsewhere(a) == DOMAIN Heard(a, "dead").onHand \ {call[a].at}
DeadDonors(a) == DeadElsewhere(a) \cap DOMAIN Heard(a, "rows")
SafeSurplus(a, d) == Heard(a, "rows")[d].free - Heard(a, "rows")[d].least

\* Mutant: all of the surplus is given away.
HalfAll(a, d) == AtLeastZero(SafeSurplus(a, d))
Half(a, d) == AtLeastZero(SafeSurplus(a, d)) \div 2

TransferQuantity(a, d) ==
  Min({Half(a, d), Need(a)} \cup ({Heard(a, "room")} \ {Unbounded}))
Scored(a) == {d \in DeadDonors(a) : Half(a, d) > 0 /\ TransferQuantity(a, d) > 0}
Covering(a) == {d \in Scored(a) : TransferQuantity(a, d) = Need(a)}

\* The one donor: the largest surplus, then the lowest id.
Winner(a) ==
  CHOOSE d \in Covering(a) :
    \A e \in Covering(a) :
      \/ SafeSurplus(a, d) > SafeSurplus(a, e)
      \/ SafeSurplus(a, d) = SafeSurplus(a, e) /\ d <= e

AdvisesTransfer(a) == call[a].tool = "restock" /\ Answered(a) /\ Covering(a) # {}
AdvisesPurchase(a) == call[a].tool = "restock" /\ Answered(a) /\ Covering(a) = {}

\* Why the whole need is to be purchased.
WhyPurchase(a) ==
  LET room == Heard(a, "room")
      best == CHOOSE d \in Scored(a) :
                \A e \in Scored(a) :
                  \/ TransferQuantity(a, d) > TransferQuantity(a, e)
                  \/ /\ TransferQuantity(a, d) = TransferQuantity(a, e)
                     /\ SafeSurplus(a, d) >= SafeSurplus(a, e)
  IN CASE DeadDonors(a) = {} -> "noDeadStock"
       [] DeadDonors(a) # {} /\ Scored(a) = {} -> "nothingToSpare"
       [] /\ Scored(a) # {}
          /\ room # Unbounded
          /\ room < Need(a) /\ room <= Half(a, best) -> "noRoom"
       [] OTHER -> "notEnough"

----------------------------------------------------------------------------
(* What the dead stock tool decides.                                       *)

\* Other warehouses that sold the product, the most recent sale first.
Sellers(a) == DOMAIN Heard(a, "sales") \ {call[a].at}
MoreRecent(a, d) == {e \in Sellers(a) : \/ Heard(a, "sales")[e] > Heard(a, "sales")[d]
                                        \/ Heard(a, "sales")[e] = Heard(a, "sales")[d] /\ e < d}

\* Half of the stock, shared evenly; what is left over goes to the first.
HalfOfStock(a) == Heard(a, "dead").onHand[call[a].at] \div 2
Portion(a, d) ==
  (HalfOfStock(a) \div Cardinality(Sellers(a)))
    + (IF Cardinality(MoreRecent(a, d)) < HalfOfStock(a) % Cardinality(Sellers(a)) THEN 1 ELSE 0)
SendsTo(a) ==
  IF call[a].tool = "deadStock" /\ Answered(a)
    THEN {d \in Sellers(a) : Portion(a, d) > 0} ELSE {}

WhyKept(a) ==
  CASE Sellers(a) = {} -> "noDestination"
    [] Sellers(a) # {} /\ HalfOfStock(a) = 0 -> "tooLittle"
    [] OTHER -> "transfer"

----------------------------------------------------------------------------
(* The advisors.                                                           *)

AdviceInit ==
  /\ shelf \in Shelves
  /\ capacity \in Capacities
  /\ open \in Openings /\ retired = FALSE
  /\ switched = [d \in Stores |-> 0]
  /\ clock = IdleTime + 1
  /\ call = [a \in Advisors |-> NoAdvice]

AskAdvice(a, tool, w) ==
  /\ call[a] = NoAdvice
  /\ call' = [call EXCEPT ![a] = [tool |-> tool, at |-> w, heard |-> <<>>]]
  /\ UNCHANGED storeVars

Hear(a) ==
  /\ Len(call[a].heard) < Len(Asked(a))
  /\ ~Outdated(a)
  /\ call' = [call EXCEPT ![a].heard =
                Append(@, AnswerTo(a, Asked(a)[Len(call[a].heard) + 1]))]
  /\ UNCHANGED storeVars

\* The advice is read and dropped, or there is none to give.
Dismiss(a) ==
  /\ Answered(a) \/ Outdated(a)
  /\ call' = [call EXCEPT ![a] = NoAdvice]
  /\ UNCHANGED storeVars

----------------------------------------------------------------------------
(* The warehouses meanwhile.  No capacity is enforced, so that a warehouse *)
(* may hold more than it can and have less than no room left.              *)

Tick == clock < IdleTime + 1 + Horizon /\ clock' = clock + 1 /\ UNCHANGED <<capacity, call>>
Trade == Tick /\ UNCHANGED useVars

\* An order or a transfer that takes one unit is placed; only what is in use can
\* be ordered, and what has been ordered is still shipped and received.
ReserveUnit(w) ==
  /\ InUse(w) /\ Free(w) > 0
  /\ shelf' = [shelf EXCEPT ![w].reserved = @ + 1]
  /\ Trade

SellUnit(w) ==
  /\ shelf[w].reserved > 0
  /\ shelf' = [shelf EXCEPT ![w].onHand = @ - 1, ![w].reserved = @ - 1, ![w].lastSale = clock]
  /\ Trade

MoveUnit(v, w) ==
  /\ v # w
  /\ shelf[v].reserved > 0
  /\ shelf' = [shelf EXCEPT ![v].onHand = @ - 1, ![v].reserved = @ - 1, ![w].onHand = @ + 1]
  /\ Trade

ReceiveDelivery(w) ==
  /\ shelf[w].incoming > 0
  /\ shelf' = [shelf EXCEPT ![w].onHand = @ + shelf[w].incoming, ![w].incoming = 0]
  /\ Trade

OrderUnit(w) ==
  /\ InUse(w)
  /\ shelf' = [shelf EXCEPT ![w].incoming = @ + 1]
  /\ Trade

Wait == Trade /\ UNCHANGED shelf

\* An admin takes a warehouse or the product out of use, or in again.
SwitchWarehouse(w) ==
  /\ open' = IF w \in open THEN open \ {w} ELSE open \cup {w}
  /\ switched' = [switched EXCEPT ![w] = clock]
  /\ Tick
  /\ UNCHANGED <<shelf, retired>>

SwitchProduct ==
  /\ retired' = ~retired
  /\ switched' = [d \in Stores |-> clock]
  /\ Tick
  /\ UNCHANGED <<shelf, open>>

AdviceNext ==
  \/ \E a \in Advisors, w \in Stores :
       AskAdvice(a, "restock", w) \/ AskAdvice(a, "deadStock", w)
  \/ \E a \in Advisors : Hear(a) \/ Dismiss(a)
  \/ \E w \in Stores :
       \/ ReserveUnit(w) \/ SellUnit(w) \/ ReceiveDelivery(w) \/ OrderUnit(w)
       \/ \E v \in Stores : MoveUnit(v, w)
       \/ SwitchWarehouse(w)
  \/ Wait \/ SwitchProduct

AdviceSpec == AdviceInit /\ [][AdviceNext]_adviceVars

----------------------------------------------------------------------------
(* Properties.                                                             *)

\* The transfers two managers are advised to make, if they have one donor, leave
\* it at its threshold when both are made, as long as it has at least what was
\* read of it: each takes at most half of what can be spared.
DonorsCanFollow ==
  \A a, b \in {c \in Advisors : AdvisesTransfer(c)} :
    a # b /\ Winner(a) = Winner(b) =>
      LET d == Winner(a)
      IN (\A c \in {a, b} : SafeSurplus(c, d) <= Free(d) - shelf[d].least) =>
           Free(d) - Need(a) - Need(b) >= shelf[d].least

\* A transfer covers the whole need and no more, which is never nothing, fits the
\* receiver as long as nothing arrived there, and comes from stock that has not been
\* sold for the idle time, in a warehouse that is in use, unless after the question
\* a customer bought some or somebody took it out of use.
TransfersDoTheirJob ==
  \A a \in {c \in Advisors : AdvisesTransfer(c)} :
    LET w == call[a].at
        d == Winner(a)
    IN /\ d # w /\ Need(a) > 0
       /\ Heard(a, "room") = Room(w) /\ Room(w) # Unbounded => Need(a) <= Room(w)
       /\ \/ shelf[d].lastSale <= Heard(a, "dead").time - IdleTime
          \/ shelf[d].lastSale >= Heard(a, "dead").time
       /\ InUse(d) \/ switched[d] >= Heard(a, "dead").time

\* The reason given for a purchase is true of what was read.  "No dead stock" is
\* said of the warehouses in use alone: any other that has some is out of use, or
\* has been switched since the list was read.  "Nothing to spare" also covers a
\* receiver that has no room left and a need of nothing.
PurchasesAreExplained ==
  \A a \in {c \in Advisors : AdvisesPurchase(c)} :
    /\ WhyPurchase(a) = "noDeadStock" =>
         \A d \in DeadElsewhere(a) : InUse(d) => switched[d] >= Heard(a, "dead").time
    /\ WhyPurchase(a) = "nothingToSpare" =>
         \/ Heard(a, "room") \in Int /\ Heard(a, "room") <= 0
         \/ Need(a) = 0
         \/ \A d \in DeadDonors(a) : SafeSurplus(a, d) < 2
    /\ WhyPurchase(a) = "noRoom" => Heard(a, "room") < Need(a)
    /\ WhyPurchase(a) = "notEnough" => \A d \in DeadDonors(a) : Half(a, d) < Need(a)

\* Dead stock is not sent where the same answer calls it dead, unless a customer
\* bought some there after the list was read, or at the very instant the idle
\* time starts, which both questions count; half of it stays, and all of it only
\* where nobody else sold any or a single unit is left.
DeadStockGoesWhereItSells ==
  \A a \in Advisors :
    /\ \A d \in SendsTo(a) :
         d \in DOMAIN Heard(a, "dead").onHand =>
           \/ shelf[d].lastSale >= Heard(a, "dead").time
           \/ Heard(a, "sales")[d] = Heard(a, "dead").time - IdleTime
    /\ SendsTo(a) # {} =>
         /\ Total([d \in SendsTo(a) |-> Portion(a, d)], SendsTo(a)) = HalfOfStock(a)
         /\ \A d, e \in SendsTo(a) : e \in MoreRecent(a, d) => Portion(a, e) >= Portion(a, d)
    /\ call[a].tool = "deadStock" /\ Answered(a) =>
         IF WhyKept(a) = "transfer" THEN SendsTo(a) # {}
         ELSE Sellers(a) = {} \/ Heard(a, "dead").onHand[call[a].at] = 1

\* Advice that was put together from several answers can be followed.
AdviceIsSound ==
  /\ DonorsCanFollow
  /\ TransfersDoTheirJob
  /\ PurchasesAreExplained
  /\ DeadStockGoesWhereItSells
=============================================================================
