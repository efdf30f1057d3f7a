----------------------------- MODULE MCReports -----------------------------
(***************************************************************************)
(* Small instances, for TLC, of what is read and computed beside the stock *)
(* transactions: reports on the stock, the catalogue, recommended          *)
(* transfers, reports on the history, the ranking of suppliers, what is    *)
(* read from a document and suggested for it, the agent's stock advice and *)
(* the demo.                                                               *)
(* They share no state, so interleaving their steps shows nothing: a       *)
(* behaviour follows one of them, its part, and leaves the others in one   *)
(* fixed state.                                                            *)
(***************************************************************************)
EXTENDS StockReaders, Catalog, TransferPlanner, TradeHistory, SupplierRanking,
        Extraction, DuplicateCheck, StockAdvice, DemoSeed, TLC

CONSTANTS r1, r2, w1, p1, p2  \* rows, their warehouse and product ids

VARIABLE part
reportsVars ==
  <<part, readerVars, catalogVars, plannerVars, historyVars, rankingVars, extractionVars,
    matchingVars, duplicateVars, adviceVars, seedVars>>

----------------------------------------------------------------------------
(* Stock and catalogue.                                                    *)

MCRows == {r1, r2}
MCProductOf == (r1 :> p1) @@ (r2 :> p2)
MCWarehouseOf == [r \in MCRows |-> w1]
InRows(first, second) == (r1 :> first) @@ (r2 :> second)
Plan(take, give) == [take |-> take, give |-> give]

Stock == InRows(1, 1)
OneLess == {-1}
MCOrders == {p1 :> 1, (p1 :> 1) @@ (p2 :> 1)}

\* Nothing, a delivery of the second product and an order for one of each.
MCPlans ==
  { NoPlan,
    Plan(Nothing, InRows(0, 1)),
    Plan(InRows(1, 1), Nothing) }

MCWants == {<<p1>>, <<p2, p1>>}

----------------------------------------------------------------------------
(* Transfers and history.                                                  *)

Cell(stocked, ordered, least, isDead) ==
  [available |-> stocked, incoming |-> ordered, threshold |-> least, dead |-> isDead]
MCStocks == {Cell(0, 0, 2, FALSE), Cell(1, 2, 2, FALSE), Cell(2, 0, 1, FALSE), Cell(3, 0, 0, TRUE)}

Deal(type, src, dst, supplier, good, quantity, price, due) ==
  [type |-> type, src |-> src, dst |-> dst, supplier |-> supplier, good |-> good,
   quantity |-> quantity, price |-> price, due |-> due]
MCDeals ==
  { Deal("INCOMING", NoOne, 1, "v", 1, 1, 2, 1),
    Deal("OUTGOING", 1, NoOne, NoOne, 1, 1, 3, 0),
    Deal("OUTGOING", 2, NoOne, NoOne, 1, 2, 3, NoOne),
    Deal("TRANSFER", 1, 2, NoOne, 1, 1, 0, 0) }

----------------------------------------------------------------------------
(* Invoices: a supplier invoice and a delivery note, with fields that are  *)
(* printed twice, left blank or not to be read.                            *)

Words(w) == <<"words", w>>
Blank == <<"blank", "">>
Printed(type, label, groups, text) == [type |-> type, label |-> label, groups |-> groups, text |-> text]

MCFields ==
  { Printed("OTHER", "TRANSACTION TYPE", {}, Words("INCOMING")),
    Printed("OTHER", "TRANSACTION TYPE", {}, Words("transfer")),
    Printed("VENDOR_NAME", "", {}, Blank),
    Printed("VENDOR_NAME", "", {}, Words("v")),
    Printed("NAME", "", {"VENDOR_SUPPLIER"}, Words("w")),
    Printed("NAME", "", {"RECEIVER_BILL_TO"}, Words("acme")),
    Printed("ADDRESS", "", {"RECEIVER_SHIP_TO", "RECEIVER_BILL_TO"}, Words("port")),
    Printed("ORDER_DATE", "", {}, Words("may")),
    Printed("INVOICE_RECEIPT_DATE", "", {}, Words("soon")),
    Printed("OTHER", "WAREHOUSE", {}, Words("north")),
    Printed("OTHER", "SOURCE WAREHOUSE", {}, Words("south")) }

MCBlocks == {Words("INCOMING"), Words("OUTGOING")}

Shown(type, text) == [type |-> type, text |-> text]
MCLineItems ==
  { <<Shown("ITEM", Words("chair")), Shown("QUANTITY", <<"number", 200>>), Shown("PRICE", <<"money", 500>>)>>,
    <<Shown("ITEM", Words("desk")), Shown("QUANTITY", <<"number", 250>>)>>,
    <<Shown("QUANTITY", <<"number", 100>>), Shown("ITEM", Words("lamp")), Shown("UNIT_PRICE", Words("free")),
      Shown("PRICE", <<"number", 300>>)>>,
    <<Shown("ITEM", Blank), Shown("QUANTITY", <<"number", 100>>)>>,
    <<Shown("ITEM", Words("rug")), Shown("QUANTITY", <<"number", 50>>), Shown("UNIT_PRICE", <<"money", 0>>)>> }

MCDated == {Words("may")}

----------------------------------------------------------------------------
(* Documents: two things of one name, one that differs in a number and one *)
(* in a word.                                                              *)

MCNameOf == << <<"mouse", "22">>, <<"mouse", "24">>, <<"mouse", "22">>, <<"mouse", "pad">> >>
MCCategoryOf == <<"it", "it", NoCategory, "office">>
MCNames == {<<"mouse", "22">>, <<"24", "mouse">>, <<"mouse">>, <<"mouse", "pad">>, <<"desk">>}
Listed(k, named, reasoned) ==
  [id |-> k, named |-> named, reasoned |-> reasoned, inRange |-> TRUE]
MCEntries ==
  {Listed(1, TRUE, TRUE), Listed(2, TRUE, TRUE), Listed(3, FALSE, TRUE),
   Listed(4, TRUE, FALSE), Listed(9, TRUE, TRUE)}
MCLists ==
  UNION {[1..n -> MCEntries] : n \in 0..2}
    \cup {[k \in 1..n |-> Listed(k, TRUE, TRUE)] : n \in 3..4}
MCProposals ==
  {[named |-> TRUE, category |-> c] : c \in {"it", "toys", NoCategory}}
    \cup {[named |-> FALSE, category |-> NoCategory]}

\* Likeness of a name and a product: a tie, a close and a distant runner-up.
MCLikeness ==
  [n \in MCNames |->
     CASE n = <<"mouse", "22">> -> <<100, 90, 100, 60>>
       [] n = <<"24", "mouse">> -> <<86, 95, 86, 50>>
       [] n = <<"mouse">> -> <<90, 90, 90, 86>>
       [] n = <<"mouse", "pad">> -> <<70, 70, 70, 100>>
       [] n = <<"desk">> -> <<20, 20, 20, 30>>]
Line(named, quantity, price) == [name |-> named, quantity |-> quantity, price |-> price]
Paper(party, day, lines) ==
  [incoming |-> TRUE, party |-> party, date |-> day, lines |-> lines]
MCContents ==
  { Paper("v", 1, <<Line(<<"24", "mouse">>, 1, 98)>>),
    Paper("v", 4, <<Line(<<"24", "mouse">>, 1, 100), Line(<<"mouse", "pad">>, 1, NoPrice)>>),
    Paper("v", 5, <<Line(<<"mouse", "22">>, 2, 50), Line(<<"desk">>, 1, 0)>>),
    Paper(NoParty, NoDate, <<Line(<<"desk">>, 1, 0)>>),
    [Paper("v", 1, <<Line(<<"24", "mouse">>, 1, 98)>>) EXCEPT !.incoming = FALSE] }

----------------------------------------------------------------------------
(* Advice: a short warehouse and two donors; two short ones and one donor; *)
(* a nearly full one; nothing dead to give away.  All warehouses are in    *)
(* use, or one that may have dead stock is not.                            *)

Held(held, taken, coming, least, soldAt) ==
  [onHand |-> held, reserved |-> taken, incoming |-> coming, least |-> least,
   lastSale |-> soldAt]
MCShelves ==
  { <<Held(0, 0, 0, 1, 2), Held(4, 1, 0, 1, 0), Held(3, 0, 0, 1, 1)>>,
    <<Held(0, 0, 0, 1, 2), Held(0, 0, 1, 2, 0), Held(3, 0, 0, 1, 1)>>,
    <<Held(5, 4, 0, 3, 3), Held(6, 1, 0, 1, 0), Held(2, 1, 0, 1, 2)>>,
    <<Held(1, 0, 0, 2, 3), Held(3, 0, 0, 1, 3), Held(0, 0, 0, 0, 0)>> }
MCCapacities == {[d \in Stores |-> 6], [d \in Stores |-> Unbounded]}
MCOpenings == {Stores, {1, 2}}

----------------------------------------------------------------------------
(* The demo: a database that is new, or holds what somebody tried out.     *)

Used == <<"laptop", "beirut">>
MCOldTables ==
  { [orders |-> <<>>, reservations |-> <<>>, movements |-> <<>>, rows |-> <<>>],
    [orders |-> <<1>>, reservations |-> <<>>,
     movements |-> <<[row |-> Used, type |-> "INCOMING", quantity |-> 22, age |-> 95,
                      order |-> 1]>>,
     rows |-> Used :> 22] }

----------------------------------------------------------------------------
\* The states in which parts that are not followed stay.
PlannerRests ==
  /\ stock = [c \in Cells |-> IF c[2] = 1 THEN Cell(0, 0, 2, FALSE) ELSE Cell(3, 0, 0, TRUE)]
  /\ room0 = [s \in Sites |-> Unlimited]
  /\ deadOnly = FALSE
RankingRests ==
  /\ stats = 1 :> [price |-> Unavailable, onTime |-> Unavailable,
                   cancellations |-> 0, history |-> 2]
  /\ ranking = <<>>
MatchingRests ==
  /\ kind = "supplier" /\ extracted = <<"desk">> /\ stage = "start"
  /\ offered = {} /\ verdict = NoVerdict /\ shown = NoVerdict
AdviceRests ==
  /\ shelf = [d \in Stores |-> Held(0, 0, 0, 0, 0)]
  /\ capacity = [d \in Stores |-> Unbounded]
  /\ open = Stores /\ retired = FALSE /\ switched = [d \in Stores |-> 0]
  /\ clock = 0
  /\ call = [a \in Advisors |-> NoAdvice]
SeedRests ==
  /\ phase = "stopped" /\ step = 0 /\ executed = 0 /\ masters = {}
  /\ orderTable = <<>> /\ reservationTable = <<>> /\ movementTable = <<>> /\ rowTable = <<>>

MCInit ==
  /\ part \in {"readers", "catalog", "planner", "history", "ranking",
              "extraction", "matching", "duplicates", "advice", "seed"}
  /\ ReadersInit /\ CatalogInit /\ HistoryInit /\ ExtractionInit /\ DuplicatesInit
  /\ (part = "planner" \/ PlannerRests) /\ PlannerInit
  /\ IF part = "ranking" THEN RankingInit ELSE RankingRests
  /\ IF part = "matching" THEN MatchingInit ELSE MatchingRests
  /\ IF part = "advice" THEN AdviceInit ELSE AdviceRests
  /\ IF part = "seed" THEN SeedInit ELSE SeedRests

MCNext ==
  /\ UNCHANGED part
  /\ \/ part = "readers" /\ ReadersNext
        /\ UNCHANGED
             <<catalogVars, plannerVars, historyVars, rankingVars,
               extractionVars, matchingVars, duplicateVars, adviceVars, seedVars>>
     \/ part = "catalog" /\ CatalogNext
        /\ UNCHANGED
             <<readerVars, plannerVars, historyVars, rankingVars,
               extractionVars, matchingVars, duplicateVars, adviceVars, seedVars>>
     \/ part = "planner" /\ PlannerNext
        /\ UNCHANGED
             <<readerVars, catalogVars, historyVars, rankingVars,
               extractionVars, matchingVars, duplicateVars, adviceVars, seedVars>>
     \/ part = "history" /\ HistoryNext
        /\ UNCHANGED
             <<readerVars, catalogVars, plannerVars, rankingVars,
               extractionVars, matchingVars, duplicateVars, adviceVars, seedVars>>
     \/ part = "ranking" /\ RankingNext
        /\ UNCHANGED
             <<readerVars, catalogVars, plannerVars, historyVars,
               extractionVars, matchingVars, duplicateVars, adviceVars, seedVars>>
     \/ part = "extraction" /\ ExtractionNext
        /\ UNCHANGED
             <<readerVars, catalogVars, plannerVars, historyVars, rankingVars,
               matchingVars, duplicateVars, adviceVars, seedVars>>
     \/ part = "matching" /\ MatchingNext
        /\ UNCHANGED
             <<readerVars, catalogVars, plannerVars, historyVars, rankingVars,
               extractionVars, duplicateVars, adviceVars, seedVars>>
     \/ part = "duplicates" /\ DuplicatesNext
        /\ UNCHANGED
             <<readerVars, catalogVars, plannerVars, historyVars, rankingVars,
               extractionVars, matchingVars, adviceVars, seedVars>>
     \/ part = "advice" /\ AdviceNext
        /\ UNCHANGED
             <<readerVars, catalogVars, plannerVars, historyVars, rankingVars,
               extractionVars, matchingVars, duplicateVars, seedVars>>
     \/ part = "seed" /\ SeedNext
        /\ UNCHANGED
             <<readerVars, catalogVars, plannerVars, historyVars, rankingVars,
               extractionVars, matchingVars, duplicateVars, adviceVars>>

MCSymmetry == Permutations(Advisors)
MCSpec == MCInit /\ [][MCNext]_reportsVars
=============================================================================
