------------------------------ MODULE MCAgent ------------------------------
(***************************************************************************)
(* Small instances, for TLC, of the agent's server and of the browser: the *)
(* registry of sessions, the shared backend client, the example queries    *)
(* over the tables, and the chat, login, review page and control tower of  *)
(* one tab.  They share no state, so interleaving their steps shows        *)
(* nothing: a behaviour follows one of them, its part, and leaves the      *)
(* others as they start.                                                   *)
(***************************************************************************)
EXTENDS AgentSession, ServiceToken, QueryExamples, AgentChat, SignIn, ReviewPage,
        ControlTowerPage, TLC

CONSTANTS r1, r2, r3, main, worker  \* requests and the loops they run in

VARIABLE part
agentVars ==
  <<part, vars, tokenVars, exampleVars, chatVars, signInVars, reviewPageVars, pageVars>>

MCLoopOf == (r1 :> main) @@ (r2 :> main) @@ (r3 :> worker)

MCSymmetry == Permutations(Invocations)

\* Which object holds a session's state matters as little as what an object holds
\* that nothing refers to; nor does how a request that has ended got there.
Fields(o) == <<activeInvocations[o], lastAccess[o], supervisor[o], lockHolder[o]>>
SessionView ==
  << [s \in DOMAIN registry |-> Fields(registry[s])],
     [i \in Invocations |->
        LET s == invocation[i].session
            o == invocation[i].state
        IN IF s \in DOMAIN registry /\ registry[s] = o
             THEN <<invocation[i].at, s>>
             ELSE <<invocation[i].at, s, o, IF InFlight(i) THEN Fields(o) ELSE <<>> >>],
     now >>
Over == {r \in Requests : request[r].at \in Outcomes \ {"unauthorized", "wrong loop"}}
TokenView ==
  <<sharedVars, issued, refused, Over, disturbed \ Over,
    [r \in Requests \ Over |-> request[r]]>>
\* The examples only sort by when a transaction was cancelled.
CancellationOrder ==
  LET cancelled == DOMAIN cancelledAt
  IN <<{i \in cancelled : cancelledAt[i] = moment},
       {p \in cancelled \X cancelled : cancelledAt[p[1]] < cancelledAt[p[2]]}>>

MCView ==
  <<part, CASE part = "sessions" -> SessionView
            [] part = "client" -> TokenView
            [] part = "chat" -> chatVars
            [] part = "login" -> signInVars
            [] part = "review" -> reviewPageVars
            [] part = "tower" -> pageVars
            [] part = "examples" ->
                 <<historyVars, inventory, reservations, counts, inactive, CancellationOrder>>>>

----------------------------------------------------------------------------
(* The tables of the examples: two products, a supplier, a customer with   *)
(* and one without a name, a small and an unlimited warehouse, and counts  *)
(* of stock; of the products one sells more units and the other earns more.*)

Deal(type, src, dst, supplier, party, good, quantity, price, due) ==
  [type |-> type, src |-> src, dst |-> dst, supplier |-> supplier, good |-> good,
   quantity |-> quantity, price |-> price, due |-> due, party |-> party, country |-> party]

MCDeals ==
  { Deal("INCOMING", NoOne, 1, "v", NoOne, 1, 2, 2, 0),
    Deal("OUTGOING", 1, NoOne, NoOne, "acme", 1, 1, 3, 0),
    Deal("OUTGOING", 2, NoOne, NoOne, NoOne, 2, 2, 1, NoOne),
    Deal("TRANSFER", 1, 2, NoOne, NoOne, 1, 1, 0, 0) }

MCCategoryName == <<"it", "office">>
MCMaxCapacity == <<5, NoOne>>
MCCorrections == {-1, 2}

\* Bound: a second count comes before the first order, on the first morning, to
\* stock both products, and then nothing goes out of use.
SecondCountFirst ==
  Len(counts') = 2 =>
    /\ inactive' = {}
    /\ Len(counts) = 1 => /\ Placed = {} /\ moment = 0
                          /\ counts'[1].good < counts'[2].good
                          /\ \A k \in 1..2 : counts'[k].quantity > 0

----------------------------------------------------------------------------
(* Two mornings of the control tower: one with overdue orders of two       *)
(* suppliers and of a customer, one with shelves of every kind.            *)

Order(id, type, supplier, warehouses) ==
  [id |-> id, type |-> type, supplier |-> supplier, products |-> {1}, warehouses |-> warehouses]
Quiet == [dead |-> <<>>, anomalies |-> <<>>, risk |-> <<>>, overdue |-> <<>>, reviews |-> <<>>,
          restock |-> <<>>, transfers |-> <<>>]

Late == [Quiet EXCEPT
  !.overdue = <<Order(7, "INCOMING", 1, {1}), Order(8, "OUTGOING", Null, {1}),
                Order(9, "INCOMING", 2, {1, 2})>>,
  !.reviews = <<7>>,
  !.risk = <<[shelf |-> <<1, 2>>, level |-> "OUT_OF_STOCK"], [shelf |-> <<2, 1>>, level |-> "AT_RISK"]>>,
  !.restock = <<[shelf |-> <<2, 1>>, level |-> "AT_RISK"]>>]

Uneven == [Quiet EXCEPT
  !.dead = <<<<1, 1>>>>, !.anomalies = <<<<1, 1>>>>,
  !.transfers = <<<<1, 1, 2>>, <<1, 1, 3>>>>]

MCSnapshots == {Late, Uneven}
MCSelections ==
  {NoFilter, [NoFilter EXCEPT !.warehouse = 2],
   [NoFilter EXCEPT !.category = "RESTOCK_RECOMMENDATION"]}

----------------------------------------------------------------------------
ReviewRests ==
  /\ decided = {} /\ url = NoDocument /\ latest = 0 /\ loads = {}
  /\ shown = Nothing /\ loading = FALSE /\ form = NoDocument /\ deciding = NoDocument

MCInit ==
  /\ part \in {"sessions", "client", "examples", "chat", "login", "review", "tower"}
  /\ Init /\ TokenInit /\ ExamplesInit /\ ChatInit /\ SignInInit /\ PageInit
  /\ IF part = "review" THEN ReviewPageInit ELSE ReviewRests

MCNext ==
  /\ UNCHANGED part
  /\ \/ part = "sessions" /\ Next
        /\ UNCHANGED <<tokenVars, exampleVars, chatVars, signInVars, reviewPageVars, pageVars>>
     \/ part = "client" /\ TokenNext
        /\ UNCHANGED <<vars, exampleVars, chatVars, signInVars, reviewPageVars, pageVars>>
     \/ part = "examples" /\ ExamplesNext /\ SecondCountFirst
        /\ UNCHANGED <<vars, tokenVars, chatVars, signInVars, reviewPageVars, pageVars>>
     \/ part = "chat" /\ ChatNext
        /\ UNCHANGED <<vars, tokenVars, exampleVars, signInVars, reviewPageVars, pageVars>>
     \/ part = "login" /\ SignInNext
        /\ UNCHANGED <<vars, tokenVars, exampleVars, chatVars, reviewPageVars, pageVars>>
     \/ part = "review" /\ ReviewPageNext
        /\ UNCHANGED <<vars, tokenVars, exampleVars, chatVars, signInVars, pageVars>>
     \/ part = "tower" /\ PageNext
        /\ UNCHANGED <<vars, tokenVars, exampleVars, chatVars, signInVars, reviewPageVars>>

MCSpec == MCInit /\ [][MCNext]_agentVars
=============================================================================
