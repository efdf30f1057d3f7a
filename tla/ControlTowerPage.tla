--------------------------- MODULE ControlTowerPage ---------------------------
(***************************************************************************)
(* The Control Tower page: the alerts the backend puts together, the cards *)
(* that pass the filters, and under some of them a "Recommend Solution"    *)
(* action, which keeps its own state and streams one answer of the agent.  *)
(* React keeps the state of an action as long as its card keeps its key.   *)
(***************************************************************************)
EXTENDS Naturals, SequencesExt, Sorting

CONSTANTS
  Snapshots,  \* what the seven queries of getControlTowerAlerts may return
  Selections, \* filters an admin may choose: [category, severity, warehouse]
  MaxPieces,  \* bound: pieces an answer arrives in
  MaxAnswers,    \* bound: times one action asks
  All,        \* the filter that lets everything pass
  Null     \* null

Resources == {"alerts", "warehouses", "products"}
NoFilter == [category |-> All, severity |-> All, warehouse |-> All]

\* A list that tells no two of its entries by the same name, as Name gives it.
ListBy(list, Name(_)) ==
  /\ list \in Seq(Range(list))
  /\ \A i, j \in DOMAIN list : Name(list[i]) = Name(list[j]) => i = j

\* Each query has a row for a shelf, an order, a review or a transfer once.
ASSUME ControlTowerAssumption ==
  /\ NoFilter \in Selections
  /\ MaxPieces \in Nat \ {0} /\ MaxAnswers \in Nat \ {0}
  /\ \A facts \in Snapshots :
       /\ ListBy(facts.dead, LAMBDA shelf : shelf)
       /\ ListBy(facts.anomalies, LAMBDA shelf : shelf)
       /\ ListBy(facts.risk, LAMBDA e : e.shelf)
       /\ ListBy(facts.overdue, LAMBDA o : o.id)
       /\ ListBy(facts.reviews, LAMBDA id : id)
       /\ ListBy(facts.restock, LAMBDA e : e.shelf)
       /\ ListBy(facts.transfers, LAMBDA t : t)

VARIABLES
  load,     \* state of the three fetches
  alerts,   \* the alerts that were fetched, in their order
  filters,  \* the filters chosen
  actions   \* mounted RecommendSolutionActions, by section and key

pageVars == <<load, alerts, filters, actions>>

----------------------------------------------------------------------------
(* getControlTowerAlerts.                                                  *)

Alert(category, severity, data, order) ==
  [category |-> category, severity |-> severity, data |-> data, order |-> order]
Each(entries, Make(_)) == [i \in DOMAIN entries |-> Make(entries[i])]
AtLevel(entries, level) == AtPlaces(entries, {i \in DOMAIN entries : entries[i].level = level})

Unsorted(facts) ==
  Each(facts.dead, LAMBDA shelf : Alert("DEAD_STOCK", "WARNING", shelf, Null))
  \o Each(facts.anomalies, LAMBDA shelf : Alert("CONSUMPTION_ANOMALY", "INFO", shelf, Null))
  \o Each(AtLevel(facts.risk, "OUT_OF_STOCK"),
          LAMBDA e : Alert("STOCKOUT_RISK", "CRITICAL", e.shelf, Null))
  \o Each(facts.overdue, LAMBDA o : Alert("OVERDUE_TRANSACTION", "WARNING", <<o.id>>, o))
  \o Each(facts.reviews, LAMBDA id : Alert("PENDING_DOCUMENT_REVIEW", "INFO", <<id>>, Null))
  \o Each(AtLevel(facts.restock, "AT_RISK"),
          LAMBDA e : Alert("RESTOCK_RECOMMENDATION", "WARNING", e.shelf, Null))
  \o Each(facts.transfers, LAMBDA t : Alert("TRANSFER_RECOMMENDATION", "WARNING", t, Null))

OfSeverity(list, severity) == AtPlaces(list, {i \in DOMAIN list : list[i].severity = severity})
Alerts(facts) ==
  OfSeverity(Unsorted(facts), "CRITICAL") \o OfSeverity(Unsorted(facts), "WARNING")
    \o OfSeverity(Unsorted(facts), "INFO")

----------------------------------------------------------------------------
(* controlTowerStats: which alerts are shown where, and what is asked of   *)
(* the agent.                                                              *)

\* Mutants: the position in the list for a key; a transfer without its destination.
PositionKey(alert, i) == <<i>>
KeyWithoutDestination(alert, i) ==
  <<alert.category, SubSeq(alert.data, 1, IF Len(alert.data) < 2 THEN Len(alert.data) ELSE 2)>>
AlertKey(alert, i) == <<alert.category, alert.data>>

\* A review names its warehouse in words only, and is never filtered by it.
AlertWarehouses(alert) ==
  CASE alert.category = "OVERDUE_TRANSACTION" -> alert.order.warehouses
    [] alert.category = "PENDING_DOCUMENT_REVIEW" -> {}
    [] OTHER -> Range(Tail(alert.data))

Passes(alert, f) ==
  /\ f.category \in {All, alert.category}
  /\ f.severity \in {All, alert.severity}
  /\ f.warehouse = All \/ AlertWarehouses(alert) = {} \/ f.warehouse \in AlertWarehouses(alert)
\* Lists are the positions of what they show, in the order of the alerts.
Filtered == {i \in DOMAIN alerts : Passes(alerts[i], filters)}

Sections ==
  [attention |-> {"STOCKOUT_RISK", "RESTOCK_RECOMMENDATION", "TRANSFER_RECOMMENDATION",
                  "OVERDUE_TRANSACTION"},
   insights |-> {"DEAD_STOCK", "CONSUMPTION_ANOMALY"},
   documents |-> {"PENDING_DOCUMENT_REVIEW"}]
Listed(section) == {i \in Filtered : alerts[i].category \in Sections[section]}
Place(section, i) == Cardinality({j \in Listed(section) : j <= i})
KeyAt(section, i) == AlertKey(alerts[i], Place(section, i))

\* An order of a customer, a transfer and an order without a supplier have none.
Scenario(alert) ==
  CASE alert.category \in {"CONSUMPTION_ANOMALY", "PENDING_DOCUMENT_REVIEW"} -> Null
    [] alert.category = "OVERDUE_TRANSACTION" ->
         IF alert.order.type # "INCOMING" \/ alert.order.supplier = Null \/ alert.order.products = {}
         THEN Null ELSE <<alert.category, alert.order.supplier, alert.order.products>>
    [] OTHER -> <<alert.category>> \o alert.data

----------------------------------------------------------------------------
(* The cards.                                                              *)

Shown == \A r \in Resources : load[r] = "ready"

IsFirstOverdue(section, i) ==
  /\ alerts[i].category = "OVERDUE_TRANSACTION"
  /\ \A j \in Listed(section) : j < i => alerts[j].category # "OVERDUE_TRANSACTION"
HasAction(section, i) ==
  /\ alerts[i].severity \in {"CRITICAL", "WARNING"}
  /\ Scenario(alerts[i]) # Null
  /\ ~IsFirstOverdue(section, i)

KeysIn(section) ==
  {<<section, KeyAt(section, i)>> : i \in {j \in Listed(section) : HasAction(section, j)}}
ActionKeys == IF Shown THEN UNION {KeysIn(section) : section \in DOMAIN Sections} ELSE {}
AlertOf(key) ==
  alerts[CHOOSE i \in Listed(key[1]) : HasAction(key[1], i) /\ KeyAt(key[1], i) = key[2]]

Mounted == [open |-> FALSE, hasRun |-> FALSE, streaming |-> FALSE, failed |-> FALSE,
            text |-> <<>>, runs |-> 0, streams |-> {}]

\* Mutant: what is rendered anew is mounted anew.
Remount == actions' = [key \in ActionKeys' |-> Mounted]
\* What the render after a step mounts, keeps and unmounts; a stream that goes on
\* without its action changes nothing any more.
Reconcile ==
  actions' = [key \in ActionKeys' |-> IF key \in DOMAIN actions THEN actions[key] ELSE Mounted]

PageInit ==
  /\ load = [r \in Resources |-> "loading"]
  /\ alerts = <<>> /\ filters = NoFilter /\ actions = <<>>

Fetched(r) ==
  /\ load[r] = "loading"
  /\ load' = [load EXCEPT ![r] = "ready"]
  /\ alerts' \in IF r = "alerts" THEN {Alerts(facts) : facts \in Snapshots} ELSE {alerts}
  /\ UNCHANGED filters /\ Reconcile
FetchFails(r) ==
  /\ load[r] = "loading"
  /\ load' = [load EXCEPT ![r] = "failed"]
  /\ alerts' = IF r = "alerts" THEN <<>> ELSE alerts
  /\ UNCHANGED filters /\ Reconcile
ReloadPage ==
  /\ "loading" \notin Range(load) /\ ~Shown
  /\ load' = [r \in Resources |-> "loading"]
  /\ UNCHANGED <<alerts, filters>> /\ Reconcile

SetFilters(f) ==
  /\ Shown /\ filters' = f
  /\ Cardinality({field \in DOMAIN f : f[field] # filters[field]}) = 1
  /\ UNCHANGED <<load, alerts>> /\ Reconcile

----------------------------------------------------------------------------
(* RecommendSolutionAction.                                                *)

Update(key, action) ==
  /\ actions' = [actions EXCEPT ![key] = action]
  /\ UNCHANGED <<load, alerts, filters>>

\* runRecommendation, from the click to the first await.
RunRecommendation(action, alert) ==
  IF action.streaming \/ action.runs = MaxAnswers THEN action
  ELSE [action EXCEPT !.streaming = TRUE, !.failed = FALSE, !.text = <<>>, !.runs = @ + 1,
          !.streams = @ \cup {[run |-> action.runs + 1, payload |-> Scenario(alert)]}]

\* Mutant: it asks whenever it is opened.
ToggleAndRun(key) ==
  LET toggled == [actions[key] EXCEPT !.open = ~@]
  IN Update(key, IF toggled.open THEN RunRecommendation(toggled, AlertOf(key)) ELSE toggled)
Toggle(key) ==
  LET toggled == [actions[key] EXCEPT !.open = ~@]
  IN Update(key, IF toggled.open /\ ~toggled.hasRun
                 THEN RunRecommendation([toggled EXCEPT !.hasRun = TRUE], AlertOf(key)) ELSE toggled)

TryAgain(key) ==
  /\ actions[key].open /\ actions[key].failed /\ actions[key].runs < MaxAnswers
  /\ Update(key, RunRecommendation(actions[key], AlertOf(key)))

TokensOf(action, stream) == SelectSeq(action.text, LAMBDA t : t.run = stream.run)
Token(key, stream) ==
  /\ Len(actions[key].text) < MaxPieces
  /\ Update(key, [actions[key] EXCEPT !.text = Append(@, stream)])

Served(action, stream) == [action EXCEPT !.streaming = FALSE, !.streams = @ \ {stream}]
\* Mutant: an error event does not end the generator.
FailedOnly(action, stream) == [action EXCEPT !.streaming = FALSE, !.failed = TRUE]
Failed(action, stream) == [action EXCEPT !.streaming = FALSE, !.failed = TRUE, !.streams = @ \ {stream}]

DoneEvent(key, stream) == Update(key, Served(actions[key], stream))
\* An error event, or an answer of the runtime that is none.
Error(key, stream) == Update(key, Failed(actions[key], stream))

\* Mutant: the end of the stream is not reported.
ClosedInSilence(key, stream) ==
  Update(key, [actions[key] EXCEPT !.streams = @ \ {stream}])
\* The connection closes without a done event: what has come is the answer.
Closed(key, stream) ==
  Update(key, IF TokensOf(actions[key], stream) = <<>> THEN Failed(actions[key], stream)
              ELSE Served(actions[key], stream))

Streams(key) ==
  /\ key \in DOMAIN actions
  /\ \E stream \in actions[key].streams :
       Token(key, stream) \/ DoneEvent(key, stream) \/ Error(key, stream) \/ Closed(key, stream)

PageNext ==
  \/ \E r \in Resources : Fetched(r) \/ FetchFails(r)
  \/ ReloadPage
  \/ \E f \in Selections : SetFilters(f)
  \/ \E key \in DOMAIN actions : Toggle(key) \/ TryAgain(key) \/ Streams(key)

PageSpec == PageInit /\ [][PageNext]_pageVars

----------------------------------------------------------------------------
(* Properties.                                                             *)

\* What stands under a card is one answer, the last that was asked for, and it was
\* asked about the alert of that card; no second stream writes into it; and no two
\* cards of a section have the same key.  It waits for an answer exactly as long as a
\* stream may bring one, so that "Analyzing..." ends when the stream does.
CardsShowTheirOwnAnswer ==
  /\ \A key \in DOMAIN actions :
       /\ \A t \in Range(actions[key].text) \cup actions[key].streams :
            t.run = actions[key].runs /\ t.payload = Scenario(AlertOf(key))
       /\ Cardinality(actions[key].streams) <= 1
       /\ actions[key].streaming <=> actions[key].streams # {}
  /\ \A section \in DOMAIN Sections :
       \A i, j \in Listed(section) : KeyAt(section, i) = KeyAt(section, j) => i = j

\* The agent is asked once for a card unless it failed; and whatever is filtered, an
\* alert that stays on the page keeps what it was answered, unless it has become
\* the first overdue order, which never has an action.
AnswersAreKept ==
  [][ /\ \A key \in DOMAIN actions \cap DOMAIN actions' :
           actions'[key].runs > actions[key].runs => actions[key].failed \/ actions[key].runs = 0
      /\ filters' # filters =>
           \A key \in DOMAIN actions :
             LET alert == AlertOf(key) IN
             IF key \in DOMAIN actions' THEN actions'[key] = actions[key] /\ AlertOf(key)' = alert
             ELSE \/ ~Passes(alert, filters')
                  \/ \E i \in Listed("attention")' :
                       alerts'[i] = alert /\ IsFirstOverdue("attention", i)' ]_pageVars
=============================================================================
