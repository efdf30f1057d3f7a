# Nexora mini-ERP: a verification development

The repository is a small ERP: a NestJS backend over PostgreSQL (`backend/`), a
React single-page application (`frontend/`), and an agent service written in
Python (`ai-agent/`).  This directory holds TLA+ modules that model the parts
whose correctness depends on the order in which things happen, TLC
configurations that check them on small instances, and proofs checked by TLAPS.

## 1. Inventory of the system

| Component | State it keeps | Operations that change it | Talks to |
|---|---|---|---|
| Inventory transactions (`inventory-transactions.service.ts`) | `InventoryTransaction` and its items, `PENDING` until `COMPLETED` or `CANCELLED` | createIncoming, createOutgoing, createTransfer, update, complete, cancel, attachDocument | reservations, stock movements (inside one database transaction), S3 |
| Reservations (`reservations.service.ts`) | `Reservation`, `ACTIVE` until `FULFILLED` or `CANCELLED` | reserve, release, fulfill | stock movements |
| Stock movements (`stock-movements.service.ts`) | `WarehouseInventory.onHand`, the `StockMovement` ledger | recordMovement, adjustInventory; reads: reconcileInventory | - |
| Warehouse inventory, routing | `WarehouseInventory.reorderThreshold` | setReorderThreshold; reads: getAvailable and others, findEligibleWarehousesForOrder | stock tables |
| Document review (`document-review.service.ts`) | `PendingDocumentReview`, objects in S3, new `Product` rows | upload, approve, reject | S3, Textract, email, inventory transactions, the semantic matcher |
| Users (`users.service.ts`) | `User`, Cognito accounts | create, update (role), remove | Cognito, email |
| Guards (`common/guards`) | none | canActivate reads `User` | Cognito |
| Catalog (products, warehouses, suppliers services) | the rows and their `isActive` | create, update, remove (delete, or deactivate when referenced) | - |
| Stock insights, control tower | none (reads) | - | stock tables |
| Analytics, supplier intelligence | none (reads) | - | stock tables |
| Calendar, email | none | thin calls | Google |
| AI query, and the example queries it learns from (`seed-query-examples.ts`) | none (reads) | one statement | PostgreSQL |
| Textract extraction | none | - | document review |
| Control Tower page and its recommendations | the alerts, the filters, one answer per card | refetch, filter, open, try again | backend, agent |
| AgentCore entrypoint (`agentcore_entrypoint.py`) | the session registry, its locks | invoke, expiry, eviction | the agents, backend client |
| Backend client (`backend_client.py`) | the service token | request, refresh on 401 | backend |
| Agents' tools, narration | none | questions to the backend one after the other, advice from the answers | backend client, language model |
| Gate, SQL guard | none | functions of text | language model |
| Frontend contexts (`AuthContext`, `AgentContext`, `useFetch`, `api-client`) and the review page | token, conversations, last response | login, logout, sendMessage, refetch, decide | backend, agent |
| Demo seed (`prisma/seed.ts`) | every table | truncate, fill, assert | PostgreSQL |

What is hard, and what each component must keep:

- **The stock core** serves requests concurrently under READ COMMITTED, and
  protects itself with three devices only: the conditional `UPDATE` that claims
  a `PENDING` transaction, `SELECT ... FOR UPDATE` on inventory rows, and the
  conditional flip of an `ACTIVE` reservation.  Correct means: no row has more
  reserved than on hand, the ledger explains onHand, a transaction moves its
  items exactly once or never, the reservations of a pending transaction are
  those of its items, finished transactions are final, no set of requests waits
  in a circle, and every request ends.
- **Document review and users** change several systems in one request (S3,
  Textract and a row; Cognito, a row and an email) and compensate by hand.
  Correct means: whoever can sign in has a row, an account without a row is
  explained, the last admin stays, a review is decided once and its transaction is
  created exactly if it is approved, and no row refers to a file that is gone.
- **The agent's session registry** has a capacity, an expiry and one lock per
  session, which lives in an object that expiry and eviction may drop.  Correct
  means: one turn per conversation at a time, and nothing in use is dropped.
- **The catalogue** deletes or deactivates rows that running requests have just
  found active; correct means that no order refers to a row that is gone.
- **The frontend and the backend client** apply answers that arrive late, after
  a logout, a newer request or another attempt.
- **Readers** (`getAvailable`, `reconcileInventory`, the control tower) join the
  results of several statements that have no common snapshot.  Correct means that an
  answer is true when it is given unless stock itself moved meanwhile, and that an
  inconsistency is always such a race and never a lasting state.
- **Planner, reports and ranking** are computed from one reading, but by rules that
  have to fit each other: the transfers can be made together, reports that count
  by status, by date or by movement tell one story, a better supplier ranks first.
- **The agents' tools** decide from answers of several calls, while stock goes on
  moving and several managers ask; the matcher's answers are checked twice, by code in
  two languages.
- **The example queries** are what the agent's SQL is modelled on.  Correct means that they agree with each
  other on the same tables, and with the backend's reports on the same question: no join counts an order twice.
- **The extraction** turns what Textract happens to read into a row that an admin confirms: nothing in it
  may be invented, and the direction, on which hangs whether stock comes or goes, must be the one every marker names.
- **The Control Tower page** streams several answers at once into cards that filters move about: each answer has to
  stay with its alert.
- **The demo seed** writes the tables beside the services; wherever it dies and
  however often it is run again, a run that ends must leave what the services could
  have left.

The full list of hazards, each at its line, is in `PROJECT.json`.

## 2. The modules

```
InventoryTransactions --refines (InventoryRefinement)--> StockLedger <--extends-- StockReaders
        |                                |                   |                         |
  InventoryProofs  <------------------  RefinementProofs                         StockInsights
Users -- UsersProofs      DocumentReview -- DocumentReviewProofs
StockReaders, Catalog, TransferPlanner, SupplierRanking, DuplicateCheck -- ReportsProofs
DuplicateCheck --extends--> DocumentMatching --extends--> Sorting <--extends-- SupplierRanking
DemoSeed --extends--> DemoScript
QueryExamples --extends--> TradeHistory       Extraction --extends--> Sorting
StockAdvice, TradeHistory, QueryExamples, Extraction -- InsightsProofs
AgentSession, SignIn, ReviewPage, ServiceToken, AgentChat, ControlTowerPage -- AgentProofs
SumTheorems: lemmas about sums (Sums) and about sorted and filtered lists (Sorting),
  used by RefinementProofs, ReportsProofs, InsightsProofs and AgentProofs
```

`MC...` modules give TLC its instances.  `MCReports` and `MCAgent` hold several
components each: a variable `part` is chosen at the start, the behaviour then takes the
steps of that component only, and the others stay as they are.  They share no
variables, so every behaviour of each component is explored and interleavings that
would show nothing are not.

### InventoryTransactions - the stock core, interleaved

`inventory-transactions.service.ts`, `reservations.service.ts` and the writing
half of `stock-movements.service.ts`, at the grain of the statements PostgreSQL
interleaves.

- *Tables.* `transactions` (with their items), `inventory`, `reservations`
  are functions from keys to rows, `movements` is a bag, since the ledger is only
  ever summed and counted.  They hold what is committed.
- *Sessions.* `session[s]` is a request with its database transaction: the
  handler it runs (`op`), whether it has claimed its transaction row, the calls
  its loops still have to make (`todo`), the onHand it has just read under a lock
  (`seen`) and its uncommitted `writes`, laid over the tables by `Over`.
  `held[s]` are its row locks, kept to the end as PostgreSQL keeps them.
- *Actions.* A request arrives (`CreateIncoming`, `CreateOutgoing`,
  `CreateTransfer`, `Request`, `AdjustInventory`), claims its row (`Complete`,
  `Cancel`, `Update`), makes its calls one after another (`LockInventoryRow`,
  `FindNoInventoryRow`, then `Reserve`, `RecordMovement` or `Fulfil`; `Release`),
  and ends by `Commit`, by `Refuse` (a check of the code throws) or by `Abort`
  (timeout, lost connection, crash, or a catalogue check).
- *Grain.* A statement that waits for a lock is one step that takes the lock and
  reads the row; the aggregate of `reserve()` is a later statement, so it is a
  later step and sees what has been committed meanwhile.  Lookups of a
  transaction's own reservations are made at the claim: nobody but the claimant
  writes them before it ends (`ClaimsHold`).  The calls of a handler are taken
  from `todo` in the order in which the code sorts them (`Before`).
- *Left out.* Prices, dates, names; suppliers and `isActive` (their checks only
  throw, which `Abort` covers).  Documents are in `DocumentReview`.

### StockLedger - what the core promises

Every request is one atomic step; the reserved quantity of a row is a counter.
`InventoryRefinement` maps the tables to it and states `ImplementsStockLedger`.

### Users - an account, a row and an email

`users.service.ts` with what it does to the Cognito pool and to the `User` table.

- *State.* `users` (id to role) and `accounts` are the two systems; `reviewed` are
  the users a document review names, which is why `remove` may have to refuse;
  `spent` are the ids handed out, so an id is never used twice, as a Cognito `sub`
  never is.  `undone` and `noted` remember what happened: whose creation was rolled
  back, and which accounts an answer or a death left behind.
- *Actions.* `create` is the account, the row and the welcome email with their
  clean-ups in turn; `update` and `remove` take the advisory lock, check, and
  write; a review that starts to name a user holds a share lock on his row.
  Every call of another system may fail with or without having had its effect,
  and a request may die between any two of its steps.  `SignedIn` is what the
  guards check of a caller: `update` and `remove` need an admin who can sign in.

### DocumentReview - a file, a row and a transaction

`document-review.service.ts` (upload, approve, reject), `attachDocument` of the
transactions service and the S3 service they share.

- *State.* `files` are the objects in S3, `reviews`, `transactions` and `products`
  the committed rows, `request[r]` the handler with the lines it is working on and
  the products it has `made` without committing them.  A review has the key of its
  file as its id: both are fresh in every upload.
- *Actions.* `Upload`, `Store`, `CreateReview`, `Cleanup` and `Notify`;
  `AttachDocument`, `Store`, `WriteDocument`; `Approve` and `Reject`, then `Claim`,
  and for an approval one `TakeProduct`, or `LookForName` and `InsertProduct`, per
  line, `CreateTransaction` and `CommitApproval`.  Looking for a name and inserting
  it are two statements without a lock, so they are two steps.  `Die` is the end of
  the process or of the database transaction, which undoes what was not committed.
- *Abstractions.* The new transaction is one step here (its statements are
  `InventoryTransactions`); a name is a member of a set with a folding; the
  catalogue changes only by approvals.

### AgentSession - the agent's session registry

`agentcore_entrypoint.py`.  `registry` maps session ids to state objects, whose
fields are functions of the object, so that an object outlives its entry exactly
as in Python: an invocation keeps its reference.  `Resume` and `Start` are
`_acquire_session_state` (one critical section: clean up, look up, make room,
insert, count); `TakeLock` is a successful try of the polling loop; `Build`,
`Gate` and `Stream` are the turn, `Unlock` and `Leave` its finally clause, and
`Cancel` leads there from every point at which the coroutine waits.  `Tick` moves the
clock, and `Restart` is the loss of the process.  The owner of a session is part of
its id and is checked before the registry is reached.

### StockReaders - reports without a snapshot

The reading half of the stock: `getAvailable` and the low-stock list,
`findEligibleWarehousesForOrder`, `reconcileInventory`, `getStockoutRisk` with its
restock report, and the control tower that puts reports together.  The writers are the
actions of `StockLedger` itself, which the module extends, and the thresholds a manager
sets.  A report is a set of queries; `Due` says which the code sends together
and which only when an earlier one is answered (`ReadBefore`), `Read` runs one, `Answer` ends the
report.  The page of low stock lists the rows of a warehouse (`ShownRows`) and then awaits, product after product, the row and the sum
of its reservations, so its lines are of different moments.  `during` counts what has been committed since the first query, so
a property can say which commits may explain a wrong answer, and `moved` are the rows of the page whose reservations have changed since it summed them.  `StockInsights` holds
the rules several modules need (`classifyRisk`, the change of consumption).

### Catalog - rows that orders refer to

Products, warehouses and suppliers; the three services have one shape.  `FindOne`,
then `UpdateEntity` or `DeleteEntity`, then `DeactivateEntity` when the foreign key
refuses, and an order that checks its entities one after the other before
`WriteOrder` inserts it.  `traces` are the movements and reservations that outlive an
order's items.  `SwitchOff`, `row` and `request` keep what a request has missed, which
is what `NewUsesWereActive` is about.

### TransferPlanner, TradeHistory, SupplierRanking - what is computed

- `TransferPlanner` is `getTransferRecommendations`, one action per round of its
  loops: need, surplus and room go down with each `Recommend`.  The pairs are taken in the
  planner's order (`IsNext`): the product with the most urgent risk first, then by the ids of the
  product, the receiver and the donor.
  `available` and `projected` keep what the rows would be if all
  was done.  `Fix` is what the agent's stockout fix makes of it: a transfer, an order from the supplier that ranks first, or
  no solution where none can be ranked.
- `TradeHistory` places, completes and cancels transactions in time, counted in half days,
  and defines the due lists, the analytics, the supplier statistics, fast
  movers, dead stock and consumption change over the same `orders`.
- `SupplierRanking` is `rankSuppliers` with fractions kept exact, and the choices
  the agent makes from it.  Its sort, like that of `DocumentMatching`, is `Sorted` of
  module `Sorting`: the one sequence of a set's elements that an order allows.  `AtPlaces` there
  is a filter: the elements of a sequence at some of its positions, in their order.  `Total` of module
  `Sums`, a sum over a set, is what `TradeHistory` reports with.

### DocumentMatching, DuplicateCheck - hints for a reviewer

`DocumentMatching` follows one name from the candidates the backend reads over the
agent's answer (without the model for an exact match, from the model with both
validations of it, or not at all) to the suggestion that is shown.  A name is a sequence
of words.  The two validators are two definitions, translated from Python and from
TypeScript.  `DuplicateCheck` is the document agent's `detect_duplicate_document`:
three requests, four signals, and the rule by which an extracted name stands
for a product; reviews are uploaded and decided and products switched meanwhile.

### StockAdvice - advice from several answers

The insights agent's restock fix and dead-stock transfer.  `Questions` lists the calls of
a tool in order, `Hear` is one answer, and between answers customers reserve and
buy, deliveries and transfers arrive, orders are placed, warehouses and the product are taken out of use and in again
(`SwitchWarehouse`, `SwitchProduct`), and time passes.  Stockout risk is of what is in use (`InUse`), dead stock of every warehouse, and donors need both
(`DeadDonors`).  What a tool says
(`AdvisesTransfer`, `AdvisesPurchase`, `SendsTo`, `Portion` and the reasons) is a
function of the answers it holds.

### ServiceToken - the client all tools share

`backend_client.py` at the grain of attribute accesses, because invocations run in threads:
`LookUp`, `Rebuild`, `Bind`, `Forget` and `Take` are `_get_client`, `Check`,
`Authenticate` and `Assign` the service login, `BuildHeader` and the send, then `Retry`
or `Finish`.  Requests of one loop take turns between their awaits (`Turn`).  Token
0 is none, tokens are numbered as Cognito hands them out, and any may be refused from any
moment on.

### AgentChat, SignIn, ReviewPage - one tab of a browser

- `AgentChat`: `seen` is what was last rendered, `conversations` what React's state
  will be; a question is sent from `seen`, its stream ends in `Done` or `Fail`.
- `SignIn`: the stored token, React's user and status, the login in its
  steps, and requests of the pages with the token they were sent with.
- `ReviewPage`: the runs of `useFetch` with their numbers, the document of the
  address, the one that is shown, the one whose items fill the form, and a decision
  under way.

### QueryExamples - the SQL the agent learns from

The 41 statements of `seed-query-examples.ts`, each as what its result says: a function from groups to sums, or a set
of rows.  They are asked of tables that the requests keep, one atomic step per request (`PlaceAndReserve`,
`CompleteAndMove`, `CancelAndRelease`, `Count`, `Deactivate`), which extends `TradeHistory` by stock, reservations and the
ledger.  Percentages are left out, and so is the order of rows, except where a `LIMIT` cuts them off: the products that sold the
most units or earned the most, the biggest customers, the products transferred most and the recently cancelled transactions are
`TopOf` a whole table, the set of all answers the query may give, since rows that tie come in any order.  `TopRows` and `RecentRows` are
the limits, 10 and 50 in the code.  `ExamplesAgree` relates
the examples: a total to its parts, reservations to pending orders, the ledger to the stock, groups by product, warehouse, day, month
and customer to one another, and to the reports of `TradeHistory` that answer the same question.  Of a list that is cut off it says that
its rows are those of the whole, that nothing left out exceeds them in what the list is ordered by, and that with what is left out
they add up to the whole (`TopExamplesAgree`).

### Extraction - from an invoice to a row

`TextractDocumentExtractionProvider`, rule by rule, over the fields, text lines and line items that Textract reads
(`PrintField`, `PrintBlock`, `PrintRow`: any, in any order), with `validateExtractedDocumentData` (`IsValid`).  `Extract`
is the answer of `extract` that `CreateReview` of `DocumentReview` goes on with; a refusal there is its failure.

### ControlTowerPage - answers under their cards

`Alerts` is the end of `getControlTowerAlerts`, over what its queries returned; `Passes`, `Listed`, `AlertKey` and `Scenario`
are `controlTowerStats.ts`.  `actions` are the mounted `RecommendSolutionAction`s by section and key; `Reconcile` is what React does
with them at a render.  `RunRecommendation`, `Toggle` and `TryAgain` are the component's, `Token`, `DoneEvent`, `Error` and `Closed` the events of its
stream.  An answer is the sequence of its pieces, each with its run and what it was asked about.

### DemoScript, DemoSeed - the demo's data

`DemoScript` is the script of calls as data; `DemoSeed` executes it, a statement per
step, computes the rows from the movements, checks the assertions at the end, and may
`Stop` anywhere, to be run again.

## 3. The runs

| Run | Asks | Instance and why it is enough |
|---|---|---|
| `stock_core` | no oversell, reservations mirror items, exactly-once movement, exclusive claims, final states | 2 requests, 2 transactions, 2 products, 2 warehouses, one order that needs all the stock, one of two items, one with a duplicate product, a transfer to itself; updates of quantity, product, warehouse and a foreign item.  Two requests are what each race needs, and the orders compete for the same rows. |
| `stock_crossing` | no circle of lock waiters; every request ends | two transfers of both products in opposite directions, their lines in opposite orders, and an update that swaps the products, two requests, under fairness. |
| `stock_refines` | the core implements StockLedger; the ledger of movements explains onHand | two requests, a two-item order whose second reservation falls short, one adjustment, also of a row that does not exist yet. |
| `users` | admins survive, reviewers stay, accounts without rows are explained | the founder and two creations with the same email, two requests at a time, all failures and deaths. |
| `users_live` | every request is answered | the founder and one more user, two requests; the advisory lock and the row locks are waited for in both directions. |
| `users_admin` (violation) | "never end up with zero admins" | two creations with different emails. |
| `documents` | one transaction per approval, decisions are final, rows and files match, products come with their approval, every request ends | two files, two requests; invoices with a known product, the same twice, a new name alone, in two spellings and next to a known product, a name the catalogue has, and a line that says nothing. |
| `documents_names` (violation) | new names are new | the same. |
| `documents_lines` (violation) | a line has one resolution | one line that says both. |
| `agent` | the registry: one turn per session, nothing in use is dropped, counters are right, no lock leaks, it grows only in use | three sessions for a registry of two, three invocations, a session expires after one tick of two.  Three invocations can fill the registry with sessions in use and still ask for another, and two can meet in one. |
| | the client: a second refusal is a real one | two requests of one loop and one of another, two tokens: what is shared within a loop and what another loop disturbs. |
| | the chat: answers follow their questions and stay | two conversations, three questions, answers with up to two rounds of tools. |
| | the login: token, user and status are one session's | two accounts, three logins: one that answers come late for, one that is under way, and the next. |
| | the review page: a decision goes to the document of the form | three documents, four loads: one left behind, one decided, one being looked at. |
| | the example queries agree | two orders of four kinds (a supplier, a customer with and without a name, a transfer), two adjustments, one product or warehouse out of use, two days, and lists of one row.  A double count needs two orders that meet in one join, a stock that is less than reserved one adjustment, and two products that are sold, of which one sells more units and the other earns more, two adjustments before the orders: only then is there something for a limit to cut off. |
| | the control tower: an answer stays with its card and is asked once | two mornings of alerts, three of them with an action; two filters, answers in one piece, one retry.  Two cards that trade places under a filter are what confuses keys. |
| `service_client` (violation) | the client is the one of the running loop | the same. |
| `reports` | answers about stock are current; anomalies are races; only adjustments oversell | two rows of one unit on the page of low stock, an order for both, a delivery, one loss, two thresholds, and one commit of each kind during a report: each race needs one. |
| | no order refers to a row that is gone, none to one that was switched off before it began | two entities, two orders, two clients, one order that holds reservations and so leaves traces. |
| | transfers can be made together, and none is left to make | two products, three warehouses with one of four stocks each, rooms of one or unlimited: several donors and receivers share a room. |
| | reports agree | two orders of four kinds within three days. |
| | better suppliers rank first | three suppliers, two values per factor or none. |
| | hints are sound | four catalogue entries, two with one name, names that are exact, reordered, partial, a number off and unknown; two documents of five contents, two products switched. |
| | advice is sound | three warehouses, two managers, four situations: two donors, one donor for two, a nearly full receiver, nothing dead; all in use at first, or all but one.  One warehouse out of use is enough for dead stock that is no donor. |
| | the demo is sound | the whole script, over new and over used tables, dying anywhere. |
| | nothing is invented, the direction is every marker's | two fields of eleven, one text line of two, two line items of five: blank, doubled, contradicting and unreadable ones. |

Bounds: `MaxReservations` (reservation rows per transaction, it bounds the number
of updates), `MaxAdjustments`, `Amounts` (only the range of abstract plans: the
quantities the bodies may lead to),
`MaxTime` and `Days` (ticks of the clock), `MaxCommits` (during one report), `MaxTokens`,
`MaxCounts`, `MaxInactive`, `SecondCountFirst` (of `MCAgent`: two counts stock both products on the first morning, before the first order, and then nothing goes out of use), `MaxFields`, `MaxBlocks`, `MaxRows`, `MaxLogins`, `MaxTurns`, `MaxRounds`, `MaxRuns`, `MaxPieces`,
`MaxAnswers`, `Horizon` (of time in `StockAdvice`), and the ids and
keys that creations and uploads use up (`Ids`, `Files`, `OrderIds`, `Papers`).  They are guards on arrivals and on the clock, never on the
steps of a handler.

Deadlock is checked in every run of the core.  A session of the
core can always abort, so TLC's own check says little there, and `NoDeadlock`
states the absence of a circle of lock waiters directly.  The check is off where the system
really may stop: `MCUsers*` when all ids are spent or nobody is left who can sign in,
`MCDocumentReview*` when all keys are spent and every review is decided, `MCAgent*` and
`MCReports` when a report is given, a plan is made, the invoice is read or the bounds are reached.  Liveness
runs use no symmetry.  `MCAgent` uses a VIEW that forgets which object holds a session's
state and what is in objects nothing refers to, how a request of the client got to
its end, and of the moments at which transactions were cancelled all but their order,
which is all the examples use; a new object is initialised before it is used.

### Fairness

Every `FairSpec` asks for strong fairness of each request's `Step` - its statements,
calls, commit and refusal - and nothing of arrivals, aborts or deaths.  PostgreSQL
grants a lock to its waiters in turn, and Node's event loop resumes each handler
whose query has been answered, so a request that could repeatedly go on eventually
does; calls of Cognito, S3, Textract and the mail server return or time out.
No fairness is assumed of the agent's lock: the waiters of
`_acquire_invocation_lock` poll every 10 ms and nothing keeps one from always losing,
so a run that claimed that each gets its turn would claim too much.
`LockIsHeldByATurn` says the part that the code is responsible for.
The control tower's stream is somebody else's process; that a spinner is shown exactly as long as its stream is open
is part of `CardsShowTheirOwnAnswer`.

## 4. Mutants and findings

For every property of a passing run there is an operator named as a mutant beside the
definition it replaces: a lock not taken, a condition on the status dropped, a
sort undone, a compensation forgotten.  With the mutant in place the property is
violated under the run's own configuration; the pairs are listed in `PROJECT.json`.

The violation runs show where the program does not do what its documentation says:

- `users_admin`: an admin creates a second admin and demotes himself while the
  welcome email is being sent; the email fails, and `create`'s clean-up deletes the
  new admin without the advisory lock and without counting (`users.service.ts:119`).
- `documents_names`: two approvals look for the same new name before either has
  committed, and both insert it (`document-review.service.ts:1089`).
- `service_client`: two invocations in threads of their own find the shared HTTP client bound
  to another loop; one takes the client the other has just built and sends over a loop that is
  not its own (`backend_client.py:239`; line 224 promises the running loop's).
- `documents_lines`: a line with both `productId` and `newProduct` is approved
  and the second is ignored, where the DTO says that it is rejected.

Other disagreements met while modelling, too small for a run of their own:

- `seed.ts:2159-2161` and `2171-2172` call the headphones of Saida dead stock; ten were sold there
  fifteen days ago, and the transfer that is to help them comes from surplus.
- `inventory-transactions.service.ts:552` says overdue means "strictly before now"; the
  code compares with the start of the day, which is what makes the due lists disjoint.
- The reason for a restock purchase says that no stock can safely be transferred also when
  the warehouse is full or the surplus is one unit (`insights_agent/tools.py:1458-1465`);
  the backend's explanation says "no warehouse surplus" when only room is missing.  `PurchasesAreExplained`
  and `NothingLeftToMove` state the weaker thing that is true.
- The reason "No warehouse holding this product qualifies as 60+ day dead stock" (`insights_agent/tools.py:1476`, which line 1460 paraphrases as "no
  dead stock anywhere") is also given when a warehouse that is out of use holds some: the list of dead stock has it
  (`stock-insights.service.ts:265`), the stockout risk has no row for it (line 543), so it is no donor (`tools.py:1574`).
  `PurchasesAreExplained` says it of the warehouses in use.
- A dead-stock transfer proposes half of onHand, whatever is reserved, needed or fits
  (`tools.py:1068-1070`); the movement itself checks the stock again.
- The low-stock list uses `<=` and the risk levels `<`, so a row at its threshold is listed as low and
  called OK; `LowStockIsTrue` is an inclusion for that reason.
- After a decision on a document the reviewer has left, the page loads that document again under the
  address of the new one; the form is safe because a decided document cannot be decided (`ReviewPage`).
- The example of stock in named warehouses groups by product and stock and not by warehouse, so two warehouses whose names match and
  that hold the same are shown as one (`seed-query-examples.ts:162`); `ExamplesAgree` compares it for one warehouse at a time.
- The first field of a type decides for Textract's names, also when it is blank: a second `VENDOR_NAME` with a value is not
  looked at (`textract-document-extraction.provider.ts:273`), while a date is looked for in all.
- Which overdue order is the first, and has no recommendation, depends on the filters, so choosing one may close the answer that
  is being read (`ControlTowerPage.tsx:256`); `AnswersAreKept` allows exactly that.
- The query for "Which warehouses are more than 80 percent full?" has `>= 80` (`seed-query-examples.ts:866` and `885`).
- A login whose `/auth/me` fails leaves its token stored until the next one.

## 5. What is proved

Proved by TLAPS for every value of the constants.  The invariants build on each other
within a component: each theorem names what it adds.

**The stock core** (`InventoryProofs`).

- `ClaimIsExclusive`: `Spec => []ClaimsHold`.  `ClaimsHold`
  says that locks are exclusive and that between its claim and its end a request
  owns its transaction.  It is inductive together with `Shape`, the fields of the
  session records (`IInv`).  One lemma per kind of step reduces an action to what it does
  to those fields; the interesting case is a commit, which publishes rows of the
  transactions table while others hold claims: by exclusiveness of the row lock
  they cannot be about the same row, and a transaction being created is known to
  nobody else.
- `FinishedStaysFinished`: `Spec => FinishedIsFinal`, from `IInv`: only a
  commit writes, it writes its own transaction, and that is `PENDING` or new.
- `StockIsTyped`: `Spec => [](TypeOK /\ CallsTyped)`.  Tables and uncommitted writes keep their types, onHand above all, and so do the calls still to be made:
  each is of one row and a quantity other than zero, and a reservation it ends is there and of the request's own transaction (`CallFits`).
- `WaitsAreOrdered`: `Spec => []NoDeadlock`.  `LocksInOrder` says that what a request holds is its
  transaction row, that transaction's reservations, and inventory rows none of which comes
  after one it still needs.  In a finite set of waiters, take one that waits for the last
  row: whoever holds that row needs none before it, so it waits for nobody (`WFMin` over the
  order of rows).  This is where the sort of the loops is used; without it `LocksInOrder` is not
  inductive, and the mutant without it deadlocks.
- `ReservationsFollowItems`: `Spec => []ReservationsMirrorItems`.  `Mirroring` says it of a request under way:
  the reservations it keeps together with the `reserve` calls it has not made yet are exactly
  what the row it is writing calls for (`OnItsWay`); a committed transaction is on its way with
  nothing left to do.  That others do not disturb it is `ClaimIsExclusive`.
- `CompletionsMoveOnce`: `Spec => []MovedExactlyOnce`.  `Booked` says that the movements a completion has
  recorded and those its calls will record are the moves due, each once (`Due`), and that no other
  handler records a movement of a transaction.  That a `fulfil` moves what the item says is `Mirroring`.

**Sums over the tables** (`RefinementProofs`, on `SumTheorems`).  The aggregates of the code are folds over
finite sets; `SumTheorems` shows of such a sum what the proofs need - that it is determined by the set
and the summands, that one element can be taken out first whichever it is, that it grows with the set -
without induction over data: a least set on which a claim failed would be a smaller counterexample away
from a contradiction.

- `StockIsNeverOversold`: `AdjustmentsAdd => (Spec => []NeverOversold)`.  `reserve()` compares with a sum
  it has read before other requests commit.  `Looked` says what a request holds locked and what it has seen of it;
  `Sound` says that of a row it has locked, all it sees reserved (its own uncommitted reservations included) fits
  the onHand it sees, and that on any other row it can only have ended reservations.
  So nothing another request publishes can make the sum larger before the commit.  The hypothesis
  is real: an admin's negative adjustment compares with onHand only, and may leave a row short
  (`OversellOnlyByAdjustment`).
- `RowsAreWrittenUnderLock`: `Spec => []RowsAreItsOwn`.  From `Looked`, too: a request holds the lock of every row it has written, so no two have
  written one row, and what it has read for its next call is still what it sees.
- `LedgerAddsUp`: `Spec => []LedgerExplainsStock`.  `Reconciled` says that of a locked row a request sees the
  onHand which the ledger together with its own movements adds up to, and that it has moved nothing on any other row.

**The refinement** (`RefinementProofs`).  `RequestsAreAtomic`: `Spec => ImplementsStockLedger`.  Every step
but a commit leaves the tables, and so the state of `StockLedger`, alone; a commit is exactly one of its
actions.  Two more invariants carry it.  `Intended` says that the row a request publishes is what its operation makes
of the row that is there (`Outcome`), and that an adjustment makes its one movement.  `Secured` says of a row a request
has reserved from that it holds the lock and that what it sees reserved fits the committed onHand: this is the guard of
`Place` and `Revise` at the moment of the commit, and unlike `Sound` it holds whatever is adjusted, because the
lock keeps adjustments out.  Then the sums have to move by the plan: a pending transaction has
one reservation for each of its items (`Mirroring`) and a completion one movement on each side (`Booked`), so that at one row
it reserves, takes or gives the quantity of one item or nothing (`MirroredOwns`, `DueAt`); all the other
reservations of the row are the same before and after (`ReservedMoves`), and onHand moves as the ledger does (`Reconciled`).

**The abstract ledger** (`ReportsProofs`): `LedgerTyped`, `StockSafe`, `OversellOnlyByAdjustment`,
`FinishedStays` - it never goes negative, is never oversold without losses, and only an adjustment
leaves a row short.

**Users** (`UsersProofs`).

- `AdminsSurvive`: `Spec => []AdminUnlessUndone`.  The invariant adds
  that the advisory lock is exclusive and that a request which is past its checks and
  about to take an admin away leaves another (`AnotherLeft`).  Without the lock the second
  part is not inductive: two demotions could count each other.  It is stated under
  "unless a creation was undone" because `create`'s clean-up breaks it (`users_admin`).
- `ReviewersStay`: `Spec => []ReviewersAreKept`.  Between the check for reviews and the delete the row is locked
  (`RowsLocked`), and a review that starts to name a user needs that lock (`CheckedAreUnnamed`).
- `AccountsAreKnown`: `Spec => []OrphansAreKnown`.  An account without a row belongs to a creation under way
  or was noted.  The invariant follows each request through its
  stages: a creation's id is nobody else's (`CreationsAreNew`, `ProvisionsAreNew`), an account goes before its
  row (`RowsGoLast`), and an email is sent only to a row (`EmailsHaveRows`).

**Document review** (`DocumentReviewProofs`).

- `ApprovedOnce`, `DecidedStaysDecided`: a review is approved
  exactly if there is one transaction for it, and a decision is never changed.  The
  invariant is the claim again: one request at a time decides on a review, which is
  pending as long as it does; the tables' types are needed because a transaction is
  found by its position in a sequence.
- `ProductsAreCommitted`: the catalogue gains products only from approvals that committed, and those have
  one for every line that needed it; `MadeSoFar` says what
  an approval has made after each of its lines.
- `ApprovalsStayWhole`: `Spec => []ApprovalsAreWhole`, the two together as the run checks them.
- `FilesAndRowsMatch`: `FileInv` says that a key belongs to one request and that no row names it before that
  request writes one (`KeysAreNew`), that files are
  stored before rows name them (`StoredFirst`), that rows have files, and that a file nobody names
  belongs to a request that is going on or was left by one that died (`FilesHaveRows`).

**The agent** (`AgentProofs`).

- `OneTurn`, `InUseIsCached`, `NoLockLeaks`.  A turn excludes
  another turn of its session only if both have the same object, hence the invariant
  says who uses what - an object belongs to one session, whoever is in flight has the
  registered one, the counter is the number of users - and who holds which lock.
  Expiry and eviction look at the counter, so they leave every session with users.
- `UsersAreCounted`, `RegistryIsBounded`: the counter, as a property of its own, and that the registry grows
  beyond its capacity only by a start that finds every session in use.
- `NothingIsLeftBehind`: `Spec => []InvocationsAreAccountedFor`, the counters and the locks together as the run checks them.

**The catalogue, the planner and the readers** (`ReportsProofs`).

- `ReferencesStay`, `UsesBeginActive`.  Foreign keys are enforced in the statement, so
  references resolve by induction once the shapes of orders are known; a use of an inactive row is
  excluded by an invariant that says of a request how far its checks have come and that
  what it has passed was active then or has been switched off since.
- `TransfersCanBeCarriedOut`, `LoopIsExhaustive`, of the pairs in the order of the planner.  What a donor has left is its
  threshold plus its remaining surplus, what a receiver lacks its remaining need, and what a warehouse has
  room for is its first room without what it has been sent, summed over the products; a pair
  that has been taken off the list has one of the three at zero, and none of them ever grows.
  `PlanIsAlwaysSound` states both as the run does (`PlanIsSound`).
- `AnswersAreTrue`, `AnomaliesComeFromRaces`.  A report's queries have no common snapshot.  The invariant says that
  what a report has read is what the tables hold as long as nothing has been committed since its first query
  (`SeenIsCurrent`), that reserved quantities are read after onHand where the code relies on it (`ReservedLast`), and that
  the ledger is the stock (`LedgerIsStock`); so an answer that is wrong comes with a commit that explains it.  The low stock page is proved line by line:
  what it has read of a product is what the tables hold unless stock has moved, or somebody has ordered the product since.
  `ReportsAreTrue` states both as the run does (`ReportsAreTrueOrRaced`).

**Clients** (`AgentProofs`).

- `SessionStaysWhole`: no request of the pages is under way with the token of a login that is not
  over, hence only a refusal meant for an earlier one can take it (`FlowFits`).
- `FormStaysWithItsDocument`: the newest run of `useFetch` is for the document of the address, or for one that is
  decided and so cannot be decided again.
- `RetryIsNotInVain`: a request that has looked up its client keeps it as long as no other loop
  touches the attributes (`KeepsItsClient`), so the token of its second attempt is not forgotten and
  is newer than the refused one (`KeepsItsToken`).  Two requests of one loop are never both between their
  awaits (`OneAtATime`).
- `AnswersHaveQuestions`, `AnswersAreLostKnowingly`: every conversation is a sequence of questions and
  answers that belong together, and of a conversation marked as pending there is exactly one stream, which
  owns its last entry (`ChatInv`).

**The ranking and the hints** (`ReportsProofs`).  A finite set can be sorted by every order without ties
(`SortingExists`, from a least set that could not be), and what is sorted is what was there, once each
(`SortedIsSorted`); the rest is about the orders.

- `BetterSuppliersFirst`: `RankingSpec => []BetterRanksFirst`.  Each factor's share grows with the factor
  and the denominators are positive, so the weighted sum of a supplier that dominates another is larger
  (`TotalStrictlyMonotone`) and it comes first; the first of the others is beaten by none of them.
- `SuggestionsKeepToTheRules`: what the agent's side lets through (`LetThrough`) is what the backend accepts, wrong names
  apart (`CleanedIsAccepted`), and the word overlap keeps the same rules (`FuzzyMatchKeepsTheRules`): what it lists is different and
  real because it is the beginning of a sorted list, and an entity that scores higher than one listed is listed before it.
- `CopiesAreReported`: the signals are symmetric, so two checks with the same products agree; and of two
  documents that wait, the check that has read the pending ones last has found the other (`LaterFindsEarlier`), and what
  is done has compared all it found (`FlaggedIsCompared`).  Copies have three signals whatever their products are.
- `HintsHold`: `MatchingSpec /\ DuplicatesSpec => []HintsAreSound`, the two as the run checks them.

**Advice and reports** (`InsightsProofs`).

- `AdviceSound`: `AdviceSpec => []AdviceIsSound`.  An advisor hears its facts one after the other while the warehouses go on.
  `AdviceInv` says of every fact heard what is still true of it: a list of dead stock was true when it was made and has since lost a shelf only to
  a sale (`DeadListHolds`, kept by every step of the warehouses: `DeadListStays`, `WarehousesGoOn`), the stockout risk has the warehouses in
  use and no others, but for what was switched since that list was made (`RestockHolds`), and the last sales were read after the list, so
  that a shelf on both is one that was sold meanwhile or at the very edge of the idle time.  The rest is arithmetic over what was heard: half of a
  surplus twice is no more than the surplus (`DonorsFollow`), the smallest donor that covers a need covers it (`TransferIsSmallest`,
  `WinnerCovers`), and the portions into which half of the dead stock is split add up to that half, the odd units going to the most recent
  sellers (`TotalShared`, `PortionsAddUp`).
- `HistoryTyped`, `ReportsTellOneStory`: `HistorySpec => []ReportsAgree`.  Once the orders have their types the reports are sums over
  sets of orders that the proof compares: a sum over two disjoint parts (`TotalSplit`), over the groups of a
  `GROUP BY` (`TotalOfGroups`), over the same orders under another name (`TotalRenamed`), and of incoming without outgoing
  (`TotalDifference`).  That the parts are disjoint and complete - by status, by due date, by movement, by supplier - is where the
  conditions of the queries come in.

**The example queries** (`InsightsProofs`).  `ExamplesTellOneStory`: `ExamplesSpec => []ExamplesAgree`.

- The queries join tables that are kept apart, so the equations between them hold only in states the requests can reach.
  `ExamplesInv` says which: orders have their types (`HistoryInv`), a count is numbered and never dated in the future (`CountsHold`),
  there is one reservation for each order that takes stock, with its row, its quantity and the status that goes with the order's
  (`ReservationsFollow`), a row exists exactly when the ledger names it and holds the net of its movements (`StockFollows`), and a row nobody
  counted less of holds at least what pending orders wait for (`HeldUp`).  `ExamplesInductive` shows that every request keeps it
  (of `HeldUp`: an order compares with what is available, a completion takes what it had reserved and no more).
- From there on the tables can be replaced by sums over orders and movements, and the examples are compared in four groups: stock
  (`StockIs`), sales and purchases (`TradeIs`), overdue deliveries (`OverdueIs`), and the ledger (`LedgerIs`), with the lemmas on sums of the reports: a
  group by product and warehouse splits one by product, a transfer leaves as many units as arrive, what is older than the last days
  and what is not are two disjoint parts.
- The lists that a `LIMIT` cuts off exist and agree with the whole because of two lemmas on sums (`SumTheorems`): of finitely many rows some `n` can be chosen that none
  of the others exceeds (`LeadersExist`), and no other `n` rows have a larger sum (`LeadersSumMost`), so the products that earned the most
  earned at least what those did that sold the most units.
- Two examples agree for a reason one would not expect: of one warehouse `AvailableInNamed` is right because its rows are of different
  products, and less than nothing is available only where somebody counted less, which no query says.

**The extraction** (`InsightsProofs`).  `NothingInvented`: `ExtractionSpec => []NothingIsInvented`.  What is chosen as the first of some
fields is one of them, and none of them comes before it; the items of the row are the line items that
have a product and a quantity, one for each and in their order (`NthOf` says which), so that an item takes its name, quantity and price from one and
the same line; a number that passed the parser has no sign, hence none is negative.  The direction is that of a
marker which was printed, and no other marker speaks against it.

**The Control Tower page** (`AgentProofs`).

- `CardsSound`: `PageSpec => []CardsShowTheirOwnAnswer`.  A card keeps its answer under a key made of the category and the data of its
  alert.  The key identifies the alert because the queries behind the alerts name each shelf, order, review and transfer once, so that category and
  data tell any two alerts of a list apart (`AlertsDiffer`), whatever the filters show of it.  `TowerInv` says so of the list that is
  shown, and of each mounted card (`ActionHolds`) that whatever text and open streams it has belong to its latest run and were asked about its
  own alert, that its spinner turns exactly while a stream is open, and that one that never ran has none.
- `AnswersKept`: `PageSpec => AnswersAreKept`, from the same invariant and the reconciliation of one render: a card that is listed before and after
  a change of the filters keeps its key and so its answer (`FiltersKeep`), and one that is lost was filtered out or became the first overdue order (`FiltersLose`).

They assume the named assumptions of the modules: ids are natural numbers (the
code orders by them), `NoTxn` is no transaction, bodies have the DTO's shape, requests,
items, invocations, stores, goods and sites are finite sets, an order refers to something, statistics and dates are integers, names have
words, a deal has a positive quantity, only an incoming one a supplier, and names a product and warehouses that exist, products are finitely many, the history has at least one day, stock is counted in natural
numbers and an unlimited capacity is none of them, what was printed as a number is a natural number, and the queries
behind the Control Tower name a shelf, an order, a review or a transfer once.

Only model-checked: the demo seed (`DemoIsSound`), which is one script with fixed data, so that TLC's run is already exhaustive.
Liveness under fairness (`EveryRequestEnds`) is beyond the prover and stays
with TLC, and so does what a fold or a recursive function computes for inputs of every size, except for the sums and lists above.

## 6. What is not modelled, and what is assumed

- A database statement or transaction that fails has changed nothing (PostgreSQL's
  atomicity); an external call that fails may or may not have had its effect.
- READ COMMITTED is modelled by the grain of steps: each statement sees what is
  committed when it runs, a waiting `UPDATE` or `FOR UPDATE` reads the row anew.
- Textract and the language models are external: their answers are any answers, or failures.
- Dates are counted in days or half days and amounts in whole units: rounding to cents and time zones (the
  agent's `datetime.now()` is local and naive) are left out.
- `StockAdvice` takes every answer as of one moment; what the queries of one answer may miss is
  the subject of `StockReaders`.
- Not modelled: rendering, formatting, infrastructure, migrations, and the thin calls of Google APIs, which hold no
  state of their own; the SQL guard and the supervisor's gate, which are functions of text; the distance tables of
  routing; per-customer and per-country analytics; the document tools no agent registers
  (`match_invoice_to_po`, `choose_fulfillment_warehouse`, `detect_discrepancy`) and the other pages of the frontend, which only display.
- The stockout fix of the agent reads risk, transfers and quantities in separate calls and never looks again
  whether the warehouse is still short; nothing in the code promises otherwise, so no property says it.

## 7. Plan

What could come next, in this order:

1. Capacity: nothing enforces a warehouse's capacity when stock moves; if the code comes to,
   `StockLedger` is the place to state it.
2. The reports of `StockReaders` over the tables of `InventoryTransactions` itself, which would need the ledger of `RefinementProofs` at
   every statement of a report.

Runs stay few: components that share no state share a run as its parts, and related
questions about one component share one as safety and liveness do in `stock_crossing` and `documents`.
