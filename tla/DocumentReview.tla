--------------------------- MODULE DocumentReview ---------------------------
(***************************************************************************)
(* DocumentReviewService, and attachDocument of                            *)
(* InventoryTransactionsService: a file goes to S3, what is extracted from *)
(* it to a row that waits for an admin, and an approval turns the row into *)
(* a transaction, with the products the invoice names and the catalogue    *)
(* lacks.  An upload changes S3 and the database in turn and compensates   *)
(* by hand; approve and reject are database transactions that first claim  *)
(* the row.                                                                *)
(***************************************************************************)
EXTENDS Naturals, Sequences

CONSTANTS
  Files,       \* one key for every upload, a fresh UUID; its review has the same id
  Requests,    \* requests being served at the same time
  Names,       \* names of products
  Folded(_),   \* a name without its case
  Catalogue,   \* active products: id -> name
  Invoices,    \* lines an admin may confirm: sequences of [product, name]
  NoFile, NoProduct, NoName

ASSUME DocumentReviewAssumption ==
  /\ NoFile \notin Files
  /\ NoProduct \notin DOMAIN Catalogue
  /\ Catalogue \in [DOMAIN Catalogue -> Names]
  /\ \A lines \in Invoices :
       lines \in Seq([product : DOMAIN Catalogue \cup {NoProduct}, name : Names \cup {NoName}])

VARIABLES
  files,         \* objects in S3
  reviews,       \* PendingDocumentReview rows: id -> [status, type, transaction]
  transactions,  \* InventoryTransaction rows, in the order of their ids
  products,      \* active Product rows: id -> name
  request,       \* what each request is doing
  spent,         \* keys uploads have taken
  abandoned      \* keys whose upload died, lost an answer or failed to clean up,
                 \* and keys a later document of the same transaction replaced

vars == <<files, reviews, transactions, products, request, spent, abandoned>>

\* A transaction is known by its number; a request that has none to name has 0.
NoTransaction == 0

Idle == [op |-> "idle", at |-> "idle", file |-> NoFile, txn |-> NoTransaction,
         lines |-> <<>>, next |-> 1, made |-> <<>>]

Begin(r, op, at, file, txn, lines) ==
  /\ request[r].op = "idle"
  /\ request' = [request EXCEPT ![r] =
       [op |-> op, at |-> at, file |-> file, txn |-> txn,
        lines |-> lines, next |-> 1, made |-> <<>>]]

At(r, op, at) == request[r].op = op /\ request[r].at = at
Go(r, at) == request' = [request EXCEPT ![r].at = at]
End(r) == request' = [request EXCEPT ![r] = Idle]

TablesKept == UNCHANGED <<reviews, transactions, products>>
FilesKept == UNCHANGED <<files, spent, abandoned>>

----------------------------------------------------------------------------
(* upload: store the file, extract, insert the row, notify the admins.     *)

Upload(r, file) ==
  /\ file \notin spent
  /\ Begin(r, "upload", "store", file, NoTransaction, <<>>)
  /\ spent' = spent \cup {file}
  /\ UNCHANGED <<files, abandoned>> /\ TablesKept

\* PutObject: done, or an error that says nothing of what was done.
Store(r) ==
  LET file == request[r].file IN
  /\ request[r].op \in {"upload", "attach"} /\ request[r].at = "store"
  /\ \/ /\ files' = files \cup {file}
        /\ Go(r, IF request[r].op = "upload" THEN "create" ELSE "write")
        /\ UNCHANGED abandoned
     \/ /\ files' \in {files, files \cup {file}}
        /\ End(r) /\ abandoned' = abandoned \cup {file}
  /\ UNCHANGED spent /\ TablesKept

\* Textract's answer is INCOMING or OUTGOING or refused; the insert may fail.
CreateReview(r) ==
  /\ At(r, "upload", "create")
  /\ \/ /\ \E type \in {"INCOMING", "OUTGOING"} :
             reviews' = [id \in DOMAIN reviews \cup {request[r].file} |->
               IF id \in DOMAIN reviews THEN reviews[id]
               ELSE [status |-> "PENDING_REVIEW", type |-> type,
                     transaction |-> NoTransaction]]
        /\ Go(r, "notify")
     \/ Go(r, "cleanup") /\ UNCHANGED reviews
  /\ UNCHANGED <<transactions, products>> /\ FilesKept

\* Mutant: a failed upload is tried again after its clean-up.
CleanupAndRetry(r) ==
  /\ At(r, "upload", "cleanup")
  /\ files' = files \ {request[r].file}
  /\ Go(r, "store")
  /\ UNCHANGED <<spent, abandoned>> /\ TablesKept

\* Mutant: a failed upload leaves its file behind.
ForgetCleanup(r) ==
  /\ At(r, "upload", "cleanup")
  /\ End(r)
  /\ TablesKept /\ FilesKept

Cleanup(r) ==
  LET file == request[r].file IN
  /\ At(r, "upload", "cleanup")
  /\ \/ files' = files \ {file} /\ UNCHANGED abandoned
     \/ files' \in {files, files \ {file}} /\ abandoned' = abandoned \cup {file}
  /\ End(r)
  /\ UNCHANGED spent /\ TablesKept

\* Mutant: the notification is inside the try, so that its failure cleans up.
NotifyOrCleanup(r) ==
  /\ At(r, "upload", "notify")
  /\ End(r) \/ Go(r, "cleanup")
  /\ TablesKept /\ FilesKept

\* The notifier never throws.
Notify(r) ==
  /\ At(r, "upload", "notify")
  /\ End(r)
  /\ TablesKept /\ FilesKept

----------------------------------------------------------------------------
(* attachDocument: a file for a transaction that exists, whatever its      *)
(* status; the file it replaces stays in S3.                               *)

AttachDocument(r, file, txn) ==
  /\ file \notin spent
  /\ Begin(r, "attach", "store", file, txn, <<>>)
  /\ spent' = spent \cup {file}
  /\ UNCHANGED <<files, abandoned>> /\ TablesKept

WriteDocument(r) ==
  LET txn == request[r].txn IN
  /\ At(r, "attach", "write")
  /\ \/ /\ transactions' = [transactions EXCEPT ![txn].file = request[r].file]
        /\ abandoned' = abandoned \cup {transactions[txn].file}
     \/ abandoned' = abandoned \cup {request[r].file} /\ UNCHANGED transactions
  /\ End(r)
  /\ UNCHANGED <<files, spent, reviews, products>>

----------------------------------------------------------------------------
(* approve and reject.                                                     *)

Approve(r, id, lines) ==
  /\ Begin(r, "approve", "claim", id, NoTransaction, lines)
  /\ TablesKept /\ FilesKept

Reject(r, id) ==
  /\ Begin(r, "reject", "claim", id, NoTransaction, <<>>)
  /\ TablesKept /\ FilesKept

\* The row lock of the claim, kept to the end of the database transaction.
Claims(r, id) ==
  /\ request[r].op \in {"approve", "reject"} /\ request[r].at # "claim"
  /\ request[r].file = id

\* Mutant: the status is no condition of the update.
ClaimAnyStatus(r) ==
  LET id == request[r].file IN
  /\ request[r].op \in {"approve", "reject"} /\ request[r].at = "claim"
  /\ \A q \in Requests \ {r} : ~Claims(q, id)
  /\ Go(r, IF request[r].op = "approve" THEN "resolve" ELSE "commit")
  /\ TablesKept /\ FilesKept

\* UPDATE ... WHERE id = X AND status = PENDING_REVIEW; no row, and it throws.
Claim(r) ==
  LET id == request[r].file IN
  /\ request[r].op \in {"approve", "reject"} /\ request[r].at = "claim"
  /\ \A q \in Requests \ {r} : ~Claims(q, id)
  /\ IF id \in DOMAIN reviews /\ reviews[id].status = "PENDING_REVIEW"
       THEN Go(r, IF request[r].op = "approve" THEN "resolve" ELSE "commit")
       ELSE End(r)
  /\ TablesKept /\ FilesKept

Line(r) == request[r].lines[request[r].next]
MoreLines(r) == request[r].next <= Len(request[r].lines)

NamedAlike(table, name) == \E p \in DOMAIN table : Folded(table[p]) = Folded(name)

\* A line that names a product is taken as it is.
TakeProduct(r) ==
  /\ At(r, "approve", "resolve") /\ MoreLines(r)
  /\ Line(r).product # NoProduct
  /\ request' = [request EXCEPT ![r].next = @ + 1]
  /\ TablesKept /\ FilesKept

\* A line of an incoming invoice may name a new product: no other line of this
\* approval and no product in the catalogue may have that name.
LookForName(r) ==
  /\ At(r, "approve", "resolve") /\ MoreLines(r)
  /\ Line(r).product = NoProduct
  /\ IF /\ reviews[request[r].file].type = "INCOMING"
        /\ Line(r).name # NoName
        /\ ~NamedAlike(request[r].made, Line(r).name)
        /\ ~NamedAlike(products, Line(r).name)
       THEN Go(r, "insert") ELSE End(r)
  /\ TablesKept /\ FilesKept

\* Mutant: the product is created by this.prisma, outside the transaction.
InsertProductAtOnce(r) ==
  LET id == <<request[r].file, request[r].next>>
      name == Line(r).name
  IN
  /\ At(r, "approve", "insert")
  /\ products' = [p \in DOMAIN products \cup {id} |->
                    IF p = id THEN name ELSE products[p]]
  /\ request' = [request EXCEPT ![r].at = "resolve", ![r].next = @ + 1]
  /\ UNCHANGED <<reviews, transactions>> /\ FilesKept

InsertProduct(r) ==
  LET id == <<request[r].file, request[r].next>>
      name == Line(r).name
      made == request[r].made
  IN
  /\ At(r, "approve", "insert")
  /\ request' = [request EXCEPT ![r].at = "resolve", ![r].next = @ + 1,
       ![r].made = [p \in DOMAIN made \cup {id} |-> IF p = id THEN name ELSE made[p]]]
  /\ TablesKept /\ FilesKept

\* createIncoming or createOutgoing: every product exists once, or it throws; it
\* may throw for what is left out here (a party or a warehouse, prices, stock).
NamedProducts(r) ==
  [i \in {j \in 1 .. Len(request[r].lines) : request[r].lines[j].product # NoProduct} |->
     request[r].lines[i].product]

CreateTransaction(r) ==
  LET named == NamedProducts(r) IN
  /\ At(r, "approve", "resolve") /\ ~MoreLines(r)
  /\ \/ /\ \A i, j \in DOMAIN named : named[i] = named[j] => i = j
        /\ Go(r, "commit")
     \/ End(r)
  /\ TablesKept /\ FilesKept

CommitApproval(r) ==
  LET id == request[r].file
      made == request[r].made
  IN
  /\ At(r, "approve", "commit")
  /\ transactions' = Append(transactions,
       [review |-> id, file |-> id, lines |-> request[r].lines])
  /\ reviews' = [reviews EXCEPT ![id].status = "APPROVED",
                                ![id].transaction = Len(transactions) + 1]
  /\ products' = [p \in DOMAIN products \cup DOMAIN made |->
                    IF p \in DOMAIN made THEN made[p] ELSE products[p]]
  /\ End(r) /\ FilesKept

CommitRejection(r) ==
  /\ At(r, "reject", "commit")
  /\ reviews' = [reviews EXCEPT ![request[r].file].status = "REJECTED"]
  /\ End(r)
  /\ UNCHANGED <<transactions, products>> /\ FilesKept

\* The process dies, or the database transaction times out.
Die(r) ==
  /\ request[r].op # "idle"
  /\ abandoned' = IF request[r].op \in {"upload", "attach"}
                    THEN abandoned \cup {request[r].file} ELSE abandoned
  /\ End(r)
  /\ TablesKept /\ UNCHANGED <<files, spent>>

----------------------------------------------------------------------------
Init ==
  /\ files = {} /\ spent = {} /\ abandoned = {}
  /\ reviews = <<>> /\ transactions = <<>>
  /\ products = Catalogue
  /\ request = [r \in Requests |-> Idle]

Arrive(r) ==
  \/ \E file \in Files :
       \/ Upload(r, file)
       \/ \E txn \in DOMAIN transactions : AttachDocument(r, file, txn)
  \/ \E id \in DOMAIN reviews :
       \/ \E lines \in Invoices : Approve(r, id, lines)
       \/ Reject(r, id)

Step(r) ==
  \/ Store(r) \/ CreateReview(r) \/ Cleanup(r) \/ Notify(r) \/ WriteDocument(r)
  \/ Claim(r) \/ TakeProduct(r) \/ LookForName(r) \/ InsertProduct(r)
  \/ CreateTransaction(r) \/ CommitApproval(r) \/ CommitRejection(r)

Next == \E r \in Requests : Arrive(r) \/ Step(r) \/ Die(r)

Spec == Init /\ [][Next]_vars

\* Handlers go on when S3, Textract and PostgreSQL answer, and a row lock is
\* granted to its waiters in turn.
FairSpec == Spec /\ \A r \in Requests : SF_vars(Step(r))

----------------------------------------------------------------------------
(* Properties.                                                             *)

IsReview(row) ==
  /\ row.status \in {"PENDING_REVIEW", "APPROVED", "REJECTED"}
  /\ row.type \in {"INCOMING", "OUTGOING"}
  /\ row.transaction \in Nat

\* The type invariant.
TypeOK ==
  /\ files \subseteq spent /\ spent \subseteq Files /\ abandoned \subseteq spent
  /\ DOMAIN reviews \subseteq spent
  /\ \A id \in DOMAIN reviews : IsReview(reviews[id])
  /\ \A txn \in DOMAIN transactions :
       transactions[txn].review \in spent /\ transactions[txn].file \in spent
  /\ \A r \in Requests : request[r].op = "idle" => request[r] = Idle
  /\ \A r \in Requests : request[r].txn \in 0 .. Len(transactions)

\* approve, reject and their rollbacks keep reviews and transactions in step: an
\* approved review has a transaction, and each transaction is the one of its review.
OneTransactionPerApproval ==
  /\ \A id \in DOMAIN reviews :
       reviews[id].status = "APPROVED" <=> reviews[id].transaction # NoTransaction
  /\ \A id \in DOMAIN reviews :
       LET txn == reviews[id].transaction IN
       txn # NoTransaction => txn \in DOMAIN transactions /\ transactions[txn].review = id
  /\ \A txn \in DOMAIN transactions :
       /\ transactions[txn].review \in DOMAIN reviews
       /\ reviews[transactions[txn].review].transaction = txn

\* A document that was approved or rejected stays as it was decided, whoever
\* decides on it at the same time.
DecisionsAreFinal ==
  [][\A id \in DOMAIN reviews :
       reviews[id].status # "PENDING_REVIEW" =>
         id \in DOMAIN reviews' /\ reviews'[id] = reviews[id]]_vars

\* A row is never left with a link to a file that is not in S3.
DocumentsExist ==
  /\ DOMAIN reviews \subseteq files
  /\ \A txn \in DOMAIN transactions : transactions[txn].file \in files

\* A file in S3 that no row refers to belongs to an upload that is running, or to
\* one that died, was told of an error by S3 or was replaced.
StrayFilesAreKnown ==
  \A file \in files \ DOMAIN reviews :
    \/ file \in abandoned
    \/ \E txn \in DOMAIN transactions : transactions[txn].file = file
    \/ \E r \in Requests : request[r].op \in {"upload", "attach"} /\ request[r].file = file

\* Rows and files correspond, whatever fails between S3 and the database.
RowsAndFilesMatch == DocumentsExist /\ StrayFilesAreKnown

\* A product that an approval created is in the catalogue exactly if the approval
\* was committed: a rollback takes it away.
ProductsComeWithTheirApproval ==
  /\ \A p \in DOMAIN products \ DOMAIN Catalogue :
       /\ p[1] \in DOMAIN reviews
       /\ reviews[p[1]].type = "INCOMING" /\ reviews[p[1]].status = "APPROVED"
  /\ \A txn \in DOMAIN transactions :
       \A i \in DOMAIN transactions[txn].lines :
         transactions[txn].lines[i].product = NoProduct =>
           <<transactions[txn].review, i>> \in DOMAIN products

\* An approval leaves all of its traces in three tables, or none of them.
ApprovalsAreWhole == OneTransactionPerApproval /\ ProductsComeWithTheirApproval

\* "Rejects a name that exactly (case-insensitively) matches an already-active
\* product", says resolveApprovalItems: no approval adds a second product of a name.
NewNamesAreNew ==
  \A p \in DOMAIN products \ DOMAIN Catalogue, q \in DOMAIN products :
    Folded(products[p]) = Folded(products[q]) => p = q

\* "A line must supply exactly one; the service layer rejects both missing or both
\* present", says the DTO of an approval.
LinesHaveOneResolution ==
  \A txn \in DOMAIN transactions : \A i \in DOMAIN transactions[txn].lines :
    LET line == transactions[txn].lines[i] IN
    line.product = NoProduct <=> line.name # NoName

\* Every upload and every decision is answered, although it may wait for a row.
EveryRequestEnds == \A r \in Requests : request[r].op # "idle" ~> request[r].op = "idle"
=============================================================================
