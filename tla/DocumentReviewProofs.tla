------------------------ MODULE DocumentReviewProofs ------------------------
(***************************************************************************)
(* Theorems about DocumentReview, for any files, invoices and number of    *)
(* requests: what the claim of a review protects.                          *)
(***************************************************************************)
EXTENDS DocumentReview, SequenceTheorems, TLAPS

Review == [status : {"PENDING_REVIEW", "APPROVED", "REJECTED"},
           type : {"INCOMING", "OUTGOING"}, transaction : Nat]
Transaction == [review : Files, file : Files, lines : Invoices]
Fields == {"op", "at", "file", "txn", "lines", "next", "made"}

TypedTables ==
  /\ DOMAIN reviews \subseteq Files
  /\ reviews \in [DOMAIN reviews -> Review]
  /\ transactions \in Seq(Transaction)

TypedRequests ==
  /\ DOMAIN request = Requests
  /\ \A r \in Requests :
       /\ DOMAIN request[r] = Fields
       /\ request[r].op # "idle" => request[r].file \in Files
       /\ request[r].op = "approve" => request[r].lines \in Invoices

\* r decides on a review and has claimed it.
Deciding(r) == request[r].op \in {"approve", "reject"} /\ request[r].at # "claim"

\* The row lock of the claim: one request at a time decides on a review, and the
\* review is pending as long as it does.
ClaimsHold ==
  /\ \A r, q \in Requests :
       Deciding(r) /\ Deciding(q) /\ request[r].file = request[q].file => r = q
  /\ \A r \in Requests : Deciding(r) =>
       /\ request[r].file \in DOMAIN reviews
       /\ reviews[request[r].file].status = "PENDING_REVIEW"

IInv == TypedTables /\ TypedRequests /\ ClaimsHold /\ OneTransactionPerApproval

OthersKept(r) == \A q \in Requests \ {r} : request'[q] = request[q]
ReviewsKept == \A id \in DOMAIN reviews : id \in DOMAIN reviews' /\ reviews'[id] = reviews[id]

----------------------------------------------------------------------------
(* What the actions do to the request that takes them.                     *)

LEMMA BeginMoves ==
  ASSUME TypedRequests, NEW r \in Requests, NEW op, NEW at, NEW file \in Files,
         NEW txn, NEW lines, Begin(r, op, at, file, txn, lines),
         op = "approve" => lines \in Invoices
  PROVE  TypedRequests' /\ OthersKept(r) /\ request'[r].op = op /\ request'[r].at = at
BY DEF TypedRequests, Fields, OthersKept, Begin

LEMMA GoMoves ==
  ASSUME TypedRequests, NEW r \in Requests, NEW at, Go(r, at)
  PROVE  /\ TypedRequests' /\ OthersKept(r)
         /\ request'[r].op = request[r].op /\ request'[r].file = request[r].file
         /\ request'[r].at = at
BY DEF TypedRequests, Fields, OthersKept, Go

LEMMA EndMoves ==
  ASSUME TypedRequests, NEW r \in Requests, End(r)
  PROVE  TypedRequests' /\ OthersKept(r) /\ request'[r].op = "idle"
BY DEF TypedRequests, Fields, OthersKept, End, Idle

LEMMA TakeMoves ==
  ASSUME TypedRequests, NEW r \in Requests, TakeProduct(r)
  PROVE  /\ TypedRequests' /\ OthersKept(r)
         /\ request'[r].op = request[r].op /\ request'[r].file = request[r].file
BY DEF TypedRequests, Fields, OthersKept, TakeProduct

LEMMA InsertMoves ==
  ASSUME TypedRequests, NEW r \in Requests, InsertProduct(r)
  PROVE  /\ TypedRequests' /\ OthersKept(r)
         /\ request'[r].op = request[r].op /\ request'[r].file = request[r].file
<1>1. PICK id, name, made :
        request' = [request EXCEPT ![r].at = "resolve", ![r].next = @ + 1, ![r].made = made]
  BY DEF InsertProduct
<1>2. /\ request'[r].op = request[r].op /\ request'[r].file = request[r].file
      /\ request'[r].lines = request[r].lines
      /\ DOMAIN request'[r] = Fields
  BY <1>1 DEF TypedRequests, Fields
<1>3. DOMAIN request' = Requests /\ OthersKept(r)
  BY <1>1 DEF TypedRequests, OthersKept
<1>4. QED
  BY <1>2, <1>3 DEF TypedRequests, OthersKept

----------------------------------------------------------------------------
(* The steps that decide nothing.                                          *)

\* The rows of the reviews are kept, and r comes no nearer to a decision.
LEMMA CalmStep ==
  ASSUME IInv, NEW r \in Requests, TypedRequests', OthersKept(r), ReviewsKept,
         Deciding(r)' => Deciding(r) /\ request'[r].file = request[r].file
  PROVE  ClaimsHold'
<1>1. \A q \in Requests : Deciding(q)' => Deciding(q) /\ request'[q].file = request[q].file
  BY DEF OthersKept, Deciding
<1>2. QED
  BY <1>1 DEF IInv, ClaimsHold, ReviewsKept

LEMMA ClaimKeeps ==
  ASSUME IInv, NEW r \in Requests, Claim(r)
  PROVE  ClaimsHold' /\ TypedRequests'
<1>1. CASE End(r)
  <2>1. TypedRequests' /\ OthersKept(r) /\ request'[r].op = "idle" /\ ReviewsKept
    BY <1>1, EndMoves DEF IInv, Claim, TablesKept, ReviewsKept
  <2>2. ~Deciding(r)'
    BY <2>1 DEF Deciding
  <2>3. QED
    BY <2>1, <2>2, CalmStep
<1>2. CASE /\ request[r].file \in DOMAIN reviews
           /\ reviews[request[r].file].status = "PENDING_REVIEW"
           /\ ~End(r)
  <2>1. PICK at : Go(r, at)
    BY <1>2 DEF Claim
  <2>2. /\ TypedRequests' /\ OthersKept(r)
        /\ request'[r].file = request[r].file /\ reviews' = reviews
    BY <2>1, GoMoves DEF IInv, Claim, TablesKept
  <2>3. \A q \in Requests \ {r} :
          Deciding(q)' => Deciding(q) /\ request'[q].file = request[q].file
                          /\ request[q].file # request[r].file
    BY <2>2 DEF Claim, Claims, Deciding, OthersKept
  <2>4. QED
    BY <1>2, <2>2, <2>3 DEF IInv, ClaimsHold
<1>3. QED
  BY <1>1, <1>2 DEF Claim

\* A handler that touches neither reviews nor transactions.
QuietStep(r) ==
  \/ \E file \in Files :
       \/ Upload(r, file)
       \/ \E txn \in DOMAIN transactions : AttachDocument(r, file, txn)
  \/ \E id \in DOMAIN reviews :
       \/ \E lines \in Invoices : Approve(r, id, lines)
       \/ Reject(r, id)
  \/ Store(r) \/ Cleanup(r) \/ Notify(r) \/ TakeProduct(r) \/ LookForName(r)
  \/ InsertProduct(r) \/ CreateTransaction(r) \/ Die(r)

LEMMA QuietKeeps ==
  ASSUME IInv, NEW r \in Requests, QuietStep(r)
  PROVE  ClaimsHold' /\ TypedRequests' /\ UNCHANGED <<reviews, transactions>>
<1>1. UNCHANGED <<reviews, transactions>>
  BY DEF QuietStep, Upload, AttachDocument, Approve, Reject, Store, Cleanup, Notify,
         TakeProduct, LookForName, InsertProduct, CreateTransaction, Die, TablesKept
<1>2. CASE \E file \in Files :
             \/ Upload(r, file)
             \/ \E txn \in DOMAIN transactions : AttachDocument(r, file, txn)
  <2>1. TypedRequests' /\ OthersKept(r) /\ request'[r].op \in {"upload", "attach"}
    BY <1>2, BeginMoves DEF IInv, Upload, AttachDocument
  <2>2. QED
    BY <1>1, <2>1, CalmStep DEF Deciding, ReviewsKept
<1>3. CASE \E id \in DOMAIN reviews :
             \/ \E lines \in Invoices : Approve(r, id, lines)
             \/ Reject(r, id)
  <2>1. TypedRequests' /\ OthersKept(r) /\ request'[r].at = "claim"
    BY <1>3, BeginMoves DEF IInv, TypedTables, Approve, Reject
  <2>2. QED
    BY <1>1, <2>1, CalmStep DEF Deciding, ReviewsKept
<1>4. CASE End(r)
  <2>1. TypedRequests' /\ OthersKept(r) /\ request'[r].op = "idle"
    BY <1>4, EndMoves DEF IInv
  <2>2. QED
    BY <1>1, <2>1, CalmStep DEF Deciding, ReviewsKept
<1>5. CASE /\ Store(r) \/ LookForName(r) \/ CreateTransaction(r)
           /\ \E at : Go(r, at)
  <2>1. /\ TypedRequests' /\ OthersKept(r)
        /\ request'[r].op = request[r].op /\ request'[r].file = request[r].file
    BY <1>5, GoMoves DEF IInv
  <2>2. request[r].op \in {"upload", "attach"} \/ Deciding(r)
    BY <1>5 DEF Store, LookForName, CreateTransaction, At, Deciding
  <2>3. QED
    BY <1>1, <2>1, <2>2, CalmStep DEF Deciding, ReviewsKept
<1>6. CASE TakeProduct(r) \/ InsertProduct(r)
  <2>1. /\ TypedRequests' /\ OthersKept(r)
        /\ request'[r].op = request[r].op /\ request'[r].file = request[r].file
    BY <1>6, TakeMoves, InsertMoves DEF IInv
  <2>2. Deciding(r)
    BY <1>6 DEF TakeProduct, InsertProduct, At, Deciding
  <2>3. QED
    BY <1>1, <2>1, <2>2, CalmStep DEF ReviewsKept
<1>7. Store(r) \/ LookForName(r) \/ CreateTransaction(r) => End(r) \/ \E at : Go(r, at)
  BY DEF Store, LookForName, CreateTransaction
<1>8. Cleanup(r) \/ Notify(r) \/ Die(r) => End(r)
  BY DEF Cleanup, Notify, Die
<1>9. QED
  BY <1>1, <1>2, <1>3, <1>4, <1>5, <1>6, <1>7, <1>8 DEF QuietStep

LEMMA CreateReviewKeeps ==
  ASSUME IInv, NEW r \in Requests, CreateReview(r)
  PROVE  IInv' /\ ReviewsKept
<1> DEFINE file == request[r].file
<1>1. /\ TypedRequests' /\ OthersKept(r)
      /\ request'[r].op \in {"upload", "idle"}
  BY GoMoves, EndMoves DEF IInv, CreateReview, At
<1>2. transactions' = transactions /\ file \in Files
  BY DEF CreateReview, IInv, TypedRequests, At
<1>3. CASE reviews' = reviews
  <2>1. ReviewsKept /\ ~Deciding(r)'
    BY <1>1, <1>3 DEF ReviewsKept, Deciding
  <2>2. QED
    BY <1>1, <1>2, <1>3, <2>1, CalmStep DEF IInv, TypedTables, OneTransactionPerApproval
<1>4. CASE \E type \in {"INCOMING", "OUTGOING"} :
             reviews' = [id \in DOMAIN reviews \cup {file} |->
               IF id \in DOMAIN reviews THEN reviews[id]
               ELSE [status |-> "PENDING_REVIEW", type |-> type, transaction |-> NoTransaction]]
  <2>1. ReviewsKept /\ ~Deciding(r)'
    BY <1>1, <1>4 DEF ReviewsKept, Deciding
  <2>2. /\ DOMAIN reviews' = DOMAIN reviews \cup {file}
        /\ \A id \in DOMAIN reviews' :
             IF id \in DOMAIN reviews THEN reviews'[id] = reviews[id]
             ELSE /\ reviews'[id] \in Review
                  /\ reviews'[id].status = "PENDING_REVIEW"
                  /\ reviews'[id].transaction = NoTransaction
    BY <1>4 DEF Review, NoTransaction
  <2>3. TypedTables'
    BY <1>2, <1>4, <2>2 DEF IInv, TypedTables
  <2>4. \A txn \in DOMAIN transactions : transactions[txn].review \in DOMAIN reviews
    BY DEF IInv, OneTransactionPerApproval
  <2>5. OneTransactionPerApproval'
    BY <1>2, <2>2, <2>4 DEF IInv, OneTransactionPerApproval
  <2>6. QED
    BY <1>1, <2>1, <2>3, <2>5, CalmStep DEF IInv
<1>5. QED
  BY <1>3, <1>4 DEF CreateReview

----------------------------------------------------------------------------
(* The steps that write transactions or decide.                            *)

LEMMA WriteDocumentKeeps ==
  ASSUME IInv, NEW r \in Requests, WriteDocument(r)
  PROVE  IInv' /\ reviews' = reviews
<1> DEFINE txn == request[r].txn
<1>1. /\ TypedRequests' /\ OthersKept(r) /\ request'[r].op = "idle"
      /\ reviews' = reviews /\ ReviewsKept
  BY EndMoves DEF IInv, WriteDocument, ReviewsKept
<1>2. ClaimsHold'
  BY <1>1, CalmStep DEF Deciding
<1>3. CASE transactions' = transactions
  BY <1>1, <1>2, <1>3 DEF IInv, TypedTables, OneTransactionPerApproval
<1>4. CASE transactions' = [transactions EXCEPT ![txn].file = request[r].file]
  <2>1. request[r].file \in Files
    BY DEF IInv, TypedRequests, WriteDocument, At
  <2> DEFINE row == [transactions[txn] EXCEPT !.file = request[r].file]
  <2>2. CASE txn \in DOMAIN transactions
    <3>1. /\ transactions \in Seq(Transaction)
          /\ Len(transactions) \in Nat
          /\ DOMAIN transactions = 1 .. Len(transactions)
      BY LenProperties DEF IInv, TypedTables
    <3>2. transactions[txn] \in Transaction
      BY <2>2, <3>1, ElementOfSeq
    <3>3. row \in Transaction /\ row.review = transactions[txn].review
      BY <2>1, <3>2 DEF Transaction
    <3>4. transactions' = [transactions EXCEPT ![txn] = row]
      BY <1>4
    <3>5. /\ transactions' \in Seq(Transaction)
          /\ Len(transactions') = Len(transactions)
          /\ \A t \in DOMAIN transactions :
               transactions'[t] = IF t = txn THEN row ELSE transactions[t]
      BY <2>2, <3>1, <3>3, <3>4, ExceptSeq
    <3>6. DOMAIN transactions' = DOMAIN transactions
      BY <3>4
    <3>7. \A t \in DOMAIN transactions : transactions'[t].review = transactions[t].review
      BY <3>3, <3>5
    <3>8. TypedTables' /\ OneTransactionPerApproval'
      BY <1>1, <3>5, <3>6, <3>7 DEF IInv, TypedTables, OneTransactionPerApproval
    <3>9. QED
      BY <1>1, <1>2, <3>8 DEF IInv
  <2>3. CASE txn \notin DOMAIN transactions
    <3>1. transactions' = transactions
      BY <1>4, <2>3, LenProperties DEF IInv, TypedTables
    <3>2. QED
      BY <1>3, <3>1
  <2>4. QED
    BY <2>2, <2>3
<1>5. QED
  BY <1>3, <1>4 DEF WriteDocument

\* What a commit knows of its review, and leaves to the other requests.
LEMMA DecisionStep ==
  ASSUME IInv, NEW r \in Requests, Deciding(r), End(r),
         DOMAIN reviews' = DOMAIN reviews,
         \A id \in DOMAIN reviews \ {request[r].file} : reviews'[id] = reviews[id]
  PROVE  /\ request[r].file \in DOMAIN reviews
         /\ reviews[request[r].file].status = "PENDING_REVIEW"
         /\ reviews[request[r].file].transaction = NoTransaction
         /\ ClaimsHold' /\ TypedRequests'
<1>1. TypedRequests' /\ OthersKept(r) /\ request'[r].op = "idle"
  BY EndMoves DEF IInv
<1>2. \A q \in Requests : Deciding(q)' =>
        Deciding(q) /\ request'[q].file = request[q].file /\ q # r
  BY <1>1 DEF OthersKept, Deciding
<1>3. \A q \in Requests : Deciding(q)' => request[q].file # request[r].file
  BY <1>2 DEF IInv, ClaimsHold
<1>4. ClaimsHold'
  BY <1>2, <1>3 DEF IInv, ClaimsHold
<1>5. QED
  BY <1>1, <1>4 DEF IInv, ClaimsHold, OneTransactionPerApproval

LEMMA CommitRejectionKeeps ==
  ASSUME IInv, NEW r \in Requests, CommitRejection(r)
  PROVE  IInv' /\ \A id \in DOMAIN reviews :
           /\ id \in DOMAIN reviews'
           /\ reviews[id].status # "PENDING_REVIEW" => reviews'[id] = reviews[id]
<1> DEFINE id == request[r].file
<1>1. /\ Deciding(r) /\ End(r) /\ transactions' = transactions
      /\ reviews' = [reviews EXCEPT ![id].status = "REJECTED"]
      /\ DOMAIN reviews' = DOMAIN reviews
      /\ \A d \in DOMAIN reviews \ {id} : reviews'[d] = reviews[d]
  BY DEF CommitRejection, Deciding, At, IInv, TypedTables
<1>2. /\ id \in DOMAIN reviews /\ reviews[id].status = "PENDING_REVIEW"
      /\ reviews[id].transaction = NoTransaction
      /\ ClaimsHold' /\ TypedRequests'
  BY <1>1, DecisionStep
<1>3. /\ reviews'[id] \in Review
      /\ reviews'[id].status = "REJECTED"
      /\ reviews'[id].transaction = NoTransaction
  BY <1>1, <1>2, ZenonT(40) DEF IInv, TypedTables, Review
<1>4. TypedTables'
  BY <1>1, <1>3 DEF IInv, TypedTables
<1>5. OneTransactionPerApproval'
  BY <1>1, <1>2, <1>3 DEF IInv, OneTransactionPerApproval
<1>6. QED
  BY <1>1, <1>2, <1>4, <1>5 DEF IInv

LEMMA CommitApprovalKeeps ==
  ASSUME IInv, NEW r \in Requests, CommitApproval(r)
  PROVE  IInv' /\ \A id \in DOMAIN reviews :
           /\ id \in DOMAIN reviews'
           /\ reviews[id].status # "PENDING_REVIEW" => reviews'[id] = reviews[id]
<1> DEFINE id == request[r].file
           n == Len(transactions) + 1
           row == [review |-> id, file |-> id, lines |-> request[r].lines]
<1>1. /\ Deciding(r) /\ End(r)
      /\ transactions' = Append(transactions, row)
      /\ reviews' = [reviews EXCEPT ![id].status = "APPROVED", ![id].transaction = n]
      /\ DOMAIN reviews' = DOMAIN reviews
      /\ \A d \in DOMAIN reviews \ {id} : reviews'[d] = reviews[d]
  BY DEF CommitApproval, Deciding, At, IInv, TypedTables
<1>2. /\ id \in DOMAIN reviews /\ reviews[id].status = "PENDING_REVIEW"
      /\ reviews[id].transaction = NoTransaction
      /\ ClaimsHold' /\ TypedRequests'
  BY <1>1, DecisionStep
<1>3. row \in Transaction /\ transactions \in Seq(Transaction)
  BY DEF CommitApproval, At, IInv, TypedTables, TypedRequests, Transaction
<1>4. /\ transactions' \in Seq(Transaction)
      /\ DOMAIN transactions = 1 .. Len(transactions) /\ DOMAIN transactions' = 1 .. n
      /\ n \in Nat \ {0}
      /\ \A t \in DOMAIN transactions : transactions'[t] = transactions[t]
      /\ transactions'[n].review = id
  BY <1>1, <1>3, AppendProperties
<1>5. /\ reviews'[id] \in Review
      /\ reviews'[id].status = "APPROVED" /\ reviews'[id].transaction = n
  <2>1. reviews[id] \in Review
    BY <1>2 DEF IInv, TypedTables
  <2>2. reviews'[id] = [reviews[id] EXCEPT !.status = "APPROVED", !.transaction = n]
    BY <1>1, <1>2
  <2>3. QED
    BY <1>4, <2>1, <2>2 DEF Review
<1>6. TypedTables'
  BY <1>1, <1>4, <1>5 DEF IInv, TypedTables
<1>7. \A t \in DOMAIN transactions : transactions[t].review # id
  BY <1>2, <1>4 DEF IInv, OneTransactionPerApproval, NoTransaction
<1>8. OneTransactionPerApproval'
  <2>1. \A d \in DOMAIN reviews' :
          reviews'[d].status = "APPROVED" <=> reviews'[d].transaction # NoTransaction
    BY <1>1, <1>4, <1>5 DEF IInv, OneTransactionPerApproval, NoTransaction
  <2>2. ASSUME NEW d \in DOMAIN reviews', reviews'[d].transaction # NoTransaction
        PROVE  /\ reviews'[d].transaction \in DOMAIN transactions'
               /\ transactions'[reviews'[d].transaction].review = d
    BY <1>1, <1>4, <1>5, <2>2 DEF IInv, OneTransactionPerApproval
  <2>3. ASSUME NEW t \in DOMAIN transactions'
        PROVE  /\ transactions'[t].review \in DOMAIN reviews'
               /\ reviews'[transactions'[t].review].transaction = t
    <3>1. CASE t = n
      BY <1>1, <1>2, <1>4, <1>5, <3>1
    <3>2. CASE t \in DOMAIN transactions
      BY <1>1, <1>4, <1>7, <3>2 DEF IInv, OneTransactionPerApproval
    <3>3. QED
      BY <1>4, <3>1, <3>2
  <2>4. QED
    BY <2>1, <2>2, <2>3 DEF OneTransactionPerApproval
<1>9. QED
  BY <1>1, <1>2, <1>6, <1>8 DEF IInv

----------------------------------------------------------------------------
\* Every step keeps the invariant and all that was decided.
LEMMA StepKeeps ==
  ASSUME IInv, [Next]_vars
  PROVE  IInv' /\ \A id \in DOMAIN reviews :
           /\ id \in DOMAIN reviews'
           /\ reviews[id].status # "PENDING_REVIEW" => reviews'[id] = reviews[id]
<1>1. ASSUME NEW r \in Requests, QuietStep(r)
      PROVE  IInv' /\ reviews' = reviews
  BY <1>1, QuietKeeps DEF IInv, TypedTables, OneTransactionPerApproval
<1>2. ASSUME NEW r \in Requests, Claim(r)
      PROVE  IInv' /\ reviews' = reviews
  BY <1>2, ClaimKeeps
  DEF IInv, Claim, TablesKept, TypedTables, OneTransactionPerApproval
<1>3. CASE UNCHANGED vars
  BY <1>3 DEF vars, IInv, TypedTables, TypedRequests, ClaimsHold, Deciding,
              OneTransactionPerApproval
<1>4. ASSUME NEW r \in Requests, Arrive(r) \/ Step(r) \/ Die(r)
      PROVE  \/ QuietStep(r) \/ Claim(r) \/ CreateReview(r) \/ WriteDocument(r)
             \/ CommitApproval(r) \/ CommitRejection(r)
  BY <1>4 DEF Arrive, Step, QuietStep
<1>5. QED
  BY <1>1, <1>2, <1>3, <1>4, CreateReviewKeeps, WriteDocumentKeeps,
     CommitApprovalKeeps, CommitRejectionKeeps DEF Next, ReviewsKept

LEMMA InitHolds == Init => IInv
<1> SUFFICES ASSUME Init PROVE IInv
  OBVIOUS
<1>1. TypedTables
  BY DEF Init, TypedTables
<1>2. \A r \in Requests : request[r] = Idle /\ request[r].op = "idle"
  BY DEF Init, Idle
<1>3. TypedRequests /\ ClaimsHold
  BY <1>2 DEF Init, TypedRequests, ClaimsHold, Deciding, Idle, Fields
<1>4. OneTransactionPerApproval
  BY DEF Init, OneTransactionPerApproval
<1>5. QED
  BY <1>1, <1>3, <1>4 DEF IInv

\* However approvals, rejections and their rollbacks interleave, a review is
\* approved exactly if there is a transaction for it, and there is only that one.
THEOREM ApprovedOnce == Spec => []OneTransactionPerApproval
<1>1. IInv /\ [Next]_vars => IInv'
  BY StepKeeps
<1>2. IInv => OneTransactionPerApproval
  BY DEF IInv
<1>3. QED
  BY InitHolds, <1>1, <1>2, PTL DEF Spec

\* No handler changes a review that was approved or rejected.
THEOREM DecidedStaysDecided == Spec => DecisionsAreFinal
<1>1. IInv /\ [Next]_vars => IInv'
  BY StepKeeps
<1>2. IInv /\ [Next]_vars =>
        [\A id \in DOMAIN reviews :
           reviews[id].status # "PENDING_REVIEW" =>
             id \in DOMAIN reviews' /\ reviews'[id] = reviews[id]]_vars
  BY StepKeeps
<1>3. QED
  BY InitHolds, <1>1, <1>2, PTL DEF Spec, DecisionsAreFinal

----------------------------------------------------------------------------
(* The products of an approval.                                            *)

\* What an approval has made so far: a product for every line it is past that names
\* none, under the number of the line, and only for an incoming invoice.
MadeSoFar(r) ==
  /\ request[r].next \in Nat \ {0}
  /\ request[r].at = "claim" => request[r].next = 1 /\ DOMAIN request[r].made = {}
  /\ \A p \in DOMAIN request[r].made : \E i \in Nat : p = <<request[r].file, i>>
  /\ DOMAIN request[r].made # {} \/ request[r].at = "insert" =>
       reviews[request[r].file].type = "INCOMING"
  /\ \A i \in 1 .. (request[r].next - 1) :
       i <= Len(request[r].lines) /\ request[r].lines[i].product = NoProduct =>
         <<request[r].file, i>> \in DOMAIN request[r].made
  /\ request[r].at = "commit" => request[r].next > Len(request[r].lines)

MadeInv == \A r \in Requests : request[r].op = "approve" => MadeSoFar(r)

TypesKept ==
  \A id \in DOMAIN reviews : id \in DOMAIN reviews' /\ reviews'[id].type = reviews[id].type

\* No step changes the type of a review.
LEMMA ReviewTypesStay ==
  ASSUME IInv, [Next]_vars
  PROVE  TypesKept
<1>1. ASSUME NEW r \in Requests, CommitApproval(r) \/ CommitRejection(r)
      PROVE  TypesKept
  <2>1. /\ request[r].file \in DOMAIN reviews
        /\ DOMAIN reviews' = DOMAIN reviews
        /\ \/ reviews' = [reviews EXCEPT ![request[r].file].status = "REJECTED"]
           \/ reviews' = [reviews EXCEPT ![request[r].file].status = "APPROVED",
                                         ![request[r].file].transaction = Len(transactions) + 1]
    BY <1>1 DEF CommitApproval, CommitRejection, IInv, ClaimsHold, Deciding, At
  <2>2. \A id \in DOMAIN reviews : reviews[id] \in Review
    BY DEF IInv, TypedTables
  <2>3. QED
    BY <2>1, <2>2 DEF TypesKept, Review
<1>2. ASSUME NEW r \in Requests, CreateReview(r) PROVE TypesKept
  BY <1>2 DEF CreateReview, TypesKept
<1>3. ASSUME NEW r \in Requests, QuietStep(r) \/ Claim(r) \/ WriteDocument(r)
      PROVE  TypesKept
  BY <1>3, QuietKeeps DEF Claim, WriteDocument, TablesKept, TypesKept
<1>4. CASE UNCHANGED vars
  BY <1>4 DEF vars, TypesKept
<1>5. ASSUME NEW r \in Requests, Arrive(r) \/ Step(r) \/ Die(r)
      PROVE  \/ QuietStep(r) \/ Claim(r) \/ CreateReview(r) \/ WriteDocument(r)
             \/ CommitApproval(r) \/ CommitRejection(r)
  BY <1>5 DEF Arrive, Step, QuietStep
<1>6. QED
  BY <1>1, <1>2, <1>3, <1>4, <1>5 DEF Next

\* What was made stays true of the requests that a step does not move.
LEMMA MadeByOthers ==
  ASSUME IInv, MadeInv, TypesKept, NEW r \in Requests, OthersKept(r),
         request'[r].op = "approve" => MadeSoFar(r)'
  PROVE  MadeInv'
<1> SUFFICES ASSUME NEW q \in Requests \ {r}, request'[q].op = "approve"
             PROVE  MadeSoFar(q)'
  BY DEF MadeInv
<1>1. request[q].op = "approve" /\ request'[q] = request[q] /\ MadeSoFar(q)
  BY DEF OthersKept, MadeInv
<1>2. DOMAIN request[q].made # {} \/ request[q].at = "insert" =>
        Deciding(q) /\ reviews[request[q].file].type = "INCOMING"
  BY <1>1 DEF MadeSoFar, Deciding
<1>3. DOMAIN request[q].made # {} \/ request[q].at = "insert" =>
        reviews'[request[q].file].type = "INCOMING"
  BY <1>1, <1>2 DEF IInv, ClaimsHold, TypesKept
<1>4. QED
  BY <1>1, <1>3 DEF MadeSoFar

\* Where the request goes on with the lines, products and place it had.
LEMMA GoKeepsMade ==
  ASSUME IInv, TypesKept, NEW r \in Requests, NEW at, Go(r, at), MadeSoFar(r),
         at # "claim", at = "insert" => reviews'[request[r].file].type = "INCOMING",
         at = "commit" => ~MoreLines(r),
         request[r].lines \in Invoices,
         DOMAIN request[r].made # {} => Deciding(r)
  PROVE  MadeSoFar(r)'
<1>1. /\ request'[r].next = request[r].next /\ request'[r].made = request[r].made
      /\ request'[r].file = request[r].file /\ request'[r].lines = request[r].lines
      /\ request'[r].at = at
  BY DEF Go, IInv, TypedRequests, Fields
<1>2. Len(request[r].lines) \in Nat
  BY DocumentReviewAssumption, LenProperties
<1>3. DOMAIN request[r].made # {} => reviews'[request[r].file].type = "INCOMING"
  BY DEF MadeSoFar, IInv, ClaimsHold, TypesKept
<1>4. at = "commit" => request[r].next > Len(request[r].lines)
  BY <1>2 DEF MoreLines, MadeSoFar
<1>5. QED
  BY <1>1, <1>3, <1>4 DEF MadeSoFar

LEMMA MadeKept ==
  ASSUME IInv, MadeInv, [Next]_vars
  PROVE  MadeInv'
<1>0. TypesKept
  BY ReviewTypesStay
<1>1. ASSUME NEW r \in Requests, OthersKept(r), request'[r].op # "approve"
      PROVE  MadeInv'
  BY <1>0, <1>1, MadeByOthers
<1>2. ASSUME NEW r \in Requests, Arrive(r)
      PROVE  MadeInv'
  <2>1. OthersKept(r)
    BY <1>2 DEF Arrive, Upload, AttachDocument, Approve, Reject, Begin, IInv, TypedRequests,
       OthersKept
  <2>2. request'[r].op = "approve" =>
          request'[r].at = "claim" /\ request'[r].next = 1 /\ request'[r].made = <<>>
    BY <1>2 DEF Arrive, Upload, AttachDocument, Approve, Reject, Begin, IInv, TypedRequests
  <2>3. request'[r].op = "approve" => MadeSoFar(r)'
    BY <2>2 DEF MadeSoFar
  <2>4. QED
    BY <1>0, <2>1, <2>3, MadeByOthers
<1>3. ASSUME NEW r \in Requests, End(r)
      PROVE  MadeInv'
  BY <1>1, <1>3, EndMoves DEF IInv
<1>4. ASSUME NEW r \in Requests, NEW at, Go(r, at), request[r].op # "approve"
      PROVE  MadeInv'
  BY <1>1, <1>4, GoMoves DEF IInv
<1>5. ASSUME NEW r \in Requests, Claim(r) PROVE MadeInv'
  <2>1. CASE Go(r, "resolve") /\ request[r].op = "approve"
    <3>1. MadeSoFar(r)' /\ OthersKept(r)
      <4>1. MadeSoFar(r) /\ request[r].at = "claim"
        BY <1>5, <2>1 DEF Claim, MadeInv
      <4>2. QED
        BY <1>0, <2>1, <4>1, GoKeepsMade, GoMoves DEF MadeSoFar, IInv, TypedRequests
    <3>2. QED
      BY <1>0, <3>1, MadeByOthers
  <2>2. QED
    BY <1>3, <1>4, <1>5, <2>1 DEF Claim
<1>6. ASSUME NEW r \in Requests, LookForName(r) \/ CreateTransaction(r) PROVE MadeInv'
  <2>1. MadeSoFar(r) /\ Deciding(r) /\ request[r].lines \in Invoices
    BY <1>6 DEF LookForName, CreateTransaction, At, MadeInv, Deciding, IInv, TypedRequests
  <2>2. CASE LookForName(r) /\ Go(r, "insert") /\ ~End(r)
    <3>1. reviews[request[r].file].type = "INCOMING" /\ request[r].file \in DOMAIN reviews
      BY <2>1, <2>2 DEF LookForName, IInv, ClaimsHold
    <3>2. MadeSoFar(r)' /\ OthersKept(r)
      BY <1>0, <2>1, <2>2, <3>1, GoKeepsMade, GoMoves DEF TypesKept, IInv
    <3>3. QED
      BY <1>0, <3>2, MadeByOthers
  <2>3. CASE CreateTransaction(r) /\ Go(r, "commit")
    <3>1. MadeSoFar(r)' /\ OthersKept(r)
      BY <1>0, <2>1, <2>3, GoKeepsMade, GoMoves DEF CreateTransaction, IInv
    <3>2. QED
      BY <1>0, <3>1, MadeByOthers
  <2>4. QED
    BY <1>3, <1>6, <2>2, <2>3 DEF LookForName, CreateTransaction
<1>7. ASSUME NEW r \in Requests, TakeProduct(r) PROVE MadeInv'
  <2>1. MadeSoFar(r) /\ Deciding(r) /\ OthersKept(r)
    BY <1>7, TakeMoves DEF TakeProduct, At, MadeInv, Deciding, IInv
  <2>2. /\ request'[r].next = request[r].next + 1 /\ request'[r].made = request[r].made
        /\ request'[r].file = request[r].file /\ request'[r].lines = request[r].lines
        /\ request'[r].at = "resolve"
        /\ request[r].lines[request[r].next].product # NoProduct
    BY <1>7 DEF TakeProduct, At, Line, IInv, TypedRequests, Fields
  <2>3. DOMAIN request[r].made # {} => reviews'[request[r].file].type = "INCOMING"
    BY <1>0, <2>1 DEF MadeSoFar, IInv, ClaimsHold, TypesKept
  <2>4. \A i \in 1 .. request[r].next : i = request[r].next \/ i \in 1 .. (request[r].next - 1)
    BY <2>1 DEF MadeSoFar
  <2>5. MadeSoFar(r)'
    BY <2>1, <2>2, <2>3, <2>4 DEF MadeSoFar
  <2>6. QED
    BY <1>0, <2>1, <2>5, MadeByOthers
<1>8. ASSUME NEW r \in Requests, InsertProduct(r) PROVE MadeInv'
  <2>1. MadeSoFar(r) /\ Deciding(r) /\ OthersKept(r) /\ request[r].at = "insert"
    BY <1>8, InsertMoves DEF InsertProduct, At, MadeInv, Deciding, IInv
  <2> DEFINE id == <<request[r].file, request[r].next>>
  <2>2. PICK made : /\ DOMAIN made = DOMAIN request[r].made \cup {id}
                    /\ request' = [request EXCEPT ![r].at = "resolve", ![r].next = @ + 1, ![r].made = made]
    BY <1>8 DEF InsertProduct
  <2>3. /\ request'[r].next = request[r].next + 1 /\ request'[r].made = made
        /\ request'[r].file = request[r].file /\ request'[r].lines = request[r].lines
        /\ request'[r].at = "resolve"
    BY <2>2 DEF IInv, TypedRequests, Fields
  <2>4. reviews'[request[r].file].type = "INCOMING"
    BY <1>0, <2>1 DEF MadeSoFar, IInv, ClaimsHold, TypesKept
  <2>5. \A i \in 1 .. request[r].next : i = request[r].next \/ i \in 1 .. (request[r].next - 1)
    BY <2>1 DEF MadeSoFar
  <2>6. request[r].next \in Nat \ {0}
    BY <2>1 DEF MadeSoFar
  <2>7. \A p \in DOMAIN made : \E i \in Nat : p = <<request[r].file, i>>
    BY <2>1, <2>2, <2>6 DEF MadeSoFar
  <2>8. \A i \in 1 .. request[r].next :
          i <= Len(request[r].lines) /\ request[r].lines[i].product = NoProduct =>
            <<request[r].file, i>> \in DOMAIN made
    BY <2>1, <2>2, <2>5 DEF MadeSoFar
  <2>9. MadeSoFar(r)'
    BY <2>3, <2>4, <2>6, <2>7, <2>8 DEF MadeSoFar
  <2>10. QED
    BY <1>0, <2>1, <2>9, MadeByOthers
<1>9. ASSUME NEW r \in Requests,
             \/ Store(r) \/ CreateReview(r) \/ Cleanup(r) \/ Notify(r) \/ WriteDocument(r)
             \/ CommitApproval(r) \/ CommitRejection(r) \/ Die(r)
      PROVE  MadeInv'
  <2>1. End(r) \/ (request[r].op # "approve" /\ \E at : Go(r, at))
    BY <1>9 DEF Store, CreateReview, Cleanup, Notify, WriteDocument, CommitApproval,
       CommitRejection, Die, At
  <2>2. QED
    BY <1>3, <1>4, <2>1
<1>10. CASE UNCHANGED vars
  BY <1>10 DEF vars, MadeInv, MadeSoFar
<1>11. QED
  BY <1>2, <1>5, <1>6, <1>7, <1>8, <1>9, <1>10 DEF Next, Step

\* Only the commit of an approval touches the catalogue.
LEMMA CatalogueKept ==
  ASSUME [Next]_vars
  PROVE  products' = products \/ \E r \in Requests : CommitApproval(r)
BY DEF Next, Arrive, Step, Upload, AttachDocument, Approve, Reject, Store, CreateReview, Cleanup,
   Notify, WriteDocument, Claim, TakeProduct, LookForName, InsertProduct, CreateTransaction,
   CommitRejection, Die, TablesKept, vars

\* Only it adds a transaction, and none changes its lines or its review.
LEMMA LinesKept ==
  ASSUME IInv, [Next]_vars
  PROVE  \/ \E r \in Requests : CommitApproval(r)
         \/ /\ DOMAIN transactions' = DOMAIN transactions
            /\ \A txn \in DOMAIN transactions :
                 /\ transactions'[txn].lines = transactions[txn].lines
                 /\ transactions'[txn].review = transactions[txn].review
<1>1. ASSUME NEW r \in Requests, WriteDocument(r)
      PROVE  /\ DOMAIN transactions' = DOMAIN transactions
             /\ \A txn \in DOMAIN transactions :
                  /\ transactions'[txn].lines = transactions[txn].lines
                  /\ transactions'[txn].review = transactions[txn].review
  <2>1. \A txn \in DOMAIN transactions : transactions[txn] \in Transaction
    BY ElementOfSeq, LenProperties DEF IInv, TypedTables
  <2>2. QED
    BY <1>1, <2>1 DEF WriteDocument, Transaction
<1>2. (\E r \in Requests : WriteDocument(r) \/ CommitApproval(r)) \/ transactions' = transactions
  BY DEF Next, Arrive, Step, Upload, AttachDocument, Approve, Reject, Store, CreateReview, Cleanup,
     Notify, Claim, TakeProduct, LookForName, InsertProduct, CreateTransaction,
     CommitRejection, Die, TablesKept, vars
<1>3. QED
  BY <1>1, <1>2

LEMMA ProductsOfTheCommit ==
  ASSUME IInv, MadeInv, ProductsComeWithTheirApproval, NEW r \in Requests, CommitApproval(r)
  PROVE  ProductsComeWithTheirApproval'
<1> DEFINE id == request[r].file
           made == request[r].made
           lines == request[r].lines
           n == Len(transactions) + 1
<1>1. /\ Deciding(r) /\ MadeSoFar(r) /\ request[r].at = "commit"
      /\ id \in DOMAIN reviews /\ reviews[id] \in Review
      /\ DOMAIN reviews' = DOMAIN reviews
      /\ reviews' = [reviews EXCEPT ![id].status = "APPROVED", ![id].transaction = n]
      /\ DOMAIN products' = DOMAIN products \cup DOMAIN made
  BY DEF CommitApproval, At, Deciding, MadeInv, IInv, ClaimsHold, TypedTables
<1>2. /\ reviews'[id].status = "APPROVED" /\ reviews'[id].type = reviews[id].type
      /\ \A d \in DOMAIN reviews : reviews[d].status = "APPROVED" =>
           reviews'[d].status = "APPROVED" /\ reviews'[d].type = reviews[d].type
  BY <1>1 DEF Review
<1>3. ASSUME NEW p \in DOMAIN products' \ DOMAIN Catalogue
      PROVE  /\ p[1] \in DOMAIN reviews'
             /\ reviews'[p[1]].type = "INCOMING" /\ reviews'[p[1]].status = "APPROVED"
  <2>1. CASE p \in DOMAIN made
    <3>1. p[1] = id
      BY <1>1, <2>1 DEF MadeSoFar
    <3>2. reviews[id].type = "INCOMING"
      BY <1>1, <2>1 DEF MadeSoFar
    <3>3. QED
      BY <1>1, <1>2, <3>1, <3>2
  <2>2. CASE p \in DOMAIN products
    BY <1>1, <1>2, <1>3, <2>2 DEF ProductsComeWithTheirApproval
  <2>3. QED
    BY <1>1, <1>3, <2>1, <2>2
<1>4. /\ transactions \in Seq(Transaction)
      /\ transactions' = Append(transactions, [review |-> id, file |-> id, lines |-> lines])
      /\ DOMAIN transactions' = 1 .. n /\ DOMAIN transactions = 1 .. Len(transactions)
      /\ Len(transactions) \in Nat
      /\ \A t \in DOMAIN transactions : transactions'[t] = transactions[t]
      /\ transactions'[n].review = id /\ transactions'[n].lines = lines
  BY AppendProperties, LenProperties DEF CommitApproval, IInv, TypedTables, TypedRequests, At, Transaction
<1>5. DOMAIN lines = 1 .. Len(lines) /\ Len(lines) \in Nat /\ Len(lines) < request[r].next
  <2>1. lines \in Invoices
    BY DEF CommitApproval, At, IInv, TypedRequests
  <2>2. DOMAIN lines = 1 .. Len(lines) /\ Len(lines) \in Nat
    BY <2>1, DocumentReviewAssumption, LenProperties
  <2>3. QED
    BY <1>1, <2>2 DEF MadeSoFar
<1>6. ASSUME NEW t \in DOMAIN transactions', NEW i \in DOMAIN transactions'[t].lines,
             transactions'[t].lines[i].product = NoProduct
      PROVE  <<transactions'[t].review, i>> \in DOMAIN products'
  <2>1. CASE t = n
    <3>1. i \in 1 .. (request[r].next - 1) /\ i <= Len(lines) /\ lines[i].product = NoProduct
      BY <1>1, <1>4, <1>5, <1>6, <2>1 DEF MadeSoFar
    <3>2. <<id, i>> \in DOMAIN made
      BY <1>1, <3>1 DEF MadeSoFar
    <3>3. QED
      BY <1>1, <1>4, <2>1, <3>2
  <2>2. CASE t \in DOMAIN transactions
    BY <1>1, <1>4, <1>6, <2>2 DEF ProductsComeWithTheirApproval
  <2>3. t = n \/ t \in DOMAIN transactions
    <3> HIDE DEF n
    <3>1. n = Len(transactions) + 1
      BY DEF n
    <3>2. QED
      BY <1>4, <3>1
  <2>4. QED
    BY <2>1, <2>2, <2>3
<1>7. QED
  BY <1>3, <1>6 DEF ProductsComeWithTheirApproval

LEMMA ProductsOfOthers ==
  ASSUME ProductsComeWithTheirApproval, products' = products,
         DOMAIN transactions' = DOMAIN transactions,
         \A txn \in DOMAIN transactions :
           /\ transactions'[txn].lines = transactions[txn].lines
           /\ transactions'[txn].review = transactions[txn].review,
         \A id \in DOMAIN reviews : reviews[id].status = "APPROVED" =>
           id \in DOMAIN reviews' /\ reviews'[id] = reviews[id]
  PROVE  ProductsComeWithTheirApproval'
<1>1. ASSUME NEW p \in DOMAIN products' \ DOMAIN Catalogue
      PROVE  /\ p[1] \in DOMAIN reviews'
             /\ reviews'[p[1]].type = "INCOMING" /\ reviews'[p[1]].status = "APPROVED"
  BY DEF ProductsComeWithTheirApproval
<1>2. ASSUME NEW t \in DOMAIN transactions', NEW i \in DOMAIN transactions'[t].lines,
             transactions'[t].lines[i].product = NoProduct
      PROVE  <<transactions'[t].review, i>> \in DOMAIN products'
  <2>1. t \in DOMAIN transactions /\ i \in DOMAIN transactions[t].lines
    OBVIOUS
  <2>2. /\ transactions[t].lines[i].product = NoProduct
        /\ transactions'[t].review = transactions[t].review
    BY <1>2, <2>1
  <2>3. QED
    BY <2>1, <2>2 DEF ProductsComeWithTheirApproval
<1>3. QED
  BY <1>1, <1>2 DEF ProductsComeWithTheirApproval

\* A new product is in the catalogue exactly if the approval that made it was
\* committed, for any invoices and however many approvals run, roll back and die.
THEOREM ProductsAreCommitted == Spec => []ProductsComeWithTheirApproval
<1> DEFINE PInv == IInv /\ MadeInv /\ ProductsComeWithTheirApproval
<1>1. Init => PInv
  <2>1. Init => MadeInv
    BY DEF Init, MadeInv, Idle
  <2>2. Init => ProductsComeWithTheirApproval
    BY DEF Init, ProductsComeWithTheirApproval
  <2>3. QED
    BY InitHolds, <2>1, <2>2
<1>2. PInv /\ [Next]_vars => PInv'
  <2> SUFFICES ASSUME PInv, [Next]_vars PROVE PInv'
    OBVIOUS
  <2>1. IInv' /\ MadeInv'
    BY StepKeeps, MadeKept
  <2>2. ASSUME NEW r \in Requests, CommitApproval(r) PROVE ProductsComeWithTheirApproval'
    BY <2>2, ProductsOfTheCommit
  <2>3. CASE ~\E r \in Requests : CommitApproval(r)
    <3>1. products' = products
      BY <2>3, CatalogueKept
    <3>2. /\ DOMAIN transactions' = DOMAIN transactions
          /\ \A txn \in DOMAIN transactions :
               /\ transactions'[txn].lines = transactions[txn].lines
               /\ transactions'[txn].review = transactions[txn].review
      BY <2>3, LinesKept
    <3>3. \A id \in DOMAIN reviews : reviews[id].status = "APPROVED" =>
            id \in DOMAIN reviews' /\ reviews'[id] = reviews[id]
      BY StepKeeps
    <3>4. QED
      BY <2>1, <3>1, <3>2, <3>3, ProductsOfOthers
  <2>4. QED
    BY <2>1, <2>2, <2>3
<1>3. QED
  BY <1>1, <1>2, PTL DEF Spec

\* However many approvals, rejections and crashes meet, the review, its transaction
\* and its products appear together.
THEOREM ApprovalsStayWhole == Spec => []ApprovalsAreWhole
BY ApprovedOnce, ProductsAreCommitted, PTL DEF ApprovalsAreWhole

----------------------------------------------------------------------------
(* Files and the rows that refer to them.                                  *)

Attached == {transactions[txn].file : txn \in DOMAIN transactions}
Storing(r) == request[r].op \in {"upload", "attach"}

\* An upload has a key of its own, that no row has before the upload gives it to one.
KeysAreNew ==
  /\ files \subseteq spent
  /\ \A r \in Requests : Storing(r) => request[r].file \in spent
  /\ \A r, q \in Requests :
       Storing(r) /\ Storing(q) /\ request[r].file = request[q].file => r = q
  /\ \A r \in Requests : Storing(r) /\ request[r].at # "notify" =>
       request[r].file \notin DOMAIN reviews \cup Attached

\* The file is stored before its row is written.
StoredFirst ==
  /\ \A r \in Requests :
       Storing(r) /\ request[r].at \in {"create", "write"} => request[r].file \in files
  /\ \A r \in Requests :
       Storing(r) /\ request[r].at = "notify" => request[r].file \in DOMAIN reviews
  /\ \A r \in Requests : request[r].op = "attach" => request[r].txn \in DOMAIN transactions

RowsHaveFiles == DOMAIN reviews \cup Attached \subseteq files

FilesHaveRows ==
  \A file \in files \ (DOMAIN reviews \cup Attached) :
    file \in abandoned \/ \E r \in Requests : Storing(r) /\ request[r].file = file

FileInv == KeysAreNew /\ StoredFirst /\ RowsHaveFiles /\ FilesHaveRows

\* A step of a request that stores nothing may attach only the file of a review.
LEMMA DecisionsKeepFiles ==
  ASSUME FileInv, NEW r \in Requests, OthersKept(r), ~Storing(r), ~Storing(r)',
         files' = files, spent' = spent, abandoned \subseteq abandoned',
         DOMAIN reviews' = DOMAIN reviews,
         Attached \subseteq Attached', Attached' \subseteq Attached \cup DOMAIN reviews,
         DOMAIN transactions \subseteq DOMAIN transactions'
  PROVE  FileInv'
<1>1. \A q \in Requests : Storing(q)' => Storing(q) /\ request'[q] = request[q]
  BY DEF OthersKept, Storing
<1>2. KeysAreNew'
  BY <1>1 DEF FileInv, KeysAreNew
<1>3. StoredFirst'
  BY <1>1 DEF FileInv, StoredFirst, Storing
<1>4. RowsHaveFiles'
  BY DEF FileInv, RowsHaveFiles
<1>5. \A q \in Requests : Storing(q) => Storing(q)' /\ request'[q] = request[q]
  BY DEF OthersKept, Storing
<1>6. FilesHaveRows'
  BY <1>5 DEF FileInv, FilesHaveRows
<1>7. QED
  BY <1>2, <1>3, <1>4, <1>6 DEF FileInv

\* An upload begins with a fresh key.
LEMMA UploadsBegin ==
  ASSUME FileInv, TypedRequests, NEW r \in Requests, NEW file \in Files,
         Upload(r, file) \/ \E txn \in DOMAIN transactions : AttachDocument(r, file, txn)
  PROVE  FileInv'
<1>1. /\ OthersKept(r) /\ ~Storing(r) /\ Storing(r)'
      /\ request'[r].at = "store" /\ request'[r].file = file
      /\ request'[r].op = "attach" => request'[r].txn \in DOMAIN transactions
      /\ file \notin spent /\ spent' = spent \cup {file}
      /\ UNCHANGED <<files, abandoned, reviews, transactions>>
  BY DEF Upload, AttachDocument, Begin, TypedRequests, OthersKept, Storing, TablesKept
<1>2. Attached' = Attached
  BY <1>1 DEF Attached
<1>3. \A q \in Requests \ {r} : request'[q] = request[q]
  BY <1>1 DEF OthersKept
<1>4. KeysAreNew'
  <2>1. file \notin DOMAIN reviews \cup Attached
    BY <1>1 DEF FileInv, RowsHaveFiles, KeysAreNew
  <2>2. QED
    BY <1>1, <1>2, <1>3, <2>1 DEF FileInv, KeysAreNew, Storing
<1>5. StoredFirst'
  BY <1>1, <1>3 DEF FileInv, StoredFirst, Storing
<1>6. RowsHaveFiles'
  BY <1>1, <1>2 DEF FileInv, RowsHaveFiles
<1>7. \A q \in Requests : Storing(q) => Storing(q)' /\ request'[q] = request[q]
  BY <1>1, <1>3 DEF Storing
<1>8. FilesHaveRows'
  BY <1>1, <1>2, <1>7 DEF FileInv, FilesHaveRows
<1>9. QED
  BY <1>4, <1>5, <1>6, <1>8 DEF FileInv

\* A step of an upload concerns its own key, and the file that its document replaces.
LEMMA UploadsKeepFiles ==
  ASSUME FileInv, NEW r \in Requests, OthersKept(r), Storing(r),
         NEW file, file = request[r].file,
         spent' = spent, abandoned \subseteq abandoned',
         files' \ {file} = files \ {file},
         DOMAIN reviews' \ {file} = DOMAIN reviews \ {file},
         DOMAIN transactions' = DOMAIN transactions,
         Attached \subseteq Attached' \cup abandoned',
         Attached' \subseteq Attached \cup {file},
         Storing(r)' => /\ request'[r].op = request[r].op
                        /\ request'[r].file = file /\ request'[r].txn = request[r].txn,
         file \in DOMAIN reviews' \cup Attached' => file \in files',
         Storing(r)' /\ request'[r].at # "notify" => file \notin DOMAIN reviews' \cup Attached',
         Storing(r)' /\ request'[r].at = "notify" => file \in DOMAIN reviews',
         Storing(r)' /\ request'[r].at \in {"create", "write"} => file \in files',
         file \in files' => Storing(r)' \/ file \in DOMAIN reviews' \cup Attached' \cup abandoned'
  PROVE  FileInv'
<1>1. /\ \A q \in Requests \ {r} : request'[q] = request[q]
      /\ \A q \in Requests : Storing(q)' => Storing(q) /\ request'[q].file = request[q].file
      /\ file \in spent
  BY DEF OthersKept, Storing, FileInv, KeysAreNew
<1>2. \A q \in Requests \ {r} : Storing(q) => request[q].file # file
  BY DEF FileInv, KeysAreNew
<1>3. KeysAreNew'
  <2>1. files' \subseteq spent
    BY <1>1 DEF FileInv, KeysAreNew
  <2>2. ASSUME NEW q \in Requests, Storing(q)', request'[q].at # "notify"
        PROVE  request'[q].file \notin DOMAIN reviews' \cup Attached'
    BY <1>1, <1>2, <2>2 DEF FileInv, KeysAreNew
  <2>3. QED
    BY <1>1, <2>1, <2>2 DEF FileInv, KeysAreNew
<1>4. StoredFirst'
  <2>1. ASSUME NEW q \in Requests, Storing(q)', request'[q].at \in {"create", "write"}
        PROVE  request'[q].file \in files'
    BY <1>1, <1>2, <2>1 DEF FileInv, StoredFirst
  <2>2. ASSUME NEW q \in Requests, Storing(q)', request'[q].at = "notify"
        PROVE  request'[q].file \in DOMAIN reviews'
    BY <1>1, <1>2, <2>2 DEF FileInv, StoredFirst
  <2>3. ASSUME NEW q \in Requests, request'[q].op = "attach"
        PROVE  request'[q].txn \in DOMAIN transactions'
    BY <1>1, <2>3 DEF FileInv, StoredFirst, Storing
  <2>4. QED
    BY <2>1, <2>2, <2>3 DEF StoredFirst
<1>5. RowsHaveFiles'
  BY DEF FileInv, RowsHaveFiles
<1>6. FilesHaveRows'
  <2> SUFFICES ASSUME NEW f \in files', f \notin DOMAIN reviews' \cup Attached', f \notin abandoned'
               PROVE  \E q \in Requests : Storing(q)' /\ request'[q].file = f
    BY DEF FilesHaveRows
  <2>1. CASE f = file
    BY <2>1
  <2>2. CASE f # file
    <3>1. f \in files \ (DOMAIN reviews \cup Attached) /\ f \notin abandoned
      BY <2>2
    <3>2. PICK q \in Requests : Storing(q) /\ request[q].file = f
      BY <3>1 DEF FileInv, FilesHaveRows
    <3>3. QED
      BY <1>1, <2>2, <3>2 DEF Storing
  <2>3. QED
    BY <2>1, <2>2
<1>7. QED
  BY <1>3, <1>4, <1>5, <1>6 DEF FileInv

\* The steps of an upload: it ends with its file referred to, gone, or abandoned.
LEMMA UploadSteps ==
  ASSUME IInv, FileInv, NEW r \in Requests,
         \/ Store(r) \/ CreateReview(r) \/ Cleanup(r) \/ Notify(r)
         \/ Die(r) /\ Storing(r)
  PROVE  FileInv'
<1>1. PICK file : file = request[r].file
  OBVIOUS
<1>2. /\ Storing(r) /\ transactions' = transactions
      /\ spent' = spent /\ abandoned \subseteq abandoned'
  BY DEF Store, CreateReview, Cleanup, Notify, Die, At, Storing, TablesKept, FilesKept
<1>3. Attached' = Attached
  BY <1>2 DEF Attached
<1>4. /\ files' \ {file} = files \ {file}
      /\ DOMAIN reviews' \ {file} = DOMAIN reviews \ {file}
  BY <1>1 DEF Store, CreateReview, Cleanup, Notify, Die, TablesKept, FilesKept
<1>5. /\ file \in DOMAIN reviews \cup Attached => file \in files
      /\ request[r].at # "notify" => file \notin DOMAIN reviews \cup Attached
      /\ request[r].at = "notify" => file \in DOMAIN reviews
      /\ request[r].at \in {"create", "write"} => file \in files
  BY <1>1, <1>2 DEF FileInv, KeysAreNew, StoredFirst, RowsHaveFiles
<1>6. CASE End(r)
  <2>1. OthersKept(r) /\ ~Storing(r)'
    BY <1>6, EndMoves DEF IInv, Storing
  <2>2. CASE Store(r)
    <3>1. file \in abandoned' /\ reviews' = reviews /\ request[r].at = "store"
      BY <1>1, <1>2, <1>6, <2>1, <2>2, GoMoves DEF Store, TablesKept, IInv, Storing
    <3>2. QED
      BY <1>1, <1>2, <1>3, <1>4, <1>5, <2>1, <3>1, UploadsKeepFiles
  <2>3. CASE CreateReview(r)
    <3>1. FALSE
      BY <1>2, <2>1, <2>3, GoMoves DEF CreateReview, IInv, Storing
    <3>2. QED
      BY <3>1
  <2>4. CASE Cleanup(r)
    <3>1. /\ file \notin files' \/ file \in abandoned'
          /\ reviews' = reviews /\ request[r].at = "cleanup"
      BY <1>1, <2>4 DEF Cleanup, TablesKept, At
    <3>2. QED
      BY <1>1, <1>2, <1>3, <1>4, <1>5, <2>1, <3>1, UploadsKeepFiles
  <2>5. CASE Notify(r)
    <3>1. /\ files' = files /\ reviews' = reviews /\ request[r].at = "notify"
      BY <2>5 DEF Notify, At, TablesKept, FilesKept
    <3>2. QED
      BY <1>1, <1>2, <1>3, <1>4, <1>5, <2>1, <3>1, UploadsKeepFiles
  <2>6. CASE Die(r)
    <3>1. file \in abandoned' /\ files' = files /\ reviews' = reviews
      BY <1>1, <1>2, <2>6 DEF Die, Storing, TablesKept
    <3>2. QED
      BY <1>1, <1>2, <1>3, <1>4, <1>5, <2>1, <3>1, UploadsKeepFiles
  <2>7. QED
    BY <2>2, <2>3, <2>4, <2>5, <2>6
<1>7. CASE Store(r) /\ ~End(r)
  <2>1. /\ files' = files \cup {file} /\ reviews' = reviews /\ request[r].at = "store"
        /\ \E at \in {"create", "write"} : Go(r, at)
    BY <1>1, <1>7 DEF Store, TablesKept
  <2>2. /\ OthersKept(r) /\ Storing(r)'
        /\ request'[r].op = request[r].op /\ request'[r].file = file
        /\ request'[r].txn = request[r].txn /\ request'[r].at \in {"create", "write"}
    BY <1>1, <1>2, <2>1, GoMoves, ZenonT(40) DEF IInv, TypedRequests, Fields, Go, Storing
  <2>3. QED
    BY <1>1, <1>2, <1>3, <1>4, <1>5, <2>1, <2>2, UploadsKeepFiles
<1>8. CASE CreateReview(r)
  <2>1. /\ files' = files /\ request[r].at = "create"
        /\ \/ file \in DOMAIN reviews' /\ Go(r, "notify")
           \/ reviews' = reviews /\ Go(r, "cleanup")
    BY <1>1, <1>8 DEF CreateReview, FilesKept, At
  <2>2. /\ OthersKept(r) /\ Storing(r)'
        /\ request'[r].op = request[r].op /\ request'[r].file = file
        /\ request'[r].txn = request[r].txn
        /\ \/ file \in DOMAIN reviews' /\ request'[r].at = "notify"
           \/ reviews' = reviews /\ request'[r].at = "cleanup"
    BY <1>1, <1>2, <2>1, GoMoves DEF IInv, TypedRequests, Fields, Go, Storing
  <2>3. QED
    BY <1>1, <1>2, <1>3, <1>4, <1>5, <2>1, <2>2, UploadsKeepFiles
<1>9. QED
  BY <1>6, <1>7, <1>8 DEF Cleanup, Notify, Die

\* The document of a transaction is replaced: the old file is abandoned.
LEMMA ReplacedIsAbandoned ==
  ASSUME IInv, FileInv, NEW r \in Requests, WriteDocument(r)
  PROVE  FileInv'
<1>1. PICK file, txn : file = request[r].file /\ txn = request[r].txn
  OBVIOUS
<1>2. /\ Storing(r) /\ OthersKept(r) /\ ~Storing(r)'
      /\ UNCHANGED <<files, spent, reviews>> /\ abandoned \subseteq abandoned'
      /\ txn \in DOMAIN transactions /\ file \in files
      /\ file \notin DOMAIN reviews
  BY <1>1, EndMoves DEF WriteDocument, At, Storing, IInv, FileInv, StoredFirst, KeysAreNew
<1>3. CASE transactions' = transactions /\ file \in abandoned'
  <2>1. Attached' = Attached
    BY <1>3 DEF Attached
  <2>2. QED
    BY <1>1, <1>2, <1>3, <2>1, UploadsKeepFiles
<1>4. CASE /\ transactions' = [transactions EXCEPT ![txn].file = file]
           /\ transactions[txn].file \in abandoned'
  <2>1. \A t \in DOMAIN transactions : transactions[t] \in Transaction
    BY ElementOfSeq, LenProperties DEF IInv, TypedTables
  <2>2. /\ DOMAIN transactions' = DOMAIN transactions
        /\ transactions'[txn].file = file
        /\ \A t \in DOMAIN transactions \ {txn} : transactions'[t] = transactions[t]
    BY <1>2, <1>4, <2>1 DEF Transaction
  <2>3. /\ Attached \subseteq Attached' \cup abandoned'
        /\ Attached' \subseteq Attached \cup {file}
        /\ file \in Attached'
    BY <1>2, <1>4, <2>2 DEF Attached
  <2>4. QED
    BY <1>1, <1>2, <2>2, <2>3, UploadsKeepFiles
<1>5. QED
  BY <1>1, <1>3, <1>4 DEF WriteDocument

\* Approvals and rejections refer to the file of their review only.
LEMMA DecisionSteps ==
  ASSUME IInv, FileInv, NEW r \in Requests,
         \/ \E id \in DOMAIN reviews : Reject(r, id) \/ \E lines \in Invoices : Approve(r, id, lines)
         \/ Claim(r) \/ TakeProduct(r) \/ LookForName(r) \/ InsertProduct(r)
         \/ CreateTransaction(r) \/ CommitApproval(r) \/ CommitRejection(r)
         \/ Die(r) /\ ~Storing(r)
  PROVE  FileInv'
<1>1. /\ files' = files /\ spent' = spent /\ abandoned \subseteq abandoned'
      /\ DOMAIN reviews' = DOMAIN reviews
  BY DEF Reject, Approve, Claim, TakeProduct, LookForName, InsertProduct, CreateTransaction,
     CommitApproval, CommitRejection, Die, TablesKept, FilesKept
<1>2. ~Storing(r)
  BY DEF Reject, Approve, Begin, Claim, TakeProduct, LookForName, InsertProduct,
     CreateTransaction, CommitApproval, CommitRejection, Storing, At
<1>3. OthersKept(r) /\ ~Storing(r)'
  <2>1. CASE \E id \in DOMAIN reviews : Reject(r, id) \/ \E lines \in Invoices : Approve(r, id, lines)
    BY <2>1, BeginMoves DEF Reject, Approve, Storing, IInv, TypedTables
  <2>2. CASE End(r)
    BY <2>2, EndMoves DEF Storing, IInv
  <2>3. CASE TakeProduct(r) \/ InsertProduct(r)
    BY <1>2, <2>3, TakeMoves, InsertMoves DEF Storing, IInv
  <2>4. CASE \E at : Go(r, at)
    BY <1>2, <2>4, GoMoves DEF Storing, IInv
  <2>5. QED
    BY <2>1, <2>2, <2>3, <2>4 DEF Claim, LookForName, CreateTransaction, CommitApproval,
       CommitRejection, Die
<1>4. /\ Attached \subseteq Attached' /\ Attached' \subseteq Attached \cup DOMAIN reviews
      /\ DOMAIN transactions \subseteq DOMAIN transactions'
  <2>1. CASE transactions' = transactions
    BY <2>1 DEF Attached
  <2>2. CASE CommitApproval(r)
    <3> DEFINE row == [review |-> request[r].file, file |-> request[r].file,
                       lines |-> request[r].lines]
               n == Len(transactions) + 1
    <3>1. /\ transactions \in Seq(Transaction) /\ row \in Transaction
          /\ transactions' = Append(transactions, row)
          /\ request[r].file \in DOMAIN reviews
      BY <2>2 DEF CommitApproval, At, IInv, TypedTables, TypedRequests, Transaction, ClaimsHold, Deciding
    <3>2. /\ DOMAIN transactions = 1 .. Len(transactions) /\ DOMAIN transactions' = 1 .. n
          /\ Len(transactions) \in Nat
          /\ \A t \in DOMAIN transactions : transactions'[t] = transactions[t]
          /\ transactions'[n] = row
      BY <3>1, AppendProperties, LenProperties
    <3>3. \A t \in 1 .. n : t = n \/ t \in 1 .. Len(transactions)
      BY <3>2
    <3>4. row.file = request[r].file
      OBVIOUS
    <3>5. DOMAIN transactions \subseteq DOMAIN transactions'
      BY <3>2
    <3> HIDE DEF row, n
    <3>6. QED
      BY <3>1, <3>2, <3>3, <3>4, <3>5 DEF Attached
  <2>3. QED
    BY <2>1, <2>2 DEF Reject, Approve, Claim, TakeProduct, LookForName, InsertProduct,
       CreateTransaction, CommitRejection, Die, TablesKept
<1>5. QED
  BY <1>1, <1>2, <1>3, <1>4, DecisionsKeepFiles

\* No row is left with a link to a file that is not in S3, and no file without a row
\* unless its upload runs, died or was told of an error, or a later document replaced
\* it, for any number of uploads, approvals and attachments at the same time.
THEOREM FilesAndRowsMatch == Spec => []RowsAndFilesMatch
<1> DEFINE FInv == IInv /\ FileInv
<1>1. Init => FInv
  <2> SUFFICES ASSUME Init PROVE FInv
    OBVIOUS
  <2>1. /\ \A r \in Requests : ~Storing(r) /\ request[r].op = "idle"
        /\ DOMAIN reviews = {} /\ Attached = {} /\ files = {}
    BY DEF Init, Idle, Storing, Attached
  <2>2. FileInv
    BY <2>1 DEF Init, FileInv, KeysAreNew, StoredFirst, RowsHaveFiles, FilesHaveRows
  <2>3. QED
    BY <2>2, InitHolds
<1>2. FInv /\ [Next]_vars => FInv'
  <2> SUFFICES ASSUME FInv, [Next]_vars PROVE FInv'
    OBVIOUS
  <2>1. IInv'
    BY StepKeeps
  <2>2. ASSUME NEW r \in Requests, Arrive(r) PROVE FileInv'
    BY <2>2, UploadsBegin, DecisionSteps DEF Arrive, IInv
  <2>3. ASSUME NEW r \in Requests, Step(r) \/ Die(r) PROVE FileInv'
    BY <2>3, UploadSteps, ReplacedIsAbandoned, DecisionSteps DEF Step
  <2>4. CASE UNCHANGED vars
    BY <2>1, <2>4 DEF vars, FileInv, KeysAreNew, StoredFirst, RowsHaveFiles, FilesHaveRows,
       Attached, Storing
  <2>5. QED
    BY <2>1, <2>2, <2>3, <2>4 DEF Next
<1>3. FInv => RowsAndFilesMatch
  BY DEF FileInv, RowsHaveFiles, FilesHaveRows, Attached, Storing,
     RowsAndFilesMatch, DocumentsExist, StrayFilesAreKnown
<1>4. QED
  BY <1>1, <1>2, <1>3, PTL DEF Spec
=============================================================================
