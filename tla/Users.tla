------------------------------- MODULE Users -------------------------------
(***************************************************************************)
(* UsersService: an employee is an account in Cognito and a row in         *)
(* PostgreSQL, and each operation changes the two in turn.  update and     *)
(* remove run in a database transaction under one advisory lock; create,   *)
(* and the clean-up it does when its welcome email fails, run without it.  *)
(* A review of a document refers to the user who made it, so its           *)
(* transaction takes a share lock on that row (FOR KEY SHARE), which       *)
(* remove's SELECT ... FOR UPDATE waits for, and the other way round.      *)
(***************************************************************************)
EXTENDS FiniteSets

CONSTANTS
  Ids,       \* one for every account createUser may open; its row has the same
  EmailOf,   \* the email it is opened for
  Requests,  \* requests being served at the same time
  Founder,   \* the admin the database is seeded with
  NoId       \* the id of a request that is not being served

Roles == {"ADMIN", "EMPLOYEE"}

ASSUME UsersAssumption == Founder \in Ids /\ NoId \notin Ids

VARIABLES
  users,     \* User rows: id -> role
  accounts,  \* accounts in the Cognito pool
  reviewed,  \* users some document review names as its reviewer
  request,   \* what each request is doing
  spent,     \* ids createUser has handed out
  undone,    \* users whose creation was rolled back
  noted      \* ids answered with "requires intervention", and ids whose creation
             \* died or lost the answer of a call

vars == <<users, accounts, reviewed, request, spent, undone, noted>>

Idle == [op |-> "idle", at |-> "idle", id |-> NoId, by |-> NoId,
         role |-> "EMPLOYEE", failed |-> FALSE]

Admins == {id \in DOMAIN users : users[id] = "ADMIN"}

\* JwtAuthGuard: a token, whose signature is checked and which outlives its account,
\* is mapped to a row.  Before the welcome email is sent nobody knows the password.
SignedIn(id) ==
  /\ id \in DOMAIN users
  /\ \A r \in Requests :
       request[r].op = "create" /\ request[r].id = id => request[r].at \notin {"insert", "email"}

----------------------------------------------------------------------------
(* Requests and locks.                                                     *)

Begin(r, op, at, id, by, role) ==
  /\ request[r].op = "idle"
  /\ request' = [request EXCEPT ![r] =
       [op |-> op, at |-> at, id |-> id, by |-> by, role |-> role, failed |-> FALSE]]

At(r, op, at) == request[r].op = op /\ request[r].at = at
Go(r, at) == request' = [request EXCEPT ![r].at = at]
End(r) == request' = [request EXCEPT ![r] = Idle]

\* pg_advisory_xact_lock, and the locks on a row, are kept to the end.
HoldsAdvisory(r) == request[r].op \in {"update", "remove"} /\ request[r].at # "lock"
HoldsRow(r, id) == request[r].id = id /\ request[r].op = "remove"
                     /\ request[r].at \in {"check", "account", "delete"}
SharesRow(r, id) == request[r].id = id /\ At(r, "review", "commit")

Unlocked(r, id) == \A q \in Requests \ {r} : ~HoldsRow(q, id)
Unshared(r, id) == \A q \in Requests \ {r} : ~SharesRow(q, id)

TablesKept == UNCHANGED <<users, accounts, reviewed>>
NotesKept == UNCHANGED <<spent, undone, noted>>

----------------------------------------------------------------------------
(* create: look for the email, open the account, insert the row, send the  *)
(* welcome email; a failure of the last two is cleaned up.                 *)

EmailTaken(ids, id) == \E other \in ids : EmailOf[other] = EmailOf[id]

Create(r, by, id, role) ==
  /\ SignedIn(by) /\ by \in Admins
  /\ id \notin spent
  /\ ~EmailTaken(DOMAIN users, id)
  /\ Begin(r, "create", "provision", id, NoId, role)
  /\ spent' = spent \cup {id}
  /\ TablesKept /\ UNCHANGED <<undone, noted>>

\* cognito.createUser: done; done, but the answer is lost; or refused.
Provision(r) ==
  LET id == request[r].id IN
  /\ At(r, "create", "provision")
  /\ \/ /\ ~EmailTaken(accounts, id)
        /\ accounts' = accounts \cup {id}
        /\ \/ Go(r, "insert") /\ UNCHANGED noted
           \/ End(r) /\ noted' = noted \cup {id}
     \/ End(r) /\ UNCHANGED <<accounts, noted>>
  /\ UNCHANGED <<users, reviewed, spent, undone>>

\* prisma.user.create: it fails on a duplicate email, and may fail anyway.
InsertRow(r) ==
  LET id == request[r].id IN
  /\ At(r, "create", "insert")
  /\ \/ /\ ~EmailTaken(DOMAIN users, id)
        /\ users' = [u \in DOMAIN users \cup {id} |->
                       IF u = id THEN request[r].role ELSE users[u]]
        /\ Go(r, "email")
     \/ Go(r, "unprovision") /\ UNCHANGED users
  /\ UNCHANGED <<accounts, reviewed>> /\ NotesKept

\* Mutant: a failed insert is tried again after its clean-up.
UnprovisionAndRetry(r) ==
  LET id == request[r].id IN
  /\ At(r, "create", "unprovision")
  /\ accounts' = accounts \ {id} /\ Go(r, "insert")
  /\ UNCHANGED <<users, reviewed, spent, undone, noted>>

\* The clean-up of a failed insert.
Unprovision(r) ==
  LET id == request[r].id IN
  /\ At(r, "create", "unprovision")
  /\ \/ accounts' = accounts \ {id} /\ UNCHANGED noted
     \/ accounts' \in {accounts, accounts \ {id}} /\ noted' = noted \cup {id}
  /\ End(r)
  /\ UNCHANGED <<users, reviewed, spent, undone>>

SendEmail(r) ==
  /\ At(r, "create", "email")
  /\ End(r) \/ Go(r, "undoAccount")
  /\ TablesKept /\ NotesKept

\* The clean-up of a failed email: the account, then the row, whatever the first
\* of the two answers.
UndoAccount(r) ==
  LET id == request[r].id IN
  /\ At(r, "create", "undoAccount")
  /\ \/ /\ id \in accounts
        /\ accounts' = accounts \ {id}
        /\ Go(r, "undoRow")
     \/ /\ accounts' \in {accounts, accounts \ {id}}
        /\ request' = [request EXCEPT ![r].at = "undoRow", ![r].failed = TRUE]
  /\ UNCHANGED <<users, reviewed>> /\ NotesKept

\* The delete waits for the row, and the foreign key of a review restricts it.
UndoRow(r) ==
  LET id == request[r].id
      deleted == id \in DOMAIN users /\ id \notin reviewed
  IN
  /\ At(r, "create", "undoRow")
  /\ Unlocked(r, id) /\ Unshared(r, id)
  /\ \/ /\ deleted
        /\ users' = [u \in DOMAIN users \ {id} |-> users[u]]
        /\ undone' = undone \cup {id}
        /\ noted' = IF request[r].failed THEN noted \cup {id} ELSE noted
     \/ noted' = noted \cup {id} /\ UNCHANGED <<users, undone>>
  /\ End(r)
  /\ UNCHANGED <<accounts, reviewed, spent>>

----------------------------------------------------------------------------
(* update and remove.                                                      *)

Update(r, by, id, role) ==
  /\ SignedIn(by) /\ by \in Admins
  /\ Begin(r, "update", "lock", id, NoId, role)
  /\ TablesKept /\ NotesKept

Remove(r, by, id) ==
  /\ SignedIn(by) /\ by \in Admins
  /\ Begin(r, "remove", "lock", id, by, "EMPLOYEE")
  /\ TablesKept /\ NotesKept

\* Mutant: the transaction starts without the advisory lock.
TakeNoLock(r) ==
  /\ request[r].op \in {"update", "remove"} /\ request[r].at = "lock"
  /\ Go(r, IF request[r].op = "update" THEN "check" ELSE "row")
  /\ TablesKept /\ NotesKept

TakeAdvisoryLock(r) ==
  /\ request[r].op \in {"update", "remove"} /\ request[r].at = "lock"
  /\ \A q \in Requests \ {r} : ~HoldsAdvisory(q)
  /\ Go(r, IF request[r].op = "update" THEN "check" ELSE "row")
  /\ TablesKept /\ NotesKept

OtherAdmins(id) == Admins \ {id}

\* update's checks; its write comes later and takes the row as it then is.
CheckUpdate(r) ==
  LET id == request[r].id IN
  /\ At(r, "update", "check")
  /\ IF /\ id \in DOMAIN users
        /\ users[id] = "ADMIN" /\ request[r].role # "ADMIN" => OtherAdmins(id) # {}
       THEN Go(r, "write") ELSE End(r)
  /\ TablesKept /\ NotesKept

WriteRole(r) ==
  LET id == request[r].id IN
  /\ At(r, "update", "write")
  /\ users' = IF id \in DOMAIN users
                THEN [users EXCEPT ![id] = request[r].role] ELSE users
  /\ End(r)
  /\ UNCHANGED <<accounts, reviewed>> /\ NotesKept

\* Mutant: the row is selected without FOR UPDATE.
ReadUser(r) ==
  /\ At(r, "remove", "row")
  /\ IF request[r].id \in DOMAIN users THEN Go(r, "check") ELSE End(r)
  /\ TablesKept /\ NotesKept

\* SELECT ... FOR UPDATE.
LockUser(r) ==
  LET id == request[r].id IN
  /\ At(r, "remove", "row")
  /\ Unshared(r, id)
  /\ IF id \in DOMAIN users THEN Go(r, "check") ELSE End(r)
  /\ TablesKept /\ NotesKept

CheckRemove(r) ==
  LET id == request[r].id IN
  /\ At(r, "remove", "check")
  /\ IF /\ id # request[r].by
        /\ users[id] = "ADMIN" => OtherAdmins(id) # {}
        /\ id \notin reviewed
       THEN Go(r, "account") ELSE End(r)
  /\ TablesKept /\ NotesKept

\* Mutant: a failure of Cognito is ignored.
RemoveAccountOrNot(r) ==
  /\ At(r, "remove", "account")
  /\ accounts' = accounts \ {request[r].id} \/ UNCHANGED accounts
  /\ Go(r, "delete")
  /\ UNCHANGED <<users, reviewed>> /\ NotesKept

\* cognito.deleteUser: done, or not there already; failed, perhaps after it was done.
RemoveAccount(r) ==
  LET id == request[r].id IN
  /\ At(r, "remove", "account")
  /\ \/ accounts' = accounts \ {id} /\ (Go(r, "delete") \/ End(r))
     \/ UNCHANGED accounts /\ End(r)
  /\ UNCHANGED <<users, reviewed>> /\ NotesKept

\* The row is deleted, or the delete fails and the transaction rolls back.
DeleteRow(r) ==
  LET id == request[r].id IN
  /\ At(r, "remove", "delete")
  /\ \/ users' = [u \in DOMAIN users \ {id} |-> users[u]]
     \/ UNCHANGED users
  /\ End(r)
  /\ UNCHANGED <<accounts, reviewed>> /\ NotesKept

----------------------------------------------------------------------------
(* A user approves or rejects a document: the claim of the review names    *)
(* the user and takes the share lock.                                      *)

Review(r, id) ==
  /\ SignedIn(id) /\ id \in Admins
  /\ Begin(r, "review", "claim", id, NoId, "EMPLOYEE")
  /\ TablesKept /\ NotesKept

ClaimReview(r) ==
  LET id == request[r].id IN
  /\ At(r, "review", "claim")
  /\ Unlocked(r, id)
  /\ IF id \in DOMAIN users THEN Go(r, "commit") ELSE End(r)
  /\ TablesKept /\ NotesKept

CommitReview(r) ==
  /\ At(r, "review", "commit")
  /\ reviewed' = reviewed \cup {request[r].id}
  /\ End(r)
  /\ UNCHANGED <<users, accounts>> /\ NotesKept

\* The process dies or the database transaction times out.
Die(r) ==
  /\ request[r].op # "idle"
  /\ noted' = IF request[r].op = "create" THEN noted \cup {request[r].id} ELSE noted
  /\ End(r)
  /\ TablesKept /\ UNCHANGED <<spent, undone>>

----------------------------------------------------------------------------
Init ==
  /\ users = [id \in {Founder} |-> "ADMIN"]
  /\ accounts = {Founder}
  /\ reviewed = {} /\ spent = {Founder}
  /\ undone = {} /\ noted = {}
  /\ request = [r \in Requests |-> Idle]

Arrive(r) ==
  \/ \E by, id \in Ids :
       \/ \E role \in Roles : Create(r, by, id, role) \/ Update(r, by, id, role)
       \/ Remove(r, by, id)
  \/ \E id \in Ids : Review(r, id)

Step(r) ==
  \/ Provision(r) \/ InsertRow(r) \/ Unprovision(r)
  \/ SendEmail(r) \/ UndoAccount(r) \/ UndoRow(r)
  \/ TakeAdvisoryLock(r) \/ CheckUpdate(r) \/ WriteRole(r)
  \/ LockUser(r) \/ CheckRemove(r) \/ RemoveAccount(r) \/ DeleteRow(r)
  \/ ClaimReview(r) \/ CommitReview(r)

Next == \E r \in Requests : Arrive(r) \/ Step(r) \/ Die(r)

Spec == Init /\ [][Next]_vars

\* Handlers go on when the system they wait for answers, and a lock is granted to
\* its waiters in turn.
FairSpec == Spec /\ \A r \in Requests : SF_vars(Step(r))

----------------------------------------------------------------------------
(* Properties.                                                             *)

\* "Never end up with zero admins", as update's and remove's documentation say.
AdminRemains == Admins # {}

\* What the advisory lock achieves, whatever admins demote and remove each other
\* at the same time: the last admin is lost only if some creation was rolled back.
AdminUnlessUndone == Admins = {} => undone # {}

\* An account nobody can be mapped to is left only by a creation that is still
\* running, that died or lost an answer, or that reported it - and never by remove,
\* which deletes the account before the row for that reason.
OrphansAreKnown ==
  \A id \in accounts \ DOMAIN users :
    \/ id \in noted
    \/ \E r \in Requests : request[r].op = "create" /\ request[r].id = id

\* remove takes an account away only while it is certain that no review names the
\* user: none is committed and none is on its way with the row's share lock.
ReviewersAreKept ==
  \A r \in Requests :
    request[r].op = "remove" /\ request[r].at \in {"account", "delete"} =>
      /\ request[r].id \notin reviewed
      /\ Unshared(r, request[r].id)

\* Every request is answered, although it may wait for a lock.
EveryRequestEnds == \A r \in Requests : request[r].op # "idle" ~> request[r].op = "idle"
=============================================================================
