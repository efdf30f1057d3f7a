---------------------------- MODULE UsersProofs ----------------------------
(***************************************************************************)
(* Theorems about Users, for any ids and any number of requests: what the  *)
(* advisory lock protects.                                                 *)
(***************************************************************************)
EXTENDS Users, TLAPS

Fields == {"op", "at", "id", "by", "role", "failed"}

Shape ==
  /\ DOMAIN request = Requests
  /\ \A r \in Requests : DOMAIN request[r] = Fields

LockExclusive ==
  \A r, q \in Requests : HoldsAdvisory(r) /\ HoldsAdvisory(q) => r = q

\* r is about to take the admin role away from its user.
Demotes(r) ==
  \/ At(r, "update", "write") /\ request[r].role # "ADMIN"
  \/ At(r, "remove", "account")
  \/ At(r, "remove", "delete")

\* Unless a creation has been rolled back, a request that is past its checks
\* leaves another admin.
AnotherLeft ==
  \A r \in Requests : Demotes(r) => undone # {} \/ OtherAdmins(request[r].id) # {}

IInv == Shape /\ LockExclusive /\ AdminUnlessUndone /\ AnotherLeft

\* Of the other requests and of the admins, a step of r changes nothing.
OthersKept(r) == \A q \in Requests \ {r} : request'[q] = request[q]

LEMMA GoMoves ==
  ASSUME Shape, NEW r \in Requests, NEW at, Go(r, at)
  PROVE  /\ Shape' /\ OthersKept(r)
         /\ request'[r].at = at
         /\ request'[r].op = request[r].op
         /\ request'[r].id = request[r].id
         /\ request'[r].role = request[r].role
         /\ request'[r].failed = request[r].failed
BY DEF Shape, Fields, OthersKept, Go

LEMMA EndMoves ==
  ASSUME Shape, NEW r \in Requests, End(r)
  PROVE  Shape' /\ OthersKept(r) /\ request'[r].op = "idle"
BY DEF Shape, Fields, OthersKept, End, Idle

LEMMA BeginMoves ==
  ASSUME Shape, NEW r \in Requests,
         NEW op, NEW at, NEW id, NEW by, NEW role, Begin(r, op, at, id, by, role)
  PROVE  /\ Shape' /\ OthersKept(r)
         /\ request'[r].op = op /\ request'[r].at = at /\ request'[r].id = id
BY DEF Shape, Fields, OthersKept, Begin

LEMMA HoldersAreLocked ==
  ASSUME NEW r \in Requests, Demotes(r)
  PROVE  HoldsAdvisory(r)
BY DEF Demotes, HoldsAdvisory, At

\* A step that loses no admin and brings no request nearer to demoting anyone.
LEMMA CalmStep ==
  ASSUME IInv, NEW r \in Requests, Shape', OthersKept(r),
         Admins \subseteq Admins', undone \subseteq undone',
         HoldsAdvisory(r)' => HoldsAdvisory(r),
         Demotes(r)' => Demotes(r) /\ request'[r].id = request[r].id
  PROVE  IInv'
<1>1. \A q \in Requests : HoldsAdvisory(q)' => HoldsAdvisory(q)
  BY DEF OthersKept, HoldsAdvisory
<1>2. LockExclusive'
  BY <1>1 DEF IInv, LockExclusive
<1>3. AdminUnlessUndone'
  BY DEF IInv, AdminUnlessUndone
<1>4. \A q \in Requests : Demotes(q)' => Demotes(q) /\ request'[q].id = request[q].id
  BY DEF OthersKept, Demotes, At
<1>5. \A id : OtherAdmins(id) \subseteq OtherAdmins(id)'
  BY DEF OtherAdmins
<1>6. AnotherLeft'
  BY <1>4, <1>5 DEF IInv, AnotherLeft
<1>7. QED
  BY <1>2, <1>3, <1>6 DEF IInv

\* A step that may lose an admin: r ends, and nobody else holds the lock.
LEMMA LastStep ==
  ASSUME IInv, NEW r \in Requests, Demotes(r), End(r), undone' = undone,
         OtherAdmins(request[r].id) \subseteq Admins'
  PROVE  IInv'
<1>1. Shape' /\ OthersKept(r) /\ request'[r].op = "idle"
  BY GoMoves, EndMoves DEF IInv
<1>2. \A q \in Requests : HoldsAdvisory(q)' => q # r /\ HoldsAdvisory(q)
  BY <1>1 DEF OthersKept, HoldsAdvisory
<1>3. \A q \in Requests : ~HoldsAdvisory(q)'
  BY <1>2, HoldersAreLocked DEF IInv, LockExclusive
<1>4. \A q \in Requests : ~Demotes(q)'
  BY <1>3 DEF Demotes, HoldsAdvisory, At
<1>5. AdminUnlessUndone'
  BY DEF IInv, AnotherLeft, AdminUnlessUndone
<1>6. QED
  BY <1>1, <1>3, <1>4, <1>5 DEF IInv, LockExclusive, AnotherLeft

LEMMA ArriveKeeps ==
  ASSUME IInv, NEW r \in Requests, Arrive(r)
  PROVE  IInv'
<1>1. /\ users' = users /\ undone' = undone
      /\ Shape' /\ OthersKept(r)
      /\ \/ request'[r].op \in {"create", "review"}
         \/ request'[r].op \in {"update", "remove"} /\ request'[r].at = "lock"
  BY BeginMoves DEF IInv, Arrive, Create, Update, Remove, Review, TablesKept, NotesKept
<1>2. ~HoldsAdvisory(r)' /\ ~Demotes(r)'
  BY <1>1 DEF HoldsAdvisory, Demotes, At
<1>3. Admins' = Admins
  BY <1>1 DEF Admins
<1>4. QED
  BY <1>1, <1>2, <1>3, CalmStep

LEMMA CreateKeeps ==
  ASSUME IInv, NEW r \in Requests,
         \/ Provision(r) \/ InsertRow(r) \/ Unprovision(r)
         \/ SendEmail(r) \/ UndoAccount(r)
  PROVE  IInv'
<1>1. Shape'
  <2>1. CASE UndoAccount(r)
    BY <2>1, GoMoves, EndMoves DEF IInv, Shape, Fields, UndoAccount
  <2>2. QED
    BY <2>1, GoMoves, EndMoves DEF IInv, Provision, InsertRow, Unprovision, SendEmail
<1>2. OthersKept(r)
  <2>1. CASE UndoAccount(r)
    BY <2>1, GoMoves, EndMoves DEF IInv, Shape, OthersKept, UndoAccount
  <2>2. QED
    BY <2>1, GoMoves, EndMoves DEF IInv, Provision, InsertRow, Unprovision, SendEmail
<1>3. request'[r].op \in {"create", "idle"}
  <2>1. CASE UndoAccount(r)
    BY <2>1, GoMoves, EndMoves DEF IInv, Shape, Fields, UndoAccount, At
  <2>2. QED
    BY <2>1, GoMoves, EndMoves DEF IInv, Provision, InsertRow, Unprovision, SendEmail, At
<1>4. ~HoldsAdvisory(r)' /\ ~Demotes(r)'
  BY <1>3 DEF HoldsAdvisory, Demotes, At
<1>5. undone' = undone
  BY DEF Provision, InsertRow, Unprovision, SendEmail, UndoAccount, NotesKept
<1>6. Admins \subseteq Admins'
  <2>1. CASE users' = users
    BY <2>1 DEF Admins
  <2>2. CASE InsertRow(r)
    <3>1. \/ users' = users
          \/ /\ ~EmailTaken(DOMAIN users, request[r].id)
             /\ users' = [u \in DOMAIN users \cup {request[r].id} |->
                            IF u = request[r].id THEN request[r].role ELSE users[u]]
      BY <2>2 DEF InsertRow
    <3>2. CASE ~EmailTaken(DOMAIN users, request[r].id)
      BY <3>1, <3>2 DEF Admins, EmailTaken
    <3>3. QED
      BY <2>1, <3>1, <3>2
  <2>3. QED
    BY <2>1, <2>2 DEF Provision, Unprovision, SendEmail, UndoAccount, TablesKept
<1>7. QED
  BY <1>1, <1>2, <1>4, <1>5, <1>6, CalmStep

LEMMA UndoRowKeeps ==
  ASSUME IInv, NEW r \in Requests, UndoRow(r)
  PROVE  IInv'
<1>1. Shape' /\ OthersKept(r) /\ request'[r].op = "idle"
  BY GoMoves, EndMoves DEF IInv, UndoRow
<1>2. ~HoldsAdvisory(r)' /\ ~Demotes(r)'
  BY <1>1 DEF HoldsAdvisory, Demotes, At
<1>3. CASE users' = users /\ undone' = undone
  BY <1>1, <1>2, <1>3, CalmStep DEF Admins
<1>4. CASE undone' # {}
  <2>1. LockExclusive'
    BY <1>1, <1>2 DEF IInv, LockExclusive, HoldsAdvisory, OthersKept
  <2>2. QED
    BY <1>1, <1>4, <2>1 DEF IInv, AdminUnlessUndone, AnotherLeft
<1>5. QED
  BY <1>3, <1>4 DEF UndoRow

LEMMA LockKeeps ==
  ASSUME IInv, NEW r \in Requests, TakeAdvisoryLock(r)
  PROVE  IInv'
<1>1. /\ Shape' /\ OthersKept(r)
      /\ request'[r].at \in {"check", "row"}
      /\ users' = users /\ undone' = undone
  BY GoMoves, EndMoves DEF IInv, TakeAdvisoryLock, TablesKept, NotesKept
<1>2. LockExclusive'
  BY <1>1 DEF TakeAdvisoryLock, IInv, LockExclusive, HoldsAdvisory, OthersKept
<1>3. ~Demotes(r)'
  BY <1>1 DEF Demotes, At
<1>4. \A q \in Requests : Demotes(q)' => Demotes(q) /\ request'[q].id = request[q].id
  BY <1>1, <1>3 DEF OthersKept, Demotes, At
<1>5. QED
  BY <1>1, <1>2, <1>4
  DEF IInv, AnotherLeft, AdminUnlessUndone, Admins, OtherAdmins

\* A check that lets r go on has found another admin.
LEMMA CheckKeeps ==
  ASSUME IInv, NEW r \in Requests, CheckUpdate(r) \/ CheckRemove(r)
  PROVE  IInv'
<1>1. /\ users' = users /\ undone' = undone /\ Admins' = Admins
      /\ \A id : OtherAdmins(id)' = OtherAdmins(id)
  BY DEF CheckUpdate, CheckRemove, TablesKept, NotesKept, Admins, OtherAdmins
<1>2. HoldsAdvisory(r)
  BY DEF CheckUpdate, CheckRemove, HoldsAdvisory, At
<1>3. /\ Shape' /\ OthersKept(r)
      /\ \/ request'[r].op = "idle"
         \/ request'[r].id = request[r].id /\ request'[r].role = request[r].role
  BY GoMoves, EndMoves DEF IInv, CheckUpdate, CheckRemove
<1>4. LockExclusive'
  BY <1>2, <1>3 DEF IInv, LockExclusive, HoldsAdvisory, OthersKept
<1>5. Demotes(r)' => undone # {} \/ OtherAdmins(request[r].id) # {}
  <2> SUFFICES ASSUME Demotes(r)' PROVE undone # {} \/ OtherAdmins(request[r].id) # {}
    OBVIOUS
  <2> DEFINE id == request[r].id
  <2>1. request'[r].op # "idle"
    BY DEF Demotes, At
  <2>2. CASE CheckUpdate(r)
    <3>1. Go(r, "write") /\ At(r, "update", "check")
      BY <2>1, <2>2, GoMoves, EndMoves DEF IInv, CheckUpdate
    <3>2. request[r].role # "ADMIN"
      BY <3>1, GoMoves, EndMoves DEF IInv, Demotes, At
    <3>3. users[id] = "ADMIN" => OtherAdmins(id) # {}
      BY <2>1, <2>2, <3>2, GoMoves, EndMoves DEF IInv, CheckUpdate
    <3>4. users[id] # "ADMIN" => OtherAdmins(id) = Admins
      BY DEF OtherAdmins, Admins
    <3>5. QED
      BY <3>3, <3>4 DEF IInv, AdminUnlessUndone
  <2>3. CASE CheckRemove(r)
    <3>1. users[id] = "ADMIN" => OtherAdmins(id) # {}
      BY <2>1, <2>3, GoMoves, EndMoves DEF IInv, CheckRemove
    <3>2. users[id] # "ADMIN" => OtherAdmins(id) = Admins
      BY DEF OtherAdmins, Admins
    <3>3. QED
      BY <3>1, <3>2 DEF IInv, AdminUnlessUndone
  <2>4. QED
    BY <2>2, <2>3
<1>6. AnotherLeft'
  BY <1>1, <1>3, <1>5 DEF IInv, AnotherLeft, OthersKept, Demotes, At
<1>7. QED
  BY <1>1, <1>3, <1>4, <1>6 DEF IInv, AdminUnlessUndone

LEMMA WriteKeeps ==
  ASSUME IInv, NEW r \in Requests, WriteRole(r) \/ DeleteRow(r)
  PROVE  IInv'
<1>1. /\ End(r) /\ undone' = undone
      /\ Shape' /\ OthersKept(r) /\ request'[r].op = "idle"
  BY GoMoves, EndMoves DEF IInv, WriteRole, DeleteRow, NotesKept
<1>2. OtherAdmins(request[r].id) \subseteq Admins'
  BY DEF WriteRole, DeleteRow, OtherAdmins, Admins
<1>3. CASE Demotes(r)
  BY <1>1, <1>2, <1>3, LastStep
<1>4. CASE ~Demotes(r)
  <2>1. WriteRole(r) /\ request[r].role = "ADMIN"
    BY <1>4 DEF Demotes, WriteRole, DeleteRow, At
  <2>2. Admins \subseteq Admins'
    BY <2>1 DEF WriteRole, Admins
  <2>3. ~HoldsAdvisory(r)' /\ ~Demotes(r)'
    BY <1>1 DEF HoldsAdvisory, Demotes, At
  <2>4. QED
    BY <1>1, <2>2, <2>3, CalmStep
<1>5. QED
  BY <1>3, <1>4

LEMMA RestKeeps ==
  ASSUME IInv, NEW r \in Requests,
         \/ LockUser(r) \/ RemoveAccount(r) \/ ClaimReview(r) \/ CommitReview(r)
         \/ Die(r)
  PROVE  IInv'
<1>1. users' = users /\ undone' = undone /\ Admins' = Admins
  BY DEF LockUser, RemoveAccount, ClaimReview, CommitReview, Die,
         TablesKept, NotesKept, Admins
<1>2. Shape' /\ OthersKept(r)
  BY GoMoves, EndMoves DEF IInv, LockUser, RemoveAccount, ClaimReview, CommitReview, Die
<1>3. \/ request'[r].op \in {"idle", "review"}
      \/ /\ request'[r].op = request[r].op /\ request'[r].id = request[r].id
         /\ HoldsAdvisory(r)
         /\ \/ request'[r].at = "check"
            \/ At(r, "remove", "account")
  BY GoMoves, EndMoves DEF IInv, LockUser, RemoveAccount, ClaimReview, CommitReview, Die,
     At, HoldsAdvisory
<1>4. /\ HoldsAdvisory(r)' => HoldsAdvisory(r)
      /\ Demotes(r)' => Demotes(r) /\ request'[r].id = request[r].id
  BY <1>3 DEF HoldsAdvisory, Demotes, At
<1>5. QED
  BY <1>1, <1>2, <1>4, CalmStep

LEMMA IInvInductive == IInv /\ [Next]_vars => IInv'
<1> SUFFICES ASSUME IInv, [Next]_vars PROVE IInv'
  OBVIOUS
<1>1. ASSUME NEW r \in Requests, Arrive(r) \/ Step(r) \/ Die(r) PROVE IInv'
  BY <1>1, ArriveKeeps, CreateKeeps, UndoRowKeeps, LockKeeps, CheckKeeps, WriteKeeps,
     RestKeeps DEF Step
<1>2. CASE UNCHANGED vars
  BY <1>2 DEF vars, IInv, Shape, LockExclusive, AdminUnlessUndone, AnotherLeft,
              HoldsAdvisory, Demotes, At, Admins, OtherAdmins
<1>3. QED
  BY <1>1, <1>2 DEF Next

\* Whatever admins demote and remove each other at the same time, there is an
\* admin left as long as no creation has been rolled back: update and remove count
\* the other admins and write under the same advisory lock.
THEOREM AdminsSurvive == Spec => []AdminUnlessUndone
<1>1. Init => IInv
  <2> SUFFICES ASSUME Init PROVE IInv
    OBVIOUS
  <2>1. \A r \in Requests : request[r] = Idle
    BY DEF Init
  <2>2. Shape
    BY DEF Init, Shape, Idle, Fields
  <2>3. Founder \in Admins
    BY DEF Init, Admins
  <2>4. QED
    BY <2>1, <2>2, <2>3 DEF IInv, LockExclusive, AnotherLeft, AdminUnlessUndone,
       HoldsAdvisory, Demotes, At, Idle
<1>2. IInv => AdminUnlessUndone
  BY DEF IInv
<1>3. QED
  BY <1>1, <1>2, IInvInductive, PTL DEF Spec

----------------------------------------------------------------------------
(* Reviews and remove: the two locks on the row of a user.                 *)

\* While remove has the row of a user, no review of that user is on its way; and
\* when its check is behind it, none is committed.
RowsLocked ==
  \A r \in Requests : HoldsRow(r, request[r].id) => Unshared(r, request[r].id)

CheckedAreUnnamed ==
  \A r \in Requests :
    At(r, "remove", "account") \/ At(r, "remove", "delete") => request[r].id \notin reviewed

RowInv == Shape /\ RowsLocked /\ CheckedAreUnnamed

\* A step of r that takes neither lock.
LEMMA RowsCalmStep ==
  ASSUME RowInv, NEW r \in Requests, Shape', OthersKept(r), reviewed' = reviewed,
         \A id : HoldsRow(r, id)' => HoldsRow(r, id),
         \A id : SharesRow(r, id)' => SharesRow(r, id),
         At(r, "remove", "account")' \/ At(r, "remove", "delete")' =>
           request'[r].id \notin reviewed
  PROVE  RowInv'
<1>1. \A q \in Requests : \A id :
        /\ HoldsRow(q, id)' => HoldsRow(q, id)
        /\ SharesRow(q, id)' => SharesRow(q, id)
  BY DEF OthersKept, HoldsRow, SharesRow, At
<1>2. \A q \in Requests : HoldsRow(q, request[q].id)' => HoldsRow(q, request'[q].id)
  BY <1>1
<1>3. RowsLocked'
  BY <1>1, <1>2 DEF RowInv, RowsLocked, Unshared, HoldsRow
<1>4. CheckedAreUnnamed'
  BY DEF RowInv, CheckedAreUnnamed, OthersKept, At
<1>5. QED
  BY <1>3, <1>4 DEF RowInv

LEMMA RowsKept ==
  ASSUME RowInv, NEW r \in Requests, Arrive(r) \/ Step(r) \/ Die(r)
  PROVE  RowInv'
<1>1. CASE Arrive(r)
  <2>1. /\ Shape' /\ OthersKept(r) /\ reviewed' = reviewed
        /\ request'[r].at \in {"provision", "lock", "claim"}
    BY <1>1, BeginMoves DEF RowInv, Arrive, Create, Update, Remove, Review, TablesKept
  <2>2. QED
    BY <2>1, RowsCalmStep DEF HoldsRow, SharesRow, At
<1>2. CASE End(r) /\ reviewed' = reviewed
  <2>1. Shape' /\ OthersKept(r) /\ request'[r].op = "idle"
    BY <1>2, EndMoves DEF RowInv
  <2>2. QED
    BY <1>2, <2>1, RowsCalmStep DEF HoldsRow, SharesRow, At
<1>3. CASE \/ Provision(r) \/ InsertRow(r) \/ Unprovision(r) \/ SendEmail(r)
           \/ UndoAccount(r) \/ UndoRow(r)
  <2>1. /\ Shape' /\ OthersKept(r) /\ reviewed' = reviewed
        /\ request'[r].op \in {"create", "idle"}
    <3>1. CASE UndoAccount(r)
      BY <3>1, GoMoves DEF RowInv, UndoAccount, At, Shape, Fields, OthersKept
    <3>2. QED
      BY <1>3, <3>1, GoMoves, EndMoves
      DEF RowInv, Provision, InsertRow, Unprovision, SendEmail, UndoRow, TablesKept, At
  <2>2. QED
    BY <2>1, RowsCalmStep DEF HoldsRow, SharesRow, At
<1>4. CASE \/ TakeAdvisoryLock(r) \/ CheckUpdate(r) \/ WriteRole(r)
           \/ CheckRemove(r) \/ RemoveAccount(r) \/ DeleteRow(r)
  <2>1. CASE \E at : Go(r, at)
    <3>1. /\ Shape' /\ OthersKept(r) /\ reviewed' = reviewed
          /\ request'[r].op = request[r].op /\ request'[r].id = request[r].id
      BY <1>4, <2>1, GoMoves DEF RowInv, TakeAdvisoryLock, CheckUpdate, WriteRole,
         CheckRemove, RemoveAccount, DeleteRow, TablesKept
    <3>2. CASE TakeAdvisoryLock(r) \/ CheckUpdate(r)
      <4>1. \/ request'[r].at \in {"check", "row", "write"} /\ request[r].op \in {"update", "remove"}
            \/ request'[r].op = "idle"
        BY <3>2, GoMoves, EndMoves DEF RowInv, TakeAdvisoryLock, CheckUpdate, At
      <4>2. request'[r].op = "remove" => request'[r].at = "row"
        BY <3>1, <3>2, GoMoves, EndMoves DEF RowInv, TakeAdvisoryLock, CheckUpdate, At
      <4>3. QED
        BY <3>1, <4>1, <4>2, RowsCalmStep DEF HoldsRow, SharesRow, At
    <3>3. CASE CheckRemove(r) \/ RemoveAccount(r)
      <4>1. /\ request[r].op = "remove" /\ request[r].at \in {"check", "account"}
            /\ request'[r].op = "idle" \/ request[r].id \notin reviewed
        BY <3>3, GoMoves, EndMoves
        DEF RowInv, CheckedAreUnnamed, CheckRemove, RemoveAccount, At
      <4>2. QED
        BY <3>1, <4>1, RowsCalmStep DEF HoldsRow, SharesRow, At
    <3>4. CASE WriteRole(r) \/ DeleteRow(r)
      BY <1>2, <3>4 DEF WriteRole, DeleteRow
    <3>5. QED
      BY <1>4, <3>2, <3>3, <3>4
  <2>2. QED
    BY <1>2, <1>4, <2>1 DEF TakeAdvisoryLock, CheckUpdate, WriteRole, CheckRemove,
       RemoveAccount, DeleteRow, TablesKept
<1>5. CASE LockUser(r) /\ ~End(r)
  <2>1. /\ Shape' /\ OthersKept(r) /\ reviewed' = reviewed
        /\ request'[r].op = "remove" /\ request'[r].at = "check"
        /\ request'[r].id = request[r].id /\ Unshared(r, request[r].id)
    BY <1>5, GoMoves DEF RowInv, LockUser, At, TablesKept
  <2>2. \A q \in Requests : \A id : SharesRow(q, id)' => SharesRow(q, id)
    BY <2>1 DEF OthersKept, SharesRow, At
  <2>3. RowsLocked'
    BY <2>1, <2>2 DEF RowInv, RowsLocked, OthersKept, HoldsRow, Unshared
  <2>4. QED
    BY <2>1, <2>3 DEF RowInv, CheckedAreUnnamed, OthersKept, At
<1>6. CASE ClaimReview(r) /\ ~End(r)
  <2>1. /\ Shape' /\ OthersKept(r) /\ reviewed' = reviewed
        /\ request'[r].op = "review" /\ request'[r].at = "commit"
        /\ request'[r].id = request[r].id /\ Unlocked(r, request[r].id)
    BY <1>6, GoMoves DEF RowInv, ClaimReview, At, TablesKept
  <2>2. \A q \in Requests : \A id : HoldsRow(q, id)' => q # r /\ HoldsRow(q, id)
    BY <2>1 DEF OthersKept, HoldsRow
  <2>3. \A q \in Requests : HoldsRow(q, request[q].id)' => request'[q].id # request[r].id
    BY <2>1, <2>2 DEF Unlocked, HoldsRow
  <2>4. RowsLocked'
    BY <2>1, <2>2, <2>3 DEF RowInv, RowsLocked, OthersKept, SharesRow, HoldsRow, Unshared, At
  <2>5. QED
    BY <2>1, <2>4 DEF RowInv, CheckedAreUnnamed, OthersKept, At
<1>7. CASE CommitReview(r)
  <2>1. /\ Shape' /\ OthersKept(r) /\ request'[r].op = "idle"
        /\ reviewed' = reviewed \cup {request[r].id}
        /\ SharesRow(r, request[r].id)
    BY <1>7, EndMoves DEF RowInv, CommitReview, SharesRow
  <2>2. \A q \in Requests : HoldsRow(q, request[q].id)' =>
          /\ q # r /\ HoldsRow(q, request[q].id)
          /\ request'[q].id = request[q].id
          /\ request[q].id # request[r].id
    BY <2>1 DEF RowInv, RowsLocked, OthersKept, HoldsRow, Unshared
  <2>3. \A q \in Requests : \A id : SharesRow(q, id)' => SharesRow(q, id)
    BY <2>1 DEF OthersKept, SharesRow, At
  <2>4. RowsLocked'
    BY <2>2, <2>3 DEF RowInv, RowsLocked, Unshared
  <2>5. CheckedAreUnnamed'
    BY <2>1, <2>2 DEF RowInv, CheckedAreUnnamed, OthersKept, HoldsRow, At
  <2>6. QED
    BY <2>1, <2>4, <2>5 DEF RowInv
<1>8. CASE Die(r)
  BY <1>2, <1>8 DEF Die, TablesKept
<1>9. LockUser(r) \/ ClaimReview(r) => reviewed' = reviewed
  BY DEF LockUser, ClaimReview, TablesKept
<1>10. QED
  BY <1>1, <1>2, <1>3, <1>4, <1>5, <1>6, <1>7, <1>8, <1>9 DEF Step

\* However requests interleave, remove takes the account of a user away only when no
\* review names the user and none is about to: its check cannot be overtaken, since
\* the row lock it holds makes the claim of a review wait, and the other way round.
THEOREM ReviewersStay == Spec => []ReviewersAreKept
<1>1. Init => RowInv
  <2> SUFFICES ASSUME Init PROVE RowInv
    OBVIOUS
  <2>1. \A r \in Requests : request[r] = Idle
    BY DEF Init
  <2>2. QED
    BY <2>1 DEF Init, RowInv, Shape, Fields, RowsLocked, CheckedAreUnnamed, HoldsRow, At, Idle
<1>2. RowInv /\ [Next]_vars => RowInv'
  <2>1. ASSUME RowInv, UNCHANGED vars PROVE RowInv'
    BY <2>1 DEF vars, RowInv, Shape, RowsLocked, CheckedAreUnnamed, HoldsRow, Unshared,
       SharesRow, At
  <2>2. QED
    BY <2>1, RowsKept DEF Next
<1>3. RowInv => ReviewersAreKept
  BY DEF RowInv, RowsLocked, CheckedAreUnnamed, ReviewersAreKept, HoldsRow, At
<1>4. QED
  BY <1>1, <1>2, <1>3, PTL DEF Spec

----------------------------------------------------------------------------
(* Accounts and rows: which step leaves an account without a row.          *)

\* A creation has an id of its own, that neither an account nor a row has before.
CreationsAreNew ==
  /\ accounts \subseteq spent /\ DOMAIN users \subseteq spent
  /\ \A r \in Requests : request[r].op = "create" => request[r].id \in spent
  /\ \A r \in Requests : HoldsRow(r, request[r].id) => request[r].id \in spent
  /\ \A r, q \in Requests :
       request[r].op = "create" /\ request[q].op = "create" /\ request[r].id = request[q].id
         => r = q

ProvisionsAreNew ==
  \A r \in Requests : At(r, "create", "provision") =>
    /\ request[r].id \notin accounts /\ request[r].id \notin DOMAIN users
    /\ \A q \in Requests : ~HoldsRow(q, request[r].id)

\* The row goes after the account has gone, in remove and in the clean-up of create.
RowsGoLast ==
  /\ \A r \in Requests : At(r, "remove", "delete") => request[r].id \notin accounts
  /\ \A r \in Requests :
       At(r, "create", "undoRow") /\ ~request[r].failed => request[r].id \notin accounts

\* While its email is sent, an account has its row, unless an admin removes both.
EmailsHaveRows ==
  \A r \in Requests :
    At(r, "create", "email") /\ request[r].id \in accounts => request[r].id \in DOMAIN users

AccountInv ==
  Shape /\ CreationsAreNew /\ ProvisionsAreNew /\ RowsGoLast /\ EmailsHaveRows /\ OrphansAreKnown

\* A step that moves one request on, or ends it, and leaves rows and accounts alone.
LEMMA AccountsCalmStep ==
  ASSUME AccountInv, NEW r \in Requests, Shape', OthersKept(r),
         DOMAIN users' = DOMAIN users, accounts' = accounts, spent' = spent,
         noted \subseteq noted',
         request'[r].op = "create" =>
           request[r].op = "create" /\ request'[r].id = request[r].id,
         request[r].op = "create" =>
           \/ request'[r].op = "create"
           \/ request[r].id \in noted' \/ request[r].id \notin accounts
           \/ request[r].id \in DOMAIN users,
         ~At(r, "create", "provision")',
         HoldsRow(r, request[r].id)' =>
           \/ request'[r].id = request[r].id /\ request[r].id \in DOMAIN users
           \/ HoldsRow(r, request'[r].id),
         At(r, "remove", "delete")' => request'[r].id \notin accounts,
         At(r, "create", "undoRow")' /\ ~request'[r].failed => request'[r].id \notin accounts,
         At(r, "create", "email")' /\ request'[r].id \in accounts =>
           request'[r].id \in DOMAIN users
  PROVE  AccountInv'
<1>1. \A q \in Requests \ {r} : request'[q] = request[q]
  BY DEF OthersKept
<1>2. CreationsAreNew'
  BY <1>1 DEF AccountInv, CreationsAreNew, HoldsRow
<1>3. ProvisionsAreNew'
  <2> SUFFICES ASSUME NEW q \in Requests, At(q, "create", "provision")'
               PROVE  /\ request'[q].id \notin accounts /\ request'[q].id \notin DOMAIN users
                      /\ \A p \in Requests : ~HoldsRow(p, request[q].id)'
    BY DEF ProvisionsAreNew
  <2>1. q # r /\ request'[q] = request[q] /\ At(q, "create", "provision")
    BY <1>1 DEF At
  <2>2. \A p \in Requests : HoldsRow(p, request[q].id)' => p = r
    BY <1>1, <2>1 DEF AccountInv, ProvisionsAreNew, HoldsRow
  <2>3. ~HoldsRow(r, request[q].id)'
    BY <2>1 DEF AccountInv, ProvisionsAreNew, HoldsRow
  <2>4. QED
    BY <2>1, <2>2, <2>3 DEF AccountInv, ProvisionsAreNew
<1>4. RowsGoLast' /\ EmailsHaveRows'
  BY <1>1 DEF AccountInv, RowsGoLast, EmailsHaveRows, At
<1>5. OrphansAreKnown'
  BY <1>1 DEF AccountInv, OrphansAreKnown
<1>6. QED
  BY <1>2, <1>3, <1>4, <1>5 DEF AccountInv

LEMMA CreateArrives ==
  ASSUME AccountInv, NEW r \in Requests, NEW by, NEW id, NEW role, Create(r, by, id, role)
  PROVE  AccountInv'
<1>1. /\ Shape' /\ OthersKept(r)
      /\ request'[r].op = "create" /\ request'[r].at = "provision" /\ request'[r].id = id
      /\ request[r].op = "idle" /\ id \notin spent /\ spent' = spent \cup {id}
      /\ users' = users /\ accounts' = accounts /\ noted' = noted
  BY BeginMoves, ZenonT(40) DEF AccountInv, Create, Begin, TablesKept
<1>2. \A q \in Requests \ {r} : request'[q] = request[q]
  BY <1>1 DEF OthersKept
<1>3. CreationsAreNew'
  BY <1>1, <1>2 DEF AccountInv, CreationsAreNew, HoldsRow
<1>4. \A q \in Requests : HoldsRow(q, request[q].id)' => q # r /\ request'[q].id \in spent
  BY <1>1, <1>2 DEF AccountInv, CreationsAreNew, HoldsRow
<1>5. ProvisionsAreNew'
  <2> SUFFICES ASSUME NEW q \in Requests, At(q, "create", "provision")'
               PROVE  /\ request'[q].id \notin accounts /\ request'[q].id \notin DOMAIN users
                      /\ \A p \in Requests : ~HoldsRow(p, request[q].id)'
    BY <1>1 DEF ProvisionsAreNew
  <2>1. CASE q = r
    BY <1>1, <1>4, <2>1 DEF AccountInv, CreationsAreNew, HoldsRow
  <2>2. CASE q # r
    BY <1>1, <1>2, <2>2 DEF AccountInv, ProvisionsAreNew, HoldsRow, At
  <2>3. QED
    BY <2>1, <2>2
<1>6. RowsGoLast' /\ EmailsHaveRows'
  BY <1>1, <1>2 DEF AccountInv, RowsGoLast, EmailsHaveRows, At
<1>7. OrphansAreKnown'
  BY <1>1, <1>2 DEF AccountInv, OrphansAreKnown
<1>8. QED
  BY <1>1, <1>3, <1>5, <1>6, <1>7 DEF AccountInv

\* Requests that begin or end, and steps that only take locks and look.
LEMMA AccountsQuiet ==
  ASSUME AccountInv, NEW r \in Requests,
         \/ \E by, id \in Ids : Remove(r, by, id) \/ \E role \in Roles : Update(r, by, id, role)
         \/ \E id \in Ids : Review(r, id)
         \/ TakeAdvisoryLock(r) \/ CheckUpdate(r) \/ WriteRole(r) \/ LockUser(r)
         \/ CheckRemove(r) \/ ClaimReview(r) \/ CommitReview(r) \/ SendEmail(r) \/ Die(r)
  PROVE  AccountInv'
<1>1. /\ DOMAIN users' = DOMAIN users /\ accounts' = accounts /\ spent' = spent
      /\ noted \subseteq noted'
  BY DEF Remove, Update, Review, TakeAdvisoryLock, CheckUpdate, WriteRole, LockUser,
     CheckRemove, ClaimReview, CommitReview, SendEmail, Die, TablesKept, NotesKept
<1>2. CASE \/ \E by, id \in Ids : Remove(r, by, id) \/ \E role \in Roles : Update(r, by, id, role)
           \/ \E id \in Ids : Review(r, id)
  <2>1. /\ Shape' /\ OthersKept(r) /\ request[r].op = "idle"
        /\ request'[r].op # "create" /\ request'[r].at \in {"lock", "claim"}
    BY <1>2, BeginMoves DEF AccountInv, Remove, Update, Review, Begin
  <2>2. QED
    BY <1>1, <2>1, AccountsCalmStep DEF HoldsRow, At
<1>3. CASE End(r)
  <2>1. Shape' /\ OthersKept(r) /\ request'[r].op = "idle"
    BY <1>3, EndMoves DEF AccountInv
  <2>2. request[r].op = "create" =>
          \/ request[r].id \in noted' \/ request[r].id \notin accounts
          \/ request[r].id \in DOMAIN users
    <3>1. SendEmail(r) \/ Die(r) \/ request[r].op # "create"
      BY <1>2, <2>1, BeginMoves DEF Remove, Update, Review, Begin, TakeAdvisoryLock, CheckUpdate,
         WriteRole, LockUser, CheckRemove, ClaimReview, CommitReview, At
    <3>2. QED
      BY <3>1 DEF SendEmail, Die, At, AccountInv, EmailsHaveRows
  <2>3. QED
    BY <1>1, <2>1, <2>2, AccountsCalmStep DEF HoldsRow, At
<1>4. CASE \E at : Go(r, at)
  <2>1. /\ Shape' /\ OthersKept(r)
        /\ request'[r].op = request[r].op /\ request'[r].id = request[r].id
    BY <1>4, GoMoves DEF AccountInv
  <2>2. CASE TakeAdvisoryLock(r) \/ CheckUpdate(r) \/ ClaimReview(r) \/ SendEmail(r)
    <3>1. \/ End(r)
          \/ request'[r].at \in {"check", "write"} /\ request[r].op = "update"
          \/ request'[r].at = "row" /\ request[r].op = "remove"
          \/ request'[r].at = "commit" /\ request[r].op = "review"
          \/ request'[r].at = "undoAccount" /\ request[r].op = "create"
      BY <2>2, GoMoves DEF AccountInv, TakeAdvisoryLock, CheckUpdate, ClaimReview, SendEmail, At
    <3>2. QED
      BY <1>1, <1>3, <2>1, <3>1, AccountsCalmStep DEF HoldsRow, At
  <2>3. CASE LockUser(r) \/ CheckRemove(r)
    <3>1. \/ End(r)
          \/ /\ request[r].op = "remove" /\ request'[r].at = "check"
             /\ request[r].id \in DOMAIN users
          \/ /\ request[r].op = "remove" /\ request'[r].at = "account"
             /\ HoldsRow(r, request[r].id)
      BY <2>3, GoMoves DEF AccountInv, LockUser, CheckRemove, HoldsRow, At
    <3>2. QED
      BY <1>1, <1>3, <2>1, <3>1, AccountsCalmStep DEF HoldsRow, At
  <2>4. QED
    BY <1>2, <1>3, <2>2, <2>3 DEF WriteRole, CommitReview, Die
<1>5. QED
  BY <1>2, <1>3, <1>4 DEF TakeAdvisoryLock, CheckUpdate, WriteRole, LockUser,
     CheckRemove, ClaimReview, CommitReview, SendEmail, Die

\* The steps that add or take away an account or a row, each about the id of r only.
LEMMA AccountsOwnStep ==
  ASSUME AccountInv, NEW r \in Requests, Shape', OthersKept(r),
         spent' = spent, noted \subseteq noted',
         NEW id, id = request[r].id, id \in spent,
         accounts' \ {id} = accounts \ {id},
         DOMAIN users' \ {id} = DOMAIN users \ {id},
         \A q \in Requests \ {r} : ~(request[q].op = "create" /\ request[q].id = id),
         id \in accounts' => id \in accounts \/ At(r, "create", "provision"),
         request'[r].op = "create" => request[r].op = "create",
         request'[r].op # "idle" => request'[r].id = id,
         ~At(r, "create", "provision")',
         HoldsRow(r, id)' => HoldsRow(r, id),
         At(r, "remove", "delete")' => id \notin accounts',
         At(r, "create", "undoRow")' /\ ~request'[r].failed => id \notin accounts',
         At(r, "create", "email")' /\ id \in accounts' => id \in DOMAIN users',
         id \in accounts' /\ id \notin DOMAIN users' => id \in noted' \/ request'[r].op = "create"
  PROVE  AccountInv'
<1>1. /\ \A q \in Requests \ {r} : request'[q] = request[q]
      /\ request'[r].op # "idle" => request'[r].id = id
  BY DEF OthersKept
<1>2. CreationsAreNew'
  <2>1. accounts' \subseteq spent /\ DOMAIN users' \subseteq spent
    BY DEF AccountInv, CreationsAreNew
  <2>2. \A q \in Requests : request'[q].op = "create" => request[q].op = "create" /\ request'[q].id = request[q].id
    BY <1>1
  <2>3. \A q \in Requests : HoldsRow(q, request[q].id)' => request'[q].id \in spent
    BY <1>1 DEF AccountInv, CreationsAreNew, HoldsRow
  <2>4. QED
    BY <2>1, <2>2, <2>3 DEF AccountInv, CreationsAreNew
<1>3. ProvisionsAreNew'
  <2> SUFFICES ASSUME NEW q \in Requests, At(q, "create", "provision")'
               PROVE  /\ request'[q].id \notin accounts' /\ request'[q].id \notin DOMAIN users'
                      /\ \A p \in Requests : ~HoldsRow(p, request[q].id)'
    BY DEF ProvisionsAreNew
  <2>1. /\ q # r /\ request'[q] = request[q] /\ At(q, "create", "provision")
        /\ request[q].id # id
    BY <1>1 DEF At
  <2>2. \A p \in Requests : ~HoldsRow(p, request[q].id)'
    BY <1>1, <2>1 DEF AccountInv, ProvisionsAreNew, HoldsRow
  <2>3. QED
    BY <2>1, <2>2 DEF AccountInv, ProvisionsAreNew
<1>4. \A q \in Requests \ {r} : request[q].id # id \/ request[q].op # "create"
  OBVIOUS
<1>5. RowsGoLast'
  <2>1. ASSUME NEW q \in Requests, At(q, "remove", "delete")'
        PROVE  request'[q].id \notin accounts'
    <3>1. CASE q = r
      BY <1>1, <2>1, <3>1 DEF At
    <3>2. CASE q # r
      <4>1. At(q, "remove", "delete") /\ request'[q].id = request[q].id
        BY <1>1, <2>1, <3>2 DEF At
      <4>2. request[q].id \notin accounts /\ HoldsRow(q, request[q].id)
        BY <4>1 DEF AccountInv, RowsGoLast, HoldsRow, At
      <4>3. request[q].id \in accounts' => At(r, "create", "provision") /\ request[q].id = id
        BY <4>2
      <4>4. QED
        BY <4>1, <4>2, <4>3 DEF AccountInv, ProvisionsAreNew
    <3>3. QED
      BY <3>1, <3>2
  <2>2. ASSUME NEW q \in Requests, At(q, "create", "undoRow")', ~request'[q].failed
        PROVE  request'[q].id \notin accounts'
    BY <1>1, <2>2 DEF AccountInv, RowsGoLast, At
  <2>3. QED
    BY <2>1, <2>2 DEF RowsGoLast
<1>6. EmailsHaveRows'
  <2> SUFFICES ASSUME NEW q \in Requests, At(q, "create", "email")', request'[q].id \in accounts'
               PROVE  request'[q].id \in DOMAIN users'
    BY DEF EmailsHaveRows
  <2>1. CASE q = r
    BY <1>1, <2>1 DEF At
  <2>2. CASE q # r
    BY <1>1, <2>2 DEF AccountInv, EmailsHaveRows, At
  <2>3. QED
    BY <2>1, <2>2
<1>7. OrphansAreKnown'
  <2> SUFFICES ASSUME NEW u \in accounts', u \notin DOMAIN users', u \notin noted'
               PROVE  \E q \in Requests : request'[q].op = "create" /\ request'[q].id = u
    BY DEF OrphansAreKnown
  <2>1. CASE u = id
    BY <1>1, <2>1
  <2>2. CASE u # id
    <3>1. PICK q \in Requests : request[q].op = "create" /\ request[q].id = u
      BY <2>2 DEF AccountInv, OrphansAreKnown
    <3>2. q # r
      BY <2>2, <3>1
    <3>3. QED
      BY <1>1, <3>1, <3>2
  <2>3. QED
    BY <2>1, <2>2
<1>8. QED
  BY <1>2, <1>3, <1>5, <1>6, <1>7 DEF AccountInv

LEMMA AccountsOfCreate ==
  ASSUME AccountInv, NEW r \in Requests,
         Provision(r) \/ InsertRow(r) \/ Unprovision(r) \/ UndoAccount(r) \/ UndoRow(r)
  PROVE  AccountInv'
<1> DEFINE id == request[r].id
<1>1. /\ request[r].op = "create" /\ id \in spent
      /\ \A q \in Requests \ {r} : ~(request[q].op = "create" /\ request[q].id = id)
  BY DEF AccountInv, CreationsAreNew, Provision, InsertRow, Unprovision, UndoAccount, UndoRow, At
<1>2. spent' = spent /\ noted \subseteq noted'
  BY DEF Provision, InsertRow, Unprovision, UndoAccount, UndoRow, NotesKept
<1>3. accounts' \ {id} = accounts \ {id} /\ DOMAIN users' \ {id} = DOMAIN users \ {id}
  BY DEF Provision, InsertRow, Unprovision, UndoAccount, UndoRow
<1>4. id \in accounts' => id \in accounts \/ At(r, "create", "provision")
  BY DEF Provision, InsertRow, Unprovision, UndoAccount, UndoRow
<1>5. CASE End(r)
  <2>1. Shape' /\ OthersKept(r) /\ request'[r].op = "idle"
    BY <1>5, EndMoves DEF AccountInv
  <2>2. id \in accounts' /\ id \notin DOMAIN users' => id \in noted'
    <3>1. CASE Provision(r)
      <4>1. Go(r, "insert") => FALSE
        BY <1>1, <2>1, GoMoves DEF AccountInv
      <4>2. QED
        BY <3>1, <4>1 DEF Provision, AccountInv, ProvisionsAreNew
    <3>2. CASE InsertRow(r)
      BY <1>1, <2>1, <3>2, GoMoves DEF InsertRow, AccountInv
    <3>3. CASE Unprovision(r)
      BY <3>3 DEF Unprovision
    <3>4. CASE UndoAccount(r)
      <4>1. request'[r].op = request[r].op
        BY <3>4, GoMoves DEF UndoAccount, AccountInv, Shape, Fields
      <4>2. QED
        BY <1>1, <2>1, <4>1
    <3>5. CASE UndoRow(r)
      BY <3>5 DEF UndoRow, AccountInv, RowsGoLast
    <3>6. QED
      BY <3>1, <3>2, <3>3, <3>4, <3>5
  <2>3. ~At(r, "create", "provision")' /\ \A u : ~HoldsRow(r, u)'
    BY <2>1 DEF At, HoldsRow
  <2>4. QED
    BY <1>1, <1>2, <1>3, <1>4, <2>1, <2>2, <2>3, AccountsOwnStep DEF At
<1>6. CASE Provision(r) /\ Go(r, "insert")
  <2>1. /\ Shape' /\ OthersKept(r)
        /\ request'[r].op = "create" /\ request'[r].at = "insert" /\ request'[r].id = id
    BY <1>1, <1>6, GoMoves DEF AccountInv
  <2>2. QED
    BY <1>1, <1>2, <1>3, <1>4, <2>1, AccountsOwnStep DEF At, HoldsRow
<1>7. CASE InsertRow(r)
  <2>1. /\ Shape' /\ OthersKept(r)
        /\ request'[r].op = "create" /\ request'[r].id = id
        /\ \/ request'[r].at = "email" /\ id \in DOMAIN users'
           \/ request'[r].at = "unprovision"
    BY <1>1, <1>7, GoMoves DEF AccountInv, InsertRow
  <2>2. QED
    BY <1>1, <1>2, <1>3, <1>4, <2>1, AccountsOwnStep DEF At, HoldsRow
<1>8. CASE UndoAccount(r)
  <2>1. /\ Shape' /\ OthersKept(r)
        /\ request'[r].op = "create" /\ request'[r].id = id /\ request'[r].at = "undoRow"
        /\ ~request'[r].failed => id \notin accounts'
    <3>1. CASE Go(r, "undoRow") /\ accounts' = accounts \ {id}
      BY <1>1, <3>1, GoMoves DEF AccountInv
    <3>2. CASE request' = [request EXCEPT ![r].at = "undoRow", ![r].failed = TRUE]
      BY <1>1, <3>2 DEF AccountInv, Shape, Fields, OthersKept
    <3>3. QED
      BY <1>8, <3>1, <3>2 DEF UndoAccount
  <2>2. QED
    BY <1>1, <1>2, <1>3, <1>4, <2>1, AccountsOwnStep DEF At, HoldsRow
<1>9. QED
  BY <1>5, <1>6, <1>7, <1>8 DEF Provision, Unprovision, UndoRow

LEMMA AccountsOfRemove ==
  ASSUME AccountInv, NEW r \in Requests, RemoveAccount(r) \/ DeleteRow(r)
  PROVE  AccountInv'
<1>1. PICK id : id = request[r].id
  OBVIOUS
<1>2. /\ HoldsRow(r, id) /\ request[r].op = "remove" /\ id \in spent
      /\ spent' = spent /\ noted' = noted
      /\ \A q \in Requests : ~(At(q, "create", "provision") /\ request[q].id = id)
  BY <1>1 DEF RemoveAccount, DeleteRow, At, HoldsRow, NotesKept, AccountInv, CreationsAreNew,
     ProvisionsAreNew
<1>3. CASE End(r) /\ UNCHANGED <<users, accounts>>
  <2>1. Shape' /\ OthersKept(r) /\ request'[r].op = "idle"
    BY <1>3, EndMoves DEF AccountInv
  <2>2. QED
    BY <1>2, <1>3, <2>1, AccountsCalmStep DEF At, HoldsRow
<1>4. CASE id \notin accounts'
  <2>1. /\ Shape' /\ OthersKept(r)
        /\ \/ request'[r].op = "idle"
           \/ request'[r].op = "remove" /\ request'[r].id = id
    BY <1>1, <1>2, GoMoves, EndMoves DEF AccountInv, RemoveAccount, DeleteRow
  <2>2. \A q \in Requests \ {r} : request'[q] = request[q]
    BY <2>1 DEF OthersKept
  <2>3. /\ accounts' = accounts \ {id}
        /\ DOMAIN users' \subseteq DOMAIN users
        /\ DOMAIN users' \ {id} = DOMAIN users \ {id}
    BY <1>1, <1>4 DEF RemoveAccount, DeleteRow
  <2>4. CreationsAreNew'
    BY <1>2, <2>1, <2>2, <2>3 DEF AccountInv, CreationsAreNew, HoldsRow
  <2>5. ProvisionsAreNew'
    <3> SUFFICES ASSUME NEW q \in Requests, At(q, "create", "provision")'
                 PROVE  /\ request'[q].id \notin accounts' /\ request'[q].id \notin DOMAIN users'
                        /\ \A p \in Requests : ~HoldsRow(p, request[q].id)'
      BY DEF ProvisionsAreNew
    <3>1. /\ q # r /\ request'[q] = request[q] /\ At(q, "create", "provision")
          /\ request[q].id # id
      BY <1>2, <2>1, <2>2 DEF At
    <3>2. QED
      BY <2>1, <2>2, <2>3, <3>1 DEF AccountInv, ProvisionsAreNew, HoldsRow
  <2>6. RowsGoLast'
    BY <1>4, <2>1, <2>2, <2>3 DEF AccountInv, RowsGoLast, At
  <2>7. EmailsHaveRows'
    BY <1>4, <2>1, <2>2, <2>3 DEF AccountInv, EmailsHaveRows, At
  <2>8. OrphansAreKnown'
    <3> SUFFICES ASSUME NEW u \in accounts', u \notin DOMAIN users', u \notin noted'
                 PROVE  \E q \in Requests : request'[q].op = "create" /\ request'[q].id = u
      BY DEF OrphansAreKnown
    <3>1. u \in accounts \ DOMAIN users
      BY <2>3
    <3>2. PICK q \in Requests : request[q].op = "create" /\ request[q].id = u
      BY <1>2, <3>1 DEF AccountInv, OrphansAreKnown
    <3>3. QED
      BY <1>2, <2>2, <3>2
  <2>9. QED
    BY <2>1, <2>4, <2>5, <2>6, <2>7, <2>8 DEF AccountInv
<1>5. QED
  <2>1. CASE RemoveAccount(r)
    BY <1>1, <1>3, <1>4, <2>1 DEF RemoveAccount
  <2>2. CASE DeleteRow(r)
    BY <1>1, <1>4, <2>2 DEF DeleteRow, AccountInv, RowsGoLast
  <2>3. QED
    BY <2>1, <2>2

\* An account that nobody can be mapped to is left only by a creation that is running,
\* that died or lost an answer, or that reported it, for any number of admins who
\* create and remove users at the same time; remove never leaves one.
THEOREM AccountsAreKnown == Spec => []OrphansAreKnown
<1>1. Init => AccountInv
  <2> SUFFICES ASSUME Init PROVE AccountInv
    OBVIOUS
  <2>1. \A r \in Requests : request[r] = Idle
    BY DEF Init
  <2>2. QED
    BY <2>1 DEF Init, AccountInv, Shape, Fields, CreationsAreNew, ProvisionsAreNew, RowsGoLast,
       EmailsHaveRows, OrphansAreKnown, HoldsRow, At, Idle
<1>2. AccountInv /\ [Next]_vars => AccountInv'
  <2>1. ASSUME AccountInv, UNCHANGED vars PROVE AccountInv'
    BY <2>1 DEF vars, AccountInv, Shape, CreationsAreNew, ProvisionsAreNew, RowsGoLast,
       EmailsHaveRows, OrphansAreKnown, HoldsRow, At
  <2>2. ASSUME AccountInv, NEW r \in Requests, Arrive(r) PROVE AccountInv'
    BY <2>2, CreateArrives, AccountsQuiet DEF Arrive
  <2>3. ASSUME AccountInv, NEW r \in Requests, Step(r) \/ Die(r) PROVE AccountInv'
    BY <2>3, AccountsQuiet, AccountsOfCreate, AccountsOfRemove DEF Step
  <2>4. QED
    BY <2>1, <2>2, <2>3 DEF Next
<1>3. AccountInv => OrphansAreKnown
  BY DEF AccountInv
<1>4. QED
  BY <1>1, <1>2, <1>3, PTL DEF Spec
=============================================================================
