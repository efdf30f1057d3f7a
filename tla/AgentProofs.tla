----------------------------- MODULE AgentProofs -----------------------------
(* Why one conversation has one turn at a time, and why what a client of the   *)
(* backend holds belongs together, whatever answer comes in late: the session  *)
(* and the user of a browser tab, the document and the form of the review      *)
(* page, the token and the two attempts of an agent's tool, the questions and  *)
(* the answers of the chat, the alerts of the Control Tower page and what the  *)
(* agent says of them.                                                         *)
EXTENDS AgentSession, SignIn, ReviewPage, ServiceToken, AgentChat, ControlTowerPage,
        SumTheorems, FiniteSetTheorems, SequenceTheorems, TLAPS

----------------------------------------------------------------------------
(* The turns of a conversation.  Its lock lives in an object that the registry *)
(* may drop: a state that is in use is never dropped because its counter is    *)
(* the number of its users, so whoever comes meanwhile gets the same object,   *)
(* and with it the same lock.                                                  *)

\* Two sessions never share an object.
OneObjectPerSession ==
  \A s, t \in DOMAIN registry : registry[s] = registry[t] => s = t

\* Whoever has its turn holds the lock of its state.
TurnHoldsLock ==
  \A i \in Invocations : HasTurn(i) => lockHolder[invocation[i].state] = i

\* Who uses what.
UseInv == OneObjectPerSession /\ InUseStaysCached /\ CountsItsInvocations

\* Who holds which lock.
LockInv == TurnHoldsLock /\ LockIsHeldByATurn

IInv == TypeOK /\ UseInv /\ LockInv

----------------------------------------------------------------------------
\* The users of a state are finitely many.
LEMMA UsersFinite == \A o : IsFiniteSet(Uses(o))
BY FS_Subset, AgentSessionAssumption DEF Uses

\* A state in the registry whose counter is zero has no user.
LEMMA InactiveIsUnused ==
  ASSUME CountsItsInvocations, NEW s \in DOMAIN registry,
         activeInvocations[registry[s]] = 0
  PROVE  Uses(registry[s]) = {}
BY UsersFinite, FS_EmptySet DEF CountsItsInvocations

\* What the clean-up keeps, and what an eviction leaves, has every session in use.
LEMMA InUseIsNotDropped ==
  ASSUME TypeOK, UseInv, NEW i \in Invocations, InFlight(i)
  PROVE  invocation[i].session \in Kept \ Evictable
<1> DEFINE s == invocation[i].session
<1>1. s \in DOMAIN registry /\ i \in Uses(registry[s])
  BY DEF UseInv, InUseStaysCached, Uses
<1>2. activeInvocations[registry[s]] # 0
  BY <1>1, InactiveIsUnused DEF UseInv
<1> QED BY <1>1, <1>2 DEF Kept, Evictable, Expired

\* A step of an invocation that only goes on to its next stage changes no use.
LEMMA GoingOnKeepsUse ==
  ASSUME TypeOK, UseInv, NEW i \in Invocations, NEW at, at # "idle",
         InFlight(i), Go(i, at), UNCHANGED <<registry, activeInvocations>>
  PROVE  UseInv'
<1>1. \A j \in Invocations :
        /\ InFlight(j)' <=> InFlight(j)
        /\ invocation'[j].session = invocation[j].session
        /\ invocation'[j].state = invocation[j].state
  BY DEF TypeOK, Go, InFlight
<1>2. \A o : Uses(o)' = Uses(o)
  BY <1>1 DEF Uses
<1>3. OneObjectPerSession'
  BY DEF UseInv, OneObjectPerSession
<1>4. InUseStaysCached'
  BY <1>1 DEF UseInv, InUseStaysCached
<1>5. CountsItsInvocations'
  BY <1>2 DEF UseInv, CountsItsInvocations
<1> QED BY <1>3, <1>4, <1>5 DEF UseInv

\* And it keeps the types.
LEMMA GoingOnKeepsTypes ==
  ASSUME TypeOK, NEW i \in Invocations,
         NEW at \in {"build", "gate", "stream", "unlock", "leave"},
         InFlight(i), Go(i, at), UNCHANGED <<registry, activeInvocations, lastAccess, now>>,
         supervisor' \in [States -> BOOLEAN],
         lockHolder' \in [States -> Invocations \cup {Nobody}]
  PROVE  TypeOK'
<1>1. invocation' \in [Invocations ->
        [at : {"idle", "lock", "build", "gate", "stream", "unlock", "leave"},
         session : Sessions \cup {NoSession}, state : States \cup {NoState}]]
  BY DEF TypeOK, Go
<1>2. \A j \in Invocations : InFlight(j)' =>
        invocation'[j].session \in Sessions /\ invocation'[j].state \in States
  BY DEF TypeOK, Go, InFlight
<1> QED BY <1>1, <1>2 DEF TypeOK

----------------------------------------------------------------------------
(* Stages of a turn.                                                       *)

\* Taking the lock of one's state, which nobody has.
LEMMA TakeLockKeeps ==
  ASSUME IInv, NEW i \in Invocations, TakeLock(i)
  PROVE  IInv'
<1> DEFINE o == invocation[i].state
<1> USE DEF IInv
<1>1. InFlight(i) /\ o \in States /\ ~HasTurn(i)
  BY DEF TakeLock, At, InFlight, TypeOK, HasTurn
<1>2. TypeOK' /\ UseInv'
  BY <1>1, GoingOnKeepsTypes, GoingOnKeepsUse DEF TakeLock, TypeOK
<1>3. /\ lockHolder[o] = Nobody
      /\ lockHolder' = [lockHolder EXCEPT ![o] = i]
      /\ invocation' = [invocation EXCEPT ![i].at = "build"]
      /\ registry' = registry
  BY DEF TakeLock, Go
<1>4. \A j \in Invocations \ {i} : HasTurn(j) => invocation[j].state # o
  BY <1>3, AgentSessionAssumption DEF LockInv, TurnHoldsLock
<1>5. /\ HasTurn(i)' /\ invocation'[i].state = o
      /\ \A j \in Invocations \ {i} : invocation'[j] = invocation[j]
  BY <1>3 DEF TypeOK, HasTurn
<1>6. TurnHoldsLock'
  BY <1>1, <1>3, <1>4, <1>5 DEF LockInv, TurnHoldsLock, TypeOK, HasTurn, InFlight
<1>7. LockIsHeldByATurn'
  BY <1>1, <1>3, <1>5 DEF LockInv, LockIsHeldByATurn, TypeOK, HasTurn, InFlight
<1> QED BY <1>2, <1>6, <1>7 DEF LockInv

\* The stages in between keep the lock.
LEMMA TurnGoesOn ==
  ASSUME IInv, NEW i \in Invocations, NEW at \in {"gate", "stream", "unlock"},
         HasTurn(i), Go(i, at), supervisor' \in [States -> BOOLEAN],
         UNCHANGED <<registry, activeInvocations, lastAccess, lockHolder, now>>
  PROVE  IInv'
<1> USE DEF IInv
<1>1. InFlight(i)
  BY DEF HasTurn, InFlight
<1>2. TypeOK' /\ UseInv'
  BY <1>1, GoingOnKeepsTypes, GoingOnKeepsUse DEF TypeOK
<1>3. \A j \in Invocations :
        (HasTurn(j)' <=> HasTurn(j)) /\ invocation'[j].state = invocation[j].state
  BY DEF Go, TypeOK, HasTurn
<1>4. TurnHoldsLock'
  BY <1>3 DEF LockInv, TurnHoldsLock
<1>5. LockIsHeldByATurn'
  <2>1. \A s \in DOMAIN registry : registry[s] \in States
    BY DEF TypeOK
  <2>2. \A s \in DOMAIN registry : lockHolder[registry[s]] \in Invocations \cup {Nobody}
    BY <2>1 DEF TypeOK
  <2> QED BY <1>3, <2>2 DEF LockInv, LockIsHeldByATurn
<1> QED BY <1>2, <1>4, <1>5 DEF LockInv

\* Giving the lock back at the end of the turn.
LEMMA UnlockKeeps ==
  ASSUME IInv, NEW i \in Invocations, Unlock(i)
  PROVE  IInv'
<1> DEFINE o == invocation[i].state
<1> USE DEF IInv
<1>1. InFlight(i) /\ HasTurn(i) /\ o \in States
  BY DEF Unlock, At, InFlight, TypeOK, HasTurn
<1>2. TypeOK' /\ UseInv'
  BY <1>1, GoingOnKeepsTypes, GoingOnKeepsUse DEF Unlock, TypeOK
<1>3. /\ lockHolder' = [lockHolder EXCEPT ![o] = Nobody]
      /\ invocation' = [invocation EXCEPT ![i].at = "leave"]
      /\ registry' = registry
  BY DEF Unlock, Go
<1>4. lockHolder[o] = i
  BY <1>1 DEF LockInv, TurnHoldsLock
<1>5. /\ ~HasTurn(i)'
      /\ \A j \in Invocations \ {i} : invocation'[j] = invocation[j]
  BY <1>3 DEF TypeOK, HasTurn
<1>6. \A j \in Invocations \ {i} : HasTurn(j) => invocation[j].state # o
  BY <1>4 DEF LockInv, TurnHoldsLock
<1>7. TurnHoldsLock'
  BY <1>1, <1>3, <1>5, <1>6 DEF LockInv, TurnHoldsLock, TypeOK, HasTurn, InFlight
<1>8. LockIsHeldByATurn'
  <2> SUFFICES ASSUME NEW s \in DOMAIN registry, NEW holder,
                      holder = lockHolder'[registry[s]], holder # Nobody
               PROVE  HasTurn(holder)' /\ invocation'[holder].state = registry[s]
    BY <1>3 DEF LockIsHeldByATurn, HasTurn
  <2>1. registry[s] \in States
    BY DEF TypeOK
  <2>2. registry[s] # o /\ holder = lockHolder[registry[s]]
    BY <1>1, <1>3, <2>1 DEF TypeOK
  <2>3. HasTurn(holder) /\ invocation[holder].state = registry[s]
    BY <2>2 DEF LockInv, LockIsHeldByATurn
  <2>4. holder \in Invocations \ {i}
    BY <2>1, <2>2, <2>3 DEF TypeOK
  <2> QED BY <1>5, <2>2, <2>3, <2>4 DEF HasTurn
<1> QED BY <1>2, <1>7, <1>8 DEF LockInv

----------------------------------------------------------------------------
(* The two ends of an invocation.                                          *)

\* What entering with state o of session s does, whether o is found or new: every
\* session that stays keeps its object, nobody who is in flight loses his, o has one
\* user more, and the lock of o is as it was, or free if o is new.
Entered(i, s, o) ==
  /\ Enter(i, s, o)
  /\ registry' \in [DOMAIN registry' -> States]
  /\ DOMAIN registry' \subseteq Sessions
  /\ s \in DOMAIN registry' /\ registry'[s] = o
  /\ \A t \in DOMAIN registry' \ {s} :
       t \in DOMAIN registry /\ registry'[t] = registry[t] /\ registry[t] # o
  /\ \A j \in Invocations : InFlight(j) =>
       /\ invocation[j].session \in DOMAIN registry'
       /\ registry'[invocation[j].session] = invocation[j].state
  /\ activeInvocations' \in [States -> Nat]
  /\ \A p \in States \ {o} : activeInvocations'[p] = activeInvocations[p]
  /\ activeInvocations'[o] = Cardinality(Uses(o)) + 1
  /\ supervisor' \in [States -> BOOLEAN]
  /\ lockHolder' \in [States -> Invocations \cup {Nobody}]
  /\ \A p \in States : lockHolder'[p] = lockHolder[p] \/ (p = o /\ Uses(o) = {})
  /\ \/ lockHolder'[o] = Nobody
     \/ s \in DOMAIN registry /\ registry[s] = o /\ lockHolder'[o] = lockHolder[o]

\* Entering keeps the invariant.
LEMMA EnterKeeps ==
  ASSUME IInv, NEW i \in Invocations, NEW s \in Sessions, NEW o \in States,
         Entered(i, s, o)
  PROVE  IInv'
<1> USE DEF IInv
<1>1. /\ invocation' = [invocation EXCEPT ![i] = [at |-> "lock", session |-> s, state |-> o]]
      /\ ~InFlight(i) /\ ~HasTurn(i)
  BY DEF Entered, Enter, InFlight, HasTurn
<1>2. /\ invocation'[i] = [at |-> "lock", session |-> s, state |-> o]
      /\ \A j \in Invocations \ {i} : invocation'[j] = invocation[j]
  BY <1>1 DEF TypeOK
<1>3. TypeOK'
  <2>1. invocation' \in [Invocations ->
          [at : {"idle", "lock", "build", "gate", "stream", "unlock", "leave"},
           session : Sessions \cup {NoSession}, state : States \cup {NoState}]]
    BY <1>1 DEF TypeOK
  <2>2. \A j \in Invocations : InFlight(j)' =>
          invocation'[j].session \in Sessions /\ invocation'[j].state \in States
    BY <1>2 DEF TypeOK, InFlight
  <2>3. lastAccess' \in [States -> 0 .. now'] /\ now' = now
    BY DEF Entered, Enter, TypeOK
  <2> QED BY <2>1, <2>2, <2>3 DEF Entered, TypeOK
<1>4. OneObjectPerSession'
  BY DEF Entered, UseInv, OneObjectPerSession
<1>5. InUseStaysCached'
  BY <1>2 DEF Entered, InUseStaysCached, InFlight
<1>6. /\ Uses(o)' = Uses(o) \cup {i} /\ i \notin Uses(o)
      /\ \A p \in States \ {o} : Uses(p)' = Uses(p)
  BY <1>1, <1>2 DEF Uses, InFlight
<1>7. CountsItsInvocations'
  <2>1. Cardinality(Uses(o) \cup {i}) = Cardinality(Uses(o)) + 1
    <3>1. IsFiniteSet(Uses(o))
      BY UsersFinite
    <3> QED BY <1>6, <3>1, FS_AddElement
  <2>2. SUFFICES ASSUME NEW t \in DOMAIN registry', NEW p, p = registry'[t]
                 PROVE  activeInvocations'[p] = Cardinality(Uses(p)')
    BY DEF CountsItsInvocations
  <2>3. CASE t = s
    BY <1>6, <2>1, <2>2, <2>3 DEF Entered
  <2>4. CASE t # s
    <3>1. t \in DOMAIN registry /\ p = registry[t] /\ p \in States \ {o}
      BY <2>2, <2>4 DEF Entered
    <3>2. activeInvocations'[p] = activeInvocations[p] /\ Uses(p)' = Uses(p)
      BY <1>6, <3>1 DEF Entered
    <3> QED BY <3>1, <3>2 DEF UseInv, CountsItsInvocations
  <2> QED BY <2>3, <2>4
<1>8. TurnHoldsLock'
  <2> SUFFICES ASSUME NEW j \in Invocations, HasTurn(j)'
               PROVE  lockHolder'[invocation'[j].state] = j
    BY DEF TurnHoldsLock
  <2>1. j # i /\ invocation'[j] = invocation[j] /\ HasTurn(j) /\ InFlight(j)
    BY <1>2 DEF HasTurn, InFlight
  <2>2. invocation[j].state \in States /\ j \in Uses(invocation[j].state)
    BY <2>1 DEF TypeOK, Uses
  <2>3. lockHolder'[invocation[j].state] = lockHolder[invocation[j].state]
    BY <2>2 DEF Entered
  <2> QED BY <2>1, <2>3 DEF LockInv, TurnHoldsLock
<1>9. LockIsHeldByATurn'
  <2> SUFFICES ASSUME NEW t \in DOMAIN registry', NEW holder,
                      holder = lockHolder'[registry'[t]], holder # Nobody
               PROVE  HasTurn(holder)' /\ invocation'[holder].state = registry'[t]
    BY DEF LockIsHeldByATurn, HasTurn
  <2>1. t \in DOMAIN registry /\ registry[t] = registry'[t] /\ holder = lockHolder[registry[t]]
    BY DEF Entered, TypeOK
  <2>2. HasTurn(holder) /\ invocation[holder].state = registry[t]
    BY <2>1 DEF LockInv, LockIsHeldByATurn
  <2>3. holder \in Invocations \ {i}
    BY <1>1, <2>1, <2>2 DEF TypeOK
  <2> QED BY <1>2, <2>1, <2>2, <2>3 DEF HasTurn
<1> QED BY <1>3, <1>4, <1>5, <1>7, <1>8, <1>9 DEF UseInv, LockInv

\* Coming back to a session that is cached: it is the object its users have.
LEMMA ResumeKeeps ==
  ASSUME IInv, NEW i \in Invocations, NEW s \in Sessions, Resume(i, s)
  PROVE  IInv'
<1> USE DEF IInv
<1>0. PICK o \in States : o = registry[s]
  BY DEF Resume, Kept, TypeOK
<1>1. /\ s \in Kept /\ s \in DOMAIN registry
      /\ registry' = [t \in Kept |-> registry[t]]
      /\ activeInvocations' = [activeInvocations EXCEPT ![o] = @ + 1]
      /\ UNCHANGED <<supervisor, lockHolder>>
      /\ Enter(i, s, o)
  BY <1>0 DEF Resume, Kept
<1>2. /\ Kept \subseteq DOMAIN registry /\ DOMAIN registry' = Kept
      /\ registry' \in [DOMAIN registry' -> States]
      /\ DOMAIN registry' \subseteq Sessions
  BY <1>1 DEF Kept, TypeOK
<1>3. \A t \in Kept \ {s} : registry[t] # o
  BY <1>0, <1>1, <1>2 DEF UseInv, OneObjectPerSession
<1>4. \A j \in Invocations : InFlight(j) =>
        invocation[j].session \in Kept /\ registry[invocation[j].session] = invocation[j].state
  BY InUseIsNotDropped DEF UseInv, InUseStaysCached
<1>5. \A t \in Kept : registry'[t] = registry[t]
  BY <1>1
<1>6. /\ activeInvocations' \in [States -> Nat]
      /\ \A p \in States \ {o} : activeInvocations'[p] = activeInvocations[p]
      /\ activeInvocations'[o] = Cardinality(Uses(o)) + 1
  BY <1>0, <1>1 DEF TypeOK, UseInv, CountsItsInvocations
<1>7. /\ supervisor' \in [States -> BOOLEAN]
      /\ lockHolder' \in [States -> Invocations \cup {Nobody}]
      /\ \A p \in States : lockHolder'[p] = lockHolder[p]
  BY <1>1 DEF TypeOK
<1>8. Entered(i, s, o)
  <2>1. /\ Enter(i, s, o)
        /\ s \in DOMAIN registry' /\ registry'[s] = o
    BY <1>0, <1>1, <1>2, <1>5
  <2>2. \A t \in DOMAIN registry' \ {s} :
          t \in DOMAIN registry /\ registry'[t] = registry[t] /\ registry[t] # o
    BY <1>2, <1>3, <1>5
  <2>3. \A j \in Invocations : InFlight(j) =>
          /\ invocation[j].session \in DOMAIN registry'
          /\ registry'[invocation[j].session] = invocation[j].state
    BY <1>2, <1>4, <1>5
  <2>4. s \in DOMAIN registry /\ registry[s] = o /\ lockHolder'[o] = lockHolder[o]
    BY <1>0, <1>1, <1>7
  <2> QED BY <1>2, <1>6, <1>7, <2>1, <2>2, <2>3, <2>4 DEF Entered
<1> QED BY <1>8, EnterKeeps

\* A session that is not cached has no user, so its new object is its only one.
LEMMA StartKeeps ==
  ASSUME IInv, NEW i \in Invocations, NEW s \in Sessions, NEW o \in States, Start(i, s, o)
  PROVE  IInv'
<1> USE DEF IInv
<1>1. PICK evicted \in SUBSET Kept :
        /\ MakesRoom(evicted)
        /\ registry' = [t \in (Kept \ evicted) \cup {s} |-> IF t = s THEN o ELSE registry[t]]
  BY DEF Start
<1>2. /\ s \notin Kept /\ Fresh(o) /\ Enter(i, s, o)
      /\ activeInvocations' = [activeInvocations EXCEPT ![o] = 1]
      /\ supervisor' = [supervisor EXCEPT ![o] = FALSE]
      /\ lockHolder' = [lockHolder EXCEPT ![o] = Nobody]
  BY DEF Start
<1>3. /\ Kept \subseteq DOMAIN registry /\ evicted \subseteq Evictable
      /\ DOMAIN registry' = (Kept \ evicted) \cup {s}
      /\ registry' \in [DOMAIN registry' -> States]
      /\ DOMAIN registry' \subseteq Sessions
      /\ registry'[s] = o
  BY <1>1 DEF Kept, TypeOK, MakesRoom
<1>4. \A t \in DOMAIN registry' \ {s} :
        t \in DOMAIN registry /\ registry'[t] = registry[t] /\ registry[t] # o
  BY <1>1, <1>2, <1>3 DEF Fresh
<1>5. \A j \in Invocations : InFlight(j) =>
        invocation[j].session \in DOMAIN registry'
          /\ registry'[invocation[j].session] = invocation[j].state
  BY <1>1, <1>2, <1>3, InUseIsNotDropped DEF UseInv, InUseStaysCached
<1>6. Uses(o) = {} /\ Cardinality(Uses(o)) = 0
  BY <1>2, FS_EmptySet DEF Fresh
<1>7. /\ activeInvocations' \in [States -> Nat]
      /\ \A p \in States \ {o} : activeInvocations'[p] = activeInvocations[p]
      /\ activeInvocations'[o] = Cardinality(Uses(o)) + 1
  BY <1>2, <1>6 DEF TypeOK
<1>8. /\ supervisor' \in [States -> BOOLEAN]
      /\ lockHolder' \in [States -> Invocations \cup {Nobody}]
      /\ \A p \in States : lockHolder'[p] = lockHolder[p] \/ (p = o /\ Uses(o) = {})
      /\ lockHolder'[o] = Nobody
  BY <1>2, <1>6 DEF TypeOK
<1>9. Entered(i, s, o)
  BY <1>2, <1>3, <1>4, <1>5, <1>7, <1>8 DEF Entered
<1> QED BY <1>9, EnterKeeps

\* The end of an invocation takes one user away.
LEMMA LeaveKeeps ==
  ASSUME IInv, NEW i \in Invocations, Leave(i)
  PROVE  IInv'
<1> USE DEF IInv
<1>0. PICK o \in States, s \in Sessions :
        o = invocation[i].state /\ s = invocation[i].session
  BY DEF Leave, At, InFlight, TypeOK
<1>1. /\ InFlight(i) /\ ~HasTurn(i) /\ i \in Uses(o)
      /\ s \in DOMAIN registry /\ registry[s] = o
  BY <1>0 DEF Leave, At, InFlight, HasTurn, TypeOK, UseInv, InUseStaysCached, Uses
<1>2. /\ activeInvocations' = [activeInvocations EXCEPT ![o] = IF @ > 0 THEN @ - 1 ELSE 0]
      /\ lastAccess' = [lastAccess EXCEPT ![o] = now]
      /\ invocation' = [invocation EXCEPT ![i] = Idle]
      /\ UNCHANGED <<registry, supervisor, lockHolder, now>>
  BY <1>0 DEF Leave
<1>3. /\ invocation'[i] = Idle /\ ~InFlight(i)' /\ ~HasTurn(i)'
      /\ \A j \in Invocations \ {i} : invocation'[j] = invocation[j]
  BY <1>2 DEF TypeOK, InFlight, HasTurn, Idle
<1>4. TypeOK'
  <2>1. invocation' \in [Invocations ->
          [at : {"idle", "lock", "build", "gate", "stream", "unlock", "leave"},
           session : Sessions \cup {NoSession}, state : States \cup {NoState}]]
    BY <1>2 DEF TypeOK, Idle
  <2>2. \A j \in Invocations : InFlight(j)' =>
          invocation'[j].session \in Sessions /\ invocation'[j].state \in States
    BY <1>3 DEF TypeOK, InFlight
  <2>3. activeInvocations' \in [States -> Nat]
    BY <1>2 DEF TypeOK
  <2>4. lastAccess' \in [States -> 0 .. now']
    BY <1>2 DEF TypeOK
  <2> QED BY <1>2, <2>1, <2>2, <2>3, <2>4 DEF TypeOK
<1>5. OneObjectPerSession'
  BY <1>2 DEF UseInv, OneObjectPerSession
<1>6. InUseStaysCached'
  BY <1>2, <1>3 DEF UseInv, InUseStaysCached, InFlight
<1>7. /\ Uses(o)' = Uses(o) \ {i}
      /\ \A p \in States \ {o} : Uses(p)' = Uses(p)
  BY <1>0, <1>1, <1>3 DEF Uses, InFlight
<1>8. CountsItsInvocations'
  <2>1. /\ Cardinality(Uses(o) \ {i}) = Cardinality(Uses(o)) - 1
        /\ Cardinality(Uses(o)) # 0
    <3>1. IsFiniteSet(Uses(o))
      BY UsersFinite
    <3> QED BY <1>1, <3>1, FS_RemoveElement, FS_EmptySet
  <2>2. activeInvocations[o] = Cardinality(Uses(o)) /\ activeInvocations[o] \in Nat
    BY <1>1 DEF TypeOK, UseInv, CountsItsInvocations
  <2>3. SUFFICES ASSUME NEW t \in DOMAIN registry, NEW p \in States, p = registry[t]
                 PROVE  activeInvocations'[p] = Cardinality(Uses(p)')
    BY <1>2 DEF CountsItsInvocations, TypeOK
  <2>4. CASE p = o
    <3>1. activeInvocations'[o] = Cardinality(Uses(o)) - 1
      BY <1>2, <2>1, <2>2 DEF TypeOK
    <3> QED BY <1>7, <2>1, <2>4, <3>1
  <2>5. CASE p # o
    BY <1>2, <1>7, <2>3, <2>5 DEF TypeOK, UseInv, CountsItsInvocations
  <2> QED BY <2>4, <2>5
<1>9. TurnHoldsLock'
  BY <1>2, <1>3 DEF LockInv, TurnHoldsLock, HasTurn
<1>10. LockIsHeldByATurn'
  <2> SUFFICES ASSUME NEW t \in DOMAIN registry, NEW holder,
                      holder = lockHolder[registry[t]], holder # Nobody
               PROVE  HasTurn(holder)' /\ invocation'[holder].state = registry[t]
    BY <1>2 DEF LockIsHeldByATurn, HasTurn
  <2>1. HasTurn(holder) /\ invocation[holder].state = registry[t]
    BY DEF LockInv, LockIsHeldByATurn
  <2>2. holder \in Invocations \ {i}
    BY <1>1, <2>1 DEF TypeOK
  <2> QED BY <1>3, <2>1, <2>2 DEF HasTurn
<1> QED BY <1>4, <1>5, <1>6, <1>8, <1>9, <1>10 DEF UseInv, LockInv

----------------------------------------------------------------------------
(* The whole machine.                                                      *)

\* Nothing is cached and nobody is served.
LEMMA Initially == Init => IInv
<1> SUFFICES ASSUME Init PROVE IInv
  OBVIOUS
<1>1. \A i \in Invocations : ~InFlight(i) /\ ~HasTurn(i)
  BY DEF Init, Idle, InFlight, HasTurn
<1>2. DOMAIN registry = {}
  BY DEF Init
<1>3. registry \in [DOMAIN registry -> States]
  BY <1>2 DEF Init
<1>4. invocation \in [Invocations ->
        [at : {"idle", "lock", "build", "gate", "stream", "unlock", "leave"},
         session : Sessions \cup {NoSession}, state : States \cup {NoState}]]
  BY DEF Init, Idle
<1>5. now \in 0 .. MaxTime
  BY AgentSessionAssumption DEF Init
<1>6. TypeOK
  BY <1>1, <1>2, <1>3, <1>4, <1>5 DEF Init, TypeOK
<1> QED BY <1>1, <1>2, <1>6 DEF IInv, UseInv, LockInv, OneObjectPerSession,
     InUseStaysCached, CountsItsInvocations, TurnHoldsLock, LockIsHeldByATurn

\* After a restart nothing is cached and nobody is served.
LEMMA RestartKeeps ==
  ASSUME IInv, Restart
  PROVE  IInv'
<1>1. \A i \in Invocations : ~InFlight(i)' /\ ~HasTurn(i)'
  BY DEF Restart, Idle, InFlight, HasTurn
<1>2. DOMAIN registry' = {}
  BY DEF Restart
<1>3. registry' \in [DOMAIN registry' -> States]
  BY <1>2 DEF Restart
<1>4. invocation' \in [Invocations ->
        [at : {"idle", "lock", "build", "gate", "stream", "unlock", "leave"},
         session : Sessions \cup {NoSession}, state : States \cup {NoState}]]
  BY DEF Restart, Idle
<1>5. TypeOK'
  BY <1>1, <1>2, <1>3, <1>4 DEF Restart, IInv, TypeOK, stateVars
<1> QED BY <1>1, <1>2, <1>5 DEF IInv, UseInv, LockInv, OneObjectPerSession,
     InUseStaysCached, CountsItsInvocations, TurnHoldsLock, LockIsHeldByATurn

\* The clock and stuttering steps concern nobody.
LEMMA WaitingKeeps ==
  ASSUME IInv, UNCHANGED <<registry, stateVars, invocation>>,
         Tick \/ now' = now
  PROVE  IInv'
<1>1. now' \in 0 .. MaxTime /\ now <= now'
  BY AgentSessionAssumption DEF Tick, IInv, TypeOK
<1>2. lastAccess' \in [States -> 0 .. now']
  BY <1>1 DEF stateVars, IInv, TypeOK
<1>3. TypeOK'
  BY <1>1, <1>2 DEF IInv, TypeOK, InFlight, stateVars
<1>4. UseInv'
  BY DEF IInv, UseInv, stateVars, OneObjectPerSession, InUseStaysCached,
         CountsItsInvocations, Uses, InFlight
<1>5. LockInv'
  BY DEF IInv, LockInv, stateVars, TurnHoldsLock, LockIsHeldByATurn, HasTurn
<1> QED BY <1>3, <1>4, <1>5 DEF IInv

\* An invocation that is cancelled goes on to the end of its finally clause.
LEMMA CancelKeeps ==
  ASSUME IInv, NEW i \in Invocations, Cancel(i)
  PROVE  IInv'
<1>1. CASE At(i, "lock")
  <2>1. InFlight(i) /\ ~HasTurn(i)
    BY <1>1 DEF At, InFlight, HasTurn
  <2>2. TypeOK' /\ UseInv'
    BY <1>1, <2>1, GoingOnKeepsTypes, GoingOnKeepsUse DEF Cancel, IInv, TypeOK, stateVars
  <2>3. \A j \in Invocations :
          (HasTurn(j)' <=> HasTurn(j)) /\ invocation'[j].state = invocation[j].state
    BY <1>1 DEF Cancel, Go, At, IInv, TypeOK, HasTurn
  <2>4. \A s \in DOMAIN registry : lockHolder[registry[s]] \in Invocations \cup {Nobody}
    BY DEF IInv, TypeOK
  <2>5. TurnHoldsLock' /\ LockIsHeldByATurn'
    BY <2>3, <2>4 DEF Cancel, stateVars, IInv, LockInv, TurnHoldsLock, LockIsHeldByATurn
  <2> QED BY <2>2, <2>5 DEF IInv, LockInv
<1>2. CASE ~At(i, "lock")
  <2>1. HasTurn(i) /\ Go(i, "unlock")
    BY <1>2 DEF Cancel, At, HasTurn
  <2>2. supervisor' \in [States -> BOOLEAN]
    BY DEF Cancel, IInv, TypeOK, stateVars
  <2> QED BY <2>1, <2>2, TurnGoesOn DEF Cancel, stateVars
<1> QED BY <1>1, <1>2

\* Every step of an invocation's turn keeps the invariant.
LEMMA StepKeeps ==
  ASSUME IInv, NEW i \in Invocations, Step(i)
  PROVE  IInv'
<1>1. CASE TakeLock(i)
  BY <1>1, TakeLockKeeps
<1>2. CASE Build(i)
  <2>1. HasTurn(i) /\ (Go(i, "gate") \/ Go(i, "unlock"))
    BY <1>2 DEF Build, At, HasTurn
  <2>2. supervisor' \in [States -> BOOLEAN]
    BY <1>2 DEF Build, IInv, TypeOK
  <2> QED BY <1>2, <2>1, <2>2, TurnGoesOn DEF Build
<1>3. CASE Gate(i) \/ Stream(i)
  <2>1. HasTurn(i) /\ (Go(i, "stream") \/ Go(i, "unlock"))
    BY <1>3 DEF Gate, Stream, At, HasTurn
  <2>2. supervisor' \in [States -> BOOLEAN]
    BY <1>3 DEF Gate, Stream, IInv, TypeOK, stateVars
  <2> QED BY <1>3, <2>1, <2>2, TurnGoesOn DEF Gate, Stream, stateVars
<1>4. CASE Unlock(i)
  BY <1>4, UnlockKeeps
<1>5. CASE Leave(i)
  BY <1>5, LeaveKeeps
<1> QED BY <1>1, <1>2, <1>3, <1>4, <1>5 DEF Step

\* The invariant is inductive.
LEMMA Inductive == IInv /\ [Next]_vars => IInv'
<1> SUFFICES ASSUME IInv, [Next]_vars PROVE IInv'
  OBVIOUS
<1>1. ASSUME NEW i \in Invocations, NEW s \in Sessions, Resume(i, s) PROVE IInv'
  BY <1>1, ResumeKeeps
<1>2. ASSUME NEW i \in Invocations, NEW s \in Sessions, NEW o \in States, Start(i, s, o)
      PROVE  IInv'
  BY <1>2, StartKeeps
<1>3. ASSUME NEW i \in Invocations, Step(i) PROVE IInv'
  BY <1>3, StepKeeps
<1>4. ASSUME NEW i \in Invocations, Cancel(i) PROVE IInv'
  BY <1>4, CancelKeeps
<1>5. CASE Tick
  BY <1>5, WaitingKeeps DEF Tick
<1>6. CASE Restart
  BY <1>6, RestartKeeps
<1>7. CASE UNCHANGED vars
  BY <1>7, WaitingKeeps DEF vars
<1> QED BY <1>1, <1>2, <1>3, <1>4, <1>5, <1>6, <1>7 DEF Next

\* A state in use stays in the registry, whatever expires and is evicted, for any
\* number of sessions and invocations.
THEOREM InUseIsCached == Spec => []InUseStaysCached
<1>1. IInv => InUseStaysCached
  BY DEF IInv, UseInv
<1> QED BY Initially, Inductive, <1>1, PTL DEF Spec

\* However invocations end, the counter of a cached state is the number of its users:
\* no error, refusal or cancellation leaves it too high, which would keep the session
\* for ever, or too low, which would drop it under a running turn.
THEOREM UsersAreCounted == Spec => []CountsItsInvocations
<1>1. IInv => CountsItsInvocations
  BY DEF IInv, UseInv
<1> QED BY Initially, Inductive, <1>1, PTL DEF Spec

\* What makes room for a new session leaves too many only if all of them are in use.
LEMMA StartGrowsInUse ==
  ASSUME IInv, NEW i \in Invocations, NEW s \in Sessions, NEW o \in States, Start(i, s, o),
         Cardinality(DOMAIN registry') > MaxCached, NEW t \in DOMAIN registry'
  PROVE  activeInvocations'[registry'[t]] > 0
<1> USE DEF IInv
<1>1. PICK evicted \in SUBSET Kept :
        /\ MakesRoom(evicted)
        /\ registry' = [u \in (Kept \ evicted) \cup {s} |-> IF u = s THEN o ELSE registry[u]]
  BY DEF Start
<1>2. /\ s \notin Kept /\ Fresh(o)
      /\ activeInvocations' = [activeInvocations EXCEPT ![o] = 1]
  BY DEF Start
<1>3. DOMAIN registry' = (Kept \ evicted) \cup {s}
  BY <1>1
<1>4. IsFiniteSet(Kept) /\ IsFiniteSet(Kept \ evicted)
  <2>1. Kept \subseteq Sessions /\ IsFiniteSet(Sessions)
    BY AgentSessionAssumption DEF Kept, TypeOK
  <2> QED BY <2>1, FS_Subset
<1>5. Cardinality((Kept \ evicted) \cup {s}) = Cardinality(Kept \ evicted) + 1
  BY <1>2, <1>4, FS_AddElement
<1>6. Cardinality(Kept \ evicted) \in Nat /\ Cardinality(Kept) \in Nat
  BY <1>4, FS_CardinalityType
<1>7. Cardinality(Kept \ evicted) >= MaxCached
  BY <1>3, <1>5, <1>6, AgentSessionAssumption
<1>8. evicted = Evictable
  <2>1. CASE evicted = {}
    BY <1>1, <1>6, <1>7, <2>1, AgentSessionAssumption DEF MakesRoom
  <2>2. CASE evicted # {}
    BY <1>1, <1>6, <1>7, <2>2, AgentSessionAssumption DEF MakesRoom
  <2> QED BY <2>1, <2>2
<1>9. CASE t = s
  BY <1>1, <1>2, <1>3, <1>9 DEF TypeOK
<1>10. CASE t # s
  <2>1. t \in Kept /\ t \notin Evictable /\ registry'[t] = registry[t]
    BY <1>1, <1>3, <1>8, <1>10
  <2>2. t \in DOMAIN registry /\ registry[t] # o /\ registry[t] \in States
    BY <1>2, <2>1 DEF Fresh, Kept, TypeOK
  <2>3. activeInvocations[registry[t]] \in Nat \ {0}
    BY <2>1, <2>2 DEF Evictable, TypeOK
  <2> QED BY <1>2, <2>1, <2>2, <2>3 DEF TypeOK
<1> QED BY <1>9, <1>10

\* No other step adds a session.
LEMMA OnlyStartGrows ==
  ASSUME IInv, [Next]_vars, Cardinality(DOMAIN registry') > Cardinality(DOMAIN registry)
  PROVE  \E i \in Invocations, s \in Sessions, o \in States : Start(i, s, o)
<1>1. IsFiniteSet(DOMAIN registry)
  BY AgentSessionAssumption, FS_Subset DEF IInv, TypeOK
<1>2. ~(DOMAIN registry' \subseteq DOMAIN registry)
  <2> SUFFICES ASSUME DOMAIN registry' \subseteq DOMAIN registry PROVE FALSE
    OBVIOUS
  <2>1. Cardinality(DOMAIN registry') <= Cardinality(DOMAIN registry)
    BY <1>1, FS_Subset
  <2>2. IsFiniteSet(DOMAIN registry')
    BY <1>1, FS_Subset
  <2> QED BY <1>1, <2>1, <2>2, FS_CardinalityType
<1>3. registry' # registry
  BY <1>2
<1>4. ASSUME NEW i \in Invocations, Step(i) \/ Cancel(i) PROVE FALSE
  BY <1>3, <1>4 DEF Step, TakeLock, Build, Gate, Stream, Unlock, Leave, Cancel
<1>5. ASSUME NEW i \in Invocations, NEW s \in Sessions, Resume(i, s) PROVE FALSE
  BY <1>2, <1>5 DEF Resume, Kept
<1>6. ~Tick /\ ~UNCHANGED vars
  BY <1>3 DEF Tick, vars
<1>7. ~Restart
  BY <1>2 DEF Restart
<1> QED BY <1>4, <1>5, <1>6, <1>7 DEF Next

\* The registry exceeds its size by a session only while each of them is in use.
THEOREM RegistryIsBounded == Spec => GrowsOnlyInUse
<1>1. IInv /\ [Next]_vars =>
        [Cardinality(DOMAIN registry') > Cardinality(DOMAIN registry)
           /\ Cardinality(DOMAIN registry') > MaxCached
         => \A s \in DOMAIN registry' : activeInvocations'[registry'[s]] > 0]_vars
  BY OnlyStartGrows, StartGrowsInUse
<1> QED BY Initially, Inductive, <1>1, PTL DEF Spec, GrowsOnlyInUse

\* Two invocations of one session are never both in their turn.
THEOREM OneTurn == Spec => []OneTurnPerSession
<1>1. ASSUME IInv PROVE OneTurnPerSession
  <2> SUFFICES ASSUME NEW i \in Invocations, NEW j \in Invocations,
                      HasTurn(i), HasTurn(j), invocation[i].session = invocation[j].session
               PROVE  i = j
    BY DEF OneTurnPerSession
  <2>1. InFlight(i) /\ InFlight(j)
    BY DEF HasTurn, InFlight
  <2>2. invocation[i].state = invocation[j].state
    BY <1>1, <2>1 DEF IInv, UseInv, InUseStaysCached
  <2> QED BY <1>1, <2>2 DEF IInv, LockInv, TurnHoldsLock
<1> QED BY Initially, Inductive, <1>1, PTL DEF Spec

\* The lock of a cached session is never left with somebody whose turn is over.
THEOREM NoLockLeaks == Spec => []LockIsHeldByATurn
<1>1. IInv => LockIsHeldByATurn
  BY DEF IInv, LockInv
<1> QED BY Initially, Inductive, <1>1, PTL DEF Spec

\* Errors, refusals and cancellations leave neither a count nor a lock behind, for
\* any number of sessions and invocations.
THEOREM NothingIsLeftBehind == Spec => []InvocationsAreAccountedFor
BY UsersAreCounted, NoLockLeaks, PTL DEF InvocationsAreAccountedFor

----------------------------------------------------------------------------
(* The session of a tab.  A login can only lose its token to a refusal that   *)
(* was meant for an earlier one, because no request is sent before it is over.*)

Tokens == 1 .. Len(ownerOf)

SessionTyped ==
  /\ status \in {"loading", "authenticated", "unauthenticated"}
  /\ stored \in {NoneStored} \cup Tokens
  /\ ownerOf \in Seq(Accounts)
  /\ inFlight \subseteq Tokens
  /\ strayed \in BOOLEAN
  /\ flow \in [at : {"none", "challenge", "cognito", "identity", "validation"},
               token : {NoneStored} \cup Tokens]

\* Only one thing goes on at a time, and what it waits for fits the status.
FlowFits ==
  /\ status = "loading" <=> flow.at = "validation"
  /\ flow.at \in {"challenge", "cognito", "identity"} => status = "unauthenticated"
  /\ flow.at = "validation" =>
       flow.token = stored /\ stored # NoneStored /\ inFlight = {}
  /\ flow.at = "identity" =>
       /\ flow.token # NoneStored /\ flow.token \notin inFlight
       /\ stored = flow.token \/ (stored = NoneStored /\ strayed)

SessionInv ==
  /\ SessionTyped /\ FlowFits /\ SessionIsWhole
  /\ status = "loading" => user = NoUser

LEMMA SessionInitially == SignInInit => SessionInv
<1> SUFFICES ASSUME SignInInit PROVE SessionInv
  OBVIOUS
<1>1. flow.at = "none" /\ flow.token = NoneStored /\ ownerOf \in Seq(Accounts)
  BY DEF SignInInit, NoFlow
<1>2. SessionTyped
  BY <1>1 DEF SignInInit, SessionTyped, NoFlow
<1> QED BY <1>1, <1>2 DEF SignInInit, SessionInv, FlowFits, SessionIsWhole

\* A sign-in gives out the next token, which no request has used.
LEMMA AcceptKeeps ==
  ASSUME SessionInv, NEW a \in Accounts, CognitoAccepts(a)
  PROVE  SessionInv'
<1> DEFINE t == Len(ownerOf) + 1
<1>1. /\ ownerOf' = Append(ownerOf, a) /\ stored' = t
      /\ flow' = [at |-> "identity", token |-> t] /\ strayed' = FALSE
      /\ UNCHANGED <<status, user, inFlight>> /\ flow.at = "cognito"
  BY DEF CognitoAccepts, Wait
<1>2. /\ ownerOf' \in Seq(Accounts) /\ Len(ownerOf') = t
      /\ t \in Nat \ {NoneStored} /\ t \notin Tokens /\ Tokens' = Tokens \cup {t}
  BY <1>1 DEF SessionInv, SessionTyped, Tokens, NoneStored
<1>3. status = "unauthenticated"
  BY <1>1 DEF SessionInv, FlowFits
<1> HIDE DEF t
<1>4. SessionTyped'
  BY <1>1, <1>2 DEF SessionInv, SessionTyped
<1>5. FlowFits'
  BY <1>1, <1>2, <1>3 DEF SessionInv, SessionTyped, FlowFits
<1>6. SessionIsWhole'
  BY <1>1, <1>3 DEF SessionInv, SessionIsWhole
<1> QED BY <1>1, <1>3, <1>4, <1>5, <1>6 DEF SessionInv

LEMMA SessionInductive ==
  ASSUME SessionInv, [SignInNext]_signInVars
  PROVE  SessionInv'
<1> USE DEF SessionInv, SessionTyped, FlowFits, SessionIsWhole, Wait, Tokens
<1>1. CASE Load
  BY <1>1 DEF Load
<1>2. CASE Submit \/ CognitoRefuses
  <2>1. PICK at \in {"none", "challenge", "cognito"} : flow' = [at |-> at, token |-> NoneStored]
    BY <1>2 DEF Submit, CognitoRefuses
  <2>2. /\ status = "unauthenticated"
        /\ UNCHANGED <<status, user, stored, ownerOf, expired, inFlight, strayed>>
    BY <1>2 DEF Submit, CognitoRefuses
  <2>3. flow'.at = at /\ flow' \in [at : {"none", "challenge", "cognito", "identity", "validation"},
                                   token : {NoneStored} \cup Tokens]
    BY <2>1
  <2> QED BY <2>2, <2>3
<1>3. CASE Identify
  BY <1>3 DEF Identify, NoneStored
<1>4. CASE IdentityFails
  BY <1>4 DEF IdentityFails, SignedOut
<1>5. CASE LogOut
  BY <1>5 DEF LogOut, SignedOut
<1>6. CASE Request
  BY <1>6 DEF Request
<1>7. CASE \E a \in Accounts : CognitoAccepts(a)
  BY <1>7, AcceptKeeps
<1>8. CASE \E t \in inFlight : Answer(t) \/ AnswerRefused(t)
  <2>1. CASE \E t \in inFlight : Answer(t)
    BY <2>1 DEF Answer
  <2>2. ASSUME NEW t \in inFlight, AnswerRefused(t) PROVE SessionInv'
    <3>1. /\ status' = "unauthenticated" /\ user' = NoUser /\ stored' = NoneStored
          /\ inFlight' = inFlight \ {t} /\ UNCHANGED <<ownerOf, flow>>
          /\ strayed' = (strayed \/ t # stored)
      BY <2>2 DEF AnswerRefused, SignedOut
    <3>2. strayed' \in BOOLEAN
      BY <3>1
    <3>3. flow.at # "validation"
      BY <2>2
    <3>4. CASE flow.at = "identity"
      <4>1. strayed \/ t # stored
        BY <2>2, <3>4
      <4>2. strayed'
        BY <3>1, <4>1
      <4> QED BY <3>1, <3>2, <3>4, <4>2
    <3>5. CASE flow.at # "identity"
      BY <3>1, <3>2, <3>3, <3>5
    <3> QED BY <3>4, <3>5
  <2> QED BY <1>8, <2>1, <2>2
<1>9. CASE \E t \in DOMAIN ownerOf \ expired : Expire(t)
  BY <1>9 DEF Expire
<1>10. CASE UNCHANGED signInVars
  BY <1>10 DEF signInVars
<1> QED
  BY <1>1, <1>2, <1>3, <1>4, <1>5, <1>6, <1>7, <1>8, <1>9, <1>10 DEF SignInNext

\* Whoever is signed in is the owner of the stored token, unless the refusal of an
\* earlier session's token has taken it away.
THEOREM SessionStaysWhole == SignInSpec => []SessionIsWhole
<1>1. SessionInv => SessionIsWhole
  BY DEF SessionInv
<1> QED BY <1>1, SessionInitially, SessionInductive, PTL DEF SignInSpec

----------------------------------------------------------------------------
(* The page of a document.  A load of another document counts only if that   *)
(* document is decided already, and a decided document is not shown as       *)
(* pending.                                                                  *)

LoadsFit ==
  \A w \in loads :
    /\ w.run <= latest
    /\ w.run = latest =>
         w.document = url \/ (~w.pending /\ w.document \in decided)

PageInv ==
  /\ latest \in Nat
  /\ deciding \in Documents \cup {NoDocument}
  /\ url \in Documents
  /\ loads \subseteq [run : Nat, document : Documents, pending : BOOLEAN]
  /\ LoadsFit
  /\ ~loading /\ shown # Nothing /\ shown.pending => shown.document = url /\ form = url

LEMMA PageInitially == ReviewPageInit => PageInv
<1> SUFFICES ASSUME ReviewPageInit PROVE PageInv
  OBVIOUS
<1>1. /\ loads \subseteq [run : Nat, document : Documents, pending : BOOLEAN]
      /\ LoadsFit
  BY DEF ReviewPageInit, LoadsFit
<1> QED BY <1>1 DEF ReviewPageInit, PageInv

\* A load that is started becomes the latest, and none of the others is that.
LEMMA RunKeeps ==
  ASSUME PageInv, NEW d \in Documents, NEW waits \in BOOLEAN, Run(d, waits),
         url' \in Documents, d = url' \/ (~waits /\ d \in decided'),
         deciding' \in Documents \cup {NoDocument}
  PROVE  PageInv'
<1> DEFINE w == [run |-> latest + 1, document |-> d, pending |-> waits]
<1>1. /\ latest \in Nat /\ latest' = latest + 1 /\ loading' = TRUE
      /\ loads' = loads \cup {w}
  BY DEF Run, PageInv
<1>2. w \in [run : Nat, document : Documents, pending : BOOLEAN]
      /\ w.run = latest + 1 /\ w.document = d /\ w.pending = waits
  BY <1>1
<1> HIDE DEF w
<1>3. LoadsFit'
  <2> SUFFICES ASSUME NEW v \in loads'
               PROVE  /\ v.run <= latest'
                      /\ v.run = latest' =>
                           v.document = url' \/ (~v.pending /\ v.document \in decided')
    BY DEF LoadsFit
  <2>1. CASE v = w
    BY <1>1, <1>2, <2>1
  <2>2. CASE v \in loads
    <3>1. v.run \in Nat /\ v.run <= latest
      BY <2>2 DEF PageInv, LoadsFit
    <3> QED BY <1>1, <3>1
  <2> QED BY <1>1, <2>1, <2>2
<1> QED BY <1>1, <1>2, <1>3 DEF PageInv

LEMMA PageInductive ==
  ASSUME PageInv, [ReviewPageNext]_reviewPageVars
  PROVE  PageInv'
<1>1. ASSUME NEW d \in Documents, Navigate(d) PROVE PageInv'
  BY <1>1, RunKeeps DEF Navigate, PageInv
<1>2. ASSUME NEW d \in Documents, DecidedElsewhere(d) PROVE PageInv'
  BY <1>2 DEF DecidedElsewhere, PageInv, LoadsFit
<1>3. ASSUME NEW w \in loads, NEW data \in Brings(w), Loaded(w, data) PROVE PageInv'
  <2>1. /\ loads' = loads \ {w} /\ UNCHANGED <<decided, url, latest, deciding>>
    BY <1>3 DEF Loaded
  <2>2. LoadsFit'
    BY <2>1 DEF PageInv, LoadsFit
  <2>3. CASE w.run = latest
    <3>1. /\ shown' = data
          /\ form' = IF data = Nothing THEN form ELSE data.document
      BY <1>3, <2>3 DEF Loaded
    <3>2. data # Nothing =>
            data.document = w.document /\ data.pending \in {w.pending, w.document \notin decided}
      BY <1>3 DEF Brings
    <3>3. data # Nothing /\ data.pending => data.document = url
      BY <2>3, <3>2 DEF PageInv, LoadsFit
    <3> QED BY <2>1, <2>2, <3>1, <3>3 DEF PageInv
  <2>4. CASE w.run # latest
    BY <1>3, <2>1, <2>2, <2>4 DEF Loaded, PageInv
  <2> QED BY <2>3, <2>4
<1>4. CASE Decide
  BY <1>4 DEF Decide, PageInv, LoadsFit
<1>5. CASE RetryLoad
  BY <1>5, RunKeeps DEF RetryLoad, PageInv
<1>6. ASSUME NEW ok \in BOOLEAN, Decided(ok) PROVE PageInv'
  <2>1. CASE ok
    BY <1>6, <2>1, RunKeeps DEF Decided, PageInv
  <2>2. CASE ~ok
    BY <1>6, <2>2 DEF Decided, PageInv, LoadsFit
  <2> QED BY <2>1, <2>2
<1>7. CASE UNCHANGED reviewPageVars
  BY <1>7 DEF reviewPageVars, PageInv, LoadsFit
<1> QED BY <1>1, <1>2, <1>3, <1>4, <1>5, <1>6, <1>7 DEF ReviewPageNext

\* A decision goes to the document that is shown and whose items fill the form,
\* whatever documents a reviewer has looked at and decided before.
THEOREM FormStaysWithItsDocument == ReviewPageSpec => []FormGoesToItsDocument
<1>1. PageInv => FormGoesToItsDocument
  BY DEF PageInv, FormGoesToItsDocument, CanDecide
<1> QED BY <1>1, PageInitially, PageInductive, PTL DEF ReviewPageSpec

----------------------------------------------------------------------------
(* The retry of a tool's request.  While no other loop touches the client, a  *)
(* request that has its client keeps it, so nothing forgets the token of its  *)
(* second attempt, which Cognito gave out after the first had been refused.   *)

Rebuilding == {"rebuild", "bind", "forget"}
Settled == {"take", "check", "authenticating", "authenticated", "header", "look up", "sent"}
Attempts ==
  [at : {"start"} \cup Rebuilding \cup Settled \cup Outcomes, attempt : {1, 2},
   first : Nat, header : Nat, got : Nat, sending : BOOLEAN]

TokensTyped ==
  /\ issued \in Nat /\ token \in Nat /\ token <= issued
  /\ refused \subseteq Nat
  /\ request \in [Requests -> Attempts]
  /\ \A r \in Requests : request[r].header <= issued /\ request[r].got <= issued

OneAtATime ==
  \A q, r \in Requests : q # r /\ LoopOf[q] = LoopOf[r] =>
    request[q].at \in AtRest \/ request[r].at \in AtRest

KeepsItsClient(r) ==
  /\ request[r].at \in {"bind", "forget"} \cup Settled => client # NoLoop
  /\ request[r].at \in {"forget"} \cup Settled => clientLoop = LoopOf[r]
  /\ request[r].at \in Settled =>
       \A q \in Requests : LoopOf[q] = LoopOf[r] => request[q].at \notin Rebuilding

KeepsItsToken(r) ==
  LET w == request[r]
  IN /\ w.attempt = 2 => w.first \in refused /\ w.first <= issued
     /\ w.attempt = 2 /\ w.at \notin Outcomes => w.sending
     /\ w.at \in {"start", "check"} \cup Rebuilding => ~w.sending
     /\ w.at \in {"look up", "sent"} => w.sending
     /\ w.at = "authenticated" => w.got # NoToken /\ (w.attempt = 2 => w.first < w.got)
     /\ w.at = "header" => token # NoToken /\ (w.attempt = 2 => w.first < token)
     /\ w.at \in {"look up", "take", "sent"} /\ w.sending =>
          w.header # NoToken /\ (w.attempt = 2 => w.first < w.header)
     /\ w.at = "unauthorized" => {w.first, w.header} \subseteq refused /\ w.first < w.header

RetriesFit == \A r \in Requests \ disturbed : KeepsItsClient(r) /\ KeepsItsToken(r)
RetryInv == TokensTyped /\ OneAtATime /\ RetriesFit

LEMMA RetryInitially == TokenInit => RetryInv
<1> SUFFICES ASSUME TokenInit PROVE RetryInv
  OBVIOUS
<1> USE DEF TokenInit, Waiting, NoToken
<1>1. \A r \in Requests : request[r] = Waiting
  OBVIOUS
<1>2. Waiting \in Attempts
  BY DEF Attempts
<1>3. TokensTyped
  <2>1. request \in [Requests -> Attempts]
    BY <1>2
  <2>2. \A r \in Requests : request[r].header <= 0 /\ request[r].got <= 0
    BY <1>1
  <2>3. issued = 0 /\ token = 0 /\ refused = {}
    OBVIOUS
  <2> HIDE DEF TokenInit
  <2> QED BY <2>1, <2>2, <2>3 DEF TokensTyped
<1>4. OneAtATime
  BY <1>1 DEF OneAtATime, AtRest
<1>5. RetriesFit
  <2> SUFFICES ASSUME NEW r \in Requests PROVE KeepsItsClient(r) /\ KeepsItsToken(r)
    BY DEF RetriesFit
  <2>1. /\ request[r].at = "start" /\ request[r].attempt = 1
        /\ request[r].header = 0 /\ request[r].sending = FALSE
    BY <1>1
  <2> HIDE DEF TokenInit
  <2>2. KeepsItsClient(r)
    BY <2>1 DEF KeepsItsClient, Settled
  <2>3. KeepsItsToken(r)
    BY <2>1 DEF KeepsItsToken, Outcomes
  <2> QED BY <2>2, <2>3
<1> QED BY <1>3, <1>4, <1>5 DEF RetryInv

\* What every step of one request leaves to show: that it fits, and that what it
\* wrote disturbs the others or leaves them as they were.
LEMMA OneMoves ==
  ASSUME RetryInv, NEW s \in Requests, NEW places, Turn(s, places), NEW w \in Attempts,
         request' = [request EXCEPT ![s] = w]
  PROVE  /\ request' \in [Requests -> Attempts]
         /\ OneAtATime'
         /\ request'[s] = w
         /\ \A q \in Requests \ {s} : request'[q] = request[q]
<1>1. /\ request' \in [Requests -> Attempts]
      /\ request'[s] = w
      /\ \A q \in Requests \ {s} : request'[q] = request[q]
  BY DEF RetryInv, TokensTyped
<1>2. OneAtATime'
  BY <1>1 DEF RetryInv, OneAtATime, Turn
<1> QED BY <1>1, <1>2

\* A step that writes nothing shared and is no lookup disturbs nobody.
LEMMA QuietMove ==
  ASSUME RetryInv, NEW s \in Requests, NEW places, Turn(s, places), NEW w \in Attempts,
         request' = [request EXCEPT ![s] = w],
         w.at \notin Rebuilding, w.header <= issued', w.got <= issued',
         issued' \in Nat, issued <= issued',
         UNCHANGED <<sharedVars, refused, disturbed>>,
         s \notin disturbed => KeepsItsClient(s)' /\ KeepsItsToken(s)'
  PROVE  RetryInv'
<1>1. /\ request' \in [Requests -> Attempts]
      /\ OneAtATime'
      /\ request'[s] = w
      /\ \A q \in Requests \ {s} : request'[q] = request[q]
  BY OneMoves
<1>2. TokensTyped'
  <2>1. \A q \in Requests : request'[q].header <= issued' /\ request'[q].got <= issued'
    <3> SUFFICES ASSUME NEW q \in Requests PROVE request'[q].header <= issued' /\ request'[q].got <= issued'
      OBVIOUS
    <3>1. CASE q = s
      BY <1>1, <3>1
    <3>2. CASE q # s
      <4>1. /\ request[q].header <= issued /\ request[q].got <= issued
            /\ request[q].header \in Nat /\ request[q].got \in Nat /\ issued \in Nat
        BY DEF RetryInv, TokensTyped, Attempts
      <4> QED BY <1>1, <3>2, <4>1
    <3> QED BY <3>1, <3>2
  <2> QED BY <1>1, <2>1 DEF RetryInv, TokensTyped, sharedVars
<1>3. ASSUME NEW r \in Requests \ disturbed', r # s
      PROVE  KeepsItsClient(r)' /\ KeepsItsToken(r)'
  <2>1. KeepsItsClient(r) /\ KeepsItsToken(r) /\ request'[r] = request[r]
    BY <1>1, <1>3 DEF RetryInv, RetriesFit
  <2>2. KeepsItsClient(r)'
    <3>1. \A q \in Requests : request[q].at \notin Rebuilding => request'[q].at \notin Rebuilding
      BY <1>1
    <3>2. request'[r].at = request[r].at /\ client' = client /\ clientLoop' = clientLoop
      BY <2>1 DEF sharedVars
    <3> QED BY <2>1, <3>1, <3>2 DEF KeepsItsClient
  <2>3. KeepsItsToken(r)'
    <3>1. request[r].first \in Nat /\ issued \in Nat
      BY <1>3 DEF RetryInv, TokensTyped, Attempts
    <3>2. /\ token' = token /\ refused' = refused
          /\ request[r].first <= issued => request[r].first <= issued'
      BY <3>1 DEF sharedVars
    <3> QED BY <2>1, <3>2, ZenonT(40) DEF KeepsItsToken
  <2> QED BY <2>2, <2>3
<1> QED BY <1>1, <1>2, <1>3 DEF RetryInv, RetriesFit

\* A step that writes the shared attributes: only requests of the loop it runs in are
\* left undisturbed, and those hold no client when it rebuilds one.
LEMMA WritingMove ==
  ASSUME RetryInv, NEW s \in Requests, NEW places, Turn(s, places), NEW w \in Attempts,
         request' = [request EXCEPT ![s] = w], w.header <= issued, w.got <= issued,
         Touch(s), UNCHANGED <<issued, refused>>,
         token' \in Nat, token' <= issued,
         \/ request[s].at \in Rebuilding
         \/ w.at \notin Rebuilding /\ UNCHANGED <<client, clientLoop>>,
         s \notin disturbed => KeepsItsClient(s)' /\ KeepsItsToken(s)'
  PROVE  RetryInv'
<1>1. /\ request' \in [Requests -> Attempts]
      /\ OneAtATime'
      /\ request'[s] = w
      /\ \A q \in Requests \ {s} : request'[q] = request[q]
  BY OneMoves
<1>2. TokensTyped'
  <2>1. \A q \in Requests : request'[q].header <= issued /\ request'[q].got <= issued
    BY <1>1 DEF RetryInv, TokensTyped
  <2> QED BY <1>1, <2>1 DEF RetryInv, TokensTyped
<1>3. ASSUME NEW r \in Requests \ disturbed', r # s
      PROVE  KeepsItsClient(r)' /\ KeepsItsToken(r)'
  <2>1. /\ KeepsItsClient(r) /\ KeepsItsToken(r)
        /\ request'[r] = request[r] /\ request'[r].at = request[r].at
    BY <1>1, <1>3 DEF RetryInv, RetriesFit, Touch
  <2>2. KeepsItsToken(r)' \/ request[r].at = "header"
    <3>1. refused' = refused /\ issued' = issued
      OBVIOUS
    <3> QED BY <2>1, <3>1 DEF KeepsItsToken
  <2>3. CASE LoopOf[r] # LoopOf[s]
    <3>1. request[r].at \in Outcomes \cup {"start"}
      BY <1>3, <2>3 DEF Touch
    <3>2. request[r].at \notin {"bind", "forget", "header"} \cup Settled
      BY <3>1 DEF Outcomes, Settled
    <3> QED BY <2>1, <2>2, <3>2 DEF KeepsItsClient
  <2>4. CASE LoopOf[r] = LoopOf[s]
    <3>1. request[r].at \in AtRest
      BY <1>3, <2>4 DEF Turn
    <3>2. request[r].at \notin {"bind", "forget", "header"}
      BY <3>1 DEF AtRest, Outcomes
    <3>3. CASE request[s].at \in Rebuilding
      <4>1. request[r].at \notin Settled
        BY <2>1, <2>4, <3>3 DEF KeepsItsClient
      <4> QED BY <2>1, <2>2, <3>2, <4>1 DEF KeepsItsClient
    <3>4. CASE w.at \notin Rebuilding /\ UNCHANGED <<client, clientLoop>>
      <4>1. \A q \in Requests : request[q].at \notin Rebuilding => request'[q].at \notin Rebuilding
        BY <1>1, <3>4
      <4>2. client' = client /\ clientLoop' = clientLoop
        BY <3>4
      <4> QED BY <2>1, <2>2, <3>2, <4>1, <4>2 DEF KeepsItsClient
    <3> QED BY <3>3, <3>4
  <2> QED BY <2>3, <2>4
<1> QED BY <1>1, <1>2, <1>3 DEF RetryInv, RetriesFit, Touch

\* Where a request goes is all that most steps change of it.
LEMMA ProceedIsTyped ==
  ASSUME TokensTyped, NEW s \in Requests,
         NEW at \in {"start"} \cup Rebuilding \cup Settled \cup Outcomes, Proceed(s, at)
  PROVE  \E w \in Attempts :
           /\ request' = [request EXCEPT ![s] = w]
           /\ w.at = at
           /\ w.attempt = request[s].attempt /\ w.first = request[s].first
           /\ w.header = request[s].header /\ w.got = request[s].got
           /\ w.sending = request[s].sending
           /\ w.header <= issued /\ w.got <= issued
           /\ request'[s] = w
<1>1. request[s] \in Attempts /\ request[s].header <= issued /\ request[s].got <= issued
  BY DEF TokensTyped
<1>2. [request[s] EXCEPT !.at = at] \in Attempts
  BY <1>1 DEF Attempts
<1>3. request' = [request EXCEPT ![s] = [request[s] EXCEPT !.at = at]]
  BY DEF Proceed
<1>4. request'[s] = [request[s] EXCEPT !.at = at]
  BY <1>3 DEF TokensTyped
<1> DEFINE w == [request[s] EXCEPT !.at = at]
<1>5. /\ w.at = at /\ w.attempt = request[s].attempt /\ w.first = request[s].first
      /\ w.header = request[s].header /\ w.got = request[s].got
      /\ w.sending = request[s].sending
  BY <1>1 DEF Attempts
<1> HIDE DEF w
<1>6. w \in Attempts /\ request' = [request EXCEPT ![s] = w] /\ request'[s] = w
  BY <1>2, <1>3, <1>4 DEF w
<1>7. w.header <= issued /\ w.got <= issued
  BY <1>1, <1>5
<1> QED BY <1>5, <1>6, <1>7

\* What is known of the request that moves.
LEMMA Mover ==
  ASSUME RetryInv, NEW s \in Requests
  PROVE  /\ TokensTyped /\ request[s] \in Attempts
         /\ request[s].header <= issued /\ request[s].got <= issued
         /\ request[s].first \in Nat /\ request[s].header \in Nat /\ request[s].got \in Nat
         /\ issued \in Nat /\ token \in Nat /\ token <= issued
         /\ s \notin disturbed => KeepsItsClient(s) /\ KeepsItsToken(s)
BY DEF RetryInv, RetriesFit, TokensTyped, Attempts

LEMMA LookUpFits == ASSUME RetryInv, NEW s \in Requests, LookUp(s) PROVE RetryInv'
<1> DEFINE missing == client = NoLoop \/ clientLoop # LoopOf[s]
<1>0. PICK w \in Attempts :
        /\ request' = [request EXCEPT ![s] = w] /\ w.at = (IF missing THEN "rebuild" ELSE "take")
        /\ w.attempt = request[s].attempt /\ w.first = request[s].first
        /\ w.header = request[s].header /\ w.got = request[s].got
        /\ w.sending = request[s].sending
        /\ w.header <= issued /\ w.got <= issued
        /\ request'[s] = w
  <2>1. (IF missing THEN "rebuild" ELSE "take") \in {"start"} \cup Rebuilding \cup Settled \cup Outcomes
    BY DEF Rebuilding, Settled
  <2> QED BY <2>1, Mover, ProceedIsTyped DEF LookUp
<1>1. Turn(s, {"start", "look up"}) /\ request[s].at \in {"start", "look up"}
      /\ UNCHANGED <<sharedVars, issued, refused, disturbed>>
  BY DEF LookUp, Turn
<1>2. s \notin disturbed => KeepsItsToken(s)'
  <2> SUFFICES ASSUME s \notin disturbed PROVE KeepsItsToken(s)'
    OBVIOUS
  <2>1. KeepsItsClient(s) /\ KeepsItsToken(s)
    BY Mover
  <2>2. missing => request[s].at = "start"
    BY <1>1, <2>1 DEF KeepsItsClient, Settled
  <2>3. request'[s].at = "take" \/ (request'[s].at = "rebuild" /\ missing)
    BY <1>0
  <2>4. request[s].at \notin Outcomes
    BY <1>1 DEF Outcomes
  <2>5. refused' = refused /\ issued' = issued
    BY <1>1
  <2> HIDE DEF missing
  <2>6. CASE request'[s].at = "take"
    BY <1>0, <1>1, <2>1, <2>4, <2>5, <2>6, ZenonT(40) DEF KeepsItsToken, Rebuilding, Outcomes
  <2>7. CASE request'[s].at = "rebuild" /\ missing
    BY <1>0, <1>1, <2>1, <2>2, <2>4, <2>5, <2>7 DEF KeepsItsToken, Rebuilding, Outcomes
  <2> QED BY <2>3, <2>6, <2>7
<1>3. CASE ~missing
  <2>1. s \notin disturbed => KeepsItsClient(s)'
    <3>1. \A q \in Requests : LoopOf[q] = LoopOf[s] => request'[q].at \notin Rebuilding
      <4>1. request'[s].at \notin Rebuilding
        BY <1>0, <1>3 DEF Rebuilding
      <4>2. \A q \in Requests \ {s} : LoopOf[q] = LoopOf[s] => request[q].at \notin Rebuilding
        BY <1>1 DEF Turn, AtRest, Outcomes, Rebuilding
      <4>3. \A q \in Requests \ {s} : request'[q] = request[q]
        BY <1>0, <1>1, OneMoves
      <4> QED BY <4>1, <4>2, <4>3
    <3>2. client' # NoLoop /\ clientLoop' = LoopOf[s]
      BY <1>1, <1>3 DEF sharedVars
    <3> QED BY <3>1, <3>2 DEF KeepsItsClient
  <2>2. w.at \notin Rebuilding
    BY <1>0, <1>3 DEF Rebuilding
  <2>3. issued' \in Nat /\ issued <= issued' /\ w.header <= issued' /\ w.got <= issued'
    <3>1. issued' = issued /\ issued \in Nat
      BY <1>1, Mover
    <3> QED BY <1>0, <3>1
  <2> QED BY <1>0, <1>1, <1>2, <2>1, <2>2, <2>3, QuietMove
<1>4. CASE missing
  <2>1. /\ request' \in [Requests -> Attempts]
        /\ OneAtATime'
        /\ request'[s] = w /\ w.at = "rebuild"
        /\ \A q \in Requests \ {s} : request'[q] = request[q]
    BY <1>0, <1>1, <1>4, OneMoves
  <2>2. TokensTyped'
    <3>1. \A q \in Requests : request'[q].header <= issued /\ request'[q].got <= issued
      BY <1>0, <2>1 DEF RetryInv, TokensTyped
    <3> QED BY <1>1, <2>1, <3>1 DEF RetryInv, TokensTyped, sharedVars
  <2>3. s \notin disturbed => KeepsItsClient(s)'
    BY <2>1 DEF KeepsItsClient, Settled
  <2>4. ASSUME NEW r \in Requests \ disturbed, r # s PROVE KeepsItsClient(r)' /\ KeepsItsToken(r)'
    <3>1. /\ KeepsItsClient(r) /\ KeepsItsToken(r) /\ request'[r] = request[r]
          /\ client' = client /\ clientLoop' = clientLoop /\ token' = token
          /\ issued' = issued /\ refused' = refused
      BY <1>1, <2>1, <2>4 DEF RetryInv, RetriesFit, sharedVars
    <3>2. LoopOf[r] = LoopOf[s] => request[r].at \notin Settled
      BY <1>4, <3>1 DEF KeepsItsClient
    <3>3. KeepsItsClient(r)'
      <4>1. CASE LoopOf[r] = LoopOf[s]
        <5>1. request[r].at \notin {"bind", "forget"}
          BY <1>1, <2>4, <4>1 DEF Turn, AtRest, Outcomes
        <5> QED BY <3>1, <3>2, <4>1, <5>1 DEF KeepsItsClient
      <4>2. CASE LoopOf[r] # LoopOf[s]
        <5>1. \A q \in Requests : LoopOf[q] = LoopOf[r] => request'[q] = request[q]
          BY <2>1, <4>2
        <5> QED BY <3>1, <5>1 DEF KeepsItsClient
      <4> QED BY <4>1, <4>2
    <3>4. KeepsItsToken(r)'
      BY <3>1 DEF KeepsItsToken
    <3> QED BY <3>3, <3>4
  <2> QED BY <1>1, <1>2, <2>1, <2>2, <2>3, <2>4 DEF RetryInv, RetriesFit
<1> QED BY <1>3, <1>4

LEMMA RebuildFits == ASSUME RetryInv, NEW s \in Requests, Rebuild(s) PROVE RetryInv'
<1>0. PICK w \in Attempts :
        /\ request' = [request EXCEPT ![s] = w] /\ w.at = "bind"
        /\ w.attempt = request[s].attempt /\ w.first = request[s].first
        /\ w.header = request[s].header /\ w.got = request[s].got
        /\ w.sending = request[s].sending
        /\ w.header <= issued /\ w.got <= issued
        /\ request'[s] = w
  <2>1. "bind" \in {"start"} \cup Rebuilding \cup Settled \cup Outcomes
    BY DEF Rebuilding, Settled
  <2> QED BY <2>1, Mover, ProceedIsTyped DEF Rebuild
<1>1. Turn(s, {"rebuild"}) /\ request[s].at = "rebuild" /\ Touch(s) /\ UNCHANGED <<issued, refused>>
  BY DEF Rebuild, Turn
<1>2. token' \in Nat /\ token' <= issued
  BY Mover DEF Rebuild, NoToken
<1>3. \/ request[s].at \in Rebuilding
      \/ w.at \notin Rebuilding /\ UNCHANGED <<client, clientLoop>>
  BY <1>0, <1>1 DEF Rebuild, Rebuilding
<1>4. s \notin disturbed => KeepsItsToken(s)'
  <2>1. request[s].at \notin Outcomes
    BY <1>1 DEF Outcomes
  <2> QED BY <1>0, <1>1, <2>1, Mover DEF Rebuild, KeepsItsToken, Rebuilding, Outcomes, NoToken
<1>5. s \notin disturbed => KeepsItsClient(s)'
  BY <1>0, <1>1, ServiceTokenAssumption DEF Rebuild, KeepsItsClient, Settled
<1> QED BY <1>0, <1>1, <1>2, <1>3, <1>4, <1>5, WritingMove

LEMMA BindFits == ASSUME RetryInv, NEW s \in Requests, Bind(s) PROVE RetryInv'
<1>0. PICK w \in Attempts :
        /\ request' = [request EXCEPT ![s] = w] /\ w.at = "forget"
        /\ w.attempt = request[s].attempt /\ w.first = request[s].first
        /\ w.header = request[s].header /\ w.got = request[s].got
        /\ w.sending = request[s].sending
        /\ w.header <= issued /\ w.got <= issued
        /\ request'[s] = w
  <2>1. "forget" \in {"start"} \cup Rebuilding \cup Settled \cup Outcomes
    BY DEF Rebuilding, Settled
  <2> QED BY <2>1, Mover, ProceedIsTyped DEF Bind
<1>1. Turn(s, {"bind"}) /\ request[s].at = "bind" /\ Touch(s) /\ UNCHANGED <<issued, refused>>
  BY DEF Bind, Turn
<1>2. token' \in Nat /\ token' <= issued
  BY Mover DEF Bind, NoToken
<1>3. \/ request[s].at \in Rebuilding
      \/ w.at \notin Rebuilding /\ UNCHANGED <<client, clientLoop>>
  BY <1>0, <1>1 DEF Bind, Rebuilding
<1>4. s \notin disturbed => KeepsItsToken(s)'
  <2>1. request[s].at \notin Outcomes
    BY <1>1 DEF Outcomes
  <2> QED BY <1>0, <1>1, <2>1, Mover DEF Bind, KeepsItsToken, Rebuilding, Outcomes, NoToken
<1>5. s \notin disturbed => KeepsItsClient(s)'
  BY <1>0, <1>1, Mover DEF Bind, KeepsItsClient, Settled
<1> QED BY <1>0, <1>1, <1>2, <1>3, <1>4, <1>5, WritingMove

LEMMA ForgetFits == ASSUME RetryInv, NEW s \in Requests, Forget(s) PROVE RetryInv'
<1>0. PICK w \in Attempts :
        /\ request' = [request EXCEPT ![s] = w] /\ w.at = "take"
        /\ w.attempt = request[s].attempt /\ w.first = request[s].first
        /\ w.header = request[s].header /\ w.got = request[s].got
        /\ w.sending = request[s].sending
        /\ w.header <= issued /\ w.got <= issued
        /\ request'[s] = w
  <2>1. "take" \in {"start"} \cup Rebuilding \cup Settled \cup Outcomes
    BY DEF Rebuilding, Settled
  <2> QED BY <2>1, Mover, ProceedIsTyped DEF Forget
<1>1. Turn(s, {"forget"}) /\ request[s].at = "forget" /\ Touch(s) /\ UNCHANGED <<issued, refused>>
  BY DEF Forget, Turn
<1>2. token' \in Nat /\ token' <= issued
  BY Mover DEF Forget, NoToken
<1>3. \/ request[s].at \in Rebuilding
      \/ w.at \notin Rebuilding /\ UNCHANGED <<client, clientLoop>>
  BY <1>0, <1>1 DEF Forget, Rebuilding
<1>4. s \notin disturbed => KeepsItsToken(s)'
  <2>1. request[s].at \notin Outcomes
    BY <1>1 DEF Outcomes
  <2> QED BY <1>0, <1>1, <2>1, Mover DEF Forget, KeepsItsToken, Rebuilding, Outcomes, NoToken
<1>5. s \notin disturbed => KeepsItsClient(s)'
  <2>1. \A q \in Requests : LoopOf[q] = LoopOf[s] => request'[q].at \notin Rebuilding
    <3>1. \A q \in Requests \ {s} : LoopOf[q] = LoopOf[s] => request[q].at \notin Rebuilding
      BY <1>1 DEF Turn, AtRest, Outcomes, Rebuilding
    <3>2. \A q \in Requests \ {s} : request'[q] = request[q]
      BY <1>0, <1>1, OneMoves
    <3>3. request'[s].at \notin Rebuilding
      BY <1>0 DEF Rebuilding
    <3> QED BY <3>1, <3>2, <3>3
  <2> QED BY <1>0, <1>1, <2>1, Mover DEF Forget, KeepsItsClient, Settled
<1> QED BY <1>0, <1>1, <1>2, <1>3, <1>4, <1>5, WritingMove

LEMMA AssignFits == ASSUME RetryInv, NEW s \in Requests, Assign(s) PROVE RetryInv'
<1>0. PICK w \in Attempts :
        /\ request' = [request EXCEPT ![s] = w] /\ w.at = "header"
        /\ w.attempt = request[s].attempt /\ w.first = request[s].first
        /\ w.header = request[s].header /\ w.got = request[s].got
        /\ w.sending = request[s].sending
        /\ w.header <= issued /\ w.got <= issued
        /\ request'[s] = w
  <2>1. "header" \in {"start"} \cup Rebuilding \cup Settled \cup Outcomes
    BY DEF Rebuilding, Settled
  <2> QED BY <2>1, Mover, ProceedIsTyped DEF Assign
<1>1. Turn(s, {"authenticated"}) /\ request[s].at = "authenticated" /\ Touch(s) /\ UNCHANGED <<issued, refused>>
  BY DEF Assign, Turn
<1>2. token' \in Nat /\ token' <= issued
  BY Mover DEF Assign, NoToken
<1>3. \/ request[s].at \in Rebuilding
      \/ w.at \notin Rebuilding /\ UNCHANGED <<client, clientLoop>>
  BY <1>0, <1>1 DEF Assign, Rebuilding
<1>4. s \notin disturbed => KeepsItsToken(s)'
  <2>1. request[s].at \notin Outcomes
    BY <1>1 DEF Outcomes
  <2> QED BY <1>0, <1>1, <2>1, Mover DEF Assign, KeepsItsToken, Rebuilding, Outcomes, NoToken
<1>5. s \notin disturbed => KeepsItsClient(s)'
  <2>1. \A q \in Requests : LoopOf[q] = LoopOf[s] => request'[q].at \notin Rebuilding
    <3>1. \A q \in Requests \ {s} : LoopOf[q] = LoopOf[s] => request[q].at \notin Rebuilding
      BY <1>1 DEF Turn, AtRest, Outcomes, Rebuilding
    <3>2. \A q \in Requests \ {s} : request'[q] = request[q]
      BY <1>0, <1>1, OneMoves
    <3>3. request'[s].at \notin Rebuilding
      BY <1>0 DEF Rebuilding
    <3> QED BY <3>1, <3>2, <3>3
  <2> QED BY <1>0, <1>1, <2>1, Mover DEF Assign, KeepsItsClient, Settled
<1> QED BY <1>0, <1>1, <1>2, <1>3, <1>4, <1>5, WritingMove

\* A request keeps the client it has as long as it stays settled.
LEMMA StaysSettled ==
  ASSUME RetryInv, NEW s \in Requests, NEW places, Turn(s, places), NEW w \in Attempts,
         request' = [request EXCEPT ![s] = w],
         request[s].at \in Settled, w.at \notin Rebuilding, UNCHANGED sharedVars,
         s \notin disturbed
  PROVE  KeepsItsClient(s)'
<1>1. \A q \in Requests : LoopOf[q] = LoopOf[s] => request[q].at \notin Rebuilding
  BY Mover DEF KeepsItsClient
<1>2. /\ request'[s] = w
      /\ \A q \in Requests \ {s} : request'[q] = request[q]
  BY OneMoves
<1>3. \A q \in Requests : LoopOf[q] = LoopOf[s] => request'[q].at \notin Rebuilding
  BY <1>1, <1>2
<1>4. client' = client /\ clientLoop' = clientLoop /\ client # NoLoop /\ clientLoop = LoopOf[s]
  BY Mover DEF KeepsItsClient, sharedVars
<1> QED BY <1>3, <1>4 DEF KeepsItsClient

\* A request that moves without writing anything shared, its other fields kept.
LEMMA QuietProceed ==
  ASSUME RetryInv, NEW s \in Requests, NEW places, Turn(s, places),
         NEW at \in Settled \cup Outcomes, Proceed(s, at), request[s].at \in Settled,
         UNCHANGED <<sharedVars, issued, refused, disturbed>>,
         s \notin disturbed => KeepsItsToken(s)'
  PROVE  RetryInv'
<1>0. PICK w \in Attempts :
        /\ request' = [request EXCEPT ![s] = w] /\ w.at = at
        /\ w.header <= issued /\ w.got <= issued
        /\ request'[s] = w
  BY Mover, ProceedIsTyped
<1>1. w.at \notin Rebuilding
  BY <1>0 DEF Settled, Outcomes, Rebuilding
<1>2. s \notin disturbed => KeepsItsClient(s)'
  BY <1>0, <1>1, StaysSettled
<1>3. issued' \in Nat /\ issued <= issued' /\ w.header <= issued' /\ w.got <= issued'
  <2>1. issued' = issued /\ issued \in Nat
    BY Mover
  <2> QED BY <1>0, <2>1
<1> QED BY <1>0, <1>1, <1>2, <1>3, QuietMove

LEMMA TakeFits == ASSUME RetryInv, NEW s \in Requests, Take(s) PROVE RetryInv'
<1>1. Turn(s, {"take"}) /\ request[s].at = "take" /\ UNCHANGED <<sharedVars, issued, refused, disturbed>>
  BY DEF Take, Turn
<1>2. PICK at \in {"check", "sent", "wrong loop"} : Proceed(s, at) /\ (request[s].sending <=> at # "check")
  BY DEF Take
<1>3. at \in Settled \cup Outcomes /\ request[s].at \in Settled /\ request[s].at \notin Outcomes
  BY <1>1 DEF Settled, Outcomes
<1>4. /\ request'[s].at = at
      /\ request'[s].attempt = request[s].attempt /\ request'[s].first = request[s].first
      /\ request'[s].header = request[s].header /\ request'[s].got = request[s].got
      /\ request'[s].sending = request[s].sending
  <2>1. at \in {"start"} \cup Rebuilding \cup Settled \cup Outcomes
    BY <1>3
  <2>2. TokensTyped /\ Proceed(s, at)
    BY <1>2, Mover
  <2>3. PICK w \in Attempts :
           /\ w.at = at
           /\ w.attempt = request[s].attempt /\ w.first = request[s].first
           /\ w.header = request[s].header /\ w.got = request[s].got
           /\ w.sending = request[s].sending
           /\ request'[s] = w
    BY <2>1, <2>2, ProceedIsTyped
  <2> QED BY <2>3
<1>5. ASSUME s \notin disturbed PROVE KeepsItsToken(s)'
  <2>1. refused' = refused /\ issued' = issued /\ token' = token
    BY <1>1 DEF sharedVars
  <2> QED BY <1>1, <1>2, <1>3, <1>4, <1>5, <2>1, Mover
          DEF KeepsItsToken, Rebuilding, Outcomes, NoToken
<1> QED BY <1>1, <1>2, <1>3, <1>5, QuietProceed

LEMMA CheckFits == ASSUME RetryInv, NEW s \in Requests, Check(s) PROVE RetryInv'
<1>1. Turn(s, {"check"}) /\ request[s].at = "check" /\ UNCHANGED <<sharedVars, issued, refused, disturbed>>
  BY DEF Check, Turn
<1>2. PICK at \in {"authenticating", "header"} : Proceed(s, at) /\ (at = "header" => token # NoToken)
  BY DEF Check
<1>3. at \in Settled \cup Outcomes /\ request[s].at \in Settled /\ request[s].at \notin Outcomes
  BY <1>1 DEF Settled, Outcomes
<1>4. /\ request'[s].at = at
      /\ request'[s].attempt = request[s].attempt /\ request'[s].first = request[s].first
      /\ request'[s].header = request[s].header /\ request'[s].got = request[s].got
      /\ request'[s].sending = request[s].sending
  <2>1. at \in {"start"} \cup Rebuilding \cup Settled \cup Outcomes
    BY <1>3
  <2>2. TokensTyped /\ Proceed(s, at)
    BY <1>2, Mover
  <2>3. PICK w \in Attempts :
           /\ w.at = at
           /\ w.attempt = request[s].attempt /\ w.first = request[s].first
           /\ w.header = request[s].header /\ w.got = request[s].got
           /\ w.sending = request[s].sending
           /\ request'[s] = w
    BY <2>1, <2>2, ProceedIsTyped
  <2> QED BY <2>3
<1>5. ASSUME s \notin disturbed PROVE KeepsItsToken(s)'
  <2>1. refused' = refused /\ issued' = issued /\ token' = token
    BY <1>1 DEF sharedVars
  <2> QED BY <1>1, <1>2, <1>3, <1>4, <1>5, <2>1, Mover
          DEF KeepsItsToken, Rebuilding, Outcomes, NoToken
<1> QED BY <1>1, <1>2, <1>3, <1>5, QuietProceed

LEMMA FinishFits == ASSUME RetryInv, NEW s \in Requests, Finish(s) PROVE RetryInv'
<1>1. Turn(s, {"sent"}) /\ request[s].at = "sent" /\ UNCHANGED <<sharedVars, issued, refused, disturbed>>
  BY DEF Finish, Turn
<1>2. PICK at \in Outcomes \ {"wrong loop"} : Proceed(s, at) /\ 
          (at = "unauthorized" =>
             request[s].attempt = 2 /\ request[s].header \in refused \cup {NoToken})
  <2>1. {"unauthorized", "done", "failed", "unavailable"} \subseteq Outcomes \ {"wrong loop"}
    BY DEF Outcomes
  <2>2. CASE Refused(s) /\ request[s].attempt = 2 /\ Proceed(s, "unauthorized")
    BY <2>1, <2>2 DEF Refused
  <2>3. CASE Proceed(s, "done")
    BY <2>1, <2>3
  <2>4. CASE Proceed(s, "failed")
    BY <2>1, <2>4
  <2>5. CASE Proceed(s, "unavailable")
    BY <2>1, <2>5
  <2> QED BY <2>2, <2>3, <2>4, <2>5 DEF Finish
<1>3. at \in Settled \cup Outcomes /\ request[s].at \in Settled /\ request[s].at \notin Outcomes
  BY <1>1 DEF Settled, Outcomes
<1>4. /\ request'[s].at = at
      /\ request'[s].attempt = request[s].attempt /\ request'[s].first = request[s].first
      /\ request'[s].header = request[s].header /\ request'[s].got = request[s].got
      /\ request'[s].sending = request[s].sending
  <2>1. at \in {"start"} \cup Rebuilding \cup Settled \cup Outcomes
    BY <1>3
  <2>2. TokensTyped /\ Proceed(s, at)
    BY <1>2, Mover
  <2>3. PICK w \in Attempts :
           /\ w.at = at
           /\ w.attempt = request[s].attempt /\ w.first = request[s].first
           /\ w.header = request[s].header /\ w.got = request[s].got
           /\ w.sending = request[s].sending
           /\ request'[s] = w
    BY <2>1, <2>2, ProceedIsTyped
  <2> QED BY <2>3
<1>5. ASSUME s \notin disturbed PROVE KeepsItsToken(s)'
  <2>1. refused' = refused /\ issued' = issued /\ token' = token
    BY <1>1 DEF sharedVars
  <2> QED BY <1>1, <1>2, <1>3, <1>4, <1>5, <2>1, Mover, ZenonT(40)
          DEF KeepsItsToken, Rebuilding, Outcomes, NoToken
<1> QED BY <1>1, <1>2, <1>3, <1>5, QuietProceed

LEMMA AuthenticateFits == ASSUME RetryInv, NEW s \in Requests, Authenticate(s) PROVE RetryInv'
<1>1. /\ Turn(s, {"authenticating"}) /\ request[s].at = "authenticating"
      /\ UNCHANGED <<sharedVars, refused, disturbed>>
  BY DEF Authenticate, Turn
<1>2. request[s].at \in Settled /\ request[s].at \notin Outcomes
  BY <1>1 DEF Settled, Outcomes
<1>3. CASE Proceed(s, "unavailable") /\ UNCHANGED issued
  <2>1. "unavailable" \in Outcomes
    BY DEF Outcomes
  <2>2. PICK w \in Attempts :
          /\ w.at = "unavailable" /\ w.attempt = request[s].attempt /\ w.first = request[s].first
          /\ w.header = request[s].header /\ w.sending = request[s].sending
          /\ request'[s] = w
    BY <1>3, <2>1, Mover, ProceedIsTyped
  <2>3. s \notin disturbed => KeepsItsToken(s)'
    <3>1. refused' = refused /\ issued' = issued
      BY <1>1, <1>3
    <3> QED BY <1>2, <2>1, <2>2, <3>1, Mover DEF KeepsItsToken, Rebuilding
  <2> QED BY <1>1, <1>2, <1>3, <2>1, <2>3, QuietProceed
<1>4. CASE /\ issued' = issued + 1
           /\ request' = [request EXCEPT ![s].at = "authenticated", ![s].got = issued + 1]
  <2> DEFINE w == [request[s] EXCEPT !.at = "authenticated", !.got = issued + 1]
  <2>1. w \in Attempts
    <3>1. request[s] \in Attempts /\ issued + 1 \in Nat
      BY Mover
    <3>2. "authenticated" \in {"start"} \cup Rebuilding \cup Settled \cup Outcomes
      BY DEF Settled
    <3> QED BY <3>1, <3>2 DEF Attempts
  <2>2. /\ w.at = "authenticated" /\ w.attempt = request[s].attempt
        /\ w.first = request[s].first /\ w.header = request[s].header
        /\ w.got = issued + 1 /\ w.sending = request[s].sending
    BY Mover DEF Attempts
  <2>3. request' = [request EXCEPT ![s] = w]
    BY <1>4
  <2> HIDE DEF w
  <2>4. request'[s] = w
    BY <1>1, <2>1, <2>3, OneMoves
  <2>5. w.at \notin Rebuilding
    BY <2>2 DEF Rebuilding
  <2>6. w.header <= issued' /\ w.got <= issued' /\ issued' \in Nat /\ issued <= issued'
    <3>1. issued \in Nat /\ request[s].header <= issued /\ request[s].header \in Nat
      BY Mover
    <3> QED BY <1>4, <2>2, <3>1
  <2>7. ASSUME s \notin disturbed PROVE KeepsItsClient(s)' /\ KeepsItsToken(s)'
    <3>1. KeepsItsClient(s)'
      BY <1>1, <1>2, <2>1, <2>3, <2>5, <2>7, StaysSettled
    <3>2. KeepsItsToken(s)'
      <4>1. /\ request[s].attempt = 2 => request[s].first \in refused' /\ request[s].first <= issued
            /\ request[s].attempt = 2 => request[s].sending
        BY <1>1, <1>2, <2>7, Mover DEF KeepsItsToken
      <4>2. w.got # 0 /\ (w.attempt = 2 => w.first < w.got /\ w.first <= issued')
        BY <1>4, <2>2, <4>1, Mover
      <4> QED BY <2>2, <2>4, <2>5, <4>1, <4>2 DEF KeepsItsToken, Rebuilding, Outcomes, NoToken
    <3> QED BY <3>1, <3>2
  <2> QED BY <1>1, <2>1, <2>3, <2>5, <2>6, <2>7, QuietMove
<1> QED BY <1>3, <1>4 DEF Authenticate

LEMMA BuildHeaderFits == ASSUME RetryInv, NEW s \in Requests, BuildHeader(s) PROVE RetryInv'
<1>1. /\ Turn(s, {"header"}) /\ request[s].at = "header"
      /\ UNCHANGED <<sharedVars, issued, refused, disturbed>>
  BY DEF BuildHeader, Turn
<1> DEFINE w == [request[s] EXCEPT !.at = "look up", !.header = token, !.sending = TRUE]
<1>2. w \in Attempts
  BY Mover DEF Attempts, Settled
<1>3. /\ w.at = "look up" /\ w.attempt = request[s].attempt /\ w.first = request[s].first
      /\ w.header = token /\ w.got = request[s].got /\ w.sending = TRUE
  BY Mover DEF Attempts
<1>4. request' = [request EXCEPT ![s] = w]
  BY DEF BuildHeader
<1> HIDE DEF w
<1>5. request'[s] = w
  BY <1>1, <1>2, <1>4, OneMoves
<1>6. w.at \notin Rebuilding /\ request[s].at \in Settled /\ request[s].at \notin Outcomes
  BY <1>1, <1>3 DEF Rebuilding, Settled, Outcomes
<1>7. w.header <= issued' /\ w.got <= issued' /\ issued' \in Nat /\ issued <= issued'
  <2>1. issued' = issued
    BY <1>1
  <2>2. /\ issued \in Nat /\ token \in Nat /\ token <= issued
        /\ request[s].header <= issued /\ request[s].got <= issued
    BY Mover
  <2>3. w.header <= issued /\ w.got <= issued
    BY <1>3, <2>2
  <2>4. issued <= issued
    BY <2>2
  <2> QED BY <2>1, <2>2, <2>3, <2>4
<1>8. ASSUME s \notin disturbed PROVE KeepsItsClient(s)' /\ KeepsItsToken(s)'
  <2>1. KeepsItsClient(s)'
    BY <1>1, <1>2, <1>4, <1>6, <1>8, StaysSettled
  <2>2. KeepsItsToken(s)'
    <3>1. refused' = refused /\ issued' = issued
      BY <1>1
    <3> QED BY <1>1, <1>3, <1>5, <1>6, <1>8, <3>1, Mover DEF KeepsItsToken, Rebuilding, Outcomes
  <2> QED BY <2>1, <2>2
<1> QED BY <1>1, <1>2, <1>4, <1>6, <1>7, <1>8, QuietMove

LEMMA RetryFits == ASSUME RetryInv, NEW s \in Requests, Retry(s) PROVE RetryInv'
<1>1. /\ Turn(s, {"sent"}) /\ request[s].at = "sent" /\ Refused(s)
      /\ UNCHANGED <<sharedVars, issued, refused, disturbed>>
  BY DEF Retry, Turn
<1> DEFINE w == [request[s] EXCEPT !.at = "authenticating", !.attempt = 2,
                                   !.first = request[s].header]
<1>2. w \in Attempts
  <2>1. request[s] \in Attempts /\ request[s].header \in Nat
    BY Mover
  <2>2. "authenticating" \in {"start"} \cup Rebuilding \cup Settled \cup Outcomes
    BY DEF Settled
  <2> QED BY <2>1, <2>2 DEF Attempts
<1>3. /\ w.at = "authenticating" /\ w.attempt = 2 /\ w.first = request[s].header
      /\ w.header = request[s].header /\ w.got = request[s].got
      /\ w.sending = request[s].sending
  BY Mover DEF Attempts
<1>4. request' = [request EXCEPT ![s] = w]
  BY DEF Retry
<1> HIDE DEF w
<1>5. request'[s] = w
  BY <1>1, <1>2, <1>4, OneMoves
<1>6. w.at \notin Rebuilding /\ request[s].at \in Settled /\ request[s].at \notin Outcomes
  BY <1>1, <1>3 DEF Rebuilding, Settled, Outcomes
<1>7. w.header <= issued' /\ w.got <= issued' /\ issued' \in Nat /\ issued <= issued'
  <2>1. issued' = issued
    BY <1>1
  <2>2. /\ issued \in Nat /\ token \in Nat /\ token <= issued
        /\ request[s].header <= issued /\ request[s].got <= issued
    BY Mover
  <2>3. w.header <= issued /\ w.got <= issued
    BY <1>3, <2>2
  <2>4. issued <= issued
    BY <2>2
  <2> QED BY <2>1, <2>2, <2>3, <2>4
<1>8. ASSUME s \notin disturbed PROVE KeepsItsClient(s)' /\ KeepsItsToken(s)'
  <2>1. KeepsItsClient(s)'
    BY <1>1, <1>2, <1>4, <1>6, <1>8, StaysSettled
  <2>2. KeepsItsToken(s)'
    <3>1. refused' = refused /\ issued' = issued
      BY <1>1
    <3>2. request[s].sending /\ request[s].header # NoToken
      BY <1>1, <1>8, Mover DEF KeepsItsToken
    <3>3. request[s].header \in refused /\ request[s].header <= issued
      BY <1>1, <3>2, Mover DEF Refused
    <3> QED BY <1>3, <1>5, <1>6, <3>1, <3>2, <3>3 DEF KeepsItsToken, Rebuilding, Outcomes
  <2> QED BY <2>1, <2>2
<1> QED BY <1>1, <1>2, <1>4, <1>6, <1>7, <1>8, QuietMove

LEMMA RefuseFits == ASSUME RetryInv, NEW t \in 1 .. MaxTokens, Refuse(t) PROVE RetryInv'
<1>1. /\ UNCHANGED <<client, clientLoop, token, issued, request, disturbed>>
      /\ refused' = refused \cup {t} /\ t \in Nat
  BY DEF Refuse, sharedVars
<1>2. TokensTyped' /\ OneAtATime'
  BY <1>1 DEF RetryInv, TokensTyped, OneAtATime
<1>3. ASSUME NEW r \in Requests \ disturbed PROVE KeepsItsClient(r)' /\ KeepsItsToken(r)'
  <2>1. KeepsItsClient(r) /\ KeepsItsToken(r)
    BY <1>3 DEF RetryInv, RetriesFit
  <2>2. KeepsItsClient(r)'
    BY <1>1, <2>1 DEF KeepsItsClient
  <2>3. KeepsItsToken(r)'
    <3>1. refused \subseteq refused' /\ request' = request /\ token' = token /\ issued' = issued
      BY <1>1
    <3> QED BY <2>1, <3>1 DEF KeepsItsToken
  <2> QED BY <2>2, <2>3
<1> QED BY <1>1, <1>2, <1>3 DEF RetryInv, RetriesFit

LEMMA RetryInductive ==
  ASSUME RetryInv, [TokenNext]_tokenVars
  PROVE  RetryInv'
<1>1. ASSUME NEW s \in Requests,
             \/ LookUp(s) \/ Rebuild(s) \/ Bind(s) \/ Forget(s) \/ Take(s)
             \/ Check(s) \/ Authenticate(s) \/ Assign(s) \/ BuildHeader(s)
             \/ Retry(s) \/ Finish(s)
      PROVE  RetryInv'
  BY <1>1, LookUpFits, RebuildFits, BindFits, ForgetFits, TakeFits, CheckFits,
     AuthenticateFits, AssignFits, BuildHeaderFits, RetryFits, FinishFits
<1>2. ASSUME NEW t \in 1 .. MaxTokens, Refuse(t) PROVE RetryInv'
  BY <1>2, RefuseFits
<1>3. CASE UNCHANGED tokenVars
  BY <1>3, ZenonT(40) DEF tokenVars, sharedVars, RetryInv, TokensTyped, OneAtATime, RetriesFit,
              KeepsItsClient, KeepsItsToken
<1> QED BY <1>1, <1>2, <1>3 DEF TokenNext

\* A tool that reports Unauthorized was refused twice, the second time with a token
\* Cognito gave out after the first was refused, whatever requests, loops and tokens
\* there are, unless a thread of another loop touched the client meanwhile.
THEOREM RetryIsNotInVain == TokenSpec => []UnauthorizedIsExplained
<1>1. RetryInv => UnauthorizedIsExplained
  BY DEF RetryInv, RetriesFit, KeepsItsToken, UnauthorizedIsExplained
<1> QED BY <1>1, RetryInitially, RetryInductive, PTL DEF TokenSpec

----------------------------------------------------------------------------
(* The chat.  A question is sent from the last rendering, so what is kept of *)
(* the other conversations is what that shows; but a conversation in which a *)
(* turn is under way is either the one that is shown, in which no second     *)
(* question can be asked, or shown with its question.                        *)

Message == [from : {"user", "agent"}, turn : Nat, rounds : SUBSET Nat]

\* Every answer of a conversation follows its own question.
Answers(messages) ==
  \A i \in DOMAIN messages : IsAnswer(messages[i]) =>
    /\ i > 1 /\ messages[i - 1] = Question(messages[i].turn)
    /\ Cardinality(messages[i].rounds) <= 1

Sound(all) ==
  /\ all \in [DOMAIN all -> Seq(Message)]
  /\ \A c \in DOMAIN all : Answers(all[c])

EndsWith(messages, n) == Len(messages) > 0 /\ messages[Len(messages)] = Question(n)

StreamsOwn ==
  /\ \A s \in streams :
       /\ s \in [turn : Nat, conversation : Conversations, round : Nat, text : SUBSET Nat]
       /\ s.text \subseteq {s.round}
       /\ s.conversation \in pendingIds
       /\ s.conversation \in DOMAIN conversations =>
            EndsWith(conversations[s.conversation], s.turn)
       /\ s.conversation \in DOMAIN seen.conversations =>
            \/ seen.active = s.conversation
            \/ EndsWith(seen.conversations[s.conversation], s.turn)
  /\ \A s, t \in streams : s.conversation = t.conversation => s = t

ChatInv ==
  /\ turns \in Nat
  /\ Sound(conversations) /\ Sound(seen.conversations)
  /\ StreamsOwn
  /\ pending = {s.conversation : s \in streams}

LEMMA AskedIsSound ==
  ASSUME NEW messages \in Seq(Message), Answers(messages), NEW n \in Nat
  PROVE  /\ Append(messages, Question(n)) \in Seq(Message)
         /\ Answers(Append(messages, Question(n)))
         /\ EndsWith(Append(messages, Question(n)), n)
<1>1. Question(n) \in Message /\ ~IsAnswer(Question(n))
  BY DEF Question, Message, IsAnswer
<1>2. Append(messages, Question(n)) \in Seq(Message)
  BY <1>1, AppendProperties
<1>3. /\ Len(Append(messages, Question(n))) = Len(messages) + 1 /\ Len(messages) \in Nat
      /\ DOMAIN Append(messages, Question(n)) = 1 .. (Len(messages) + 1)
      /\ DOMAIN messages = 1 .. Len(messages)
      /\ \A i \in DOMAIN messages : Append(messages, Question(n))[i] = messages[i]
      /\ Append(messages, Question(n))[Len(messages) + 1] = Question(n)
  BY <1>1, AppendProperties, LenProperties
<1>4. EndsWith(Append(messages, Question(n)), n)
  BY <1>3 DEF EndsWith
<1>5. Answers(Append(messages, Question(n)))
  <2> SUFFICES ASSUME NEW i \in 1 .. (Len(messages) + 1),
                      IsAnswer(Append(messages, Question(n))[i])
               PROVE  /\ i > 1
                      /\ Append(messages, Question(n))[i - 1] = Question(Append(messages, Question(n))[i].turn)
                      /\ Cardinality(Append(messages, Question(n))[i].rounds) <= 1
    BY <1>3 DEF Answers
  <2>1. i \in DOMAIN messages
    BY <1>1, <1>3
  <2>2. IsAnswer(messages[i]) /\ Append(messages, Question(n))[i] = messages[i]
    BY <1>3, <2>1
  <2>3. i > 1 /\ messages[i - 1] = Question(messages[i].turn) /\ Cardinality(messages[i].rounds) <= 1
    BY <2>1, <2>2 DEF Answers
  <2>4. i - 1 \in DOMAIN messages
    BY <1>3, <2>1, <2>3
  <2>5. Append(messages, Question(n))[i - 1] = messages[i - 1]
    BY <1>3, <2>4
  <2>6. QED
    BY <2>2, <2>3, <2>5
<1>6. QED
  BY <1>2, <1>4, <1>5

LEMMA AnsweredIsSound ==
  ASSUME NEW messages \in Seq(Message), Answers(messages),
         NEW s \in [turn : Nat, conversation : Conversations, round : Nat, text : SUBSET Nat],
         s.text \subseteq {s.round}, EndsWith(messages, s.turn)
  PROVE  /\ Append(messages, Answered(s)) \in Seq(Message)
         /\ Answers(Append(messages, Answered(s)))
<1> DEFINE all == Append(messages, Answered(s))
<1>1. Answered(s) \in Message /\ Answered(s).turn = s.turn /\ Answered(s).rounds = s.text
  BY DEF Answered, Message
<1>2. Cardinality(s.text) <= 1
  <2>1. s.text = {} \/ s.text = {s.round}
    OBVIOUS
  <2>2. Cardinality({}) = 0 /\ Cardinality({s.round}) = 1
    BY FS_EmptySet, FS_Singleton
  <2>3. CASE s.text = {}
    BY <2>2, <2>3
  <2>4. CASE s.text = {s.round}
    BY <2>2, <2>4
  <2>5. QED
    BY <2>1, <2>3, <2>4
<1>3. /\ all \in Seq(Message)
      /\ Len(all) = Len(messages) + 1 /\ Len(messages) \in Nat
      /\ DOMAIN all = 1 .. (Len(messages) + 1)
      /\ DOMAIN messages = 1 .. Len(messages)
      /\ \A i \in DOMAIN messages : all[i] = messages[i]
      /\ all[Len(messages) + 1] = Answered(s)
  BY <1>1, AppendProperties, LenProperties
<1> HIDE DEF all
<1>4. Len(messages) > 0 /\ all[Len(messages)] = Question(s.turn)
  <2>1. Len(messages) > 0 /\ messages[Len(messages)] = Question(s.turn)
    BY DEF EndsWith
  <2>2. Len(messages) \in DOMAIN messages
    BY <1>3, <2>1
  <2>3. QED
    BY <1>3, <2>1, <2>2
<1>5. ASSUME NEW i \in 1 .. (Len(messages) + 1), IsAnswer(all[i])
      PROVE  /\ i > 1 /\ all[i - 1] = Question(all[i].turn) /\ Cardinality(all[i].rounds) <= 1
  <2>1. CASE i = Len(messages) + 1
    <3>1. i > 1 /\ i - 1 = Len(messages)
      BY <1>3, <1>4, <2>1
    <3>2. QED
      BY <1>1, <1>2, <1>3, <1>4, <2>1, <3>1
  <2>2. CASE i \in DOMAIN messages
    <3>1. IsAnswer(messages[i]) /\ all[i] = messages[i]
      BY <1>3, <1>5, <2>2
    <3>2. i > 1 /\ messages[i - 1] = Question(messages[i].turn) /\ Cardinality(messages[i].rounds) <= 1
      BY <2>2, <3>1 DEF Answers
    <3>3. i - 1 \in DOMAIN messages
      BY <1>3, <2>2, <3>2
    <3>4. QED
      BY <1>3, <3>1, <3>2, <3>3
  <2>3. QED
    BY <1>3, <2>1, <2>2
<1>6. Answers(all)
  BY <1>3, <1>5 DEF Answers
<1>7. QED
  BY <1>3, <1>6 DEF all

LEMMA ChatInitially == ChatInit => ChatInv
<1> SUFFICES ASSUME ChatInit PROVE ChatInv
  OBVIOUS
<1>1. Sound(conversations) /\ Sound(seen.conversations)
  BY DEF ChatInit, NoConversations, Sound
<1>2. StreamsOwn /\ pending = {s.conversation : s \in streams} /\ turns \in Nat
  BY DEF ChatInit, StreamsOwn
<1> QED BY <1>1, <1>2 DEF ChatInv

\* A question is sent from the last rendering.
LEMMA SendKeeps ==
  ASSUME ChatInv, NEW c \in Conversations, SendMessage(c)
  PROVE  ChatInv'
<1> DEFINE known == seen.conversations
           before == IF c \in DOMAIN known THEN known[c] ELSE <<>>
           n == turns + 1
           new == [turn |-> n, conversation |-> c, round |-> 1, text |-> {}]
<1>1. /\ turns' = n /\ n \in Nat /\ seen' = seen
      /\ IF seen.active \in DOMAIN known THEN c = seen.active
         ELSE c \notin DOMAIN known \cup DOMAIN conversations \cup pendingIds
      /\ c \notin pendingIds /\ pendingIds' = pendingIds \cup {c}
      /\ conversations' = [k \in DOMAIN known \cup {c} |->
           IF k = c THEN Append(before, Question(n)) ELSE known[k]]
      /\ pending' = pending \cup {c}
      /\ streams' = streams \cup {new}
  BY DEF SendMessage, Ask, ChatInv
<1>2. /\ Sound(known)
      /\ before \in Seq(Message) /\ Answers(before)
  <2>1. Sound(known)
    BY DEF ChatInv
  <2>2. <<>> \in Seq(Message) /\ Answers(<<>>)
    BY EmptySeq DEF Answers
  <2> QED BY <2>1, <2>2 DEF Sound
<1> HIDE DEF before
<1>3. /\ Append(before, Question(n)) \in Seq(Message)
      /\ Answers(Append(before, Question(n)))
      /\ EndsWith(Append(before, Question(n)), n)
  BY <1>1, <1>2, AskedIsSound
<1>4. /\ DOMAIN conversations' = DOMAIN known \cup {c}
      /\ conversations'[c] = Append(before, Question(n))
      /\ \A k \in DOMAIN known \ {c} : conversations'[k] = known[k]
  BY <1>1
<1>5. Sound(conversations')
  <2>1. \A k \in DOMAIN conversations' : conversations'[k] \in Seq(Message) /\ Answers(conversations'[k])
    BY <1>2, <1>3, <1>4 DEF Sound
  <2>2. conversations' \in [DOMAIN conversations' -> Seq(Message)]
    BY <1>1, <1>4, <2>1
  <2> QED BY <2>1, <2>2 DEF Sound
<1>6. \A s \in streams : s.conversation # c /\ s.conversation \in pendingIds
  BY <1>1 DEF ChatInv, StreamsOwn
<1>7. new \in [turn : Nat, conversation : Conversations, round : Nat, text : SUBSET Nat]
      /\ new.conversation = c /\ new.turn = n /\ new.text \subseteq {new.round}
  BY <1>1
<1> HIDE DEF new, n
<1>8. ASSUME NEW s \in streams
      PROVE  s.conversation \in DOMAIN conversations' =>
               EndsWith(conversations'[s.conversation], s.turn)
  <2> SUFFICES ASSUME s.conversation \in DOMAIN conversations'
               PROVE  EndsWith(conversations'[s.conversation], s.turn)
    OBVIOUS
  <2>1. s.conversation \in DOMAIN known \ {c}
    BY <1>4, <1>6
  <2>2. seen.active # s.conversation
    BY <1>1, <1>6, <2>1
  <2>3. EndsWith(known[s.conversation], s.turn)
    BY <2>1, <2>2 DEF ChatInv, StreamsOwn
  <2> QED BY <1>4, <2>1, <2>3
<1>9. c \in DOMAIN known => seen.active = c
  BY <1>1
<1>10. ASSUME NEW s \in streams'
       PROVE  /\ s \in [turn : Nat, conversation : Conversations, round : Nat, text : SUBSET Nat]
              /\ s.text \subseteq {s.round}
              /\ s.conversation \in pendingIds'
              /\ s.conversation \in DOMAIN conversations' =>
                   EndsWith(conversations'[s.conversation], s.turn)
              /\ s.conversation \in DOMAIN known =>
                   seen.active = s.conversation \/ EndsWith(known[s.conversation], s.turn)
  <2>1. CASE s = new
    BY <1>1, <1>3, <1>4, <1>7, <1>9, <2>1
  <2>2. CASE s \in streams
    BY <1>1, <1>8, <2>2 DEF ChatInv, StreamsOwn
  <2> QED BY <1>1, <2>1, <2>2
<1>11. \A s, t \in streams' : s.conversation = t.conversation => s = t
  BY <1>1, <1>6, <1>7 DEF ChatInv, StreamsOwn
<1>12. StreamsOwn'
  BY <1>1, <1>10, <1>11 DEF StreamsOwn
<1>13. pending' = {s.conversation : s \in streams'}
  BY <1>1, <1>7 DEF ChatInv
<1> QED BY <1>1, <1>2, <1>5, <1>12, <1>13 DEF ChatInv

\* Deleting a conversation, rendering and opening one concern no question.
LEMMA ShowingKeeps ==
  ASSUME ChatInv,
         \/ Render \/ Reload \/ \E c \in Conversations \cup {NoConversation} : Open(c)
         \/ \E c \in Conversations : Delete(c)
  PROVE  ChatInv'
<1>1. CASE Render
  BY <1>1 DEF Render, ChatInv, StreamsOwn
<1>2. CASE Reload
  BY <1>2 DEF Reload, ChatInv, StreamsOwn
<1>3. CASE \E c \in Conversations \cup {NoConversation} : Open(c)
  BY <1>3 DEF Open, ChatInv, StreamsOwn
<1>4. CASE \E c \in Conversations : Delete(c)
  <2>1. PICK c \in Conversations : Delete(c)
    BY <1>4
  <2>2. /\ DOMAIN conversations' = DOMAIN conversations \ {c}
        /\ \A k \in DOMAIN conversations' : conversations'[k] = conversations[k]
        /\ conversations' = [k \in DOMAIN conversations \ {c} |-> conversations[k]]
        /\ UNCHANGED <<seen, pendingIds, pending, streams, turns>>
    BY <2>1 DEF Delete, Restrict
  <2>3. Sound(conversations')
    BY <2>2 DEF ChatInv, Sound
  <2>4. StreamsOwn'
    BY <2>2 DEF ChatInv, StreamsOwn
  <2> QED BY <2>2, <2>3, <2>4 DEF ChatInv
<1> QED BY <1>1, <1>2, <1>3, <1>4

LEMMA EventKeeps ==
  ASSUME ChatInv, NEW s \in streams, TextDelta(s) \/ ToolStatus(s)
  PROVE  ChatInv'
<1>1. PICK next : /\ streams' = (streams \ {s}) \cup {next}
                  /\ next.conversation = s.conversation /\ next.turn = s.turn
                  /\ next.text \subseteq {next.round}
                  /\ next \in [turn : Nat, conversation : Conversations, round : Nat, text : SUBSET Nat]
  <2>1. /\ s \in [turn : Nat, conversation : Conversations, round : Nat, text : SUBSET Nat]
        /\ s.text \subseteq {s.round}
    BY DEF ChatInv, StreamsOwn
  <2>2. CASE TextDelta(s)
    <3> DEFINE next == [s EXCEPT !.text = s.text \cup {s.round}]
    <3>1. streams' = (streams \ {s}) \cup {next}
      BY <2>2 DEF TextDelta, Follow
    <3>2. /\ next.conversation = s.conversation /\ next.turn = s.turn
          /\ next.text \subseteq {next.round}
          /\ next \in [turn : Nat, conversation : Conversations, round : Nat, text : SUBSET Nat]
      BY <2>1
    <3> HIDE DEF next
    <3> QED BY <3>1, <3>2
  <2>3. CASE ToolStatus(s)
    <3> DEFINE mid == [s EXCEPT !.round = s.round + 1]
               next == [mid EXCEPT !.text = {}]
    <3>1. streams' = (streams \ {s}) \cup {next}
      BY <2>3 DEF ToolStatus, Follow
    <3>2. /\ mid.conversation = s.conversation /\ mid.turn = s.turn
          /\ mid \in [turn : Nat, conversation : Conversations, round : Nat, text : SUBSET Nat]
      BY <2>1
    <3> HIDE DEF mid
    <3>3. /\ next.conversation = s.conversation /\ next.turn = s.turn
          /\ next.text \subseteq {next.round}
          /\ next \in [turn : Nat, conversation : Conversations, round : Nat, text : SUBSET Nat]
      BY <3>2
    <3> HIDE DEF next
    <3> QED BY <3>1, <3>3
  <2> QED BY <2>2, <2>3
<1>2. UNCHANGED <<conversations, active, seen, pendingIds, pending, turns>>
  BY DEF TextDelta, ToolStatus, Follow
<1>3. {t.conversation : t \in streams'} = {t.conversation : t \in streams}
  BY <1>1
<1>4. StreamsOwn'
  BY <1>1, <1>2 DEF ChatInv, StreamsOwn
<1> QED BY <1>2, <1>3, <1>4 DEF ChatInv

\* A turn ends: what is left concerns the other conversations.
LEMMA EndKeeps ==
  ASSUME ChatInv, NEW s \in streams, Done(s) \/ Fail(s)
  PROVE  ChatInv'
<1> DEFINE own == s.conversation
<1>1. /\ streams' = streams \ {s} /\ pendingIds' = pendingIds \ {own}
      /\ pending' = pending \ {own}
      /\ UNCHANGED <<active, seen, turns>>
      /\ DOMAIN conversations' = DOMAIN conversations
      /\ \A k \in DOMAIN conversations \ {own} : conversations'[k] = conversations[k]
  BY DEF Done, Fail, End, WithAnswer
<1>2. \A t \in streams' : t \in streams /\ t.conversation # own
  BY <1>1 DEF ChatInv, StreamsOwn
<1>3. StreamsOwn'
  <2> SUFFICES ASSUME NEW t \in streams'
               PROVE  /\ t.conversation \in pendingIds'
                      /\ t.conversation \in DOMAIN conversations' =>
                           EndsWith(conversations'[t.conversation], t.turn)
    BY <1>1 DEF ChatInv, StreamsOwn
  <2> QED BY <1>1, <1>2 DEF ChatInv, StreamsOwn
<1>4. pending' = {t.conversation : t \in streams'}
  BY <1>1, <1>2 DEF ChatInv
<1>5. Sound(conversations')
  <2>1. CASE conversations' = conversations
    BY <2>1 DEF ChatInv
  <2>2. CASE Done(s) /\ own \in DOMAIN conversations
    <3>1. /\ Append(conversations[own], Answered(s)) \in Seq(Message)
          /\ Answers(Append(conversations[own], Answered(s)))
      BY <2>2, AnsweredIsSound DEF ChatInv, StreamsOwn, Sound
    <3>2. conversations'[own] = Append(conversations[own], Answered(s))
      BY <2>2 DEF Done, WithAnswer
    <3>3. \A k \in DOMAIN conversations' : conversations'[k] \in Seq(Message) /\ Answers(conversations'[k])
      BY <1>1, <3>1, <3>2 DEF ChatInv, Sound
    <3>4. conversations' = [k \in DOMAIN conversations' |-> conversations'[k]]
      BY <2>2 DEF Done, WithAnswer
    <3> QED BY <3>3, <3>4 DEF Sound
  <2>3. CASE Done(s) /\ own \notin DOMAIN conversations
    <3>1. conversations' = conversations
      BY <2>3 DEF Done, WithAnswer, ChatInv, Sound
    <3> QED BY <3>1 DEF ChatInv
  <2> QED BY <2>1, <2>2, <2>3 DEF Fail
<1> QED BY <1>1, <1>3, <1>4, <1>5 DEF ChatInv

LEMMA ChatInductive ==
  ASSUME ChatInv, [ChatNext]_chatVars
  PROVE  ChatInv'
<1>1. CASE UNCHANGED chatVars
  BY <1>1 DEF chatVars, ChatInv, StreamsOwn
<1> QED BY <1>1, SendKeeps, ShowingKeeps, EventKeeps, EndKeeps DEF ChatNext

\* Whatever conversations are opened, asked in and deleted while answers stream in,
\* and from however old a rendering, an answer follows its own question, without a
\* draft that was given up, and only a turn under way is shown as one.
THEOREM AnswersHaveQuestions == ChatSpec => []AnswersFollowQuestions
<1>1. ChatInv => AnswersFollowQuestions
  BY DEF ChatInv, Sound, Answers, AnswersFollowQuestions
<1> QED BY <1>1, ChatInitially, ChatInductive, PTL DEF ChatSpec

LEMMA KeptAnswers ==
  ASSUME NEW messages \in Seq(Message), NEW m \in Message
  PROVE  Range(messages) \subseteq Range(Append(messages, m))
<1>1. /\ DOMAIN messages = 1 .. Len(messages) /\ Len(messages) \in Nat
      /\ DOMAIN Append(messages, m) = 1 .. (Len(messages) + 1)
      /\ \A i \in DOMAIN messages : Append(messages, m)[i] = messages[i]
  BY AppendProperties, LenProperties
<1> QED BY <1>1 DEF Range

\* An answer that has arrived is lost only with its conversation, or to a question
\* that is sent from a rendering in which it is not there.
THEOREM AnswersAreLostKnowingly == ChatSpec => AnswersStay
<1> DEFINE Lost(c) == AnswersIn(conversations, c) \ AnswersIn(conversations, c)'
           Explained(m, c) ==
             \/ turns' = turns /\ conversations' = Restrict(conversations, DOMAIN conversations \ {c})
             \/ turns' # turns /\ m \notin AnswersIn(seen.conversations, c)
<1>1. ASSUME ChatInv, NEW s \in streams, Done(s), NEW c \in DOMAIN conversations
      PROVE  AnswersIn(conversations, c) \subseteq AnswersIn(conversations, c)'
  <2>1. CASE c = s.conversation
    <3>1. /\ conversations[c] \in Seq(Message) /\ Answered(s) \in Message
          /\ c \in DOMAIN conversations'
          /\ conversations'[c] = Append(conversations[c], Answered(s))
      BY <1>1, <2>1 DEF ChatInv, Sound, StreamsOwn, Done, WithAnswer, Answered, Message
    <3> QED BY <3>1, KeptAnswers DEF AnswersIn
  <2>2. CASE c # s.conversation
    BY <1>1, <2>2 DEF Done, WithAnswer, AnswersIn
  <2> QED BY <2>1, <2>2
<1>2. ASSUME ChatInv, NEW k \in Conversations, SendMessage(k), NEW c \in DOMAIN conversations
      PROVE  /\ turns' # turns
             /\ AnswersIn(seen.conversations, c) \subseteq AnswersIn(conversations, c)'
  <2> DEFINE known == seen.conversations
  <2>1. turns' = turns + 1 /\ turns \in Nat
    BY <1>2 DEF SendMessage, Ask, ChatInv
  <2>2. CASE c \notin DOMAIN known
    BY <2>1, <2>2 DEF AnswersIn
  <2>3. CASE c \in DOMAIN known /\ c # k
    <3>1. c \in DOMAIN conversations' /\ conversations'[c] = known[c]
      BY <1>2, <2>3 DEF SendMessage, Ask
    <3> QED BY <2>1, <3>1 DEF AnswersIn
  <2>4. CASE c \in DOMAIN known /\ c = k
    <3>1. c \in DOMAIN conversations' /\ conversations'[c] = Append(known[c], Question(turns'))
      BY <1>2, <2>4 DEF SendMessage, Ask
    <3>2. known[c] \in Seq(Message) /\ Question(turns') \in Message
      BY <1>2, <2>1, <2>4 DEF ChatInv, Sound, Question, Message
    <3> QED BY <2>1, <2>4, <3>1, <3>2, KeptAnswers DEF AnswersIn
  <2> QED BY <2>2, <2>3, <2>4
<1>3. ASSUME NEW k \in Conversations, Delete(k), NEW c \in DOMAIN conversations, NEW m \in Lost(c)
      PROVE  Explained(m, c)
  <2>1. /\ conversations' = Restrict(conversations, DOMAIN conversations \ {k})
        /\ turns' = turns
    BY <1>3 DEF Delete
  <2>2. c = k
    <3> SUFFICES ASSUME c # k PROVE FALSE
      OBVIOUS
    <3>1. c \in DOMAIN conversations' /\ conversations'[c] = conversations[c]
      BY <2>1 DEF Restrict
    <3> QED BY <3>1 DEF AnswersIn
  <2> QED BY <2>1, <2>2
<1>4. ASSUME ChatInv, [ChatNext]_chatVars
      PROVE  \A c \in DOMAIN conversations : \A m \in Lost(c) : Explained(m, c)
  <2> SUFFICES ASSUME NEW c \in DOMAIN conversations, NEW m \in Lost(c) PROVE Explained(m, c)
    OBVIOUS
  <2>1. conversations' # conversations
    BY DEF AnswersIn
  <2>2. ASSUME NEW k \in Conversations, SendMessage(k) PROVE Explained(m, c)
    BY <1>2, <1>4, <2>2
  <2>3. ASSUME NEW k \in Conversations, Delete(k) PROVE Explained(m, c)
    BY <1>3, <2>3
  <2>4. ASSUME NEW s \in streams, Done(s) PROVE FALSE
    BY <1>1, <1>4, <2>4
  <2>5. \/ \E k \in Conversations : SendMessage(k) \/ Delete(k)
        \/ \E s \in streams : Done(s)
    BY <1>4, <2>1 DEF ChatNext, chatVars, Render, Reload, Open, TextDelta, ToolStatus, Follow, Fail
  <2> QED BY <2>2, <2>3, <2>4, <2>5
<1>5. ChatInv /\ [ChatNext]_chatVars =>
        [\A c \in DOMAIN conversations :
           \A m \in AnswersIn(conversations, c) \ AnswersIn(conversations', c) :
             \/ turns' = turns /\ conversations' = Restrict(conversations, DOMAIN conversations \ {c})
             \/ turns' # turns /\ m \notin AnswersIn(seen.conversations, c)]_chatVars
  BY <1>4 DEF AnswersIn
<1> QED BY <1>5, ChatInitially, ChatInductive, PTL DEF ChatSpec, AnswersStay

----------------------------------------------------------------------------
(* The Control Tower page. The queries name a shelf, an order, a review or a*)
(* transfer once, so an alert is known by its category and what it is about,*)
(* and a card keeps its key as long as it is shown.                         *)

Piece(a, p) == [run |-> a.runs, payload |-> p]

\* The state of an action whose questions have the payload p.
ActionHolds(a, p) ==
  /\ a \in [open : BOOLEAN, hasRun : BOOLEAN, streaming : BOOLEAN, failed : BOOLEAN,
            text : Seq({Piece(a, p)}), runs : Nat, streams : SUBSET {Piece(a, p)}]
  /\ a.streaming <=> a.streams # {}
  /\ ~a.hasRun => a.runs = 0 /\ ~a.failed /\ a.streams = {}

AlertsDiffer(list) ==
  \A i, j \in DOMAIN list :
    list[i].category = list[j].category /\ list[i].data = list[j].data => i = j

TowerInv ==
  /\ AlertsDiffer(alerts)
  /\ DOMAIN actions = ActionKeys
  /\ \A key \in ActionKeys : ActionHolds(actions[key], Scenario(AlertOf(key)))

----------------------------------------------------------------------------
(* Cards.                                                                  *)

LEMMA KeysAre == \A section, i : KeyAt(section, i) = <<alerts[i].category, alerts[i].data>>
BY DEF KeyAt, AlertKey

LEMMA CardOf ==
  ASSUME AlertsDiffer(alerts), NEW key, NEW section, NEW i, i \in Listed(section), HasAction(section, i),
         key = <<section, KeyAt(section, i)>>
  PROVE  AlertOf(key) = alerts[i]
<1> DEFINE Good(j) == j \in Listed(key[1]) /\ HasAction(key[1], j) /\ KeyAt(key[1], j) = key[2]
<1>1. key[1] = section /\ key[2] = KeyAt(section, i)
  OBVIOUS
<1>2. Good(i)
  BY <1>1
<1>3. ASSUME NEW j, Good(j) PROVE j = i
  <2>1. KeyAt(section, j) = KeyAt(section, i) /\ j \in Listed(section)
    BY <1>1, <1>3
  <2>2. j \in DOMAIN alerts /\ i \in DOMAIN alerts
    BY <2>1 DEF Listed, Filtered
  <2>3. alerts[j].category = alerts[i].category /\ alerts[j].data = alerts[i].data
    BY <2>1, KeysAre
  <2> QED BY <2>2, <2>3 DEF AlertsDiffer
<1>4. AlertOf(key) = alerts[CHOOSE j : Good(j)]
  BY DEF AlertOf
<1> HIDE DEF Good
<1>5. (CHOOSE j : Good(j)) = i
  BY <1>2, <1>3
<1> QED BY <1>4, <1>5

LEMMA KeyHasCard ==
  ASSUME NEW key \in ActionKeys
  PROVE  /\ Shown
         /\ \E section \in DOMAIN Sections : \E i \in Listed(section) :
              HasAction(section, i) /\ key = <<section, KeyAt(section, i)>>
BY DEF ActionKeys, KeysIn

----------------------------------------------------------------------------
(* The alerts.                                                             *)

\* A sequence of alerts of some kinds, each a category and a severity.
AlertsOf(list, kinds) ==
  /\ \E n \in Nat : DOMAIN list = 1..n
  /\ list = [i \in DOMAIN list |-> list[i]]
  /\ \A i \in DOMAIN list : <<list[i].category, list[i].severity>> \in kinds
  /\ AlertsDiffer(list)

LEMMA ConcatIs ==
  ASSUME NEW s, NEW t, NEW m \in Nat, NEW n \in Nat, DOMAIN s = 1..m, DOMAIN t = 1..n,
         s = [i \in DOMAIN s |-> s[i]], t = [i \in DOMAIN t |-> t[i]]
  PROVE  /\ s \o t = [i \in DOMAIN (s \o t) |-> (s \o t)[i]]
         /\ DOMAIN (s \o t) = 1..(m + n)
         /\ \A i \in 1..m : (s \o t)[i] = s[i]
         /\ \A i \in (m + 1)..(m + n) : (s \o t)[i] = t[i - m] /\ i - m \in 1..n
<1> DEFINE S == {s[i] : i \in 1..m} \cup {t[i] : i \in 1..n}
<1>1. s \in [1..m -> S] /\ t \in [1..n -> S]
  OBVIOUS
<1> HIDE DEF S
<1>n. m \in Nat /\ n \in Nat
  OBVIOUS
<1>2. s \in Seq(S) /\ t \in Seq(S) /\ Len(s) = m /\ Len(t) = n
  <2>1. ASSUME NEW u, NEW k \in Nat, u \in [1..k -> S] PROVE u \in Seq(S) /\ Len(u) = k
    BY ONLY <2>1
  <2> QED BY ONLY <1>1, <1>n, <2>1
<1>3. /\ s \o t \in Seq(S) /\ Len(s \o t) = m + n
      /\ \A i \in 1..(m + n) : (s \o t)[i] = IF i <= m THEN s[i] ELSE t[i - m]
  BY <1>2, ConcatProperties
<1>4. PICK u : u = s \o t
  OBVIOUS
<1>5. u \in [1..(m + n) -> S] /\ DOMAIN u = 1..(m + n)
  BY <1>3, <1>4, LenProperties
<1>6. u = [i \in DOMAIN u |-> u[i]]
  BY <1>5
<1>7. (\A i \in 1..m : i \in 1..(m + n) /\ i <= m)
  OBVIOUS
<1>8. \A i \in (m + 1)..(m + n) : i \in 1..(m + n) /\ ~(i <= m) /\ i - m \in 1..n
  OBVIOUS
<1>9. (\A i \in 1..m : u[i] = s[i]) /\ \A i \in (m + 1)..(m + n) : u[i] = t[i - m]
  BY <1>3, <1>4, <1>7, <1>8
<1> QED BY <1>4, <1>5, <1>6, <1>8, <1>9

LEMMA AlertsJoined ==
  ASSUME NEW s, NEW t, NEW C, NEW D, AlertsOf(s, C), AlertsOf(t, D),
         \A c \in C, d \in D : c[1] # d[1]
  PROVE  AlertsOf(s \o t, C \cup D)
<1>1. PICK m \in Nat : DOMAIN s = 1..m
  BY DEF AlertsOf
<1>2. PICK n \in Nat : DOMAIN t = 1..n
  BY DEF AlertsOf
<1>3. PICK u : u = s \o t
  OBVIOUS
<1>4. /\ u = [i \in DOMAIN u |-> u[i]]
      /\ DOMAIN u = 1..(m + n)
      /\ \A i \in 1..m : u[i] = s[i]
      /\ \A i \in (m + 1)..(m + n) : u[i] = t[i - m] /\ i - m \in 1..n
  BY <1>1, <1>2, <1>3, ConcatIs DEF AlertsOf
<1>5. \A i \in DOMAIN u :
        \/ i \in 1..m /\ <<u[i].category, u[i].severity>> \in C
        \/ i \in (m + 1)..(m + n) /\ <<u[i].category, u[i].severity>> \in D
  <2>1. \A i \in 1..(m + n) : i \in 1..m \/ i \in (m + 1)..(m + n)
    OBVIOUS
  <2> QED BY <1>1, <1>2, <1>4, <2>1 DEF AlertsOf
<1>6. AlertsDiffer(u)
  <2>1. SUFFICES ASSUME NEW i \in DOMAIN u, NEW j \in DOMAIN u,
                        u[i].category = u[j].category, u[i].data = u[j].data
                 PROVE  i = j
    BY DEF AlertsDiffer
  <2>2. CASE i \in 1..m /\ j \in 1..m
    BY <1>1, <1>4, <2>1, <2>2 DEF AlertsOf, AlertsDiffer
  <2>3. CASE i \in (m + 1)..(m + n) /\ j \in (m + 1)..(m + n)
    <3>1. u[i] = t[i - m] /\ u[j] = t[j - m] /\ i - m \in DOMAIN t /\ j - m \in DOMAIN t
      BY <1>2, <1>4, <2>3
    <3>2. PICK k \in DOMAIN t, l \in DOMAIN t : k = i - m /\ l = j - m
      BY <3>1
    <3>3. k = l
      BY <2>1, <3>1, <3>2 DEF AlertsOf, AlertsDiffer
    <3> QED BY <2>3, <3>2, <3>3
  <2>4. \A c \in C, d \in D : c[1] # d[1]
    OBVIOUS
  <2>5. ASSUME <<u[i].category, u[i].severity>> \in C, <<u[j].category, u[j].severity>> \in D PROVE FALSE
    BY <2>1, <2>4, <2>5
  <2>6. ASSUME <<u[j].category, u[j].severity>> \in C, <<u[i].category, u[i].severity>> \in D PROVE FALSE
    BY <2>1, <2>4, <2>6
  <2> QED BY <1>5, <2>2, <2>3, <2>5, <2>6
<1>7. m + n \in Nat
  OBVIOUS
<1> QED BY <1>3, <1>4, <1>5, <1>6, <1>7 DEF AlertsOf

LEMMA AlertsFiltered ==
  ASSUME NEW s, NEW C, AlertsOf(s, C), NEW I, I \subseteq DOMAIN s
  PROVE  /\ AlertsOf(AtPlaces(s, I), C)
         /\ \A k \in DOMAIN AtPlaces(s, I) : \E i \in I : AtPlaces(s, I)[k] = s[i]
         /\ \A i \in I : \E k \in DOMAIN AtPlaces(s, I) : AtPlaces(s, I)[k] = s[i]
<1>1. PICK m \in Nat : DOMAIN s = 1..m
  BY DEF AlertsOf
<1>2. PICK u : u = AtPlaces(s, I)
  OBVIOUS
<1>3. PICK n : n = Cardinality(I)
  OBVIOUS
<1>4. /\ n \in Nat /\ DOMAIN u = 1..n
      /\ \A k \in 1..n : NthOf(I, k) \in I /\ u[k] = s[NthOf(I, k)]
      /\ \A k, l \in 1..n : k < l => NthOf(I, k) < NthOf(I, l)
      /\ \A i \in I : \E k \in 1..n : NthOf(I, k) = i
  <2>1. I \subseteq 1..m
    BY <1>1
  <2>2. m \in Nat /\ DOMAIN s = 1..m
    BY <1>1
  <2>3. /\ Cardinality(I) \in Nat
        /\ DOMAIN AtPlaces(s, I) = 1..Cardinality(I)
        /\ \A k \in 1..Cardinality(I) : NthOf(I, k) \in I /\ AtPlaces(s, I)[k] = s[NthOf(I, k)]
        /\ \A k, l \in 1..Cardinality(I) : k < l => NthOf(I, k) < NthOf(I, l)
        /\ \A i \in I : \E k \in 1..Cardinality(I) : NthOf(I, k) = i
    <3>1. Filters(s, I)
      BY ONLY <2>1, <2>2, FilterKeeps
    <3> QED BY ONLY <3>1 DEF Filters
  <2> QED BY ONLY <1>2, <1>3, <2>3
<1>5. u = [i \in DOMAIN u |-> u[i]]
  BY <1>2 DEF AtPlaces
<1>6. \A k, l \in 1..n : NthOf(I, k) = NthOf(I, l) => k = l
  <2>1. SUFFICES ASSUME NEW k \in 1..n, NEW l \in 1..n, NthOf(I, k) = NthOf(I, l) PROVE k = l
    OBVIOUS
  <2>2. NthOf(I, k) \in Nat /\ NthOf(I, l) \in Nat
    BY <1>1, <1>4
  <2>3. ~(k < l) /\ ~(l < k)
    BY <1>4, <2>1, <2>2
  <2> QED BY <1>4, <2>3
<1>7. \A k \in 1..n : NthOf(I, k) \in DOMAIN s
  BY <1>4
<1>8. AlertsDiffer(u)
  BY <1>4, <1>6, <1>7 DEF AlertsDiffer, AlertsOf
<1>9. \A k \in DOMAIN u : <<u[k].category, u[k].severity>> \in C
  BY <1>4, <1>7 DEF AlertsOf
<1> QED BY <1>2, <1>4, <1>5, <1>8, <1>9 DEF AlertsOf

LEMMA ListIs ==
  ASSUME NEW list, list \in Seq(Range(list))
  PROVE  \E n \in Nat : DOMAIN list = 1..n
<1>1. PICK S : S = Range(list)
  OBVIOUS
<1>2. list \in Seq(S)
  BY <1>1
<1> QED BY <1>2, LenProperties

LEMMA OneKind ==
  ASSUME NEW s, NEW n \in Nat, DOMAIN s = 1..n, s = [i \in DOMAIN s |-> s[i]], NEW c, NEW v,
         \A i \in 1..n : s[i].category = c /\ s[i].severity = v,
         \A i, j \in 1..n : s[i].data = s[j].data => i = j
  PROVE  AlertsOf(s, {<<c, v>>})
BY DEF AlertsOf, AlertsDiffer

LEMMA LevelKeeps ==
  ASSUME NEW list, list \in Seq(Range(list)),
         \A i, j \in DOMAIN list : list[i].shelf = list[j].shelf => i = j, NEW level
  PROVE  \E n \in Nat : /\ DOMAIN AtLevel(list, level) = 1..n
                        /\ \A i, j \in 1..n :
                             AtLevel(list, level)[i].shelf = AtLevel(list, level)[j].shelf => i = j
<1>1. PICK m \in Nat : DOMAIN list = 1..m
  BY ListIs
<1>2. PICK I : I = {i \in DOMAIN list : list[i].level = level}
  OBVIOUS
<1>3. I \subseteq 1..m
  BY <1>1, <1>2
<1>m. m \in Nat /\ DOMAIN list = 1..m
  BY <1>1
<1>4. /\ Cardinality(I) \in Nat
      /\ DOMAIN AtPlaces(list, I) = 1..Cardinality(I)
      /\ \A k \in 1..Cardinality(I) : NthOf(I, k) \in I /\ AtPlaces(list, I)[k] = list[NthOf(I, k)]
      /\ \A k, l \in 1..Cardinality(I) : k < l => NthOf(I, k) < NthOf(I, l)
      /\ \A i \in I : \E k \in 1..Cardinality(I) : NthOf(I, k) = i
  <2>1. Filters(list, I)
    BY ONLY <1>3, <1>m, FilterKeeps
  <2> QED BY ONLY <2>1 DEF Filters
<1>5. AtLevel(list, level) = AtPlaces(list, I)
  BY <1>2 DEF AtLevel
<1>6. ASSUME NEW k \in 1..Cardinality(I), NEW l \in 1..Cardinality(I),
             AtPlaces(list, I)[k].shelf = AtPlaces(list, I)[l].shelf
      PROVE  k = l
  <2>1. NthOf(I, k) = NthOf(I, l)
    <3>1. NthOf(I, k) \in DOMAIN list /\ NthOf(I, l) \in DOMAIN list
      BY <1>3, <1>m, <1>4
    <3>2. AtPlaces(list, I)[k] = list[NthOf(I, k)] /\ AtPlaces(list, I)[l] = list[NthOf(I, l)]
      BY <1>4
    <3> QED BY <1>6, <3>1, <3>2
  <2>2. NthOf(I, k) \in Nat /\ NthOf(I, l) \in Nat
    <3>1. 1..m \subseteq Nat
      OBVIOUS
    <3> QED BY ONLY <1>3, <1>4, <3>1
  <2>3. ~(k < l) /\ ~(l < k)
    BY <1>4, <2>1, <2>2
  <2> QED BY <1>4, <2>3
<1> QED BY <1>4, <1>5, <1>6

Kinds ==
  {<<"DEAD_STOCK", "WARNING">>, <<"CONSUMPTION_ANOMALY", "INFO">>, <<"STOCKOUT_RISK", "CRITICAL">>,
   <<"OVERDUE_TRANSACTION", "WARNING">>, <<"PENDING_DOCUMENT_REVIEW", "INFO">>,
   <<"RESTOCK_RECOMMENDATION", "WARNING">>, <<"TRANSFER_RECOMMENDATION", "WARNING">>}

LEMMA UnsortedDiffer ==
  ASSUME NEW facts \in Snapshots
  PROVE  AlertsOf(Unsorted(facts), Kinds)
<1>1. PICK dead : dead = Each(facts.dead, LAMBDA shelf : Alert("DEAD_STOCK", "WARNING", shelf, Null))
  OBVIOUS
<1>2. PICK moved : moved = Each(facts.anomalies, LAMBDA shelf : Alert("CONSUMPTION_ANOMALY", "INFO", shelf, Null))
  OBVIOUS
<1>3. PICK out : out = Each(AtLevel(facts.risk, "OUT_OF_STOCK"),
                            LAMBDA e : Alert("STOCKOUT_RISK", "CRITICAL", e.shelf, Null))
  OBVIOUS
<1>4. PICK late : late = Each(facts.overdue, LAMBDA o : Alert("OVERDUE_TRANSACTION", "WARNING", <<o.id>>, o))
  OBVIOUS
<1>5. PICK open : open = Each(facts.reviews, LAMBDA id : Alert("PENDING_DOCUMENT_REVIEW", "INFO", <<id>>, Null))
  OBVIOUS
<1>6. PICK short : short = Each(AtLevel(facts.restock, "AT_RISK"),
                                LAMBDA e : Alert("RESTOCK_RECOMMENDATION", "WARNING", e.shelf, Null))
  OBVIOUS
<1>7. PICK sent : sent = Each(facts.transfers, LAMBDA t : Alert("TRANSFER_RECOMMENDATION", "WARNING", t, Null))
  OBVIOUS
<1>8. AlertsOf(dead, {<<"DEAD_STOCK", "WARNING">>})
  <2>1. PICK n \in Nat : DOMAIN facts.dead = 1..n
    BY ControlTowerAssumption, ListIs DEF ListBy
  <2>2. \A i, j \in 1..n : facts.dead[i] = facts.dead[j] => i = j
    BY <2>1, ControlTowerAssumption DEF ListBy
  <2>3. DOMAIN dead = 1..n /\ dead = [i \in DOMAIN dead |-> dead[i]]
    BY <1>1, <2>1 DEF Each
  <2>4. \A i \in 1..n : dead[i].category = "DEAD_STOCK" /\ dead[i].severity = "WARNING" /\ dead[i].data = facts.dead[i]
    BY <1>1, <2>1 DEF Each, Alert
  <2>5. \A i, j \in 1..n : dead[i].data = dead[j].data => i = j
    BY <2>2, <2>4
  <2> QED BY <2>3, <2>4, <2>5, OneKind
<1>9. AlertsOf(moved, {<<"CONSUMPTION_ANOMALY", "INFO">>})
  <2>1. PICK n \in Nat : DOMAIN facts.anomalies = 1..n
    BY ControlTowerAssumption, ListIs DEF ListBy
  <2>2. \A i, j \in 1..n : facts.anomalies[i] = facts.anomalies[j] => i = j
    BY <2>1, ControlTowerAssumption DEF ListBy
  <2>3. DOMAIN moved = 1..n /\ moved = [i \in DOMAIN moved |-> moved[i]]
    BY <1>2, <2>1 DEF Each
  <2>4. \A i \in 1..n : moved[i].category = "CONSUMPTION_ANOMALY" /\ moved[i].severity = "INFO" /\ moved[i].data = facts.anomalies[i]
    BY <1>2, <2>1 DEF Each, Alert
  <2>5. \A i, j \in 1..n : moved[i].data = moved[j].data => i = j
    BY <2>2, <2>4
  <2> QED BY <2>3, <2>4, <2>5, OneKind
<1>10. AlertsOf(out, {<<"STOCKOUT_RISK", "CRITICAL">>})
  <2>1. PICK list : list = AtLevel(facts.risk, "OUT_OF_STOCK")
    OBVIOUS
  <2>2. PICK n \in Nat : DOMAIN list = 1..n /\ \A i, j \in 1..n : list[i].shelf = list[j].shelf => i = j
    <3>1. PICK e : e = facts.risk
      OBVIOUS
    <3>2. e \in Seq(Range(e)) /\ \A i, j \in DOMAIN e : e[i].shelf = e[j].shelf => i = j
      BY <3>1, ControlTowerAssumption DEF ListBy
    <3>3. PICK l : l = "OUT_OF_STOCK"
      OBVIOUS
    <3>4. \E n \in Nat : /\ DOMAIN AtLevel(e, l) = 1..n
                         /\ \A i, j \in 1..n : AtLevel(e, l)[i].shelf = AtLevel(e, l)[j].shelf => i = j
      BY ONLY <3>2, LevelKeeps
    <3> QED BY <2>1, <3>1, <3>3, <3>4
  <2>3. DOMAIN out = 1..n /\ out = [i \in DOMAIN out |-> out[i]]
    BY <1>3, <2>1, <2>2 DEF Each
  <2>4. \A i \in 1..n : out[i].category = "STOCKOUT_RISK" /\ out[i].severity = "CRITICAL" /\ out[i].data = list[i].shelf
    BY <1>3, <2>1, <2>2 DEF Each, Alert
  <2>5. \A i, j \in 1..n : out[i].data = out[j].data => i = j
    BY <2>2, <2>4
  <2> QED BY <2>3, <2>4, <2>5, OneKind
<1>11. AlertsOf(late, {<<"OVERDUE_TRANSACTION", "WARNING">>})
  <2>1. PICK n \in Nat : DOMAIN facts.overdue = 1..n
    BY ControlTowerAssumption, ListIs DEF ListBy
  <2>2. \A i, j \in 1..n : facts.overdue[i].id = facts.overdue[j].id => i = j
    BY <2>1, ControlTowerAssumption DEF ListBy
  <2>3. DOMAIN late = 1..n /\ late = [i \in DOMAIN late |-> late[i]]
    BY <1>4, <2>1 DEF Each
  <2>4. \A i \in 1..n : /\ late[i].category = "OVERDUE_TRANSACTION" /\ late[i].severity = "WARNING"
                        /\ late[i].data = <<facts.overdue[i].id>>
    BY <1>4, <2>1 DEF Each, Alert
  <2>5. \A i, j \in 1..n : late[i].data = late[j].data => i = j
    BY <2>2, <2>4
  <2> QED BY <2>3, <2>4, <2>5, OneKind
<1>12. AlertsOf(open, {<<"PENDING_DOCUMENT_REVIEW", "INFO">>})
  <2>1. PICK n \in Nat : DOMAIN facts.reviews = 1..n
    BY ControlTowerAssumption, ListIs DEF ListBy
  <2>2. \A i, j \in 1..n : facts.reviews[i] = facts.reviews[j] => i = j
    BY <2>1, ControlTowerAssumption DEF ListBy
  <2>3. DOMAIN open = 1..n /\ open = [i \in DOMAIN open |-> open[i]]
    BY <1>5, <2>1 DEF Each
  <2>4. \A i \in 1..n : /\ open[i].category = "PENDING_DOCUMENT_REVIEW" /\ open[i].severity = "INFO"
                        /\ open[i].data = <<facts.reviews[i]>>
    BY <1>5, <2>1 DEF Each, Alert
  <2>5. \A i, j \in 1..n : open[i].data = open[j].data => i = j
    BY <2>2, <2>4
  <2> QED BY <2>3, <2>4, <2>5, OneKind
<1>13. AlertsOf(short, {<<"RESTOCK_RECOMMENDATION", "WARNING">>})
  <2>1. PICK list : list = AtLevel(facts.restock, "AT_RISK")
    OBVIOUS
  <2>2. PICK n \in Nat : DOMAIN list = 1..n /\ \A i, j \in 1..n : list[i].shelf = list[j].shelf => i = j
    <3>1. PICK e : e = facts.restock
      OBVIOUS
    <3>2. e \in Seq(Range(e)) /\ \A i, j \in DOMAIN e : e[i].shelf = e[j].shelf => i = j
      BY <3>1, ControlTowerAssumption DEF ListBy
    <3>3. PICK l : l = "AT_RISK"
      OBVIOUS
    <3>4. \E n \in Nat : /\ DOMAIN AtLevel(e, l) = 1..n
                         /\ \A i, j \in 1..n : AtLevel(e, l)[i].shelf = AtLevel(e, l)[j].shelf => i = j
      BY ONLY <3>2, LevelKeeps
    <3> QED BY <2>1, <3>1, <3>3, <3>4
  <2>3. DOMAIN short = 1..n /\ short = [i \in DOMAIN short |-> short[i]]
    BY <1>6, <2>1, <2>2 DEF Each
  <2>4. \A i \in 1..n : short[i].category = "RESTOCK_RECOMMENDATION" /\ short[i].severity = "WARNING" /\ short[i].data = list[i].shelf
    BY <1>6, <2>1, <2>2 DEF Each, Alert
  <2>5. \A i, j \in 1..n : short[i].data = short[j].data => i = j
    BY <2>2, <2>4
  <2> QED BY <2>3, <2>4, <2>5, OneKind
<1>14. AlertsOf(sent, {<<"TRANSFER_RECOMMENDATION", "WARNING">>})
  <2>1. PICK n \in Nat : DOMAIN facts.transfers = 1..n
    BY ControlTowerAssumption, ListIs DEF ListBy
  <2>2. \A i, j \in 1..n : facts.transfers[i] = facts.transfers[j] => i = j
    BY <2>1, ControlTowerAssumption DEF ListBy
  <2>3. DOMAIN sent = 1..n /\ sent = [i \in DOMAIN sent |-> sent[i]]
    BY <1>7, <2>1 DEF Each
  <2>4. \A i \in 1..n : sent[i].category = "TRANSFER_RECOMMENDATION" /\ sent[i].severity = "WARNING" /\ sent[i].data = facts.transfers[i]
    BY <1>7, <2>1 DEF Each, Alert
  <2>5. \A i, j \in 1..n : sent[i].data = sent[j].data => i = j
    BY <2>2, <2>4
  <2> QED BY <2>3, <2>4, <2>5, OneKind
<1>15. Unsorted(facts) = dead \o moved \o out \o late \o open \o short \o sent
  BY <1>1, <1>2, <1>3, <1>4, <1>5, <1>6, <1>7 DEF Unsorted
<1> DEFINE k1 == <<"DEAD_STOCK", "WARNING">>
           k2 == <<"CONSUMPTION_ANOMALY", "INFO">>
           k3 == <<"STOCKOUT_RISK", "CRITICAL">>
           k4 == <<"OVERDUE_TRANSACTION", "WARNING">>
           k5 == <<"PENDING_DOCUMENT_REVIEW", "INFO">>
           k6 == <<"RESTOCK_RECOMMENDATION", "WARNING">>
           k7 == <<"TRANSFER_RECOMMENDATION", "WARNING">>
<1>16. /\ \A c \in {k1}, d \in {k2} : c[1] # d[1]
       /\ \A c \in {k1} \cup {k2}, d \in {k3} : c[1] # d[1]
       /\ \A c \in {k1} \cup {k2} \cup {k3}, d \in {k4} : c[1] # d[1]
       /\ \A c \in {k1} \cup {k2} \cup {k3} \cup {k4}, d \in {k5} : c[1] # d[1]
       /\ \A c \in {k1} \cup {k2} \cup {k3} \cup {k4} \cup {k5}, d \in {k6} : c[1] # d[1]
       /\ \A c \in {k1} \cup {k2} \cup {k3} \cup {k4} \cup {k5} \cup {k6}, d \in {k7} : c[1] # d[1]
  OBVIOUS
<1>17. Kinds = {k1} \cup {k2} \cup {k3} \cup {k4} \cup {k5} \cup {k6} \cup {k7}
  BY DEF Kinds
<1> HIDE DEF k1, k2, k3, k4, k5, k6, k7
<1>18. /\ AlertsOf(dead, {k1}) /\ AlertsOf(moved, {k2}) /\ AlertsOf(out, {k3}) /\ AlertsOf(late, {k4})
       /\ AlertsOf(open, {k5}) /\ AlertsOf(short, {k6}) /\ AlertsOf(sent, {k7})
  BY <1>8, <1>9, <1>10, <1>11, <1>12, <1>13, <1>14 DEF k1, k2, k3, k4, k5, k6, k7
<1>19. AlertsOf(dead \o moved, {k1} \cup {k2})
  BY <1>16, <1>18, AlertsJoined
<1>20. AlertsOf(dead \o moved \o out, {k1} \cup {k2} \cup {k3})
  BY <1>16, <1>18, <1>19, AlertsJoined
<1>21. AlertsOf(dead \o moved \o out \o late, {k1} \cup {k2} \cup {k3} \cup {k4})
  BY <1>16, <1>18, <1>20, AlertsJoined
<1>22. AlertsOf(dead \o moved \o out \o late \o open, {k1} \cup {k2} \cup {k3} \cup {k4} \cup {k5})
  BY <1>16, <1>18, <1>21, AlertsJoined
<1>23. AlertsOf(dead \o moved \o out \o late \o open \o short,
                {k1} \cup {k2} \cup {k3} \cup {k4} \cup {k5} \cup {k6})
  BY <1>16, <1>18, <1>22, AlertsJoined
<1>24. AlertsOf(dead \o moved \o out \o late \o open \o short \o sent,
                {k1} \cup {k2} \cup {k3} \cup {k4} \cup {k5} \cup {k6} \cup {k7})
  BY <1>16, <1>18, <1>23, AlertsJoined
<1> QED BY <1>15, <1>17, <1>24

LEMMA SeverityOf ==
  ASSUME NEW s, NEW C, AlertsOf(s, C), NEW v
  PROVE  AlertsOf(OfSeverity(s, v), {c \in C : c[2] = v})
<1>1. PICK I : I = {i \in DOMAIN s : s[i].severity = v}
  OBVIOUS
<1>2. I \subseteq DOMAIN s
  BY <1>1
<1>3. /\ AlertsOf(AtPlaces(s, I), C)
      /\ \A k \in DOMAIN AtPlaces(s, I) : \E i \in I : AtPlaces(s, I)[k] = s[i]
  BY <1>2, AlertsFiltered
<1>4. PICK u : u = AtPlaces(s, I)
  OBVIOUS
<1>5. \A k \in DOMAIN u : u[k].severity = v
  BY <1>1, <1>3, <1>4
<1>6. AlertsOf(u, {c \in C : c[2] = v})
  BY <1>3, <1>4, <1>5 DEF AlertsOf
<1> QED BY <1>1, <1>4, <1>6 DEF OfSeverity

LEMMA AlertsAreDifferent ==
  ASSUME NEW facts \in Snapshots
  PROVE  AlertsDiffer(Alerts(facts))
<1> DEFINE Of(v) == {c \in Kinds : c[2] = v}
<1>1. PICK s : s = Unsorted(facts)
  OBVIOUS
<1>2. AlertsOf(s, Kinds)
  BY <1>1, UnsortedDiffer
<1>3. \A c, d \in Kinds : c[1] = d[1] => c = d
  BY DEF Kinds
<1>4. \A c \in Of("CRITICAL"), d \in Of("WARNING") : c[1] # d[1]
  BY <1>3
<1>5. \A c \in Of("CRITICAL") \cup Of("WARNING"), d \in Of("INFO") : c[1] # d[1]
  BY <1>3
<1>6. /\ AlertsOf(OfSeverity(s, "CRITICAL"), Of("CRITICAL"))
      /\ AlertsOf(OfSeverity(s, "WARNING"), Of("WARNING"))
      /\ AlertsOf(OfSeverity(s, "INFO"), Of("INFO"))
  BY <1>2, SeverityOf
<1> HIDE DEF Of
<1>7. AlertsOf(OfSeverity(s, "CRITICAL") \o OfSeverity(s, "WARNING"), Of("CRITICAL") \cup Of("WARNING"))
  BY <1>4, <1>6, AlertsJoined
<1>8. AlertsOf(OfSeverity(s, "CRITICAL") \o OfSeverity(s, "WARNING") \o OfSeverity(s, "INFO"),
               Of("CRITICAL") \cup Of("WARNING") \cup Of("INFO"))
  BY <1>5, <1>6, <1>7, AlertsJoined
<1> QED BY <1>1, <1>8 DEF Alerts, AlertsOf

----------------------------------------------------------------------------
(* One action.                                                             *)

LEMMA MountedHolds ==
  ASSUME NEW p
  PROVE  ActionHolds(Mounted, p)
<1>1. <<>> \in Seq({Piece(Mounted, p)})
  OBVIOUS
<1> QED BY <1>1 DEF ActionHolds, Mounted

LEMMA RunHolds ==
  ASSUME NEW a, NEW alert, ActionHolds(a, Scenario(alert)), a.hasRun
  PROVE  /\ ActionHolds(RunRecommendation(a, alert), Scenario(alert))
         /\ RunRecommendation(a, alert).runs > a.runs => ~a.streaming
<1>1. PICK p : p = Scenario(alert)
  OBVIOUS
<1>2. CASE a.streaming \/ a.runs = MaxAnswers
  BY <1>2 DEF RunRecommendation, ActionHolds
<1>3. CASE ~(a.streaming \/ a.runs = MaxAnswers)
  <2>1. PICK b : b = RunRecommendation(a, alert)
    OBVIOUS
  <2>2. b = [a EXCEPT !.streaming = TRUE, !.failed = FALSE, !.text = <<>>, !.runs = @ + 1,
               !.streams = @ \cup {[run |-> a.runs + 1, payload |-> p]}]
    BY <1>1, <1>3, <2>1 DEF RunRecommendation
  <2>3. a \in [open : BOOLEAN, hasRun : BOOLEAN, streaming : BOOLEAN, failed : BOOLEAN,
               text : Seq({Piece(a, p)}), runs : Nat, streams : SUBSET {Piece(a, p)}]
    BY <1>1 DEF ActionHolds
  <2>4. a.streams = {}
    BY <1>3 DEF ActionHolds
  <2>5. PICK q : q = [run |-> a.runs + 1, payload |-> p]
    OBVIOUS
  <2>6. b = [open |-> a.open, hasRun |-> a.hasRun, streaming |-> TRUE, failed |-> FALSE,
             text |-> <<>>, runs |-> a.runs + 1, streams |-> {q}]
    BY <2>2, <2>3, <2>4, <2>5
  <2>7. Piece(b, p) = q
    BY <2>5, <2>6 DEF Piece
  <2>8. <<>> \in Seq({q})
    OBVIOUS
  <2>9. b \in [open : BOOLEAN, hasRun : BOOLEAN, streaming : BOOLEAN, failed : BOOLEAN,
               text : Seq({q}), runs : Nat, streams : SUBSET {q}]
    BY <2>3, <2>6, <2>8
  <2>10. b.streaming /\ b.streams # {} /\ b.hasRun
    BY <2>6
  <2> QED BY <1>1, <1>3, <2>1, <2>7, <2>9, <2>10 DEF ActionHolds
<1> QED BY <1>2, <1>3

LEMMA ToggleHolds ==
  ASSUME NEW a, NEW alert, ActionHolds(a, Scenario(alert)), NEW b, NEW t,
         t = [a EXCEPT !.open = ~@],
         b = IF t.open /\ ~t.hasRun THEN RunRecommendation([t EXCEPT !.hasRun = TRUE], alert) ELSE t
  PROVE  /\ ActionHolds(b, Scenario(alert))
         /\ b.runs > a.runs => a.runs = 0
<1>1. PICK p : p = Scenario(alert)
  OBVIOUS
<1>2. a \in [open : BOOLEAN, hasRun : BOOLEAN, streaming : BOOLEAN, failed : BOOLEAN,
             text : Seq({Piece(a, p)}), runs : Nat, streams : SUBSET {Piece(a, p)}]
  BY <1>1 DEF ActionHolds
<1>3. t = [open |-> ~a.open, hasRun |-> a.hasRun, streaming |-> a.streaming, failed |-> a.failed,
           text |-> a.text, runs |-> a.runs, streams |-> a.streams]
  BY <1>2
<1>4. Piece(t, p) = Piece(a, p)
  BY <1>3 DEF Piece
<1>5. t \in [open : BOOLEAN, hasRun : BOOLEAN, streaming : BOOLEAN, failed : BOOLEAN,
             text : Seq({Piece(a, p)}), runs : Nat, streams : SUBSET {Piece(a, p)}]
  BY <1>2, <1>3
<1>6. ActionHolds(t, p)
  BY <1>1, <1>3, <1>4, <1>5 DEF ActionHolds
<1>7. CASE t.open /\ ~t.hasRun
  <2>1. PICK u : u = [t EXCEPT !.hasRun = TRUE]
    OBVIOUS
  <2>2. u = [open |-> t.open, hasRun |-> TRUE, streaming |-> t.streaming, failed |-> t.failed,
             text |-> t.text, runs |-> t.runs, streams |-> t.streams]
    BY <1>5, <2>1
  <2>3. Piece(u, p) = Piece(a, p)
    BY <1>4, <2>2 DEF Piece
  <2>4. u \in [open : BOOLEAN, hasRun : BOOLEAN, streaming : BOOLEAN, failed : BOOLEAN,
               text : Seq({Piece(a, p)}), runs : Nat, streams : SUBSET {Piece(a, p)}]
    BY <1>5, <2>2
  <2>5. ActionHolds(u, p) /\ u.hasRun
    BY <1>6, <2>2, <2>3, <2>4 DEF ActionHolds
  <2>6. b = RunRecommendation(u, alert)
    BY <1>7, <2>1
  <2>7. ActionHolds(b, p)
    BY <1>1, <2>5, <2>6, RunHolds
  <2>8. a.runs = 0
    BY <1>7, <1>3 DEF ActionHolds
  <2>9. ActionHolds(b, Scenario(alert))
    BY ONLY <1>1, <2>7
  <2> QED BY ONLY <2>8, <2>9
<1>8. CASE ~(t.open /\ ~t.hasRun)
  <2>1. b = t /\ t.runs = a.runs /\ a.runs \in Nat
    BY <1>2, <1>3, <1>8
  <2>2. ActionHolds(b, Scenario(alert))
    BY ONLY <1>1, <1>6, <2>1
  <2>3. ~(b.runs > a.runs)
    BY ONLY <2>1
  <2> QED BY ONLY <2>2, <2>3
<1> QED BY <1>7, <1>8

LEMMA TokenHolds ==
  ASSUME NEW a, NEW p, ActionHolds(a, p), NEW stream \in a.streams
  PROVE  /\ ActionHolds([a EXCEPT !.text = Append(@, stream)], p)
         /\ [a EXCEPT !.text = Append(@, stream)].runs = a.runs
<1>1. a \in [open : BOOLEAN, hasRun : BOOLEAN, streaming : BOOLEAN, failed : BOOLEAN,
             text : Seq({Piece(a, p)}), runs : Nat, streams : SUBSET {Piece(a, p)}]
  BY DEF ActionHolds
<1>2. PICK q : q = Piece(a, p)
  OBVIOUS
<1>3. stream \in {q}
  BY <1>1, <1>2
<1>4. PICK s : s = Append(a.text, stream)
  OBVIOUS
<1>5. s \in Seq({q})
  <2>1. PICK t : t = a.text
    OBVIOUS
  <2>2. t \in Seq({q})
    BY <1>1, <1>2, <2>1
  <2>3. Append(t, stream) \in Seq({q})
    BY ONLY <1>3, <2>2, AppendProperties
  <2> QED BY <1>4, <2>1, <2>3
<1>6. PICK b : b = [a EXCEPT !.text = Append(@, stream)]
  OBVIOUS
<1>7. b = [open |-> a.open, hasRun |-> a.hasRun, streaming |-> a.streaming, failed |-> a.failed,
           text |-> s, runs |-> a.runs, streams |-> a.streams]
  BY <1>1, <1>4, <1>6
<1>8. Piece(b, p) = q
  BY <1>2, <1>7 DEF Piece
<1>9. b \in [open : BOOLEAN, hasRun : BOOLEAN, streaming : BOOLEAN, failed : BOOLEAN,
             text : Seq({q}), runs : Nat, streams : SUBSET {q}]
  BY <1>1, <1>2, <1>5, <1>7
<1>10. ActionHolds(b, p)
  BY <1>7, <1>8, <1>9 DEF ActionHolds
<1> QED BY <1>6, <1>7, <1>10

LEMMA ServedHolds ==
  ASSUME NEW a, NEW p, ActionHolds(a, p), NEW stream \in a.streams
  PROVE  ActionHolds(Served(a, stream), p) /\ Served(a, stream).runs = a.runs
<1>1. a \in [open : BOOLEAN, hasRun : BOOLEAN, streaming : BOOLEAN, failed : BOOLEAN,
             text : Seq({Piece(a, p)}), runs : Nat, streams : SUBSET {Piece(a, p)}]
  BY DEF ActionHolds
<1>2. a.streams \ {stream} = {} /\ a.hasRun
  BY <1>1 DEF ActionHolds
<1>3. PICK b : b = Served(a, stream)
  OBVIOUS
<1>4. b = [open |-> a.open, hasRun |-> a.hasRun, streaming |-> FALSE, failed |-> a.failed,
           text |-> a.text, runs |-> a.runs, streams |-> {}]
  BY <1>1, <1>2, <1>3 DEF Served
<1>5. Piece(b, p) = Piece(a, p)
  BY <1>4 DEF Piece
<1>6. b \in [open : BOOLEAN, hasRun : BOOLEAN, streaming : BOOLEAN, failed : BOOLEAN,
             text : Seq({Piece(a, p)}), runs : Nat, streams : SUBSET {Piece(a, p)}]
  BY <1>1, <1>4
<1>7. /\ b.streaming = FALSE /\ b.streams = {} /\ b.runs = a.runs
      /\ b.hasRun = a.hasRun
  BY ONLY <1>4
<1>8. ActionHolds(b, p)
  BY ONLY <1>2, <1>5, <1>6, <1>7 DEF ActionHolds
<1> QED BY ONLY <1>3, <1>7, <1>8

LEMMA FailedHolds ==
  ASSUME NEW a, NEW p, ActionHolds(a, p), NEW stream \in a.streams
  PROVE  ActionHolds(Failed(a, stream), p) /\ Failed(a, stream).runs = a.runs
<1>1. a \in [open : BOOLEAN, hasRun : BOOLEAN, streaming : BOOLEAN, failed : BOOLEAN,
             text : Seq({Piece(a, p)}), runs : Nat, streams : SUBSET {Piece(a, p)}]
  BY DEF ActionHolds
<1>2. a.streams \ {stream} = {} /\ a.hasRun
  BY <1>1 DEF ActionHolds
<1>3. PICK b : b = Failed(a, stream)
  OBVIOUS
<1>4. b = [open |-> a.open, hasRun |-> a.hasRun, streaming |-> FALSE, failed |-> TRUE,
           text |-> a.text, runs |-> a.runs, streams |-> {}]
  BY <1>1, <1>2, <1>3 DEF Failed
<1>5. Piece(b, p) = Piece(a, p)
  BY <1>4 DEF Piece
<1>6. b \in [open : BOOLEAN, hasRun : BOOLEAN, streaming : BOOLEAN, failed : BOOLEAN,
             text : Seq({Piece(a, p)}), runs : Nat, streams : SUBSET {Piece(a, p)}]
  BY <1>1, <1>4
<1>7. /\ b.streaming = FALSE /\ b.streams = {} /\ b.runs = a.runs
      /\ b.hasRun = a.hasRun
  BY ONLY <1>4
<1>8. ActionHolds(b, p)
  BY ONLY <1>2, <1>5, <1>6, <1>7 DEF ActionHolds
<1> QED BY ONLY <1>3, <1>7, <1>8

----------------------------------------------------------------------------
(* The page.                                                               *)

\* What a card is, in one formula of the state.
CardsAre ==
  AlertsDiffer(alerts) =>
    \A section : \A i \in Listed(section) :
      HasAction(section, i) =>
        AlertOf(<<section, <<alerts[i].category, alerts[i].data>>>>) = alerts[i]

LEMMA Cards == CardsAre
<1>1. SUFFICES ASSUME AlertsDiffer(alerts), NEW section, NEW i \in Listed(section), HasAction(section, i)
               PROVE  AlertOf(<<section, <<alerts[i].category, alerts[i].data>>>>) = alerts[i]
  BY DEF CardsAre
<1>2. PICK key : key = <<section, KeyAt(section, i)>>
  OBVIOUS
<1>3. AlertOf(key) = alerts[i]
  BY <1>1, <1>2, CardOf
<1> QED BY <1>2, <1>3, KeysAre

KeysHaveCards ==
  \A key \in ActionKeys :
    /\ Shown
    /\ \E section \in DOMAIN Sections : \E i \in Listed(section) :
         HasAction(section, i) /\ key = <<section, <<alerts[i].category, alerts[i].data>>>>

LEMMA KeysWithCards == KeysHaveCards
BY KeyHasCard, KeysAre DEF KeysHaveCards

\* A step that touches one action only.
LEMMA UpdateKeeps ==
  ASSUME TowerInv, NEW key \in DOMAIN actions, NEW action, Update(key, action),
         ActionHolds(action, Scenario(AlertOf(key)))
  PROVE  TowerInv'
<1>1. ActionKeys' = ActionKeys /\ (\A k : AlertOf(k)' = AlertOf(k)) /\ alerts' = alerts
  BY DEF Update, ActionKeys, Shown, KeysIn, Listed, Filtered, HasAction, IsFirstOverdue, KeyAt, Place, AlertOf
<1>2. DOMAIN actions' = ActionKeys'
  BY <1>1 DEF Update, TowerInv
<1>3. ASSUME NEW k \in ActionKeys' PROVE ActionHolds(actions'[k], Scenario(AlertOf(k)'))
  <2>1. k \in ActionKeys /\ AlertOf(k)' = AlertOf(k) /\ key \in DOMAIN actions /\ DOMAIN actions = ActionKeys
    BY <1>1, <1>3 DEF TowerInv
  <2>2. CASE k = key
    BY <2>1, <2>2 DEF Update
  <2>3. CASE k # key
    <3>1. actions'[k] = actions[k]
      BY <2>1, <2>3 DEF Update
    <3> QED BY <2>1, <3>1 DEF TowerInv
  <2> QED BY <2>2, <2>3
<1> QED BY <1>1, <1>2, <1>3 DEF TowerInv

\* A step from a page that is not shown mounts everything anew.
LEMMA NothingWasShown ==
  ASSUME TowerInv, ~Shown, Reconcile, AlertsDiffer(alerts')
  PROVE  TowerInv'
<1>1. DOMAIN actions = {}
  BY DEF TowerInv, ActionKeys
<1>2. actions' = [key \in ActionKeys' |-> Mounted]
  BY <1>1 DEF Reconcile
<1>3. \A key \in ActionKeys' : ActionHolds(actions'[key], Scenario(AlertOf(key)'))
  BY <1>2, MountedHolds
<1> QED BY <1>2, <1>3 DEF TowerInv

LEMMA FiltersKeep ==
  ASSUME TowerInv, NEW f, SetFilters(f), CardsAre', KeysHaveCards'
  PROVE  /\ TowerInv'
         /\ \A key \in DOMAIN actions \cap DOMAIN actions' :
              actions'[key] = actions[key] /\ AlertOf(key)' = AlertOf(key)
<1>1. alerts' = alerts /\ AlertsDiffer(alerts) /\ AlertsDiffer(alerts')
  BY DEF SetFilters, TowerInv
<1>2. ASSUME NEW key, key \in ActionKeys, key \in ActionKeys' PROVE AlertOf(key)' = AlertOf(key)
  <2>1. PICK s \in DOMAIN Sections : \E i \in Listed(s) :
          HasAction(s, i) /\ key = <<s, <<alerts[i].category, alerts[i].data>>>>
    BY <1>2, KeysWithCards DEF KeysHaveCards
  <2>2. PICK i \in Listed(s) : HasAction(s, i) /\ key = <<s, <<alerts[i].category, alerts[i].data>>>>
    BY <2>1
  <2>3. PICK t \in DOMAIN Sections : \E j \in Listed(t)' :
          HasAction(t, j)' /\ key = <<t, <<alerts'[j].category, alerts'[j].data>>>>
    BY <1>2 DEF KeysHaveCards
  <2>4. PICK j \in Listed(t)' : HasAction(t, j)' /\ key = <<t, <<alerts'[j].category, alerts'[j].data>>>>
    BY <2>3
  <2>5. i \in DOMAIN alerts /\ j \in DOMAIN alerts'
    BY <2>2, <2>4 DEF Listed, Filtered
  <2>6. alerts[i].category = alerts[j].category /\ alerts[i].data = alerts[j].data /\ s = t
    BY <1>1, <2>2, <2>4
  <2>7. i = j
    BY <1>1, <2>5, <2>6 DEF AlertsDiffer
  <2>8. AlertOf(key) = alerts[i]
    BY <1>1, <2>2, Cards DEF CardsAre
  <2>9. AlertOf(key)' = alerts'[j]
    BY <1>1, <2>4 DEF CardsAre
  <2> QED BY <1>1, <2>7, <2>8, <2>9
<1>3. DOMAIN actions' = ActionKeys' /\ DOMAIN actions = ActionKeys
  BY DEF SetFilters, Reconcile, TowerInv
<1>4. \A key \in ActionKeys' : actions'[key] = IF key \in DOMAIN actions THEN actions[key] ELSE Mounted
  BY DEF SetFilters, Reconcile
<1>5. ASSUME NEW key \in ActionKeys' PROVE ActionHolds(actions'[key], Scenario(AlertOf(key)'))
  <2>1. CASE key \in DOMAIN actions
    <3>1. AlertOf(key)' = AlertOf(key) /\ actions'[key] = actions[key]
      BY <1>2, <1>3, <1>4, <2>1
    <3> QED BY <1>3, <2>1, <3>1 DEF TowerInv
  <2>2. CASE key \notin DOMAIN actions
    BY <1>4, <1>5, <2>2, MountedHolds
  <2> QED BY <2>1, <2>2
<1>6. TowerInv'
  BY <1>1, <1>3, <1>5 DEF TowerInv
<1>7. \A key \in DOMAIN actions \cap DOMAIN actions' :
         actions'[key] = actions[key] /\ AlertOf(key)' = AlertOf(key)
  BY <1>2, <1>3, <1>4
<1> QED BY <1>6, <1>7

\* A step of one action, and what it does to the number of its questions.
LEMMA ActionSteps ==
  ASSUME TowerInv, NEW key \in DOMAIN actions, Toggle(key) \/ TryAgain(key) \/ Streams(key)
  PROVE  \E action : /\ Update(key, action)
                     /\ ActionHolds(action, Scenario(AlertOf(key)))
                     /\ action.runs > actions[key].runs =>
                          actions[key].failed \/ actions[key].runs = 0
<1>1. PICK a : a = actions[key]
  OBVIOUS
<1>2. PICK alert : alert = AlertOf(key)
  OBVIOUS
<1>3. ActionHolds(a, Scenario(alert))
  BY <1>1, <1>2 DEF TowerInv
<1>4. CASE Toggle(key)
  <2>1. PICK t : t = [a EXCEPT !.open = ~@]
    OBVIOUS
  <2>2. PICK b : b = IF t.open /\ ~t.hasRun THEN RunRecommendation([t EXCEPT !.hasRun = TRUE], alert) ELSE t
    OBVIOUS
  <2>3. Update(key, b)
    BY <1>1, <1>2, <1>4, <2>1, <2>2 DEF Toggle
  <2>4. ActionHolds(b, Scenario(alert)) /\ (b.runs > a.runs => a.runs = 0)
    BY ONLY <1>3, <2>1, <2>2, ToggleHolds
  <2> QED BY <1>1, <1>2, <2>3, <2>4
<1>5. CASE TryAgain(key)
  <2>1. PICK b : b = RunRecommendation(a, alert)
    OBVIOUS
  <2>2. Update(key, b) /\ a.failed
    BY <1>1, <1>2, <1>5, <2>1 DEF TryAgain
  <2>3. a.hasRun
    BY <1>3, <2>2 DEF ActionHolds
  <2>4. ActionHolds(b, Scenario(alert))
    BY <1>3, <2>1, <2>3, RunHolds
  <2> QED BY <1>1, <1>2, <2>2, <2>4
<1>6. CASE Streams(key)
  <2>1. PICK stream \in a.streams :
          Token(key, stream) \/ DoneEvent(key, stream) \/ Error(key, stream) \/ Closed(key, stream)
    BY <1>1, <1>6 DEF Streams
  <2>2. PICK p : p = Scenario(alert)
    OBVIOUS
  <2>3. ActionHolds(a, p)
    BY <1>3, <2>2
  <2>4. PICK n : n = a.runs
    OBVIOUS
  <2>5. n \in Nat
    BY <2>3, <2>4 DEF ActionHolds
  <2>6. \E b : Update(key, b) /\ ActionHolds(b, p) /\ b.runs = n
    <3>1. CASE Token(key, stream)
      <4>1. PICK b : b = [a EXCEPT !.text = Append(@, stream)]
        OBVIOUS
      <4>2. Update(key, b)
        BY <1>1, <3>1, <4>1 DEF Token
      <4>3. ActionHolds(b, p) /\ b.runs = n
        BY <2>3, <2>4, <4>1, TokenHolds
      <4> QED BY <4>2, <4>3
    <3>2. PICK b : b = Served(a, stream)
      OBVIOUS
    <3>3. PICK c : c = Failed(a, stream)
      OBVIOUS
    <3>4. ActionHolds(b, p) /\ b.runs = n
      BY <2>3, <2>4, <3>2, ServedHolds
    <3>5. ActionHolds(c, p) /\ c.runs = n
      BY <2>3, <2>4, <3>3, FailedHolds
    <3>6. CASE Update(key, b) \/ Update(key, c)
      BY <3>4, <3>5, <3>6
    <3>7. CASE DoneEvent(key, stream)
      BY <1>1, <3>2, <3>6, <3>7 DEF DoneEvent
    <3>8. CASE Error(key, stream)
      BY <1>1, <3>3, <3>6, <3>8 DEF Error
    <3>9. CASE Closed(key, stream)
      BY <1>1, <3>2, <3>3, <3>6, <3>9 DEF Closed
    <3> QED BY <2>1, <3>1, <3>7, <3>8, <3>9
  <2>7. PICK b : Update(key, b) /\ ActionHolds(b, p) /\ b.runs = n
    BY <2>6
  <2>8. ~(b.runs > a.runs)
    BY <2>4, <2>5, <2>7
  <2> QED BY <1>1, <1>2, <2>2, <2>7, <2>8
<1> QED BY <1>4, <1>5, <1>6

LEMMA TowerStep ==
  ASSUME TowerInv, [PageNext]_pageVars, CardsAre', KeysHaveCards'
  PROVE  TowerInv'
<1>1. ASSUME NEW r \in Resources, Fetched(r) PROVE TowerInv'
  <2>1. ~Shown /\ Reconcile
    BY <1>1 DEF Fetched, Shown
  <2>2. AlertsDiffer(alerts')
    BY <1>1, AlertsAreDifferent DEF Fetched, TowerInv
  <2> QED BY <2>1, <2>2, NothingWasShown
<1>2. ASSUME NEW r \in Resources, FetchFails(r) PROVE TowerInv'
  <2>1. ~Shown /\ Reconcile
    BY <1>2 DEF FetchFails, Shown
  <2>2. AlertsDiffer(alerts')
    BY <1>2 DEF FetchFails, TowerInv, AlertsDiffer
  <2> QED BY <2>1, <2>2, NothingWasShown
<1>3. CASE ReloadPage
  <2>1. ~Shown /\ Reconcile /\ alerts' = alerts
    BY <1>3 DEF ReloadPage
  <2>2. AlertsDiffer(alerts')
    BY <2>1 DEF TowerInv
  <2> QED BY <2>1, <2>2, NothingWasShown
<1>4. ASSUME NEW f \in Selections, SetFilters(f) PROVE TowerInv'
  BY <1>4, FiltersKeep
<1>5. ASSUME NEW key \in DOMAIN actions, Toggle(key) \/ TryAgain(key) \/ Streams(key) PROVE TowerInv'
  <2>1. PICK action : Update(key, action) /\ ActionHolds(action, Scenario(AlertOf(key)))
    BY <1>5, ActionSteps
  <2> QED BY <2>1, UpdateKeeps
<1>6. CASE UNCHANGED pageVars
  <2>1. ActionKeys' = ActionKeys /\ (\A k : AlertOf(k)' = AlertOf(k)) /\ alerts' = alerts /\ actions' = actions
    BY <1>6 DEF pageVars, ActionKeys, Shown, KeysIn, Listed, Filtered, HasAction, IsFirstOverdue, KeyAt, Place, AlertOf
  <2> QED BY <2>1 DEF TowerInv
<1> QED BY <1>1, <1>2, <1>3, <1>4, <1>5, <1>6 DEF PageNext

LEMMA TowerInvariant == PageSpec => []TowerInv
<1>1. PageInit => TowerInv
  <2>1. SUFFICES ASSUME PageInit PROVE TowerInv
    OBVIOUS
  <2>2. ~Shown
    BY <2>1 DEF PageInit, Shown, Resources
  <2>3. ActionKeys = {} /\ DOMAIN actions = {} /\ DOMAIN alerts = {}
    BY <2>1, <2>2 DEF ActionKeys, PageInit
  <2> QED BY <2>3 DEF TowerInv, AlertsDiffer
<1>2. CardsAre' /\ KeysHaveCards'
  BY Cards, KeysWithCards, PTL
<1>3. TowerInv /\ [PageNext]_pageVars => TowerInv'
  BY <1>2, TowerStep
<1> QED BY <1>1, <1>3, PTL DEF PageSpec

\* What stands under a card of the Control Tower page is one answer, the last that was
\* asked for and about the alert of that card, and no two cards of a section share a key.
THEOREM CardsSound == PageSpec => []CardsShowTheirOwnAnswer
<1>1. TowerInv => CardsShowTheirOwnAnswer
  <2>1. SUFFICES ASSUME TowerInv PROVE CardsShowTheirOwnAnswer
    OBVIOUS
  <2>2. ASSUME NEW key \in DOMAIN actions
        PROVE  /\ \A t \in Range(actions[key].text) \cup actions[key].streams :
                    t.run = actions[key].runs /\ t.payload = Scenario(AlertOf(key))
               /\ Cardinality(actions[key].streams) <= 1
               /\ actions[key].streaming <=> actions[key].streams # {}
    <3>1. PICK a : a = actions[key]
      OBVIOUS
    <3>2. PICK p : p = Scenario(AlertOf(key))
      OBVIOUS
    <3>3. ActionHolds(a, p)
      BY <2>1, <2>2, <3>1, <3>2 DEF TowerInv
    <3>4. PICK q : q = Piece(a, p)
      OBVIOUS
    <3>5. a.text \in Seq({q}) /\ a.streams \subseteq {q}
      BY <3>3, <3>4 DEF ActionHolds
    <3>6. Range(a.text) \subseteq {q}
      BY <3>5 DEF Range
    <3>7. \A t \in Range(a.text) \cup a.streams : t.run = a.runs /\ t.payload = p
      BY <3>4, <3>5, <3>6 DEF Piece
    <3>8. Cardinality(a.streams) <= 1
      <4>1. IsFiniteSet({q}) /\ Cardinality({q}) = 1
        BY FS_Singleton
      <4>2. Cardinality(a.streams) <= Cardinality({q})
        BY <3>5, <4>1, FS_Subset
      <4> QED BY <4>1, <4>2
    <3>9. a.streaming <=> a.streams # {}
      BY <3>3 DEF ActionHolds
    <3> QED BY <3>1, <3>2, <3>7, <3>8, <3>9
  <2>3. ASSUME NEW section \in DOMAIN Sections, NEW i \in Listed(section), NEW j \in Listed(section),
               KeyAt(section, i) = KeyAt(section, j)
        PROVE  i = j
    <3>1. i \in DOMAIN alerts /\ j \in DOMAIN alerts
      BY DEF Listed, Filtered
    <3>2. alerts[i].category = alerts[j].category /\ alerts[i].data = alerts[j].data
      BY <2>3, KeysAre
    <3> QED BY <2>1, <3>1, <3>2 DEF TowerInv, AlertsDiffer
  <2> QED BY <2>2, <2>3 DEF CardsShowTheirOwnAnswer
<1> QED BY <1>1, TowerInvariant, PTL

\* A card that has an action and passes the filters keeps its key.
CardsHaveKeys ==
  \A section \in DOMAIN Sections : \A i \in Listed(section) :
    Shown /\ HasAction(section, i) =>
      <<section, <<alerts[i].category, alerts[i].data>>>> \in ActionKeys

LEMMA CardsWithKeys == CardsHaveKeys
<1>1. SUFFICES ASSUME NEW section \in DOMAIN Sections, NEW i \in Listed(section), Shown, HasAction(section, i)
               PROVE  <<section, <<alerts[i].category, alerts[i].data>>>> \in ActionKeys
  BY DEF CardsHaveKeys
<1>2. <<section, KeyAt(section, i)>> \in KeysIn(section)
  BY <1>1 DEF KeysIn
<1> QED BY <1>1, <1>2, KeysAre DEF ActionKeys

LEMMA FiltersLose ==
  ASSUME TowerInv, NEW f, SetFilters(f), CardsHaveKeys', NEW key \in DOMAIN actions, key \notin DOMAIN actions'
  PROVE  \/ ~Passes(AlertOf(key), filters')
         \/ \E i \in Listed("attention")' : alerts'[i] = AlertOf(key) /\ IsFirstOverdue("attention", i)'
<1>1. /\ alerts' = alerts /\ AlertsDiffer(alerts) /\ Shown /\ Shown'
      /\ DOMAIN actions = ActionKeys /\ DOMAIN actions' = ActionKeys'
  BY DEF SetFilters, TowerInv, Shown, Reconcile
<1>2. PICK s \in DOMAIN Sections : \E i \in Listed(s) :
        HasAction(s, i) /\ key = <<s, <<alerts[i].category, alerts[i].data>>>>
  BY <1>1, KeysWithCards DEF KeysHaveCards
<1>3. PICK i \in Listed(s) : HasAction(s, i) /\ key = <<s, <<alerts[i].category, alerts[i].data>>>>
  BY <1>2
<1>4. AlertOf(key) = alerts[i]
  BY <1>1, <1>3, Cards DEF CardsAre
<1>5. SUFFICES ASSUME Passes(alerts[i], filters')
               PROVE  \E j \in Listed("attention")' : alerts'[j] = AlertOf(key) /\ IsFirstOverdue("attention", j)'
  BY <1>4
<1>6. i \in Listed(s)'
  BY <1>1, <1>3, <1>5 DEF Listed, Filtered
<1>7. key = <<s, <<alerts'[i].category, alerts'[i].data>>>> /\ key \notin ActionKeys'
  BY <1>1, <1>3
<1>8. ~HasAction(s, i)'
  BY <1>1, <1>6, <1>7 DEF CardsHaveKeys
<1>9. IsFirstOverdue(s, i)'
  BY <1>1, <1>3, <1>8 DEF HasAction
<1>10. s = "attention"
  <2>1. alerts[i].category = "OVERDUE_TRANSACTION"
    BY <1>1, <1>9 DEF IsFirstOverdue
  <2>2. alerts[i].category \in Sections[s]
    BY <1>3 DEF Listed
  <2> QED BY <1>2, <2>1, <2>2 DEF Sections
<1> QED BY <1>1, <1>4, <1>6, <1>9, <1>10

\* The agent is asked once for a card unless it failed; and whatever is filtered, an
\* alert that stays on the page keeps what it was answered, unless it has become the
\* first overdue order, which never has an action.
THEOREM AnswersKept == PageSpec => AnswersAreKept
<1> DEFINE AskedOnce ==
             \A key \in DOMAIN actions \cap DOMAIN actions' :
               actions'[key].runs > actions[key].runs => actions[key].failed \/ actions[key].runs = 0
           CardsKept ==
             filters' # filters =>
               \A key \in DOMAIN actions :
                 LET alert == AlertOf(key) IN
                 IF key \in DOMAIN actions' THEN actions'[key] = actions[key] /\ AlertOf(key)' = alert
                 ELSE \/ ~Passes(alert, filters')
                      \/ \E i \in Listed("attention")' :
                           alerts'[i] = alert /\ IsFirstOverdue("attention", i)'
<1>1. ASSUME TowerInv, PageNext, CardsAre', KeysHaveCards', CardsHaveKeys' PROVE AskedOnce /\ CardsKept
  <2> USE <1>1
  <2>1. ASSUME ~Shown, filters' = filters PROVE AskedOnce /\ CardsKept
    <3>1. DOMAIN actions = {}
      BY <2>1 DEF TowerInv, ActionKeys
    <3> QED BY <2>1, <3>1
  <2>2. ASSUME NEW r \in Resources, Fetched(r) \/ FetchFails(r) PROVE AskedOnce /\ CardsKept
    BY <2>1, <2>2 DEF Fetched, FetchFails, Shown
  <2>3. CASE ReloadPage
    BY <2>1, <2>3 DEF ReloadPage
  <2>4. ASSUME NEW f \in Selections, SetFilters(f) PROVE AskedOnce /\ CardsKept
    <3>1. \A key \in DOMAIN actions \cap DOMAIN actions' :
            actions'[key] = actions[key] /\ AlertOf(key)' = AlertOf(key)
      BY <2>4, FiltersKeep
    <3>2. AskedOnce
      <4>1. SUFFICES ASSUME NEW key \in DOMAIN actions \cap DOMAIN actions',
                            actions'[key].runs > actions[key].runs
                     PROVE  FALSE
        OBVIOUS
      <4>2. actions[key].runs \in Nat
        BY <4>1 DEF TowerInv, ActionHolds
      <4> QED BY <3>1, <4>1, <4>2
    <3>3. CardsKept
      <4>1. ASSUME NEW key \in DOMAIN actions, key \notin DOMAIN actions'
            PROVE  \/ ~Passes(AlertOf(key), filters')
                   \/ \E i \in Listed("attention")' :
                        alerts'[i] = AlertOf(key) /\ IsFirstOverdue("attention", i)'
        BY <2>4, <4>1, FiltersLose
      <4> QED BY <3>1, <4>1
    <3> QED BY <3>2, <3>3
  <2>5. ASSUME NEW key \in DOMAIN actions, Toggle(key) \/ TryAgain(key) \/ Streams(key)
        PROVE  AskedOnce /\ CardsKept
    <3>1. PICK action : /\ Update(key, action)
                        /\ action.runs > actions[key].runs =>
                             actions[key].failed \/ actions[key].runs = 0
      BY <2>5, ActionSteps
    <3>2. filters' = filters /\ DOMAIN actions' = DOMAIN actions /\ actions'[key] = action
      BY <3>1 DEF Update
    <3>3. ASSUME NEW k \in DOMAIN actions, actions'[k].runs > actions[k].runs
          PROVE  actions[k].failed \/ actions[k].runs = 0
      <4>1. CASE k = key
        BY <3>1, <3>2, <3>3, <4>1
      <4>2. CASE k # key
        <5>1. actions'[k] = actions[k]
          BY <3>1, <4>2 DEF Update
        <5>2. actions[k].runs \in Nat
          BY DEF TowerInv, ActionHolds
        <5> QED BY <3>3, <5>1, <5>2
      <4> QED BY <4>1, <4>2
    <3> QED BY <3>2, <3>3
  <2> QED BY <2>2, <2>3, <2>4, <2>5 DEF PageNext
<1>2. CardsAre' /\ KeysHaveCards' /\ CardsHaveKeys'
  BY Cards, KeysWithCards, CardsWithKeys, PTL
<1>3. TowerInv /\ [PageNext]_pageVars => [AskedOnce /\ CardsKept]_pageVars
  BY <1>1, <1>2
<1> QED BY <1>3, TowerInvariant, PTL DEF PageSpec, AnswersAreKept
=============================================================================
