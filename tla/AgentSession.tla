---------------------------- MODULE AgentSession ----------------------------
(***************************************************************************)
(* agentcore_entrypoint.py: the process-wide registry of chat sessions.    *)
(* An invocation finds or creates the state of its session under the       *)
(* registry lock, waits for the session's own lock, has its turn with the  *)
(* session's Supervisor, and gives both back.  Sessions that were idle for *)
(* too long, and the oldest idle ones when the registry is full, are       *)
(* dropped.  A session id names its owner, whom invoke() has verified      *)
(* before, so one session is one user's.                                   *)
(***************************************************************************)
EXTENDS Naturals, FiniteSets

CONSTANTS
  Sessions,     \* runtime session ids
  Invocations,  \* invocations being served at the same time
  States,       \* objects of class _SessionState
  MaxCached,    \* _MAX_CACHED_SESSIONS
  IdleTTL,      \* _SESSION_IDLE_TTL_SECONDS, in ticks of the clock
  MaxTime,      \* bound: the clock stops there
  NoSession, NoState, Nobody

ASSUME AgentSessionAssumption ==
  /\ IsFiniteSet(Invocations) /\ IsFiniteSet(Sessions)
  /\ MaxCached \in Nat \ {0} /\ IdleTTL \in Nat /\ MaxTime \in Nat
  /\ NoSession \notin Sessions /\ NoState \notin States /\ Nobody \notin Invocations

VARIABLES
  registry,          \* _session_states: session id -> state
  activeInvocations, \* of each state
  lastAccess,        \* of each state
  supervisor,        \* of each state: whether its Supervisor has been built
  lockHolder,        \* of each state: who has its invocation_lock
  invocation,        \* what each invocation is doing, for which session
  now                \* time.monotonic()

stateVars == <<activeInvocations, lastAccess, supervisor, lockHolder>>
vars == <<registry, stateVars, invocation, now>>

Idle == [at |-> "idle", session |-> NoSession, state |-> NoState]

Go(i, at) == invocation' = [invocation EXCEPT ![i].at = at]
At(i, at) == invocation[i].at = at

\* The invocation has a state of its session.
InFlight(i) == invocation[i].at # "idle"
HasTurn(i) == invocation[i].at \in {"build", "gate", "stream", "unlock"}
Uses(o) == {i \in Invocations : InFlight(i) /\ invocation[i].state = o}

----------------------------------------------------------------------------
(* _acquire_session_state, under the registry lock.                        *)

\* Mutant: a session in use counts as idle.
ExpiredEvenInUse(s) == lastAccess[registry[s]] + IdleTTL <= now

\* _cleanup_sessions_locked
Expired(s) ==
  /\ activeInvocations[registry[s]] = 0
  /\ lastAccess[registry[s]] + IdleTTL <= now

Kept == {s \in DOMAIN registry : ~Expired(s)}

\* Mutant: the oldest sessions go, in use or not.
EvictableEvenInUse == Kept
\* Mutant: nothing is evicted.
NothingEvictable == {}

Evictable == {s \in Kept : activeInvocations[registry[s]] = 0}

\* _make_room_for_new_session_locked: as few of the idle ones as make room, the
\* oldest first, and all of them if that is not enough.
MakesRoom(evicted) ==
  /\ evicted \subseteq Evictable
  /\ \/ Cardinality(Kept) < MaxCached /\ evicted = {}
     \/ /\ Cardinality(Kept) >= MaxCached
        /\ \/ Cardinality(Kept \ evicted) = MaxCached - 1
           \/ Cardinality(Kept \ evicted) >= MaxCached /\ evicted = Evictable
  /\ \A s \in evicted, t \in Evictable \ evicted :
       lastAccess[registry[s]] <= lastAccess[registry[t]]

\* An object that nothing refers to.
Fresh(o) == o \notin {registry[s] : s \in DOMAIN registry} /\ Uses(o) = {}

Enter(i, s, o) ==
  /\ invocation[i].at = "idle"
  /\ invocation' = [invocation EXCEPT ![i] = [at |-> "lock", session |-> s, state |-> o]]
  /\ lastAccess' = [lastAccess EXCEPT ![o] = now]
  /\ UNCHANGED now

Resume(i, s) ==
  /\ s \in Kept
  /\ registry' = [t \in Kept |-> registry[t]]
  /\ LET o == registry[s] IN
       /\ Enter(i, s, o)
       /\ activeInvocations' = [activeInvocations EXCEPT ![o] = @ + 1]
  /\ UNCHANGED <<supervisor, lockHolder>>

Start(i, s, o) ==
  /\ s \notin Kept
  /\ Fresh(o)
  /\ \E evicted \in SUBSET Kept :
       /\ MakesRoom(evicted)
       /\ registry' = [t \in (Kept \ evicted) \cup {s} |-> IF t = s THEN o ELSE registry[t]]
  /\ Enter(i, s, o)
  /\ activeInvocations' = [activeInvocations EXCEPT ![o] = 1]
  /\ supervisor' = [supervisor EXCEPT ![o] = FALSE]
  /\ lockHolder' = [lockHolder EXCEPT ![o] = Nobody]

----------------------------------------------------------------------------
(* stream_response.                                                        *)

\* _acquire_invocation_lock: one successful try of the polling loop.
TakeLock(i) ==
  LET o == invocation[i].state IN
  /\ At(i, "lock")
  /\ lockHolder[o] = Nobody
  /\ lockHolder' = [lockHolder EXCEPT ![o] = i]
  /\ Go(i, "build")
  /\ UNCHANGED <<registry, activeInvocations, lastAccess, supervisor, now>>

\* build_supervisor_agent, unless the session has one; it may raise.
Build(i) ==
  LET o == invocation[i].state IN
  /\ At(i, "build")
  /\ \/ supervisor' = [supervisor EXCEPT ![o] = TRUE] /\ Go(i, "gate")
     \/ ~supervisor[o] /\ UNCHANGED supervisor /\ Go(i, "unlock")
  /\ UNCHANGED <<registry, activeInvocations, lastAccess, lockHolder, now>>

\* is_in_scope, in a thread: go on, or decline or raise.
Gate(i) ==
  /\ At(i, "gate")
  /\ Go(i, "stream") \/ Go(i, "unlock")
  /\ UNCHANGED <<registry, stateVars, now>>

Stream(i) ==
  /\ At(i, "stream")
  /\ Go(i, "unlock")
  /\ UNCHANGED <<registry, stateVars, now>>

\* Mutant: the lock is released only if the turn was not cancelled.
CancelKeepingLock(i) ==
  /\ invocation[i].at \in {"lock", "gate", "stream"}
  /\ Go(i, "leave")
  /\ UNCHANGED <<registry, stateVars, now>>

\* Mutant: an invocation that is cancelled while it waits is forgotten.
CancelWithoutLeaving(i) ==
  /\ invocation[i].at \in {"lock", "gate", "stream"}
  /\ IF At(i, "lock") THEN invocation' = [invocation EXCEPT ![i] = Idle] ELSE Go(i, "unlock")
  /\ UNCHANGED <<registry, stateVars, now>>

\* The client goes away while the coroutine waits: the finally clause runs.
Cancel(i) ==
  /\ invocation[i].at \in {"lock", "gate", "stream"}
  /\ Go(i, IF At(i, "lock") THEN "leave" ELSE "unlock")
  /\ UNCHANGED <<registry, stateVars, now>>

Unlock(i) ==
  LET o == invocation[i].state IN
  /\ At(i, "unlock")
  /\ lockHolder' = [lockHolder EXCEPT ![o] = Nobody]
  /\ Go(i, "leave")
  /\ UNCHANGED <<registry, activeInvocations, lastAccess, supervisor, now>>

\* _release_session_state
Leave(i) ==
  LET o == invocation[i].state IN
  /\ At(i, "leave")
  /\ activeInvocations' = [activeInvocations EXCEPT ![o] = IF @ > 0 THEN @ - 1 ELSE 0]
  /\ lastAccess' = [lastAccess EXCEPT ![o] = now]
  /\ invocation' = [invocation EXCEPT ![i] = Idle]
  /\ UNCHANGED <<registry, supervisor, lockHolder, now>>

Tick ==
  /\ now < MaxTime
  /\ now' = now + 1
  /\ UNCHANGED <<registry, stateVars, invocation>>

\* The runtime resets the process: its memory is lost.
Restart ==
  /\ registry' = [s \in {} |-> NoState]
  /\ invocation' = [i \in Invocations |-> Idle]
  /\ UNCHANGED <<stateVars, now>>

----------------------------------------------------------------------------
Init ==
  /\ registry = [s \in {} |-> NoState]
  /\ activeInvocations = [o \in States |-> 0]
  /\ lastAccess = [o \in States |-> 0]
  /\ supervisor = [o \in States |-> FALSE]
  /\ lockHolder = [o \in States |-> Nobody]
  /\ invocation = [i \in Invocations |-> Idle]
  /\ now = 0

Step(i) ==
  TakeLock(i) \/ Build(i) \/ Gate(i) \/ Stream(i) \/ Unlock(i) \/ Leave(i)

Next ==
  \/ \E i \in Invocations :
       \/ \E s \in Sessions : Resume(i, s) \/ \E o \in States : Start(i, s, o)
       \/ Step(i) \/ Cancel(i)
  \/ Tick \/ Restart

Spec == Init /\ [][Next]_vars

----------------------------------------------------------------------------
(* Properties.                                                             *)

\* The type invariant.
TypeOK ==
  /\ now \in 0 .. MaxTime
  /\ DOMAIN registry \subseteq Sessions
  /\ registry \in [DOMAIN registry -> States]
  /\ activeInvocations \in [States -> Nat]
  /\ lastAccess \in [States -> 0 .. now]
  /\ supervisor \in [States -> BOOLEAN]
  /\ lockHolder \in [States -> Invocations \cup {Nobody}]
  /\ invocation \in [Invocations ->
       [at : {"idle", "lock", "build", "gate", "stream", "unlock", "leave"},
        session : Sessions \cup {NoSession}, state : States \cup {NoState}]]
  /\ \A i \in Invocations :
       InFlight(i) => invocation[i].session \in Sessions /\ invocation[i].state \in States

\* One turn at a time in one conversation, whatever is evicted, expires and comes
\* back meanwhile: the lock is the session's, although it lives in an object that
\* the registry may drop.
OneTurnPerSession ==
  \A i, j \in Invocations :
    HasTurn(i) /\ HasTurn(j) /\ invocation[i].session = invocation[j].session => i = j

\* The state of an invocation stays in the registry as long as the invocation lasts.
InUseStaysCached ==
  \A i \in Invocations : InFlight(i) =>
    /\ invocation[i].session \in DOMAIN registry
    /\ registry[invocation[i].session] = invocation[i].state

\* A state counts the invocations that use it, however they end.
CountsItsInvocations ==
  \A s \in DOMAIN registry :
    activeInvocations[registry[s]] = Cardinality(Uses(registry[s]))

\* The registry grows beyond its size only while every session in it is in use.
GrowsOnlyInUse ==
  [][Cardinality(DOMAIN registry') > Cardinality(DOMAIN registry)
       /\ Cardinality(DOMAIN registry') > MaxCached
     => \A s \in DOMAIN registry' : activeInvocations'[registry'[s]] > 0]_vars

\* A session's lock is always in the hands of a turn that goes on, so whoever waits
\* for it waits for something that ends: no error, refusal or cancellation leaks it.
LockIsHeldByATurn ==
  \A s \in DOMAIN registry :
    LET holder == lockHolder[registry[s]] IN
    holder # Nobody => HasTurn(holder) /\ invocation[holder].state = registry[s]

\* Whatever an invocation runs into, it is counted while it lasts and no longer, and
\* the lock it had goes on: a cached session can be used again, or dropped.
InvocationsAreAccountedFor == CountsItsInvocations /\ LockIsHeldByATurn
=============================================================================
