---------------------------- MODULE ServiceToken ----------------------------
(***************************************************************************)
(* backend_client.py: the BackendClient all tools share.  Each invocation  *)
(* of an agent runs in a thread and event loop of its own, and the client, *)
(* the loop it was built for and the service token are plain attributes:   *)
(* threads may interleave at every access, requests of one loop only where *)
(* they await.  A request answered 401 gets a new token and one retry.     *)
(***************************************************************************)
EXTENDS Naturals, FiniteSets

CONSTANTS
  Requests,  \* requests to the backend
  Loops,     \* event loops, each in its thread
  LoopOf,    \* loop of each request
  MaxTokens, \* bound: tokens Cognito gives out
  NoLoop

ASSUME ServiceTokenAssumption ==
  /\ LoopOf \in [Requests -> Loops]
  /\ NoLoop \notin Loops
  /\ MaxTokens \in Nat

VARIABLES
  client,      \* _client: the loop the AsyncClient was built for
  clientLoop,  \* _client_loop
  token,       \* _token; 0 is None
  issued,      \* tokens Cognito has given out
  refused,     \* tokens the backend refuses: expired or revoked
  request,     \* each request: where it is, its attempt, the headers of both attempts
  disturbed    \* history: requests during which another loop has touched the client

sharedVars == <<client, clientLoop, token>>
tokenVars == <<sharedVars, issued, refused, request, disturbed>>

NoToken == 0
Waiting == [at |-> "start", attempt |-> 1, first |-> NoToken, header |-> NoToken,
            got |-> NoToken, sending |-> FALSE]

Outcomes == {"done", "failed", "unauthorized", "unavailable", "wrong loop"}
\* Where a request leaves its loop to the others.
AtRest == {"start", "authenticating", "authenticated", "sent"} \cup Outcomes

\* Requests of one loop take turns.
Turn(r, places) ==
  /\ request[r].at \in places
  /\ \A q \in Requests \ {r} : LoopOf[q] = LoopOf[r] => request[q].at \in AtRest
Proceed(r, at) == request' = [request EXCEPT ![r].at = at]

\* A write of the shared attributes, for the requests of the other loops.
Touch(r) ==
  disturbed' = disturbed \cup
    {q \in Requests : LoopOf[q] # LoopOf[r] /\ request[q].at \notin Outcomes \cup {"start"}}

----------------------------------------------------------------------------
(* _get_client, first thing in a request and again whenever it sends.      *)

LookUp(r) ==
  /\ Turn(r, {"start", "look up"})
  /\ Proceed(r, IF client = NoLoop \/ clientLoop # LoopOf[r] THEN "rebuild" ELSE "take")
  /\ UNCHANGED <<sharedVars, issued, refused, disturbed>>

Rebuild(r) ==
  /\ Turn(r, {"rebuild"}) /\ Proceed(r, "bind") /\ Touch(r)
  /\ client' = LoopOf[r]
  /\ UNCHANGED <<clientLoop, token, issued, refused>>
Bind(r) ==
  /\ Turn(r, {"bind"}) /\ Proceed(r, "forget") /\ Touch(r)
  /\ clientLoop' = LoopOf[r]
  /\ UNCHANGED <<client, token, issued, refused>>
Forget(r) ==
  /\ Turn(r, {"forget"}) /\ Proceed(r, "take") /\ Touch(r)
  /\ token' = NoToken
  /\ UNCHANGED <<client, clientLoop, issued, refused>>

\* The client returned is whatever the attribute holds by now.
Take(r) ==
  /\ Turn(r, {"take"})
  /\ Proceed(r, CASE ~request[r].sending -> "check"
             [] request[r].sending /\ client = LoopOf[r] -> "sent"
             [] request[r].sending /\ client # LoopOf[r] -> "wrong loop")
  /\ UNCHANGED <<sharedVars, issued, refused, disturbed>>

----------------------------------------------------------------------------
(* _ensure_logged_in, _authenticate_service, _send, _request.              *)

\* A token may be known to have expired; one that was revoked is not known.
Check(r) ==
  /\ Turn(r, {"check"})
  /\ \/ token \in refused \cup {NoToken} /\ Proceed(r, "authenticating")
     \/ token # NoToken /\ Proceed(r, "header")
  /\ UNCHANGED <<sharedVars, issued, refused, disturbed>>

Authenticate(r) ==
  /\ Turn(r, {"authenticating"})
  /\ \/ /\ issued < MaxTokens /\ issued' = issued + 1
        /\ request' = [request EXCEPT ![r].at = "authenticated", ![r].got = issued + 1]
     \/ Proceed(r, "unavailable") /\ UNCHANGED issued
  /\ UNCHANGED <<sharedVars, refused, disturbed>>

Assign(r) ==
  /\ Turn(r, {"authenticated"}) /\ Proceed(r, "header") /\ Touch(r)
  /\ token' = request[r].got
  /\ UNCHANGED <<client, clientLoop, issued, refused>>

\* The header is built before the client is looked up, which may forget the token.
BuildHeader(r) ==
  /\ Turn(r, {"header"})
  /\ request' = [request EXCEPT ![r].at = "look up", ![r].header = token, ![r].sending = TRUE]
  /\ UNCHANGED <<sharedVars, issued, refused, disturbed>>

Refused(r) == request[r].header \in refused \cup {NoToken}

\* Mutant: the request is repeated with the token it had.
RetryAsItWas(r) ==
  /\ Turn(r, {"sent"}) /\ Refused(r) /\ request[r].attempt = 1
  /\ request' = [request EXCEPT ![r].at = "header", ![r].attempt = 2,
                                ![r].first = request[r].header]
  /\ UNCHANGED <<sharedVars, issued, refused, disturbed>>
Retry(r) ==
  /\ Turn(r, {"sent"}) /\ Refused(r) /\ request[r].attempt = 1
  /\ request' = [request EXCEPT ![r].at = "authenticating", ![r].attempt = 2,
                                ![r].first = request[r].header]
  /\ UNCHANGED <<sharedVars, issued, refused, disturbed>>

Finish(r) ==
  /\ Turn(r, {"sent"})
  /\ \/ Refused(r) /\ request[r].attempt = 2 /\ Proceed(r, "unauthorized")
     \/ ~Refused(r) /\ (Proceed(r, "done") \/ Proceed(r, "failed"))
     \/ Proceed(r, "unavailable")
  /\ UNCHANGED <<sharedVars, issued, refused, disturbed>>

\* A token expires or is revoked.
Refuse(t) ==
  /\ t \in 1 .. issued \ refused
  /\ refused' = refused \cup {t}
  /\ UNCHANGED <<sharedVars, issued, request, disturbed>>

TokenInit ==
  /\ client = NoLoop /\ clientLoop = NoLoop /\ token = NoToken
  /\ issued = 0 /\ refused = {}
  /\ request = [r \in Requests |-> Waiting]
  /\ disturbed = {}

TokenNext ==
  \/ \E r \in Requests :
       \/ LookUp(r) \/ Rebuild(r) \/ Bind(r) \/ Forget(r) \/ Take(r)
       \/ Check(r) \/ Authenticate(r) \/ Assign(r) \/ BuildHeader(r)
       \/ Retry(r) \/ Finish(r)
  \/ \E t \in 1 .. MaxTokens : Refuse(t)

TokenSpec == TokenInit /\ [][TokenNext]_tokenVars

----------------------------------------------------------------------------
(* Properties.                                                             *)

\* A request fails as Unauthorized only when the backend has refused two tokens,
\* the second of which was got after the first was refused; except when another
\* thread has touched the client meanwhile, which may take the token away twice.
UnauthorizedIsExplained ==
  \A r \in Requests \ disturbed : request[r].at = "unauthorized" =>
    /\ {request[r].first, request[r].header} \subseteq refused
    /\ request[r].first < request[r].header

\* What the docstring of _get_client says: the client is the one of the running loop.
ClientIsOfTheRunningLoop == \A r \in Requests : request[r].at # "wrong loop"
=============================================================================
