------------------------------- MODULE SignIn -------------------------------
(***************************************************************************)
(* AuthContext.tsx, LoginPage.tsx and api-client.ts: one tab of the        *)
(* browser signs in and out.  The access token lives in localStorage, the  *)
(* status and the user in React's state, and answers to requests that were *)
(* sent with an earlier token still come in.                               *)
(***************************************************************************)
EXTENDS Naturals, Sequences

CONSTANTS
  Accounts,    \* users that may sign in
  MaxLogins,   \* bound: logins that succeed
  NoUser

ASSUME SignInAssumption == NoUser \notin Accounts /\ MaxLogins \in Nat

VARIABLES
  status,   \* "loading", "authenticated", "unauthenticated"
  user,     \* the user that is shown
  stored,   \* the token in localStorage; 0 when there is none
  ownerOf,  \* owner of each token given out
  expired,  \* tokens the backend answers 401
  flow,     \* what the provider waits for, with which token
  inFlight, \* tokens of the pages' requests that are not answered
  strayed   \* history: a refusal of an earlier token has hit this session

signInVars == <<status, user, stored, ownerOf, expired, flow, inFlight, strayed>>

NoneStored == 0
NoFlow == [at |-> "none", token |-> NoneStored]
Wait(at, token) == flow' = [at |-> at, token |-> token]

\* logout()
SignedOut == status' = "unauthenticated" /\ user' = NoUser /\ stored' = NoneStored

----------------------------------------------------------------------------
\* The page is loaded: a stored token is validated.
Load ==
  /\ status' = IF stored = NoneStored THEN "unauthenticated" ELSE "loading"
  /\ user' = NoUser /\ inFlight' = {} /\ strayed' = FALSE
  /\ Wait(IF stored = NoneStored THEN "none" ELSE "validation", stored)
  /\ UNCHANGED <<stored, ownerOf, expired>>

\* The form is disabled while it waits.
Submit ==
  /\ status = "unauthenticated" /\ flow.at \in {"none", "challenge"}
  /\ Wait("cognito", NoneStored)
  /\ UNCHANGED <<status, user, stored, ownerOf, expired, inFlight, strayed>>

\* Cognito asks for a new password, or refuses.
CognitoRefuses ==
  /\ flow.at = "cognito"
  /\ Wait("challenge", NoneStored) \/ Wait("none", NoneStored)
  /\ UNCHANGED <<status, user, stored, ownerOf, expired, inFlight, strayed>>

\* finishLogin up to its await
CognitoAccepts(account) ==
  /\ flow.at = "cognito" /\ Len(ownerOf) < MaxLogins
  /\ ownerOf' = Append(ownerOf, account)
  /\ stored' = Len(ownerOf) + 1
  /\ Wait("identity", stored') /\ strayed' = FALSE
  /\ UNCHANGED <<status, user, expired, inFlight>>

\* Mutant: a login keeps the user that was shown.
IdentifyCached ==
  /\ flow.at \in {"validation", "identity"} /\ flow.token \notin expired
  /\ status' = "authenticated" /\ user' = ownerOf[1]
  /\ Wait("none", NoneStored)
  /\ UNCHANGED <<stored, ownerOf, expired, inFlight, strayed>>
\* /auth/me names the owner of the token that was sent.
Identify ==
  /\ flow.at \in {"validation", "identity"} /\ flow.token \notin expired
  /\ status' = "authenticated" /\ user' = ownerOf[flow.token]
  /\ Wait("none", NoneStored)
  /\ UNCHANGED <<stored, ownerOf, expired, inFlight, strayed>>

\* Any error ends a validation, only a 401 takes back what a login has stored.
IdentityFails ==
  /\ flow.at \in {"validation", "identity"}
  /\ \/ (flow.at = "validation" \/ flow.token \in expired) /\ SignedOut
     \/ flow.at = "identity" /\ UNCHANGED <<status, user, stored>>
  /\ Wait("none", NoneStored)
  /\ UNCHANGED <<ownerOf, expired, inFlight, strayed>>

LogOut ==
  /\ status = "authenticated" /\ SignedOut
  /\ UNCHANGED <<ownerOf, expired, flow, inFlight, strayed>>

\* A page asks the backend; without a token the 401 is the page's own error.
Request ==
  /\ status = "authenticated" /\ stored # NoneStored
  /\ inFlight' = inFlight \cup {stored}
  /\ UNCHANGED <<status, user, stored, ownerOf, expired, flow, strayed>>
Answer(t) ==
  /\ t \in inFlight
  /\ inFlight' = inFlight \ {t}
  /\ UNCHANGED <<status, user, stored, ownerOf, expired, flow, strayed>>

\* Any 401 to a request that had a token ends the session there is now.
AnswerRefused(t) ==
  /\ t \in inFlight \cap expired
  /\ inFlight' = inFlight \ {t}
  /\ SignedOut /\ strayed' = (strayed \/ t # stored)
  /\ UNCHANGED <<ownerOf, expired, flow>>

Expire(t) ==
  /\ expired' = expired \cup {t}
  /\ UNCHANGED <<status, user, stored, ownerOf, flow, inFlight, strayed>>

SignInInit ==
  /\ status = "unauthenticated" /\ user = NoUser
  /\ stored = NoneStored /\ ownerOf = <<>> /\ expired = {}
  /\ flow = NoFlow /\ inFlight = {} /\ strayed = FALSE

SignInNext ==
  \/ Load \/ Submit \/ CognitoRefuses \/ Identify \/ IdentityFails \/ LogOut \/ Request
  \/ \E a \in Accounts : CognitoAccepts(a)
  \/ \E t \in inFlight : Answer(t) \/ AnswerRefused(t)
  \/ \E t \in DOMAIN ownerOf \ expired : Expire(t)

SignInSpec == SignInInit /\ [][SignInNext]_signInVars

----------------------------------------------------------------------------
(* Properties.                                                             *)

\* Who is signed in has a token, the user shown is its owner, and nobody is shown
\* when nobody is signed in.  Only the late refusal of an earlier session's token
\* breaks this: in the middle of a login it takes the new token away, and the login
\* then ends in a session without one.
SessionIsWhole ==
  /\ status = "authenticated" =>
       \/ stored # NoneStored /\ user = ownerOf[stored]
       \/ stored = NoneStored /\ strayed
  /\ status = "unauthenticated" => user = NoUser
=============================================================================
