----------------------------- MODULE ReviewPage -----------------------------
(***************************************************************************)
(* DocumentReviewPage.tsx with useFetch.ts: the page of one document under *)
(* review.  The reviewer goes from document to document while loads and a  *)
(* decision are under way; whatever finishes last, a decision must be made *)
(* on the document whose form has been filled in.                          *)
(***************************************************************************)
EXTENDS Naturals, FiniteSets

CONSTANTS
  Documents,
  MaxRuns,   \* bound: loads of one page
  NoDocument

ASSUME ReviewPageAssumption == NoDocument \notin Documents /\ MaxRuns \in Nat

VARIABLES
  decided,   \* documents that are approved or rejected in the database
  url,       \* document of the address
  latest,    \* requestId: number of runs so far
  loads,     \* loads under way: their number, document, and whether it was pending
  shown,     \* reviewFetch.data: document and whether it was pending
  loading,   \* reviewFetch.loading
  form,      \* document whose extracted items fill the form
  deciding   \* document of the decision that is being sent

reviewPageVars == <<decided, url, latest, loads, shown, loading, form, deciding>>

Nothing == [document |-> NoDocument, pending |-> FALSE]

\* run, which loads the document of the rendering it was made in.
Run(d, pending) ==
  /\ latest < MaxRuns
  /\ latest' = latest + 1
  /\ loads' = loads \cup {[run |-> latest + 1, document |-> d, pending |-> pending]}
  /\ loading' = TRUE

Navigate(d) ==
  /\ d # url /\ url' = d
  /\ Run(d, d \notin decided)
  /\ UNCHANGED <<decided, shown, form, deciding>>

\* What a load brings: the document as the backend read it meanwhile, or an error,
\* which leaves no data.
Brings(w) ==
  {Nothing} \cup [document : {w.document}, pending : {w.pending, w.document \notin decided}]

\* Mutant: an answer is shown whichever run it belongs to.
LoadedAnyRun(w, data) ==
  /\ loads' = loads \ {w}
  /\ loading' = FALSE /\ shown' = data
  /\ form' = IF data = Nothing THEN form ELSE data.document
  /\ UNCHANGED <<decided, url, latest, deciding>>
\* Only the latest run counts.  The form is filled from every document that arrives.
Loaded(w, data) ==
  /\ loads' = loads \ {w}
  /\ IF w.run = latest
       THEN /\ loading' = FALSE /\ shown' = data
            /\ form' = IF data = Nothing THEN form ELSE data.document
       ELSE UNCHANGED <<loading, shown, form>>
  /\ UNCHANGED <<decided, url, latest, deciding>>

\* The buttons are shown with the form, unless a decision is being sent.
CanDecide == ~loading /\ shown # Nothing /\ shown.pending /\ deciding = NoDocument

Decide ==
  /\ CanDecide /\ deciding' = url
  /\ UNCHANGED <<decided, url, latest, loads, shown, loading, form>>

\* Mutant: the page loads again however the decision ends.
DecidedEitherWay(ok) ==
  /\ deciding # NoDocument /\ deciding' = NoDocument
  /\ decided' = IF ok THEN decided \cup {deciding} ELSE decided
  /\ Run(deciding, ~ok)
  /\ UNCHANGED <<url, shown, form>>
\* On success the handler calls the refetch of the rendering it was made in; after
\* an error, which may follow a commit, it does not.
Decided(ok) ==
  /\ deciding # NoDocument /\ deciding' = NoDocument
  /\ IF ok THEN decided' = decided \cup {deciding} /\ Run(deciding, FALSE)
     ELSE decided' \in {decided, decided \cup {deciding}} /\ UNCHANGED <<latest, loads, loading>>
  /\ UNCHANGED <<url, shown, form>>

RetryLoad ==
  /\ ~loading /\ shown = Nothing
  /\ Run(url, url \notin decided)
  /\ UNCHANGED <<decided, url, shown, form, deciding>>

\* Another reviewer decides.
DecidedElsewhere(d) ==
  /\ d \notin decided /\ decided' = decided \cup {d}
  /\ UNCHANGED <<url, latest, loads, shown, loading, form, deciding>>

ReviewPageInit ==
  /\ decided \in SUBSET Documents
  /\ url \in Documents
  /\ latest = 1 /\ loading = TRUE
  /\ loads = {[run |-> 1, document |-> url, pending |-> url \notin decided]}
  /\ shown = Nothing /\ form = NoDocument /\ deciding = NoDocument

ReviewPageNext ==
  \/ \E d \in Documents : Navigate(d) \/ DecidedElsewhere(d)
  \/ \E w \in loads : \E data \in Brings(w) : Loaded(w, data)
  \/ Decide \/ RetryLoad
  \/ \E ok \in BOOLEAN : Decided(ok)

ReviewPageSpec == ReviewPageInit /\ [][ReviewPageNext]_reviewPageVars

----------------------------------------------------------------------------
(* Properties.                                                             *)

\* Whenever the reviewer can decide, the document shown, the document whose items
\* fill the form and the document the decision would be sent to are one: late loads
\* and the reload after a decision made on another document do not mix them up.
FormGoesToItsDocument == CanDecide => shown.document = url /\ form = url
=============================================================================
