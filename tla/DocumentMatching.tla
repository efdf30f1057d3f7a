-------------------------- MODULE DocumentMatching --------------------------
(***************************************************************************)
(* The suggestion of a product or supplier for a name read from a document *)
(* (resolveProduct, resolveSupplier): the agent is asked first, its answer *)
(* is checked on its own side and again by the backend, and word overlap   *)
(* answers whenever anything about that fails.                             *)
(***************************************************************************)
EXTENDS Sorting, FiniteSetsExt, SequencesExt

CONSTANTS
  Catalogue,    \* ids of the entities of the catalogue
  NameOf,       \* name of each, as the sequence of its words
  CategoryOf,   \* category of each
  Numerals,     \* the words that are numbers
  ExtractedNames, \* what a document may call something
  Lists,        \* what the model may list: sequences of id, named, reasoned, inRange
  Proposals,    \* new products it may propose: named, category
  NoProposal, NoCategory

ASSUME MatchingAssumption ==
  /\ IsFiniteSet(Catalogue) /\ Catalogue \subseteq Int
  /\ \A k \in Catalogue : IsFiniteSet(ToSet(NameOf[k])) /\ ToSet(NameOf[k]) # {}
  /\ \A name \in ExtractedNames : IsFiniteSet(ToSet(name))
  /\ NoProposal \notin Proposals \cup {[named |-> TRUE, category |-> NoCategory]}

VARIABLES
  kind,      \* "product" or "supplier"
  extracted, \* the name that is looked up
  offered,   \* the entities that were active when they were read
  verdict,   \* what the agent's side has sent
  shown,     \* what the reviewer gets
  stage      \* "start", "asked", "answered", "shown"

matchingVars == <<kind, extracted, offered, verdict, shown, stage>>

NoVerdict == [status |-> "none", list |-> <<>>, proposal |-> NoProposal]
Verdicts ==
  [status : {"RESOLVED", "UNRESOLVED", "NO_MATCH"},
   list : Lists,
   proposal : Proposals \cup {NoProposal}]

----------------------------------------------------------------------------
(* The checks of both sides.                                               *)

RealCategories == {CategoryOf[k] : k \in offered} \ {NoCategory}

FitsStatus(v) ==
  /\ v.status = "RESOLVED" => Len(v.list) = 1
  /\ v.status = "UNRESOLVED" => Len(v.list) > 0
  /\ v.status = "NO_MATCH" => v.list = <<>>
ListsReal(v) ==
  /\ Len(v.list) <= 3
  /\ IsInjective([i \in DOMAIN v.list |-> v.list[i].id])
  /\ \A i \in DOMAIN v.list :
       v.list[i].id \in offered /\ v.list[i].reasoned /\ v.list[i].inRange
SoundProposal(p) == p.named /\ p.category \in RealCategories \cup {NoCategory}

\* Only a product without a match may come with a proposal, and must.
Stray(v) == v.proposal # NoProposal /\ (kind = "supplier" \/ v.status # "NO_MATCH")
Owed(v) == kind = "product" /\ v.status = "NO_MATCH" /\ v.proposal = NoProposal

\* Mutant: a stray proposal is kept.
CleanedNot(v) == v
\* The agent's own check drops a stray proposal and refuses everything else.
Cleaned(v) == IF Stray(v) THEN [v EXCEPT !.proposal = NoProposal] ELSE v
AgentAccepts(v) ==
  /\ ListsReal(v) /\ FitsStatus(v) /\ ~Owed(v)
  /\ Cleaned(v).proposal = NoProposal \/ SoundProposal(v.proposal)

\* The backend refuses a stray proposal, and names that are not the real ones.
BackendAccepts(v) ==
  /\ v.status # "none"
  /\ ListsReal(v) /\ FitsStatus(v) /\ ~Owed(v) /\ ~Stray(v)
  /\ \A i \in DOMAIN v.list : v.list[i].named
  /\ v.proposal = NoProposal \/ SoundProposal(v.proposal)

----------------------------------------------------------------------------
(* Word overlap, in hundredths.                                            *)

MinSuggestionScore == 20
MaxConflictingScore == 40

Includes(a, b) == \E i, j \in DOMAIN a : SubSeq(a, i, j) = b
Conflict(a, b) == a \cap Numerals # {} /\ b \cap Numerals # {} /\ a \cap b \cap Numerals = {}

MatchScore(name) ==
  LET mine == ToSet(name)
      theirs == ToSet(extracted)
      overlap == (100 * Cardinality(mine \cap theirs)) \div Cardinality(mine \cup theirs)
      bonus == IF Includes(name, extracted) \/ Includes(extracted, name) THEN 25 ELSE 0
      cap == IF Conflict(mine, theirs) THEN MaxConflictingScore ELSE 100
  IN IF name = extracted THEN 100 ELSE Min({overlap + bonus, cap})

Suggestion(status, ids, proposal) ==
  [status |-> status, proposal |-> proposal,
   list |-> [i \in DOMAIN ids |->
               [id |-> ids[i], named |-> TRUE, reasoned |-> TRUE, inRange |-> TRUE]]]
NoMatch ==
  Suggestion("NO_MATCH", <<>>,
             IF kind = "product" THEN [named |-> TRUE, category |-> NoCategory] ELSE NoProposal)

Similar == {k \in offered : MatchScore(NameOf[k]) >= MinSuggestionScore}
\* Ties stay in the order in which the candidates are read, which is that of their ids.
ScoresHigher(j, k) ==
  \/ MatchScore(NameOf[j]) > MatchScore(NameOf[k])
  \/ MatchScore(NameOf[j]) = MatchScore(NameOf[k]) /\ j < k
ScoreOrder == {jk \in Similar \X Similar : ScoresHigher(jk[1], jk[2])}
Ranked == Sorted(Similar, ScoreOrder)
\* Mutant: the best match is taken for an exact one.
FuzzyMatchBest ==
  IF Ranked = <<>> THEN NoMatch ELSE Suggestion("RESOLVED", <<Ranked[1]>>, NoProposal)
FuzzyMatch ==
  LET exact == {k \in offered : NameOf[k] = extracted}
  IN IF Ranked = <<>> THEN NoMatch
     ELSE IF Cardinality(exact) = 1
       THEN Suggestion("RESOLVED", <<CHOOSE k \in exact : TRUE>>, NoProposal)
     ELSE Suggestion("UNRESOLVED", SubSeq(Ranked, 1, Min({3, Len(Ranked)})), NoProposal)

----------------------------------------------------------------------------
MatchingInit ==
  /\ kind \in {"product", "supplier"}
  /\ extracted \in ExtractedNames
  /\ offered = {} /\ verdict = NoVerdict /\ shown = NoVerdict
  /\ stage = "start"

ReadCandidates ==
  /\ stage = "start" /\ stage' = "asked"
  /\ offered' \in SUBSET Catalogue
  /\ UNCHANGED <<kind, extracted, verdict, shown>>

\* Without candidates the model is not asked.
AnswerWithoutModel ==
  /\ stage = "asked" /\ offered = {} /\ stage' = "answered"
  /\ verdict' = NoMatch
  /\ UNCHANGED <<kind, extracted, offered, shown>>
AnswerOfModel(v) ==
  /\ stage = "asked" /\ offered # {} /\ stage' = "answered"
  /\ verdict' = IF AgentAccepts(v) THEN Cleaned(v) ELSE NoVerdict
  /\ UNCHANGED <<kind, extracted, offered, shown>>

\* Not configured, refused, out of time on either side, or a broken stream.
AnswerNever ==
  /\ stage = "asked" /\ stage' = "answered"
  /\ UNCHANGED <<kind, extracted, offered, verdict, shown>>

Suggest ==
  /\ stage = "answered" /\ stage' = "shown"
  /\ shown' = IF BackendAccepts(verdict) THEN verdict ELSE FuzzyMatch
  /\ UNCHANGED <<kind, extracted, offered, verdict>>

MatchingNext ==
  \/ ReadCandidates
  \/ AnswerWithoutModel
  \/ \E v \in Verdicts : AnswerOfModel(v)
  \/ AnswerNever
  \/ Suggest

MatchingSpec == MatchingInit /\ [][MatchingNext]_matchingVars

----------------------------------------------------------------------------
(* Properties.                                                             *)

\* Whatever the model, its host or the network does, the reviewer gets a
\* suggestion, and the one made by word overlap keeps every rule that an answer
\* of the agent has to keep; it resolves a name only to the one entity that is
\* called exactly so, and leaves out nothing better than what it lists.
FallbackKeepsTheRules ==
  stage = "shown" =>
    /\ BackendAccepts(shown)
    /\ shown # verdict /\ shown.status = "RESOLVED" =>
         {k \in offered : NameOf[k] = extracted} = {shown.list[1].id}
    /\ shown # verdict /\ shown.status = "UNRESOLVED" =>
         \A k \in offered, i \in DOMAIN shown.list :
           MatchScore(NameOf[k]) > MatchScore(NameOf[shown.list[i].id]) =>
             \E j \in DOMAIN shown.list : shown.list[j].id = k

\* The two checks agree: the backend drops an answer the agent's side has let
\* through only when the model has misnamed a candidate.
ChecksAgree ==
  stage = "answered" /\ verdict # NoVerdict /\ ~BackendAccepts(verdict) =>
    \E i \in DOMAIN verdict.list : ~verdict.list[i].named

\* A suggestion keeps the rules whoever made it and whoever checked it.
SuggestionsKeepTheRules == FallbackKeepsTheRules /\ ChecksAgree
=============================================================================
