----------------------------- MODULE AgentChat -----------------------------
(***************************************************************************)
(* AgentContext.tsx and agentCoreService.ts: the conversations with the    *)
(* agent in one tab.  A question is sent from the conversation of the last *)
(* rendering; its answer streams in while the user may open, ask in and    *)
(* delete other conversations.                                             *)
(***************************************************************************)
EXTENDS Naturals, Sequences, FiniteSets, Functions

CONSTANTS
  Conversations, \* ids of conversations
  MaxTurns,      \* bound: questions that are asked
  MaxRounds,     \* bound: rounds of tool calls in an answer
  NoConversation

ASSUME AgentChatAssumption ==
  NoConversation \notin Conversations /\ MaxTurns \in Nat /\ MaxRounds \in Nat

VARIABLES
  conversations, \* the messages of each conversation there is, also in localStorage
  active,        \* activeConversationId
  seen,          \* both of them as last rendered
  pendingIds,    \* conversations with a turn under way
  pending,       \* conversations shown as thinking
  streams,       \* turns under way: conversation, round of tool calls, rounds with text
  turns          \* questions asked so far

chatVars == <<conversations, active, seen, pendingIds, pending, streams, turns>>

Question(n) == [from |-> "user", turn |-> n, rounds |-> {}]
Answered(s) == [from |-> "agent", turn |-> s.turn, rounds |-> s.text]
IsAnswer(m) == m.from = "agent"

----------------------------------------------------------------------------
Render ==
  /\ seen' = [conversations |-> conversations, active |-> active]
  /\ UNCHANGED <<conversations, active, pendingIds, pending, streams, turns>>

\* newConversation, selectConversation
Open(c) ==
  /\ c \in DOMAIN seen.conversations \cup {NoConversation}
  /\ active' = c
  /\ UNCHANGED <<conversations, seen, pendingIds, pending, streams, turns>>

Delete(c) ==
  /\ c \in DOMAIN seen.conversations
  /\ conversations' = Restrict(conversations, DOMAIN conversations \ {c})
  /\ active' = IF active = c THEN NoConversation ELSE active
  /\ UNCHANGED <<seen, pendingIds, pending, streams, turns>>

\* Everything in sendMessage up to its first await: it starts from what the last
\* rendering has shown, and writes that back with the question added.
Ask(c, guarded) ==
  LET known == seen.conversations
      before == IF c \in DOMAIN known THEN known[c] ELSE <<>>
  IN
  /\ turns < MaxTurns /\ turns' = turns + 1
  /\ IF seen.active \in DOMAIN known THEN c = seen.active
     ELSE c \notin DOMAIN known \cup DOMAIN conversations \cup pendingIds
  /\ guarded => c \notin pendingIds
  /\ pendingIds' = pendingIds \cup {c}
  /\ conversations' = [k \in DOMAIN known \cup {c} |->
       IF k = c THEN Append(before, Question(turns')) ELSE known[k]]
  /\ active' = c
  /\ pending' = pending \cup {c}
  /\ streams' = streams \cup {[turn |-> turns', conversation |-> c, round |-> 1, text |-> {}]}
  /\ UNCHANGED seen

\* Mutant: a second question in a conversation does not wait.
SendUnguarded(c) == Ask(c, FALSE)
SendMessage(c) == Ask(c, TRUE)

----------------------------------------------------------------------------
(* The events of a turn.                                                   *)

Follow(s, next) ==
  /\ streams' = (streams \ {s}) \cup {next}
  /\ UNCHANGED <<conversations, active, seen, pendingIds, pending, turns>>

TextDelta(s) == Follow(s, [s EXCEPT !.text = @ \cup {s.round}])
\* A tool call after some text: the draft is dropped.
ToolStatus(s) == s.round < MaxRounds /\ Follow(s, [s EXCEPT !.round = @ + 1, !.text = {}])

End(s) ==
  /\ streams' = streams \ {s}
  /\ pendingIds' = pendingIds \ {s.conversation}
  /\ UNCHANGED <<active, seen, turns>>

WithAnswer(all, s) ==
  [k \in DOMAIN all |->
     IF k = s.conversation THEN Append(all[k], Answered(s)) ELSE all[k]]

\* Mutant: the answer is added to what the last rendering has shown.
DoneAsRendered(s) ==
  /\ End(s)
  /\ conversations' = WithAnswer(seen.conversations, s)
  /\ pending' = pending \ {s.conversation}
\* The stream ends with a done event, or breaks off after some text.
Done(s) ==
  /\ End(s)
  /\ conversations' = WithAnswer(conversations, s)
  /\ pending' = pending \ {s.conversation}

\* An error event, an error thrown, or a stream that breaks off without text.
Fail(s) ==
  /\ End(s)
  /\ pending' = pending \ {s.conversation}
  /\ UNCHANGED conversations

\* The page is loaded again: what was under way is forgotten.
Reload ==
  /\ pendingIds' = {} /\ pending' = {} /\ streams' = {}
  /\ seen' = [conversations |-> conversations, active |-> active]
  /\ UNCHANGED <<conversations, active, turns>>

NoConversations == [c \in {} |-> <<>>]
ChatInit ==
  /\ conversations = NoConversations /\ active = NoConversation
  /\ seen = [conversations |-> NoConversations, active |-> NoConversation]
  /\ pendingIds = {} /\ pending = {} /\ streams = {}
  /\ turns = 0

ChatNext ==
  \/ Render \/ Reload
  \/ \E c \in Conversations : Open(c) \/ Delete(c) \/ SendMessage(c)
  \/ Open(NoConversation)
  \/ \E s \in streams : TextDelta(s) \/ ToolStatus(s) \/ Done(s) \/ Fail(s)

ChatSpec == ChatInit /\ [][ChatNext]_chatVars

----------------------------------------------------------------------------
(* Properties.                                                             *)

\* An answer follows its own question, in the conversation in which that was asked,
\* and holds no draft that was given up for a tool call; a conversation is shown as
\* thinking exactly as long as a turn of it is under way.
AnswersFollowQuestions ==
  /\ \A c \in DOMAIN conversations : \A i \in DOMAIN conversations[c] :
       LET m == conversations[c][i] IN
       IsAnswer(m) =>
         /\ i > 1 /\ conversations[c][i - 1] = Question(m.turn)
         /\ Cardinality(m.rounds) <= 1
  /\ pending = {s.conversation : s \in streams}

AnswersIn(all, c) ==
  IF c \in DOMAIN all THEN {m \in Range(all[c]) : IsAnswer(m)} ELSE {}

\* An answer that has arrived stays, unless its conversation is deleted, or a
\* question is sent, in any conversation, from a rendering that does not have it yet.
AnswersStay ==
  [][\A c \in DOMAIN conversations :
       \A m \in AnswersIn(conversations, c) \ AnswersIn(conversations', c) :
         \/ turns' = turns /\ conversations' = Restrict(conversations, DOMAIN conversations \ {c})
         \/ turns' # turns /\ m \notin AnswersIn(seen.conversations, c)]_chatVars
=============================================================================
