---------------------------- MODULE InsightsProofs ----------------------------
(***************************************************************************)
(* Theorems about what is computed from several reads or several fields:   *)
(* the advice on stock, whose facts are read one after the other while the *)
(* warehouses go on; the reports of the analytics, which group the same    *)
(* orders and movements in different ways; the data of a document, which   *)
(* is put together from the fields Textract lists; and the example queries *)
(* of the agent, which join orders, reservations, stock and movements.     *)
(***************************************************************************)
EXTENDS StockAdvice, QueryExamples, Extraction, SumTheorems, SequenceTheorems, TLAPS

----------------------------------------------------------------------------
(* The advice on stock. An advisor hears its facts one after the other; what*)
(* it has heard stays true, each fact of the moment it was asked.           *)

Partial == UNION {[S -> Nat] : S \in SUBSET Stores}
Needs == [short : BOOLEAN, need : Nat]
DeadLists == [time : Nat, onHand : Partial]
Levels == UNION {[S -> [free : Int, least : Int]] : S \in SUBSET Stores}
Answers == Needs \cup Int \cup {Unbounded} \cup DeadLists \cup Levels \cup Partial
Calls(tool) == [tool : {tool}, at : Stores, heard : Seq(Answers)]

ShelfTyped ==
  /\ shelf \in [Stores -> [onHand : Int, reserved : Int, incoming : Int, least : Int, lastSale : Nat]]
  /\ capacity \in [Stores -> Nat \cup {Unbounded}]
  /\ switched \in [Stores -> Nat]
  /\ clock \in Nat

\* What a list of dead stock says was true when it was made, and who has bought
\* some since did so since then.
DeadListHolds(x) ==
  /\ x \in DeadLists
  /\ x.time <= clock
  /\ \A d \in DOMAIN x.onHand :
       /\ x.onHand[d] # 0
       /\ \/ shelf[d].lastSale <= x.time - IdleTime
          \/ shelf[d].lastSale >= x.time

\* The risk has what is in use, but for what has been switched since the list of
\* dead stock was made.
RestockHolds(c) ==
  /\ c \in Calls("restock")
  /\ Len(c.heard) <= 4
  /\ Len(c.heard) >= 1 => c.heard[1] \in Needs
  /\ Len(c.heard) >= 2 => c.heard[2] \in Int \cup {Unbounded}
  /\ Len(c.heard) >= 3 => DeadListHolds(c.heard[3])
  /\ Len(c.heard) >= 4 =>
       /\ c.heard[4] \in Levels
       /\ \A d \in Stores : \/ d \in DOMAIN c.heard[4] <=> InUse(d)
                           \/ switched[d] >= c.heard[3].time

\* A sale that the last answer has is one since the list was made, unless it is
\* as old as the list allows.
DeadStockHolds(c) ==
  /\ c \in Calls("deadStock")
  /\ Len(c.heard) <= 3
  /\ Len(c.heard) >= 1 => DeadListHolds(c.heard[1])
  /\ Len(c.heard) >= 2 => c.heard[2] \in Nat /\ c.heard[2] >= c.heard[1].time
  /\ Len(c.heard) >= 3 =>
       /\ c.heard[3] \in Partial
       /\ \A d \in DOMAIN c.heard[3] \cap DOMAIN c.heard[1].onHand :
            \/ shelf[d].lastSale >= c.heard[1].time
            \/ c.heard[3][d] = c.heard[1].time - IdleTime

CallHolds(c) == c = NoAdvice \/ RestockHolds(c) \/ DeadStockHolds(c)

AdviceInv ==
  /\ ShelfTyped
  /\ DOMAIN call = Advisors
  /\ \A a \in Advisors : CallHolds(call[a])

----------------------------------------------------------------------------
LEMMA AskedOf ==
  ASSUME NEW a
  PROVE  /\ call[a].tool = "none" => Asked(a) = <<>>
         /\ call[a].tool = "restock" => Asked(a) = <<"needs", "room", "dead", "rows">>
         /\ call[a].tool = "deadStock" => Asked(a) = <<"dead", "today", "sales">>
BY DEF Asked, Questions

LEMMA HeardInRestock ==
  ASSUME NEW a, call[a].tool = "restock"
  PROVE  /\ Heard(a, "needs") = call[a].heard[1]
         /\ Heard(a, "room") = call[a].heard[2]
         /\ Heard(a, "dead") = call[a].heard[3]
         /\ Heard(a, "rows") = call[a].heard[4]
<1> DEFINE asked == <<"needs", "room", "dead", "rows">>
<1>1. /\ (CHOOSE k \in DOMAIN asked : asked[k] = "needs") = 1
      /\ (CHOOSE k \in DOMAIN asked : asked[k] = "room") = 2
      /\ (CHOOSE k \in DOMAIN asked : asked[k] = "dead") = 3
      /\ (CHOOSE k \in DOMAIN asked : asked[k] = "rows") = 4
  <2>1. DOMAIN asked = {1, 2, 3, 4}
    OBVIOUS
  <2>2. asked[1] = "needs" /\ asked[2] = "room" /\ asked[3] = "dead" /\ asked[4] = "rows"
    OBVIOUS
  <2> QED BY <2>1, <2>2
<1>2. Asked(a) = asked
  BY AskedOf
<1> HIDE DEF asked
<1> QED BY <1>1, <1>2 DEF Heard

LEMMA HeardInDeadStock ==
  ASSUME NEW a, call[a].tool = "deadStock"
  PROVE  /\ Heard(a, "dead") = call[a].heard[1]
         /\ Heard(a, "today") = call[a].heard[2]
         /\ Heard(a, "sales") = call[a].heard[3]
<1> DEFINE asked == <<"dead", "today", "sales">>
<1>1. /\ (CHOOSE k \in DOMAIN asked : asked[k] = "dead") = 1
      /\ (CHOOSE k \in DOMAIN asked : asked[k] = "today") = 2
      /\ (CHOOSE k \in DOMAIN asked : asked[k] = "sales") = 3
  <2>1. DOMAIN asked = {1, 2, 3}
    OBVIOUS
  <2>2. asked[1] = "dead" /\ asked[2] = "today" /\ asked[3] = "sales"
    OBVIOUS
  <2> QED BY <2>1, <2>2
<1>2. Asked(a) = asked
  BY AskedOf
<1> HIDE DEF asked
<1> QED BY <1>1, <1>2 DEF Heard

----------------------------------------------------------------------------
(* The answers.                                                            *)

LEMMA NeedsAnswer ==
  ASSUME ShelfTyped, NEW a, call[a].at \in Stores
  PROVE  AnswerTo(a, "needs") \in Needs
<1> DEFINE w == call[a].at
           is == InUse(w) /\ RiskLevel(Expected(w), shelf[w].least) # "OK"
<1>1. AnswerTo(a, "needs") = [short |-> is, need |-> AtLeastZero(shelf[w].least - Expected(w))]
  BY DEF AnswerTo
<1>2. AtLeastZero(shelf[w].least - Expected(w)) \in Nat
  BY DEF ShelfTyped, AtLeastZero, Expected, Free
<1>3. is \in BOOLEAN
  OBVIOUS
<1> HIDE DEF is
<1> QED BY <1>1, <1>2, <1>3 DEF Needs

LEMMA RoomAnswer ==
  ASSUME ShelfTyped, NEW a, call[a].at \in Stores
  PROVE  AnswerTo(a, "room") \in Int \cup {Unbounded}
BY DEF ShelfTyped, AnswerTo, Room

LEMMA DeadAnswer ==
  ASSUME ShelfTyped, NEW a
  PROVE  DeadListHolds(AnswerTo(a, "dead")) /\ AnswerTo(a, "dead").time = clock
<1> DEFINE D == {e \in Stores : Dead(e)}
           held == [d \in D |-> shelf[d].onHand]
           x == [time |-> clock, onHand |-> held]
<1>1. AnswerTo(a, "dead") = x
  BY DEF AnswerTo
<1>2. \A d \in D : shelf[d].onHand \in Nat \ {0} /\ shelf[d].lastSale <= clock - IdleTime
  BY DEF Dead, ShelfTyped
<1>3. held \in [D -> Nat] /\ D \in SUBSET Stores
  BY <1>2
<1>4. held \in Partial
  <2> HIDE DEF held, D
  <2> QED BY <1>3 DEF Partial
<1>5. DOMAIN held = D /\ \A d \in D : held[d] # 0
  BY <1>2
<1>6. clock \in Nat
  BY DEF ShelfTyped
<1>7. x \in DeadLists /\ x.time = clock /\ x.onHand = held
  <2> HIDE DEF held, D
  <2> QED BY <1>4, <1>6 DEF DeadLists
<1> HIDE DEF held, D, x
<1> QED BY <1>1, <1>2, <1>5, <1>6, <1>7 DEF DeadListHolds

LEMMA RowsAnswer ==
  ASSUME ShelfTyped, NEW a
  PROVE  AnswerTo(a, "rows") \in Levels /\ \A d \in Stores : d \in DOMAIN AnswerTo(a, "rows") <=> InUse(d)
<1> DEFINE D == {e \in Stores : InUse(e)}
           x == [d \in D |-> [free |-> Free(d), least |-> shelf[d].least]]
<1>1. AnswerTo(a, "rows") = x
  BY DEF AnswerTo
<1>2. \A d \in Stores : [free |-> Free(d), least |-> shelf[d].least] \in [free : Int, least : Int]
  BY DEF ShelfTyped, Free
<1>3. x \in [D -> [free : Int, least : Int]] /\ D \in SUBSET Stores
  BY <1>2
<1>4. DOMAIN x = D /\ \A d \in Stores : d \in D <=> InUse(d)
  OBVIOUS
<1> HIDE DEF D, x
<1> QED BY <1>1, <1>3, <1>4 DEF Levels

LEMMA SalesAnswer ==
  ASSUME ShelfTyped, NEW a
  PROVE  /\ AnswerTo(a, "sales") \in Partial
         /\ \A d \in DOMAIN AnswerTo(a, "sales") :
              /\ d \in Stores /\ AnswerTo(a, "sales")[d] = shelf[d].lastSale
              /\ shelf[d].lastSale >= Heard(a, "today") - IdleTime
<1> DEFINE D == {d \in Stores : /\ shelf[d].lastSale > 0
                                /\ shelf[d].lastSale >= Heard(a, "today") - IdleTime}
           x == [w \in D |-> shelf[w].lastSale]
<1>1. AnswerTo(a, "sales") = x
  BY DEF AnswerTo, SalesSince
<1>2. x \in [D -> Nat] /\ D \in SUBSET Stores
  BY DEF ShelfTyped
<1>3. \A d \in D : d \in Stores /\ x[d] = shelf[d].lastSale /\ shelf[d].lastSale >= Heard(a, "today") - IdleTime
  OBVIOUS
<1>4. DOMAIN x = D
  OBVIOUS
<1> HIDE DEF D, x
<1>5. x \in Partial
  BY <1>2 DEF Partial
<1> QED BY <1>1, <1>3, <1>4, <1>5

LEMMA AdviceInitially == AdviceInit => AdviceInv
<1> SUFFICES ASSUME AdviceInit PROVE AdviceInv
  OBVIOUS
<1>1. ShelfTyped
  BY AdviceAssumption DEF AdviceInit, ShelfTyped, Shelf
<1> QED BY <1>1 DEF AdviceInit, AdviceInv, CallHolds

\* The warehouses go on: nothing that was heard is less true for it.
LEMMA DeadListStays ==
  ASSUME ShelfTyped, ShelfTyped', clock <= clock', 
         \A d \in Stores : shelf'[d].lastSale = shelf[d].lastSale \/ shelf'[d].lastSale >= clock,
         NEW x, DeadListHolds(x)
  PROVE  DeadListHolds(x)'
<1>1. \A d \in DOMAIN x.onHand : d \in Stores
  BY DEF DeadListHolds, DeadLists, Partial
<1>2. x.time \in Nat /\ IdleTime \in Nat /\ clock \in Nat /\ clock' \in Nat
  BY AdviceAssumption DEF DeadListHolds, DeadLists, ShelfTyped
<1>3. \A d \in Stores : shelf[d].lastSale \in Nat /\ shelf'[d].lastSale \in Nat
  BY DEF ShelfTyped
<1> QED BY <1>1, <1>2, <1>3 DEF DeadListHolds

LEMMA WarehousesGoOn ==
  ASSUME AdviceInv, ShelfTyped', UNCHANGED call, clock <= clock',
         \A d \in Stores : shelf'[d].lastSale = shelf[d].lastSale \/ shelf'[d].lastSale >= clock,
         \A d \in Stores : (switched'[d] = switched[d] /\ (InUse(d)' <=> InUse(d))) \/ switched'[d] = clock
  PROVE  AdviceInv'
<1> SUFFICES ASSUME NEW a \in Advisors PROVE CallHolds(call[a])'
  BY DEF AdviceInv
<1> DEFINE c == call[a]
<1>1. call'[a] = c /\ CallHolds(c) /\ ShelfTyped
  BY DEF AdviceInv
<1> HIDE DEF c
<1>2. \A x : DeadListHolds(x) => DeadListHolds(x)'
  BY <1>1, DeadListStays
<1>3. CASE c = NoAdvice
  BY <1>1, <1>3 DEF CallHolds, NoAdvice
<1>4. CASE RestockHolds(c)
  <2>1. Len(c.heard) >= 4 => c.heard[3].time \in Nat /\ c.heard[3].time <= clock
    BY <1>4 DEF RestockHolds, DeadListHolds, DeadLists
  <2>2. Len(c.heard) >= 4 =>
          \A d \in Stores : \/ d \in DOMAIN c.heard[4] <=> InUse(d)'
                           \/ switched'[d] >= c.heard[3].time
    BY <1>4, <2>1 DEF RestockHolds
  <2>3. RestockHolds(c)'
    BY <1>1, <1>2, <1>4, <2>2 DEF RestockHolds, c
  <2> QED BY <1>1, <2>3 DEF CallHolds, c
<1>5. CASE DeadStockHolds(c)
  <2>1. Len(c.heard) >= 3 => c.heard[1].time \in Nat /\ c.heard[1].time <= clock
    BY <1>5 DEF DeadStockHolds, DeadListHolds, DeadLists
  <2>2. Len(c.heard) >= 3 => DOMAIN c.heard[3] \subseteq Stores
    BY <1>5 DEF DeadStockHolds, Partial
  <2>3. \A d \in Stores : shelf[d].lastSale \in Nat /\ shelf'[d].lastSale \in Nat
    BY <1>1 DEF ShelfTyped
  <2>4. clock \in Nat
    BY <1>1 DEF ShelfTyped
  <2>5. Len(c.heard) >= 3 =>
          \A d \in DOMAIN c.heard[3] \cap DOMAIN c.heard[1].onHand :
            \/ shelf'[d].lastSale >= c.heard[1].time
            \/ c.heard[3][d] = c.heard[1].time - IdleTime
    <3> SUFFICES ASSUME Len(c.heard) >= 3, NEW d \in DOMAIN c.heard[3] \cap DOMAIN c.heard[1].onHand
                 PROVE  \/ shelf'[d].lastSale >= c.heard[1].time
                        \/ c.heard[3][d] = c.heard[1].time - IdleTime
      OBVIOUS
    <3>1. \/ shelf[d].lastSale >= c.heard[1].time
          \/ c.heard[3][d] = c.heard[1].time - IdleTime
      BY <1>5 DEF DeadStockHolds
    <3>2. d \in Stores
      BY <2>2
    <3>3. PICK old, new : old = shelf[d].lastSale /\ new = shelf'[d].lastSale
      OBVIOUS
    <3>4. PICK asked : asked = c.heard[1].time
      OBVIOUS
    <3>5. new = old \/ new >= clock
      BY <3>2, <3>3
    <3>6. old \in Nat /\ new \in Nat /\ asked \in Nat /\ asked <= clock
      BY <2>1, <2>3, <3>2, <3>3, <3>4
    <3>7. old >= asked => new >= asked
      BY ONLY <2>4, <3>5, <3>6
    <3> QED BY <3>1, <3>3, <3>4, <3>7
  <2>6. DeadStockHolds(c)'
    BY <1>1, <1>2, <1>5, <2>5 DEF DeadStockHolds, c
  <2> QED BY <1>1, <2>6 DEF CallHolds, c
<1> QED BY <1>1, <1>3, <1>4, <1>5 DEF CallHolds

LEMMA CallStays ==
  ASSUME UNCHANGED storeVars, NEW c, CallHolds(c)
  PROVE  CallHolds(c)'
<1>1. \A x : DeadListHolds(x) => DeadListHolds(x)'
  BY DEF DeadListHolds, storeVars
<1>2. shelf' = shelf /\ switched' = switched /\ \A d : InUse(d)' <=> InUse(d)
  BY DEF storeVars, useVars, InUse
<1>3. CASE RestockHolds(c)
  BY <1>1, <1>2, <1>3 DEF CallHolds, RestockHolds
<1>4. CASE DeadStockHolds(c)
  BY <1>1, <1>2, <1>4 DEF CallHolds, DeadStockHolds
<1> QED BY <1>3, <1>4 DEF CallHolds

\* One call changes, and nothing else.
LEMMA OneCallChanges ==
  ASSUME AdviceInv, NEW a \in Advisors, NEW c, CallHolds(c), call' = [call EXCEPT ![a] = c],
         UNCHANGED storeVars
  PROVE  AdviceInv'
<1>1. ShelfTyped'
  BY DEF AdviceInv, ShelfTyped, storeVars, useVars
<1>2. DOMAIN call' = Advisors
  BY DEF AdviceInv
<1>3. ASSUME NEW b \in Advisors PROVE CallHolds(call[b])'
  <2>1. PICK e : e = IF b = a THEN c ELSE call[b]
    OBVIOUS
  <2>2. call'[b] = e /\ CallHolds(e)
    BY <2>1 DEF AdviceInv
  <2>3. CallHolds(e)'
    BY <2>2, CallStays
  <2> QED BY <2>2, <2>3
<1> QED BY <1>1, <1>2, <1>3 DEF AdviceInv

LEMMA AskAdviceKeeps ==
  ASSUME AdviceInv, NEW a \in Advisors, NEW w \in Stores, NEW tool \in {"restock", "deadStock"},
         AskAdvice(a, tool, w)
  PROVE  AdviceInv'
<1> DEFINE c == [tool |-> tool, at |-> w, heard |-> <<>>]
<1>1. call' = [call EXCEPT ![a] = c] /\ UNCHANGED storeVars
  BY DEF AskAdvice
<1>2. c.heard \in Seq(Answers) /\ Len(c.heard) = 0
  OBVIOUS
<1>3. CallHolds(c)
  BY <1>2 DEF CallHolds, RestockHolds, DeadStockHolds, Calls
<1> HIDE DEF c
<1> QED BY <1>1, <1>3, OneCallChanges

LEMMA DismissKeeps ==
  ASSUME AdviceInv, NEW a \in Advisors, Dismiss(a)
  PROVE  AdviceInv'
BY OneCallChanges DEF Dismiss, CallHolds

\* One more answer.
OneMore(c, x) == [c EXCEPT !.heard = Append(@, x)]

LEMMA OneMoreAnswer ==
  ASSUME NEW t, NEW c, c \in Calls(t), NEW x \in Answers,
         NEW d, d = OneMore(c, x), NEW n, n = Len(c.heard)
  PROVE  /\ d \in Calls(t)
         /\ Len(d.heard) = n + 1 /\ d.heard[n + 1] = x
         /\ \A k \in 1..n : d.heard[k] = c.heard[k]
<1>1. c.heard \in Seq(Answers)
  BY DEF Calls
<1>3. Append(c.heard, x) \in Seq(Answers)
  BY <1>1
<1>2. d = [tool |-> c.tool, at |-> c.at, heard |-> Append(c.heard, x)]
  BY DEF OneMore, Calls
<1>4. d \in Calls(t)
  BY <1>2, <1>3 DEF Calls
<1> QED BY <1>1, <1>2, <1>4

NextAnswer(a) == AnswerTo(a, Asked(a)[Len(call[a].heard) + 1])
MoreToAsk(a) == Len(call[a].heard) < Len(Asked(a))

LEMMA NextInRestock ==
  ASSUME NEW a, call[a].tool = "restock", NEW n \in Nat, n = Len(call[a].heard), MoreToAsk(a)
  PROVE  /\ n \in 0..3
         /\ n = 0 => NextAnswer(a) = AnswerTo(a, "needs")
         /\ n = 1 => NextAnswer(a) = AnswerTo(a, "room")
         /\ n = 2 => NextAnswer(a) = AnswerTo(a, "dead")
         /\ n = 3 => NextAnswer(a) = AnswerTo(a, "rows")
<1>1. n < Len(<<"needs", "room", "dead", "rows">>)
  BY AskedOf DEF MoreToAsk
<1>2. NextAnswer(a) = AnswerTo(a, <<"needs", "room", "dead", "rows">>[n + 1])
  BY AskedOf DEF NextAnswer
<1>3. n \in 0..3
  <2>1. Len(<<"needs", "room", "dead", "rows">>) = 4
    OBVIOUS
  <2>2. n < 4
    BY <1>1, <2>1, Zenon
  <2>3. \A k \in Nat : k < 4 => k \in 0..3
    OBVIOUS
  <2> QED BY <2>2, <2>3, Zenon
<1>4. CASE n = 0
  BY <1>2, <1>4
<1>5. CASE n = 1
  BY <1>2, <1>5
<1>6. CASE n = 2
  BY <1>2, <1>6
<1>7. CASE n = 3
  BY <1>2, <1>7
<1> QED BY <1>3, <1>4, <1>5, <1>6, <1>7

LEMMA NextInDeadStock ==
  ASSUME NEW a, call[a].tool = "deadStock", NEW n \in Nat, n = Len(call[a].heard), MoreToAsk(a)
  PROVE  /\ n \in 0..2
         /\ n = 0 => NextAnswer(a) = AnswerTo(a, "dead")
         /\ n = 1 => NextAnswer(a) = AnswerTo(a, "today")
         /\ n = 2 => NextAnswer(a) = AnswerTo(a, "sales")
<1>1. n < Len(<<"dead", "today", "sales">>)
  BY AskedOf DEF MoreToAsk
<1>2. NextAnswer(a) = AnswerTo(a, <<"dead", "today", "sales">>[n + 1])
  BY AskedOf DEF NextAnswer
<1>3. n \in 0..2
  <2>1. Len(<<"dead", "today", "sales">>) = 3
    OBVIOUS
  <2>2. n < 3
    BY <1>1, <2>1, Zenon
  <2>3. \A k \in Nat : k < 3 => k \in 0..2
    OBVIOUS
  <2> QED BY <2>2, <2>3, Zenon
<1>4. CASE n = 0
  BY <1>2, <1>4
<1>5. CASE n = 1
  BY <1>2, <1>5
<1>6. CASE n = 2
  BY <1>2, <1>6
<1> QED BY <1>3, <1>4, <1>5, <1>6

LEMMA RestockHears ==
  ASSUME AdviceInv, NEW a \in Advisors, NEW c, c = call[a], RestockHolds(c),
         NEW n \in Nat, n = Len(c.heard), MoreToAsk(a),
         NEW x, x = NextAnswer(a),
         NEW d, d = OneMore(c, x)
  PROVE  RestockHolds(d)
<1>1. c \in Calls("restock") /\ ShelfTyped
  BY DEF RestockHolds, AdviceInv
<1>2. call[a].tool = "restock" /\ call[a].at \in Stores
  BY <1>1 DEF Calls
<1>5. /\ n \in 0..3
      /\ n = 0 => x = AnswerTo(a, "needs")
      /\ n = 1 => x = AnswerTo(a, "room")
      /\ n = 2 => x = AnswerTo(a, "dead")
      /\ n = 3 => x = AnswerTo(a, "rows")
  BY <1>2, NextInRestock
<1>6. /\ n = 0 => x \in Needs
      /\ n = 1 => x \in Int \cup {Unbounded}
      /\ n = 2 => DeadListHolds(x)
      /\ n = 3 => x \in Levels /\ \A w \in Stores : w \in DOMAIN x <=> InUse(w)
  BY <1>1, <1>2, <1>5, NeedsAnswer, RoomAnswer, DeadAnswer, RowsAnswer
<1>7. x \in Answers
  BY <1>5, <1>6 DEF Answers, DeadListHolds
<1>8. /\ d \in Calls("restock")
      /\ Len(d.heard) = n + 1 /\ d.heard[n + 1] = x /\ \A k \in 1..n : d.heard[k] = c.heard[k]
  BY <1>1, <1>7, OneMoreAnswer
<1>10. CASE n = 0
  BY <1>6, <1>8, <1>10 DEF RestockHolds
<1>11. CASE n = 1
  BY <1>6, <1>8, <1>11 DEF RestockHolds
<1>12. CASE n = 2
  BY <1>6, <1>8, <1>12 DEF RestockHolds
<1>13. CASE n = 3
  BY <1>6, <1>8, <1>13 DEF RestockHolds
<1> QED BY <1>5, <1>10, <1>11, <1>12, <1>13

LEMMA DeadStockHears ==
  ASSUME AdviceInv, NEW a \in Advisors, NEW c, c = call[a], DeadStockHolds(c),
         NEW n \in Nat, n = Len(c.heard), MoreToAsk(a),
         NEW x, x = NextAnswer(a),
         NEW d, d = OneMore(c, x)
  PROVE  DeadStockHolds(d)
<1>1. c \in Calls("deadStock") /\ ShelfTyped
  BY DEF DeadStockHolds, AdviceInv
<1>2. call[a].tool = "deadStock" /\ call[a].at \in Stores
  BY <1>1 DEF Calls
<1>5. /\ n \in 0..2
      /\ n = 0 => x = AnswerTo(a, "dead")
      /\ n = 1 => x = AnswerTo(a, "today")
      /\ n = 2 => x = AnswerTo(a, "sales")
  BY <1>2, NextInDeadStock
<1>6. /\ n = 0 => DeadListHolds(x)
      /\ n = 1 => x = clock /\ clock \in Nat
      /\ n = 2 => x \in Partial
  <2>1. n = 1 => x = clock /\ clock \in Nat
    BY <1>1, <1>5 DEF AnswerTo, ShelfTyped
  <2> QED BY <1>1, <1>5, <2>1, DeadAnswer, SalesAnswer
<1>7. x \in Answers
  BY <1>5, <1>6 DEF Answers, DeadListHolds
<1>8. n = 2 => \A w \in DOMAIN x \cap DOMAIN c.heard[1].onHand :
                 \/ shelf[w].lastSale >= c.heard[1].time
                 \/ x[w] = c.heard[1].time - IdleTime
  <2> SUFFICES ASSUME n = 2, NEW w \in DOMAIN x \cap DOMAIN c.heard[1].onHand
               PROVE  \/ shelf[w].lastSale >= c.heard[1].time
                      \/ x[w] = c.heard[1].time - IdleTime
    OBVIOUS
  <2>1. /\ w \in Stores /\ x[w] = shelf[w].lastSale
        /\ shelf[w].lastSale >= c.heard[2] - IdleTime
    BY <1>1, <1>2, <1>5, SalesAnswer, HeardInDeadStock
  <2>2. /\ DeadListHolds(c.heard[1])
        /\ c.heard[2] \in Nat /\ c.heard[2] >= c.heard[1].time
    BY DEF DeadStockHolds
  <2>3. \/ shelf[w].lastSale <= c.heard[1].time - IdleTime
        \/ shelf[w].lastSale >= c.heard[1].time
    BY <2>2 DEF DeadListHolds
  <2>4. c.heard[1].time \in Nat /\ IdleTime \in Nat /\ shelf[w].lastSale \in Nat
    BY <1>1, <2>1, <2>2, AdviceAssumption DEF DeadListHolds, DeadLists, ShelfTyped
  <2> QED BY <2>1, <2>2, <2>3, <2>4
<1>9. /\ d \in Calls("deadStock")
      /\ Len(d.heard) = n + 1 /\ d.heard[n + 1] = x /\ \A k \in 1..n : d.heard[k] = c.heard[k]
  BY <1>1, <1>7, OneMoreAnswer
<1>11. CASE n = 0
  BY <1>6, <1>9, <1>11 DEF DeadStockHolds
<1>12. CASE n = 1
  <2>1. DeadListHolds(c.heard[1])
    BY <1>12 DEF DeadStockHolds
  <2>2. x \in Nat /\ x >= c.heard[1].time
    BY <1>6, <1>12, <2>1 DEF DeadListHolds, DeadLists
  <2> QED BY <1>9, <1>12, <2>1, <2>2 DEF DeadStockHolds
<1>13. CASE n = 2
  <2>1. d.heard[1] = c.heard[1] /\ d.heard[2] = c.heard[2] /\ d.heard[3] = x /\ Len(d.heard) = 3
    BY <1>9, <1>13
  <2>2. /\ DeadListHolds(d.heard[1]) /\ d.heard[2] \in Nat /\ d.heard[2] >= d.heard[1].time
    BY <1>13, <2>1 DEF DeadStockHolds
  <2>3. /\ d.heard[3] \in Partial
        /\ \A w \in DOMAIN d.heard[3] \cap DOMAIN d.heard[1].onHand :
             \/ shelf[w].lastSale >= d.heard[1].time
             \/ d.heard[3][w] = d.heard[1].time - IdleTime
    BY <1>6, <1>8, <1>13, <2>1
  <2> QED BY <1>9, <2>1, <2>2, <2>3 DEF DeadStockHolds
<1> QED BY <1>5, <1>11, <1>12, <1>13

LEMMA HearKeeps ==
  ASSUME AdviceInv, NEW a \in Advisors, Hear(a)
  PROVE  AdviceInv'
<1>1. /\ MoreToAsk(a) /\ CallHolds(call[a])
      /\ call' = [call EXCEPT ![a] = OneMore(call[a], NextAnswer(a))]
      /\ UNCHANGED storeVars
  BY DEF Hear, AdviceInv, OneMore, NextAnswer, MoreToAsk
<1>2. call[a] # NoAdvice
  <2> SUFFICES ASSUME call[a] = NoAdvice PROVE FALSE
    OBVIOUS
  <2>1. Asked(a) = <<>> /\ call[a].heard = <<>>
    BY AskedOf DEF NoAdvice
  <2> QED BY <1>1, <2>1 DEF MoreToAsk
<1>3. PICK c, n, e, f : c = call[a] /\ n = Len(c.heard) /\ e = NextAnswer(a) /\ f = OneMore(c, e)
  OBVIOUS
<1>4. RestockHolds(c) \/ DeadStockHolds(c)
  BY <1>1, <1>2, <1>3 DEF CallHolds
<1>5. n \in Nat
  BY <1>3, <1>4 DEF RestockHolds, DeadStockHolds
<1>6. CallHolds(f)
  BY <1>1, <1>3, <1>4, <1>5, RestockHears, DeadStockHears DEF CallHolds
<1> QED BY <1>1, <1>3, <1>6, OneCallChanges

\* What happens to a warehouse meanwhile.
LEMMA TickKeeps ==
  ASSUME AdviceInv, Trade, shelf' \in [Stores -> [onHand : Int, reserved : Int, incoming : Int, least : Int, lastSale : Nat]],
         \A d \in Stores : shelf'[d].lastSale \in {shelf[d].lastSale, clock}
  PROVE  AdviceInv'
<1>1. clock \in Nat /\ clock' = clock + 1 /\ UNCHANGED <<capacity, call, open, retired, switched>> /\ ShelfTyped
  BY DEF AdviceInv, ShelfTyped, Trade, Tick, useVars
<1>2. ShelfTyped' /\ clock <= clock'
  BY <1>1 DEF ShelfTyped
<1>3. \A d \in Stores : shelf'[d].lastSale = shelf[d].lastSale \/ shelf'[d].lastSale >= clock
  BY <1>1
<1>4. \A d \in Stores : switched'[d] = switched[d] /\ (InUse(d)' <=> InUse(d))
  BY <1>1 DEF InUse
<1> QED BY <1>1, <1>2, <1>3, <1>4, WarehousesGoOn

LEMMA SwitchKeeps ==
  ASSUME AdviceInv, SwitchProduct \/ \E w \in Stores : SwitchWarehouse(w)
  PROVE  AdviceInv'
<1>1. clock \in Nat /\ clock' = clock + 1 /\ UNCHANGED <<capacity, call, shelf>> /\ ShelfTyped
  BY DEF AdviceInv, ShelfTyped, SwitchProduct, SwitchWarehouse, Tick
<1>2. /\ switched' \in [Stores -> Nat]
      /\ \A d \in Stores : (switched'[d] = switched[d] /\ (InUse(d)' <=> InUse(d))) \/ switched'[d] = clock
  <2>1. CASE SwitchProduct
    BY <1>1, <2>1 DEF SwitchProduct
  <2>2. ASSUME NEW w \in Stores, SwitchWarehouse(w)
        PROVE  /\ switched' \in [Stores -> Nat]
               /\ \A d \in Stores : (switched'[d] = switched[d] /\ (InUse(d)' <=> InUse(d))) \/ switched'[d] = clock
    <3>1. switched \in [Stores -> Nat] /\ switched' = [switched EXCEPT ![w] = clock] /\ retired' = retired
      BY <1>1, <2>2 DEF SwitchWarehouse, ShelfTyped
    <3>2. switched' \in [Stores -> Nat] /\ switched'[w] = clock
          /\ \A d \in Stores \ {w} : switched'[d] = switched[d]
      BY <1>1, <3>1
    <3>3. \A d \in Stores \ {w} : d \in open' <=> d \in open
      BY <2>2 DEF SwitchWarehouse
    <3> QED BY <3>1, <3>2, <3>3 DEF InUse
  <2> QED BY <2>1, <2>2
<1>3. ShelfTyped' /\ clock <= clock'
  BY <1>1, <1>2 DEF ShelfTyped
<1> QED BY <1>1, <1>2, <1>3, WarehousesGoOn

LEMMA WarehouseStepKeeps ==
  ASSUME AdviceInv, NEW w \in Stores,
         \/ ReserveUnit(w) \/ SellUnit(w) \/ ReceiveDelivery(w) \/ OrderUnit(w)
         \/ \E v \in Stores : MoveUnit(v, w)
  PROVE  AdviceInv'
<1> DEFINE Cell == [onHand : Int, reserved : Int, incoming : Int, least : Int, lastSale : Nat]
<1>1. shelf \in [Stores -> Cell] /\ clock \in Nat
  BY DEF AdviceInv, ShelfTyped
<1>2. CASE ReserveUnit(w)
  <2>1. shelf' = [shelf EXCEPT ![w].reserved = @ + 1] /\ Trade
    BY <1>2 DEF ReserveUnit
  <2> QED BY <1>1, <2>1, TickKeeps
<1>3. CASE SellUnit(w)
  <2>1. Trade /\ shelf' = [shelf EXCEPT ![w].onHand = @ - 1, ![w].reserved = @ - 1, ![w].lastSale = clock]
    BY <1>3 DEF SellUnit
  <2>2. shelf' \in [Stores -> Cell]
    BY <1>1, <2>1
  <2>3. \A d \in Stores : shelf'[d].lastSale \in {shelf[d].lastSale, clock}
    BY <1>1, <2>1
  <2>4. Trade
    BY <2>1
  <2> QED BY <2>2, <2>3, <2>4, TickKeeps
<1>4. CASE ReceiveDelivery(w)
  <2>1. Trade /\ shelf' = [shelf EXCEPT ![w].onHand = @ + shelf[w].incoming, ![w].incoming = 0]
    BY <1>4 DEF ReceiveDelivery
  <2>2. shelf' \in [Stores -> Cell]
    <3>1. shelf[w].onHand + shelf[w].incoming \in Int
      BY <1>1
    <3>2. PICK more \in Int : more = shelf[w].onHand + shelf[w].incoming
      BY <3>1
    <3>3. shelf' = [shelf EXCEPT ![w].onHand = more, ![w].incoming = 0]
      BY <2>1, <3>2
    <3>4. PICK first : first = [shelf EXCEPT ![w].onHand = more]
      OBVIOUS
    <3>5. first \in [Stores -> Cell]
      BY <1>1, <3>4
    <3>6. shelf' = [first EXCEPT ![w].incoming = 0]
      BY <3>3, <3>4
    <3>7. [first EXCEPT ![w].incoming = 0] \in [Stores -> Cell]
      BY <3>5
    <3> QED BY <3>6, <3>7
  <2>3. \A d \in Stores : shelf'[d].lastSale \in {shelf[d].lastSale, clock}
    BY <1>1, <2>1
  <2>4. Trade
    BY <2>1
  <2> QED BY <2>2, <2>3, <2>4, TickKeeps
<1>5. CASE OrderUnit(w)
  <2>1. Trade /\ shelf' = [shelf EXCEPT ![w].incoming = @ + 1]
    BY <1>5 DEF OrderUnit
  <2> QED BY <1>1, <2>1, TickKeeps
<1>6. CASE \E v \in Stores : MoveUnit(v, w)
  <2>1. PICK v \in Stores : MoveUnit(v, w)
    BY <1>6
  <2>2. /\ Trade /\ v # w
        /\ shelf' = [shelf EXCEPT ![v].onHand = @ - 1, ![v].reserved = @ - 1, ![w].onHand = @ + 1]
    BY <2>1 DEF MoveUnit
  <2> QED BY <1>1, <2>2, TickKeeps
<1> QED BY <1>2, <1>3, <1>4, <1>5, <1>6

LEMMA AdviceInductive == AdviceInv /\ [AdviceNext]_adviceVars => AdviceInv'
<1> SUFFICES ASSUME AdviceInv, [AdviceNext]_adviceVars PROVE AdviceInv'
  OBVIOUS
<1>1. CASE \E a \in Advisors, w \in Stores :
             AskAdvice(a, "restock", w) \/ AskAdvice(a, "deadStock", w)
  BY <1>1, AskAdviceKeeps
<1>2. CASE \E a \in Advisors : Hear(a) \/ Dismiss(a)
  BY <1>2, HearKeeps, DismissKeeps
<1>3. CASE \E w \in Stores :
             \/ ReserveUnit(w) \/ SellUnit(w) \/ ReceiveDelivery(w) \/ OrderUnit(w)
             \/ \E v \in Stores : MoveUnit(v, w)
  BY <1>3, WarehouseStepKeeps
<1>4. CASE Wait
  BY <1>4, TickKeeps DEF Wait, AdviceInv, ShelfTyped
<1>5. CASE SwitchProduct \/ \E w \in Stores : SwitchWarehouse(w)
  BY <1>5, SwitchKeeps
<1>6. CASE UNCHANGED adviceVars
  <2>1. call' = call /\ UNCHANGED storeVars
    BY <1>6 DEF adviceVars
  <2>2. ShelfTyped'
    BY <2>1 DEF AdviceInv, ShelfTyped, storeVars, useVars
  <2> QED BY <2>1, <2>2, CallStays DEF AdviceInv
<1> QED BY <1>1, <1>2, <1>3, <1>4, <1>5, <1>6 DEF AdviceNext

LEMMA AdviceInvariant == AdviceSpec => []AdviceInv
BY AdviceInitially, AdviceInductive, PTL DEF AdviceSpec

LEMMA RestockAnswers ==
  ASSUME AdviceInv, NEW a \in Advisors, call[a].tool = "restock", Answered(a)
  PROVE  /\ call[a].at \in Stores
         /\ Need(a) \in Nat
         /\ Heard(a, "room") \in Int \cup {Unbounded}
         /\ DeadListHolds(Heard(a, "dead"))
         /\ DeadElsewhere(a) \subseteq Stores /\ DeadDonors(a) \subseteq DeadElsewhere(a)
         /\ \A d \in DeadDonors(a) : SafeSurplus(a, d) \in Int
         /\ \A d \in DeadElsewhere(a) : \/ d \in DeadDonors(a) <=> InUse(d)
                                        \/ switched[d] >= Heard(a, "dead").time
<1>1. Asked(a) = <<"needs", "room", "dead", "rows">> /\ Len(Asked(a)) = 4
  BY AskedOf
<1>2. Len(call[a].heard) = 4
  BY <1>1 DEF Answered
<1>3. RestockHolds(call[a])
  <2>1. CallHolds(call[a])
    BY DEF AdviceInv
  <2> QED BY <2>1 DEF CallHolds, NoAdvice, DeadStockHolds, Calls
<1>4. /\ Heard(a, "needs") \in Needs /\ Heard(a, "room") \in Int \cup {Unbounded}
      /\ DeadListHolds(Heard(a, "dead")) /\ Heard(a, "rows") \in Levels
  BY <1>2, <1>3, HeardInRestock DEF RestockHolds
<1>5. call[a].at \in Stores
  BY <1>3 DEF RestockHolds, Calls
<1>6. Need(a) \in Nat
  BY <1>4 DEF Need, Needs
<1>7. DOMAIN Heard(a, "dead").onHand \subseteq Stores
  BY <1>4 DEF DeadListHolds, DeadLists, Partial
<1>8. DeadElsewhere(a) \subseteq Stores /\ DeadDonors(a) \subseteq DeadElsewhere(a)
  BY <1>7 DEF DeadElsewhere, DeadDonors
<1>9. \A d \in DeadDonors(a) : SafeSurplus(a, d) \in Int
  BY <1>4 DEF Levels, SafeSurplus, DeadDonors
<1>10. \A d \in Stores : \/ d \in DOMAIN Heard(a, "rows") <=> InUse(d)
                         \/ switched[d] >= Heard(a, "dead").time
  BY <1>2, <1>3, HeardInRestock DEF RestockHolds
<1>11. \A d \in DeadElsewhere(a) : \/ d \in DeadDonors(a) <=> InUse(d)
                                   \/ switched[d] >= Heard(a, "dead").time
  BY <1>8, <1>10 DEF DeadDonors
<1> QED BY <1>4, <1>5, <1>6, <1>8, <1>9, <1>11

\* A transfer takes at most half of what a donor can spare, what is needed and
\* what fits, and is one of the three.
LEMMA TransferIsSmallest ==
  ASSUME AdviceInv, NEW a \in Advisors, call[a].tool = "restock", Answered(a), NEW d \in DeadDonors(a)
  PROVE  /\ Half(a, d) \in Nat /\ TransferQuantity(a, d) \in Int
         /\ Half(a, d) > 0 => 2 * Half(a, d) <= SafeSurplus(a, d)
         /\ Half(a, d) = 0 => SafeSurplus(a, d) < 2
         /\ TransferQuantity(a, d) <= Half(a, d) /\ TransferQuantity(a, d) <= Need(a)
         /\ Heard(a, "room") # Unbounded => Heard(a, "room") \in Int /\ TransferQuantity(a, d) <= Heard(a, "room")
         /\ \/ TransferQuantity(a, d) = Half(a, d)
            \/ TransferQuantity(a, d) = Need(a)
            \/ Heard(a, "room") # Unbounded /\ TransferQuantity(a, d) = Heard(a, "room")
<1> DEFINE s == SafeSurplus(a, d)
           room == Heard(a, "room")
           V == {Half(a, d), Need(a)} \cup ({room} \ {Unbounded})
<1>1. s \in Int /\ Need(a) \in Nat /\ room \in Int \cup {Unbounded}
  BY RestockAnswers
<1>2. /\ Half(a, d) \in Nat
      /\ Half(a, d) > 0 => 2 * Half(a, d) <= SafeSurplus(a, d)
      /\ Half(a, d) = 0 => SafeSurplus(a, d) < 2
  <2> HIDE DEF s
  <2>1. Half(a, d) = AtLeastZero(s) \div 2
    BY DEF Half, s
  <2>2. AtLeastZero(s) \in Nat /\ (s < 0 => AtLeastZero(s) = 0) /\ (s >= 0 => AtLeastZero(s) = s)
    BY <1>1 DEF AtLeastZero
  <2>3. PICK z \in Nat : z = AtLeastZero(s)
    BY <2>2
  <2>4. z \div 2 \in Nat /\ 2 * (z \div 2) <= z /\ (z \div 2 = 0 => z < 2)
    BY <2>3
  <2>5. Half(a, d) = z \div 2
    BY <2>1, <2>3
  <2> QED BY <1>1, <2>2, <2>3, <2>4, <2>5 DEF s
<1> HIDE DEF s
<1>3. V \subseteq Int
  BY <1>1, <1>2
<1>4. \E m \in V : \A n \in V : m <= n
  BY <1>1, <1>2
<1>5. Min(V) \in V /\ \A n \in V : Min(V) <= n
  BY <1>4 DEF Min
<1>6. TransferQuantity(a, d) = Min(V)
  BY DEF TransferQuantity
<1>7. Half(a, d) \in V /\ Need(a) \in V /\ (room # Unbounded => room \in V)
  OBVIOUS
<1>8. room # Unbounded => room \in Int
  BY <1>1
<1>9. \A v \in V : v = Half(a, d) \/ v = Need(a) \/ (room # Unbounded /\ v = room)
  OBVIOUS
<1> HIDE DEF V
<1>10. PICK t : t = TransferQuantity(a, d)
  OBVIOUS
<1>11. t \in V /\ t \in Int /\ \A n \in V : t <= n
  BY <1>3, <1>5, <1>6, <1>10
<1> QED BY <1>2, <1>7, <1>8, <1>9, <1>10, <1>11

\* A strict order by a larger first value, then a larger second one, then the id.
LEMMA LargestThenFirst ==
  ASSUME NEW S, S # {}, S \subseteq Stores, NEW f, NEW g, \A d \in S : f[d] \in Int /\ g[d] \in Int
  PROVE  \E d \in S : \A e \in S :
           \/ f[d] > f[e]
           \/ f[d] = f[e] /\ g[d] > g[e]
           \/ f[d] = f[e] /\ g[d] = g[e] /\ d <= e
<1> DEFINE R == {p \in S \X S : \/ f[p[1]] > f[p[2]]
                                \/ f[p[1]] = f[p[2]] /\ g[p[1]] > g[p[2]]
                                \/ f[p[1]] = f[p[2]] /\ g[p[1]] = g[p[2]] /\ p[1] < p[2]}
<1>1. IsFiniteSet(S) /\ S \subseteq Nat
  BY AdviceAssumption, FS_Subset
<1>2. \A x, y \in S : <<x, y>> \in R <=> \/ f[x] > f[y]
                                         \/ f[x] = f[y] /\ g[x] > g[y]
                                         \/ f[x] = f[y] /\ g[x] = g[y] /\ x < y
  OBVIOUS
<1>3. \A x, y \in S : x # y => x < y \/ y < x
  BY <1>1
<1> HIDE DEF R
<1>4. \A x \in S : x \in Nat /\ f[x] \in Int /\ g[x] \in Int
  BY <1>1
<1>5. StrictOrder(R, S)
  <2>1. ASSUME NEW x \in S PROVE <<x, x>> \notin R
    BY <1>2, <1>4
  <2>2. ASSUME NEW x \in S, NEW y \in S, x # y PROVE <<x, y>> \in R \/ <<y, x>> \in R
    <3>1. x < y \/ y < x
      BY <1>3, <2>2
    <3>2. f[x] \in Int /\ f[y] \in Int /\ g[x] \in Int /\ g[y] \in Int
      BY <1>4
    <3>3. /\ f[x] > f[y] \/ f[y] > f[x] \/ f[x] = f[y]
          /\ g[x] > g[y] \/ g[y] > g[x] \/ g[x] = g[y]
      BY <3>2
    <3> QED BY <1>2, <3>1, <3>3
  <2>3. ASSUME NEW x \in S, NEW y \in S, NEW z \in S, <<x, y>> \in R, <<y, z>> \in R PROVE <<x, z>> \in R
    BY <2>3, <1>2, <1>4
  <2> QED BY <2>1, <2>2, <2>3 DEF StrictOrder
<1>6. PICK d \in S : \A e \in S \ {d} : <<d, e>> \in R
  <2>1. PICK r : r = R
    OBVIOUS
  <2>2. StrictOrder(r, S)
    BY <1>5, <2>1
  <2>3. \E d \in S : \A e \in S \ {d} : <<d, e>> \in r
    <3>1. IsFiniteSet(S) /\ S # {}
      BY <1>1
    <3> HIDE DEF R
    <3> QED BY ONLY <3>1, <2>2, FirstExists
  <2> QED BY <2>1, <2>3
<1>7. ASSUME NEW e \in S
      PROVE  \/ f[d] > f[e]
             \/ f[d] = f[e] /\ g[d] > g[e]
             \/ f[d] = f[e] /\ g[d] = g[e] /\ d <= e
  <2>1. CASE e = d
    BY <2>1, <1>4
  <2>2. CASE e # d
    <3>1. <<d, e>> \in R
      BY <1>6, <2>2
    <3>2. \/ f[d] > f[e]
          \/ f[d] = f[e] /\ g[d] > g[e]
          \/ f[d] = f[e] /\ g[d] = g[e] /\ d < e
      BY <1>2, <3>1
    <3>3. d < e => d <= e
      BY <1>4
    <3> QED BY <3>2, <3>3
  <2> QED BY <2>1, <2>2
<1> QED BY <1>7

LEMMA WinnerCovers ==
  ASSUME AdviceInv, NEW a \in Advisors, AdvisesTransfer(a)
  PROVE  /\ Winner(a) \in Covering(a) /\ Winner(a) \in Stores /\ Winner(a) \in DeadDonors(a)
         /\ TransferQuantity(a, Winner(a)) = Need(a)
         /\ Need(a) \in Nat \ {0}
         /\ 2 * Need(a) <= SafeSurplus(a, Winner(a))
<1>1. call[a].tool = "restock" /\ Answered(a) /\ Covering(a) # {}
  BY DEF AdvisesTransfer
<1>2. Covering(a) \subseteq Scored(a) /\ Scored(a) \subseteq DeadDonors(a) /\ DeadDonors(a) \subseteq Stores
  BY <1>1, RestockAnswers DEF Covering, Scored
<1> DEFINE C == Covering(a)
           f == [d \in C |-> SafeSurplus(a, d)]
           Good(d) == d \in C /\ \A e \in C : \/ SafeSurplus(a, d) > SafeSurplus(a, e)
                                              \/ SafeSurplus(a, d) = SafeSurplus(a, e) /\ d <= e
<1>3. \A d \in C : f[d] \in Int /\ f[d] = SafeSurplus(a, d) /\ d \in Stores
  BY <1>1, <1>2, RestockAnswers
<1>4. PICK d \in C : \A e \in C :
           \/ f[d] > f[e]
           \/ f[d] = f[e] /\ f[d] > f[e]
           \/ f[d] = f[e] /\ f[d] = f[e] /\ d <= e
  <2> HIDE DEF f
  <2> QED BY <1>1, <1>2, <1>3, LargestThenFirst
<1>5. Good(d)
  BY <1>3, <1>4
<1>6. Winner(a) = CHOOSE x : Good(x)
  BY DEF Winner
<1>7. Good(Winner(a))
  <2> HIDE DEF Good
  <2> QED BY <1>5, <1>6
<1>8. Winner(a) \in Covering(a)
  BY <1>7
<1>9. /\ Winner(a) \in Stores /\ Winner(a) \in DeadDonors(a) /\ TransferQuantity(a, Winner(a)) = Need(a)
      /\ Half(a, Winner(a)) > 0 /\ TransferQuantity(a, Winner(a)) > 0
  BY <1>2, <1>8 DEF Covering, Scored
<1>10. PICK w \in DeadDonors(a) : w = Winner(a)
  BY <1>9
<1>11. /\ Half(a, w) \in Nat /\ 2 * Half(a, w) <= SafeSurplus(a, w) /\ TransferQuantity(a, w) <= Half(a, w)
       /\ Need(a) \in Nat /\ SafeSurplus(a, w) \in Int
  BY <1>1, <1>9, <1>10, TransferIsSmallest, RestockAnswers
<1> QED BY <1>8, <1>9, <1>10, <1>11

----------------------------------------------------------------------------

LEMMA DonorsFollow == AdviceInv => DonorsCanFollow
<1> SUFFICES ASSUME AdviceInv, NEW a \in Advisors, NEW b \in Advisors,
                    AdvisesTransfer(a), AdvisesTransfer(b), a # b, Winner(a) = Winner(b), NEW d, d = Winner(a),
                    \A c \in {a, b} : SafeSurplus(c, d) <= Free(d) - shelf[d].least
             PROVE  Free(d) - Need(a) - Need(b) >= shelf[d].least
  BY DEF DonorsCanFollow
<1>1. /\ d \in Stores /\ Need(a) \in Nat /\ Need(b) \in Nat
      /\ 2 * Need(a) <= SafeSurplus(a, d) /\ 2 * Need(b) <= SafeSurplus(b, d)
      /\ d \in DeadDonors(a) /\ d \in DeadDonors(b)
  BY WinnerCovers
<1>2. SafeSurplus(a, d) \in Int /\ SafeSurplus(b, d) \in Int
  BY <1>1, RestockAnswers DEF AdvisesTransfer
<1>3. Free(d) \in Int /\ shelf[d].least \in Int
  BY <1>1 DEF AdviceInv, ShelfTyped, Free
<1> QED BY <1>1, <1>2, <1>3

LEMMA TransfersHelp == AdviceInv => TransfersDoTheirJob
<1> SUFFICES ASSUME AdviceInv, NEW a \in Advisors, AdvisesTransfer(a)
             PROVE  LET w == call[a].at
                        d == Winner(a)
                    IN /\ d # w /\ Need(a) > 0
                       /\ Heard(a, "room") = Room(w) /\ Room(w) # Unbounded => Need(a) <= Room(w)
                       /\ \/ shelf[d].lastSale <= Heard(a, "dead").time - IdleTime
                          \/ shelf[d].lastSale >= Heard(a, "dead").time
                       /\ InUse(d) \/ switched[d] >= Heard(a, "dead").time
  BY DEF TransfersDoTheirJob
<1>1. call[a].tool = "restock" /\ Answered(a)
  BY DEF AdvisesTransfer
<1>2. PICK w \in Stores : w = call[a].at
  BY <1>1, RestockAnswers
<1>3. PICK d \in Stores : d = Winner(a)
  BY WinnerCovers
<1>4. /\ d \in DeadDonors(a) /\ TransferQuantity(a, d) = Need(a) /\ Need(a) \in Nat \ {0}
      /\ d \in DeadElsewhere(a)
  BY <1>1, <1>3, WinnerCovers, RestockAnswers
<1>5. d # w /\ Need(a) > 0 /\ d \in DOMAIN Heard(a, "dead").onHand
  BY <1>2, <1>4 DEF DeadElsewhere
<1>6. Heard(a, "room") # Unbounded => Need(a) <= Heard(a, "room")
  BY <1>1, <1>4, TransferIsSmallest
<1>7. \/ shelf[d].lastSale <= Heard(a, "dead").time - IdleTime
      \/ shelf[d].lastSale >= Heard(a, "dead").time
  BY <1>1, <1>5, RestockAnswers DEF DeadListHolds
<1>8. InUse(d) \/ switched[d] >= Heard(a, "dead").time
  BY <1>1, <1>4, RestockAnswers
<1> QED BY <1>2, <1>3, <1>5, <1>6, <1>7, <1>8

\* The reasons are told apart by what can be scored.
LEMMA PurchasesExplained == AdviceInv => PurchasesAreExplained
<1> SUFFICES ASSUME AdviceInv, NEW a \in Advisors, AdvisesPurchase(a)
             PROVE  /\ WhyPurchase(a) = "noDeadStock" =>
                         \A d \in DeadElsewhere(a) : InUse(d) => switched[d] >= Heard(a, "dead").time
                    /\ WhyPurchase(a) = "nothingToSpare" =>
                         \/ Heard(a, "room") \in Int /\ Heard(a, "room") <= 0
                         \/ Need(a) = 0
                         \/ \A d \in DeadDonors(a) : SafeSurplus(a, d) < 2
                    /\ WhyPurchase(a) = "noRoom" => Heard(a, "room") < Need(a)
                    /\ WhyPurchase(a) = "notEnough" => \A d \in DeadDonors(a) : Half(a, d) < Need(a)
  BY DEF PurchasesAreExplained
<1> DEFINE room == Heard(a, "room")
           S == Scored(a)
           Good(d) == d \in S /\ \A e \in S :
                        \/ TransferQuantity(a, d) > TransferQuantity(a, e)
                        \/ /\ TransferQuantity(a, d) = TransferQuantity(a, e)
                           /\ SafeSurplus(a, d) >= SafeSurplus(a, e)
           best == CHOOSE d : Good(d)
<1>1. call[a].tool = "restock" /\ Answered(a) /\ Covering(a) = {}
  BY DEF AdvisesPurchase
<1>2. DeadDonors(a) \subseteq Stores /\ S \subseteq DeadDonors(a) /\ Need(a) \in Nat /\ room \in Int \cup {Unbounded}
  BY <1>1, RestockAnswers DEF Scored
<1>3. WhyPurchase(a) =
        CASE DeadDonors(a) = {} -> "noDeadStock"
          [] DeadDonors(a) # {} /\ S = {} -> "nothingToSpare"
          [] S # {} /\ room # Unbounded /\ room < Need(a) /\ room <= Half(a, best) -> "noRoom"
          [] OTHER -> "notEnough"
  BY DEF WhyPurchase
<1>4. \A d \in DeadDonors(a) :
         /\ d \in S <=> Half(a, d) > 0 /\ TransferQuantity(a, d) > 0
         /\ TransferQuantity(a, d) # Need(a) \/ d \notin S
  BY <1>1 DEF Scored, Covering
<1>5. ASSUME S # {} PROVE Good(best)
  <2> DEFINE f == [d \in S |-> TransferQuantity(a, d)]
             g == [d \in S |-> SafeSurplus(a, d)]
  <2>1. \A d \in S : /\ f[d] = TransferQuantity(a, d) /\ g[d] = SafeSurplus(a, d)
                     /\ f[d] \in Int /\ g[d] \in Int /\ d \in Stores
    BY <1>1, <1>2, RestockAnswers, TransferIsSmallest
  <2> HIDE DEF f, g, S
  <2>2. PICK d \in S : \A e \in S :
           \/ f[d] > f[e]
           \/ f[d] = f[e] /\ g[d] > g[e]
           \/ f[d] = f[e] /\ g[d] = g[e] /\ d <= e
    BY <1>2, <1>5, <2>1, LargestThenFirst
  <2>3. Good(d)
    BY <2>1, <2>2
  <2> QED BY <2>3
<1> HIDE DEF Good, best
<1>6. CASE DeadDonors(a) = {}
  <2>1. WhyPurchase(a) = "noDeadStock"
    <3>1. S = {}
      BY <1>2, <1>6
    <3> QED BY <1>3, <1>6, <3>1
  <2>2. \A d \in DeadElsewhere(a) : InUse(d) => switched[d] >= Heard(a, "dead").time
    BY <1>1, <1>6, RestockAnswers
  <2>3. WhyPurchase(a) \notin {"nothingToSpare", "noRoom", "notEnough"}
    BY <2>1
  <2> QED BY <2>2, <2>3
<1>7. CASE DeadDonors(a) # {} /\ S = {}
  <2>1. WhyPurchase(a) = "nothingToSpare"
    BY <1>3, <1>7
  <2>2. ASSUME Need(a) # 0, ~(room \in Int /\ room <= 0), NEW d \in DeadDonors(a) PROVE SafeSurplus(a, d) < 2
    <3>1. ~(Half(a, d) > 0 /\ TransferQuantity(a, d) > 0)
      BY <1>4, <1>7
    <3>2. d \in Stores
      BY <1>2
    <3>3. Half(a, d) = 0
      BY <1>1, <1>2, <2>2, <3>1, <3>2, TransferIsSmallest
    <3> QED BY <1>1, <3>2, <3>3, TransferIsSmallest
  <2> QED BY <2>1, <2>2
<1>8. CASE S # {}
  <2>1. DeadDonors(a) # {}
    BY <1>2, <1>8
  <2>2. CASE room # Unbounded /\ room < Need(a) /\ room <= Half(a, best)
    <3>1. WhyPurchase(a) = "noRoom"
      BY <1>3, <1>8, <2>1, <2>2
    <3> QED BY <2>2, <3>1
  <2>3. CASE ~(room # Unbounded /\ room < Need(a) /\ room <= Half(a, best))
    <3>1. WhyPurchase(a) = "notEnough"
      BY <1>3, <1>8, <2>1, <2>3
    <3>2. ASSUME NEW d \in DeadDonors(a), ~(Half(a, d) < Need(a)) PROVE FALSE
      <4>1. d \in Stores /\ Half(a, d) \in Nat
        BY <1>1, <1>2, TransferIsSmallest
      <4>2. Half(a, d) >= Need(a)
        BY <1>2, <3>2, <4>1
      <4>3. Good(best) /\ best \in S /\ best \in DeadDonors(a)
        BY <1>2, <1>5, <1>8 DEF Good
      <4>4. PICK b \in DeadDonors(a) : b = best
        BY <4>3
      <4>5. /\ TransferQuantity(a, b) > 0 /\ TransferQuantity(a, b) # Need(a)
            /\ TransferQuantity(a, b) \in Int /\ TransferQuantity(a, b) <= Need(a) /\ Half(a, b) \in Nat
            /\ TransferQuantity(a, b) <= Half(a, b)
            /\ room # Unbounded => room \in Int /\ TransferQuantity(a, b) <= room
        BY <1>1, <1>2, <1>4, <4>3, <4>4, TransferIsSmallest
      <4>6. Need(a) > 0 /\ Half(a, d) > 0
        BY <1>2, <4>1, <4>2, <4>5
      <4>7. TransferQuantity(a, d) > 0
        BY <1>1, <1>2, <4>1, <4>5, <4>6, TransferIsSmallest
      <4>8. d \in S /\ TransferQuantity(a, d) # Need(a)
        BY <1>4, <4>6, <4>7
      <4>9. room # Unbounded /\ TransferQuantity(a, d) = room /\ room < Need(a) /\ room \in Int
        BY <1>1, <1>2, <4>1, <4>2, <4>8, TransferIsSmallest
      <4>10. room > Half(a, b)
        BY <2>3, <4>4, <4>5, <4>9
      <4>11. TransferQuantity(a, b) >= TransferQuantity(a, d)
        BY <4>3, <4>4, <4>5, <4>8, <4>9 DEF Good
      <4> QED BY <4>5, <4>9, <4>10, <4>11
    <3> QED BY <3>1, <3>2
  <2> QED BY <2>2, <2>3
<1> QED BY <1>6, <1>7, <1>8

LEMMA DeadStockAnswers ==
  ASSUME AdviceInv, NEW a \in Advisors, call[a].tool = "deadStock", Answered(a)
  PROVE  /\ DeadListHolds(Heard(a, "dead"))
         /\ call[a].at \in DOMAIN Heard(a, "dead").onHand
         /\ Heard(a, "sales") \in Partial
         /\ \A d \in DOMAIN Heard(a, "sales") \cap DOMAIN Heard(a, "dead").onHand :
              \/ shelf[d].lastSale >= Heard(a, "dead").time
              \/ Heard(a, "sales")[d] = Heard(a, "dead").time - IdleTime
         /\ HalfOfStock(a) \in Nat
         /\ HalfOfStock(a) = 0 => Heard(a, "dead").onHand[call[a].at] = 1
<1>1. Asked(a) = <<"dead", "today", "sales">> /\ Len(Asked(a)) = 3
  BY AskedOf
<1>2. Len(call[a].heard) = 3
  BY <1>1 DEF Answered
<1>3. DeadStockHolds(call[a])
  <2>1. CallHolds(call[a])
    BY DEF AdviceInv
  <2> QED BY <2>1 DEF CallHolds, NoAdvice, RestockHolds, Calls
<1>4. PICK x : x = Heard(a, "dead")
  OBVIOUS
<1>5. PICK y : y = Heard(a, "sales")
  OBVIOUS
<1>6. x = call[a].heard[1] /\ y = call[a].heard[3]
  BY <1>4, <1>5, HeardInDeadStock
<1>7. /\ DeadListHolds(x) /\ y \in Partial
      /\ \A d \in DOMAIN y \cap DOMAIN x.onHand :
           \/ shelf[d].lastSale >= x.time
           \/ y[d] = x.time - IdleTime
  BY <1>2, <1>3, <1>6 DEF DeadStockHolds
<1>8. call[a].at \in DOMAIN x.onHand
  <2>1. 1 \in DOMAIN call[a].heard
    <3>1. call[a].heard \in Seq(Answers)
      BY <1>3 DEF DeadStockHolds, Calls
    <3> QED BY <1>2, <3>1
  <2>2. HasHeard(a, "dead")
    BY <1>1, <2>1 DEF HasHeard
  <2> QED BY <1>4, <2>2 DEF Answered, Outdated
<1>9. PICK w : w = call[a].at
  OBVIOUS
<1>10. x.onHand[w] \in Nat \ {0}
  <2>1. x.onHand[w] # 0
    BY <1>7, <1>8, <1>9 DEF DeadListHolds
  <2>2. x.onHand \in Partial
    BY <1>7 DEF DeadListHolds, DeadLists
  <2> QED BY <1>8, <1>9, <2>1, <2>2 DEF Partial
<1>11. PICK n \in Nat \ {0} : n = x.onHand[w]
  BY <1>10
<1>12. n \div 2 \in Nat /\ (n \div 2 = 0 => n = 1)
  OBVIOUS
<1>13. HalfOfStock(a) = n \div 2
  BY <1>4, <1>9, <1>11 DEF HalfOfStock
<1> QED BY <1>4, <1>5, <1>7, <1>8, <1>9, <1>11, <1>12, <1>13

\* Whole numbers shared among a number of places: what every place gets, and
\* how many get one more.
LEMMA Sharing ==
  ASSUME NEW h \in Nat, NEW n \in Nat \ {0}
  PROVE  h \div n \in Nat /\ h % n \in 0..n /\ h = (h \div n) * n + (h % n)
OBVIOUS

\* A sum of which the elements of a part have one more than the others.
LEMMA TotalShared ==
  ASSUME NEW S, IsFiniteSet(S), NEW F, F \subseteq S, NEW q, NEW k \in Nat,
         \A x \in F : q[x] = k + 1, \A x \in S \ F : q[x] = k
  PROVE  Total(q, S) = k * Cardinality(S) + Cardinality(F)
<1>1. IsFiniteSet(F) /\ IsFiniteSet(S \ F)
  BY FS_Subset
<1>2. \A x \in S : q[x] \in Int
  OBVIOUS
<1>3. Total(q, S) = Total(q, F) + Total(q, S \ F)
  BY <1>2, TotalSplit
<1>4. Total(q, F) = (k + 1) * Cardinality(F)
  BY <1>1, TotalConstant
<1>5. Total(q, S \ F) = k * Cardinality(S \ F)
  BY <1>1, TotalConstant
<1>6. Cardinality(S) = Cardinality(F) + Cardinality(S \ F)
  <2>1. F \cup (S \ F) = S /\ F \cap (S \ F) = {}
    OBVIOUS
  <2>2. Cardinality(F \cup (S \ F)) = Cardinality(F) + Cardinality(S \ F) - Cardinality(F \cap (S \ F))
    BY <1>1, FS_Union
  <2>3. Cardinality(F) \in Nat /\ Cardinality(S \ F) \in Nat
    BY <1>1, FS_CardinalityType
  <2>4. Cardinality({}) = 0
    BY FS_EmptySet
  <2>5. Cardinality(S) = Cardinality(F) + Cardinality(S \ F) - 0
    BY <2>1, <2>2, <2>4
  <2> QED BY <2>3, <2>5
<1>7. PICK c \in Nat, e \in Nat : c = Cardinality(F) /\ e = Cardinality(S \ F)
  BY <1>1, FS_CardinalityType
<1>8. (k + 1) * c + k * e = k * (c + e) + c
  OBVIOUS
<1> QED BY <1>3, <1>4, <1>5, <1>6, <1>7, <1>8

\* The sellers are in a strict order, the most recent sale first.
LatestFirst(S, sold) ==
  {p \in S \X S : sold[p[1]] > sold[p[2]] \/ (sold[p[1]] = sold[p[2]] /\ p[1] < p[2])}

LEMMA SellersInOrder ==
  ASSUME NEW S, S \subseteq Stores, NEW sold, \A d \in S : sold[d] \in Int
  PROVE  StrictOrder(LatestFirst(S, sold), S)
<1> DEFINE R == LatestFirst(S, sold)
<1>1. \A x, y \in S : <<x, y>> \in R <=> sold[x] > sold[y] \/ (sold[x] = sold[y] /\ x < y)
  BY DEF LatestFirst
<1> HIDE DEF R
<1>2. \A x \in S : x \in Nat /\ sold[x] \in Int
  BY AdviceAssumption
<1>3. ASSUME NEW x \in S PROVE <<x, x>> \notin R
  BY <1>1, <1>2
<1>4. ASSUME NEW x \in S, NEW y \in S, x # y PROVE <<x, y>> \in R \/ <<y, x>> \in R
  <2>1. (x < y \/ y < x) /\ (sold[x] > sold[y] \/ sold[y] > sold[x] \/ sold[x] = sold[y])
    BY <1>2, <1>4
  <2> QED BY <1>1, <2>1
<1>5. ASSUME NEW x \in S, NEW y \in S, NEW z \in S, <<x, y>> \in R, <<y, z>> \in R PROVE <<x, z>> \in R
  BY <1>1, <1>2, <1>5
<1>6. StrictOrder(R, S)
  BY ONLY <1>3, <1>4, <1>5 DEF StrictOrder
<1> QED BY <1>6 DEF R

\* The portions of all sellers add up to half of the stock, and who sold more
\* recently does not get less.
LEMMA PortionsAddUp ==
  ASSUME AdviceInv, NEW a \in Advisors, call[a].tool = "deadStock", Answered(a), Sellers(a) # {}
  PROVE  /\ \A d \in Sellers(a) : Portion(a, d) \in Nat
         /\ IsFiniteSet(Sellers(a))
         /\ Total([d \in Sellers(a) |-> Portion(a, d)], Sellers(a)) = HalfOfStock(a)
         /\ \A d, e \in Sellers(a) : e \in MoreRecent(a, d) => Portion(a, e) >= Portion(a, d)
<1>1. PICK S : S = Sellers(a)
  OBVIOUS
<1>2. PICK sold : sold = Heard(a, "sales")
  OBVIOUS
<1>3. PICK R : R = LatestFirst(S, sold)
  OBVIOUS
<1>4. S \subseteq Stores /\ IsFiniteSet(S) /\ S # {} /\ \A d \in S : sold[d] \in Int
  <2>1. sold \in Partial
    BY <1>2, DeadStockAnswers
  <2>2. DOMAIN sold \subseteq Stores /\ \A d \in DOMAIN sold : sold[d] \in Int
    BY <2>1 DEF Partial
  <2>3. S \subseteq DOMAIN sold
    BY <1>1, <1>2 DEF Sellers
  <2>4. IsFiniteSet(S)
    BY <2>2, <2>3, AdviceAssumption, FS_Subset
  <2> QED BY <1>1, <2>2, <2>3, <2>4
<1>5. /\ StrictOrder(R, S)
      /\ \A d \in S : Preceding(S, R, d) = {e \in S : sold[e] > sold[d] \/ (sold[e] = sold[d] /\ e < d)}
  <2>1. StrictOrder(R, S)
    BY <1>3, <1>4, SellersInOrder
  <2>2. \A x, y \in S : <<x, y>> \in R <=> sold[x] > sold[y] \/ (sold[x] = sold[y] /\ x < y)
    BY <1>3 DEF LatestFirst
  <2> QED BY <2>1, <2>2 DEF Preceding
<1>6. \A d \in S : MoreRecent(a, d) = Preceding(S, R, d)
  BY <1>1, <1>2, <1>5 DEF MoreRecent
<1>7. PICK h \in Nat : h = HalfOfStock(a)
  BY DeadStockAnswers
<1>8. Cardinality(S) \in Nat \ {0}
  BY <1>4, FS_CardinalityType, FS_EmptySet
<1>9. PICK n \in Nat \ {0} : n = Cardinality(S)
  BY <1>8
<1>10. PICK k \in Nat, r \in 0..n : k = h \div n /\ r = h % n /\ h = k * n + r
  BY Sharing
<1>11. \A d \in S : Portion(a, d) = k + (IF Cardinality(MoreRecent(a, d)) < r THEN 1 ELSE 0)
  BY <1>1, <1>7, <1>9, <1>10 DEF Portion
<1>12. \A d \in S : Cardinality(MoreRecent(a, d)) \in Nat /\ IsFiniteSet(MoreRecent(a, d)) /\ MoreRecent(a, d) \subseteq S
  <2>1. \A d \in S : MoreRecent(a, d) \subseteq S
    BY <1>1 DEF MoreRecent
  <2> QED BY <1>4, <2>1, FS_Subset, FS_CardinalityType
<1>13. \A d \in S : Portion(a, d) \in Nat
  BY <1>11, <1>12
<1>14. Total([d \in S |-> Portion(a, d)], S) = h
  <2>1. PICK F : F = {x \in S : Cardinality(Preceding(S, R, x)) < r}
    OBVIOUS
  <2>2. PICK q : q = [d \in S |-> Portion(a, d)]
    OBVIOUS
  <2>3. Cardinality(F) = r
    BY ONLY <1>4, <1>5, <1>9, <2>1, RanksCount
  <2>4. F \subseteq S /\ \A x \in F : q[x] = k + 1
    BY <1>6, <1>11, <2>1, <2>2
  <2>5. \A x \in S \ F : q[x] = k
    BY <1>6, <1>11, <2>1, <2>2
  <2>6. Total(q, S) = k * Cardinality(S) + Cardinality(F)
    BY ONLY <1>4, <2>4, <2>5, TotalShared
  <2>7. Total(q, S) = h
    BY <1>9, <1>10, <2>3, <2>6
  <2> QED BY <2>2, <2>7
<1>15. ASSUME NEW d \in S, NEW e \in S, e \in MoreRecent(a, d) PROVE Portion(a, e) >= Portion(a, d)
  <2>1. MoreRecent(a, e) \subseteq MoreRecent(a, d)
    <3>1. <<e, d>> \in R
      BY <1>6, <1>15 DEF Preceding
    <3>2. \A x \in S : <<x, e>> \in R => <<x, d>> \in R
      BY <1>5, <3>1 DEF StrictOrder
    <3> QED BY <1>6, <3>2 DEF Preceding
  <2>2. Cardinality(MoreRecent(a, e)) <= Cardinality(MoreRecent(a, d))
    BY <1>12, <2>1, FS_Subset
  <2>3. PICK u \in Nat, v \in Nat : u = Cardinality(MoreRecent(a, e)) /\ v = Cardinality(MoreRecent(a, d)) /\ u <= v
    BY <1>12, <2>2
  <2>4. Portion(a, e) = k + (IF u < r THEN 1 ELSE 0) /\ Portion(a, d) = k + (IF v < r THEN 1 ELSE 0)
    BY <1>11, <2>3
  <2> QED BY <2>3, <2>4
<1> QED BY <1>1, <1>4, <1>7, <1>13, <1>14, <1>15

LEMMA DeadStockSells == AdviceInv => DeadStockGoesWhereItSells
<1> SUFFICES ASSUME AdviceInv, NEW a \in Advisors
             PROVE
    /\ \A d \in SendsTo(a) :
         d \in DOMAIN Heard(a, "dead").onHand =>
           \/ shelf[d].lastSale >= Heard(a, "dead").time
           \/ Heard(a, "sales")[d] = Heard(a, "dead").time - IdleTime
    /\ SendsTo(a) # {} =>
         /\ Total([d \in SendsTo(a) |-> Portion(a, d)], SendsTo(a)) = HalfOfStock(a)
         /\ \A d, e \in SendsTo(a) : e \in MoreRecent(a, d) => Portion(a, e) >= Portion(a, d)
    /\ call[a].tool = "deadStock" /\ Answered(a) =>
         IF WhyKept(a) = "transfer" THEN SendsTo(a) # {}
         ELSE Sellers(a) = {} \/ Heard(a, "dead").onHand[call[a].at] = 1
  BY DEF DeadStockGoesWhereItSells
<1>1. CASE ~(call[a].tool = "deadStock" /\ Answered(a))
  BY <1>1 DEF SendsTo
<1>2. CASE (call[a].tool = "deadStock" /\ Answered(a)) /\ Sellers(a) = {}
  <2>1. SendsTo(a) = {} /\ WhyKept(a) # "transfer"
    BY <1>2 DEF SendsTo, WhyKept
  <2> QED BY <1>2, <2>1
<1>3. CASE (call[a].tool = "deadStock" /\ Answered(a)) /\ Sellers(a) # {}
  <2>1. PICK S : S = Sellers(a)
    OBVIOUS
  <2>2. PICK T : T = SendsTo(a)
    OBVIOUS
  <2>3. T = {d \in S : Portion(a, d) > 0}
    BY <1>3, <2>1, <2>2 DEF SendsTo
  <2>4. PICK q : q = [d \in S |-> Portion(a, d)]
    OBVIOUS
  <2>5. PICK p : p = [d \in T |-> Portion(a, d)]
    OBVIOUS
  <2>6. /\ \A d \in S : q[d] \in Nat
        /\ IsFiniteSet(S)
        /\ Total(q, S) = HalfOfStock(a)
        /\ \A d, e \in S : e \in MoreRecent(a, d) => Portion(a, e) >= Portion(a, d)
    BY <1>3, <2>1, <2>4, PortionsAddUp
  <2>7. T \subseteq S /\ IsFiniteSet(T) /\ IsFiniteSet(S \ T)
    BY <2>3, <2>6, FS_Subset
  <2>8. Total(q, S) = Total(q, T)
    <3>1. \A x \in S \ T : q[x] = 0
      BY <2>3, <2>4, <2>6
    <3>2. Total(q, S \ T) = 0 * Cardinality(S \ T)
      BY ONLY <2>7, <3>1, TotalConstant
    <3>3. Total(q, S) = Total(q, T) + Total(q, S \ T)
      BY <2>6, <2>7, TotalSplit
    <3>4. Total(q, T) \in Int
      BY <2>6, <2>7, TotalType
    <3>5. Cardinality(S \ T) \in Nat
      BY <2>7, FS_CardinalityType
    <3> QED BY <3>2, <3>3, <3>4, <3>5
  <2>9. Total(p, T) = Total(q, T)
    <3>1. \A x \in T : p[x] = q[x]
      BY <2>4, <2>5, <2>7
    <3> QED BY ONLY <2>7, <3>1, TotalAgrees
  <2>10. Total([d \in SendsTo(a) |-> Portion(a, d)], SendsTo(a)) = HalfOfStock(a)
    BY <2>2, <2>5, <2>6, <2>8, <2>9
  <2>11. ASSUME NEW d \in SendsTo(a), d \in DOMAIN Heard(a, "dead").onHand
         PROVE  \/ shelf[d].lastSale >= Heard(a, "dead").time
                \/ Heard(a, "sales")[d] = Heard(a, "dead").time - IdleTime
    <3>1. d \in DOMAIN Heard(a, "sales")
      BY <2>1, <2>2, <2>7, <2>11 DEF Sellers
    <3> QED BY <1>3, <2>11, <3>1, DeadStockAnswers
  <2>12. WhyKept(a) = "transfer" => SendsTo(a) # {}
    <3>1. SUFFICES ASSUME T = {} PROVE HalfOfStock(a) = 0
      BY <1>3, <2>2 DEF WhyKept
    <3>2. Total(q, T) = 0
      BY <3>1, TotalEmpty
    <3> QED BY <2>6, <2>8, <3>2
  <2>13. WhyKept(a) # "transfer" => Heard(a, "dead").onHand[call[a].at] = 1
    <3>1. WhyKept(a) # "transfer" => HalfOfStock(a) = 0
      BY <1>3 DEF WhyKept
    <3> QED BY <1>3, <3>1, DeadStockAnswers
  <2> QED BY <1>3, <2>2, <2>6, <2>7, <2>10, <2>11, <2>12, <2>13
<1> QED BY <1>1, <1>2, <1>3

\* Whatever the warehouses do between its queries, an advisor recommends a quantity that
\* is the least of what it heard to be needed and to be had, from a warehouse it heard
\* to have it, and what it heard was so when it was asked.
THEOREM AdviceSound == AdviceSpec => []AdviceIsSound
<1>1. AdviceInv => AdviceIsSound
  BY DonorsFollow, TransfersHelp, PurchasesExplained, DeadStockSells DEF AdviceIsSound
<1> QED BY <1>1, AdviceInvariant, PTL

----------------------------------------------------------------------------
(* The reports of the analytics. Each sum is over a set of orders or of     *)
(* movements, and the sets split, are grouped or correspond to each other.  *)

OrderRow ==
  [deal : Deals, status : {"PENDING", "COMPLETED", "CANCELLED"}, createdAt : Nat,
   actualDate : Nat \cup {NoOne}, expectedDate : Nat \cup {NoOne}]

\* What is completed, and nothing else, has an actual date, and it is not in the
\* future.
OrderHolds(o) ==
  /\ o \in OrderRow
  /\ o.createdAt <= moment
  /\ o.status = "COMPLETED" <=> o.actualDate # NoOne
  /\ o.actualDate # NoOne => o.actualDate <= moment

HistoryInv ==
  /\ moment \in Nat /\ moment <= 2 * Days - 1
  /\ orders \in Seq(OrderRow)
  /\ \A i \in Placed : OrderHolds(orders[i])

LEMMA HistoryInitially == HistoryInit => HistoryInv
BY HistoryAssumption DEF HistoryInit, HistoryInv, Placed

\* An order that is written once more.
Written(i, o) == orders' = [orders EXCEPT ![i] = o]

LEMMA WritingKeeps ==
  ASSUME HistoryInv, NEW i \in Placed, NEW o, Written(i, o), OrderHolds(o), UNCHANGED moment
  PROVE  HistoryInv'
<1>1. \A p \in OrderRow : [orders EXCEPT ![i] = p] \in Seq(OrderRow)
  BY DEF HistoryInv, Placed
<1>2. orders' \in Seq(OrderRow)
  BY <1>1 DEF Written, OrderHolds
<1>3. Placed' = Placed /\ \A j \in Placed : orders'[j] = IF j = i THEN o ELSE orders[j]
  BY DEF Written, Placed, HistoryInv
<1>4. \A j \in Placed : OrderHolds(orders'[j])
  BY <1>3 DEF HistoryInv
<1>5. ASSUME NEW j \in Placed' PROVE OrderHolds(orders[j])'
  BY <1>3, <1>4 DEF OrderHolds
<1> QED BY <1>2, <1>5 DEF HistoryInv

NewOrder(d) ==
  [deal |-> d, status |-> "PENDING", createdAt |-> moment, actualDate |-> NoOne,
   expectedDate |-> IF d.due = NoOne THEN NoOne ELSE Midnight(DayOf(moment) + d.due)]

LEMMA PlacingKeeps ==
  ASSUME HistoryInv, NEW d \in Deals, PlaceDeal(d)
  PROVE  HistoryInv'
<1>1. NewOrder(d) \in OrderRow /\ OrderHolds(NewOrder(d))
  <2>1. d.due \in Nat \cup {NoOne} /\ NoOne \notin Int
    BY HistoryAssumption
  <2>2. moment \in Nat
    BY DEF HistoryInv
  <2>3. \A n \in Nat : Midnight(DayOf(moment) + n) \in Nat
    BY <2>2 DEF Midnight, DayOf
  <2> QED BY <2>1, <2>2, <2>3 DEF NewOrder, OrderRow, OrderHolds
<1>2. PICK o : o = NewOrder(d)
  OBVIOUS
<1>3. orders' = Append(orders, o) /\ moment' = moment
  BY <1>2 DEF PlaceDeal, NewOrder
<1>4. orders \in Seq(OrderRow) /\ o \in OrderRow
  BY <1>1, <1>2 DEF HistoryInv
<1>5. /\ Append(orders, o) \in Seq(OrderRow)
      /\ DOMAIN Append(orders, o) = DOMAIN orders \cup {Len(orders) + 1}
      /\ \A j \in DOMAIN orders : Append(orders, o)[j] = orders[j]
      /\ Append(orders, o)[Len(orders) + 1] = o
  BY <1>4
<1>6. \A j \in DOMAIN orders' : orders'[j] = o \/ (j \in DOMAIN orders /\ orders'[j] = orders[j])
  BY <1>3, <1>5
<1>7. \A j \in DOMAIN orders' : OrderHolds(orders'[j])
  BY <1>1, <1>2, <1>6 DEF HistoryInv, Placed
<1>8. \A j \in DOMAIN orders' : OrderHolds(orders[j])'
  BY <1>3, <1>7 DEF OrderHolds
<1> QED BY <1>3, <1>5, <1>8 DEF HistoryInv, Placed

LEMMA CancellingKeeps ==
  ASSUME HistoryInv, NEW i \in Placed, CancelOrder(i)
  PROVE  HistoryInv'
<1>1. PICK o : o = [orders[i] EXCEPT !.status = "CANCELLED"]
  OBVIOUS
<1>2. OrderHolds(orders[i]) /\ orders[i].status = "PENDING"
  BY DEF CancelOrder, HistoryInv
<1>3. OrderHolds(o)
  BY <1>1, <1>2 DEF OrderHolds, OrderRow
<1>4. Written(i, o)
  BY <1>1 DEF CancelOrder, Written
<1> QED BY <1>3, <1>4, WritingKeeps DEF CancelOrder

LEMMA CompletingKeeps ==
  ASSUME HistoryInv, NEW i \in Placed, CompleteOrder(i)
  PROVE  HistoryInv'
<1>1. PICK o : o = [orders[i] EXCEPT !.status = "COMPLETED", !.actualDate = moment]
  OBVIOUS
<1>2. OrderHolds(orders[i]) /\ orders[i].status = "PENDING"
  BY DEF CompleteOrder, HistoryInv
<1>3. moment \in Nat /\ moment # NoOne
  BY HistoryAssumption DEF HistoryInv
<1>4. OrderHolds(o)
  <2>1. PICK p : p = [orders[i] EXCEPT !.status = "COMPLETED"]
    OBVIOUS
  <2>2. o = [p EXCEPT !.actualDate = moment]
    BY <1>1, <2>1
  <2>3. p \in OrderRow /\ p.status = "COMPLETED" /\ p.createdAt <= moment
    BY <1>2, <2>1 DEF OrderHolds, OrderRow
  <2>4. o \in OrderRow /\ o.status = "COMPLETED" /\ o.createdAt <= moment /\ o.actualDate = moment
    BY <1>3, <2>2, <2>3 DEF OrderRow
  <2> QED BY <1>3, <2>4 DEF OrderHolds
<1>5. Written(i, o)
  BY <1>1 DEF CompleteOrder, Written, HistoryInv, Placed
<1> QED BY <1>4, <1>5, WritingKeeps DEF CompleteOrder

LEMMA LaterKeeps == HistoryInv /\ Later => HistoryInv'
<1> SUFFICES ASSUME HistoryInv, Later PROVE HistoryInv'
  OBVIOUS
<1>1. moment \in Nat /\ moment' = moment + 1 /\ moment' <= 2 * Days - 1 /\ orders' = orders
  BY HistoryAssumption DEF Later, HistoryInv
<1>2. ASSUME NEW i \in Placed PROVE OrderHolds(orders[i])'
  <2>1. OrderHolds(orders[i])
    BY DEF HistoryInv
  <2>2. PICK o : o = orders[i]
    OBVIOUS
  <2>3. o.createdAt \in Nat /\ o.actualDate \in Nat \cup {NoOne} /\ OrderHolds(o)
    BY <2>1, <2>2 DEF OrderHolds, OrderRow
  <2>4. /\ o.createdAt <= moment'
        /\ o.actualDate # NoOne => o.actualDate <= moment'
    BY <1>1, <2>3 DEF OrderHolds
  <2> QED BY <1>1, <2>2, <2>3, <2>4 DEF OrderHolds
<1> QED BY <1>1, <1>2 DEF HistoryInv, Placed

LEMMA HistoryInductive == HistoryInv /\ [HistoryNext]_historyVars => HistoryInv'
<1> SUFFICES ASSUME HistoryInv, [HistoryNext]_historyVars PROVE HistoryInv'
  OBVIOUS
<1>1. CASE UNCHANGED historyVars
  BY <1>1 DEF historyVars, HistoryInv, Placed, OrderHolds
<1> QED BY <1>1, PlacingKeeps, CancellingKeeps, CompletingKeeps, LaterKeeps DEF HistoryNext

LEMMA HistoryInvariant == HistorySpec => []HistoryInv
BY HistoryInitially, HistoryInductive, PTL DEF HistorySpec

\* The history keeps its types.
THEOREM HistoryTyped == HistorySpec => []HistoryTypeOK
<1>1. HistoryInv => HistoryTypeOK
  BY DEF HistoryInv, HistoryTypeOK, OrderHolds, OrderRow, Placed
<1> QED BY <1>1, HistoryInvariant, PTL

LEMMA OrderFacts ==
  ASSUME HistoryInv
  PROVE  /\ IsFiniteSet(Placed)
         /\ \A i \in Placed :
              /\ orders[i].deal \in Deals
              /\ orders[i].deal.type \in {"INCOMING", "OUTGOING", "TRANSFER"}
              /\ orders[i].deal.quantity \in Nat
              /\ orders[i].deal.quantity * orders[i].deal.price \in Nat
              /\ orders[i].status = "COMPLETED" => orders[i].actualDate \in 0..moment
<1>1. Placed = 1..Len(orders) /\ Len(orders) \in Nat
  BY DEF HistoryInv, Placed
<1>2. IsFiniteSet(Placed)
  BY <1>1, FS_Interval
<1>3. ASSUME NEW i \in Placed
      PROVE  /\ orders[i].deal \in Deals
             /\ orders[i].deal.type \in {"INCOMING", "OUTGOING", "TRANSFER"}
             /\ orders[i].deal.quantity \in Nat
             /\ orders[i].deal.quantity * orders[i].deal.price \in Nat
             /\ orders[i].status = "COMPLETED" => orders[i].actualDate \in 0..moment
  <2>1. OrderHolds(orders[i])
    BY DEF HistoryInv
  <2>2. orders[i].deal \in Deals
    BY <2>1 DEF OrderHolds, OrderRow
  <2>3. PICK d \in Deals : d = orders[i].deal
    BY <2>2
  <2>4. d.type \in {"INCOMING", "OUTGOING", "TRANSFER"} /\ d.quantity \in Nat /\ d.price \in Nat
    BY HistoryAssumption
  <2>5. \A x, y \in Nat : x * y \in Nat
    OBVIOUS
  <2>6. d.quantity * d.price \in Nat
    BY <2>4, <2>5
  <2>7. orders[i].status = "COMPLETED" => orders[i].actualDate \in 0..moment
    BY <2>1 DEF OrderHolds, OrderRow, HistoryInv
  <2> QED BY <2>3, <2>4, <2>6, <2>7
<1> QED BY <1>2, <1>3

\* The quantities and the values of all orders.
Quantities == [i \in Placed |-> orders[i].deal.quantity]
Amounts == [i \in Placed |-> orders[i].deal.quantity * orders[i].deal.price]

LEMMA SumsOfOrders ==
  ASSUME HistoryInv, NEW S \in SUBSET Placed
  PROVE  /\ Sold(S) = Total(Quantities, S) /\ Sold(S) \in Int
         /\ Revenue(S) = Total(Amounts, S) /\ Revenue(S) \in Int
         /\ OrdersValue(S) = Revenue(S)
<1>1. IsFiniteSet(S)
  BY OrderFacts, FS_Subset
<1>2. PICK q : q = Quantities
  OBVIOUS
<1>3. PICK p : p = [i \in S |-> orders[i].deal.quantity]
  OBVIOUS
<1>4. \A i \in S : p[i] = q[i] /\ q[i] \in Int
  BY <1>2, <1>3, OrderFacts DEF Quantities
<1>5. Total(p, S) = Total(q, S) /\ Total(q, S) \in Int
  BY ONLY <1>1, <1>4, TotalAgrees, TotalType
<1>6. PICK u : u = Amounts
  OBVIOUS
<1>7. PICK v : v = [i \in S |-> orders[i].deal.quantity * orders[i].deal.price]
  OBVIOUS
<1>8. \A i \in S : v[i] = u[i] /\ u[i] \in Int
  BY <1>6, <1>7, OrderFacts DEF Amounts
<1>9. Total(v, S) = Total(u, S) /\ Total(u, S) \in Int
  BY ONLY <1>1, <1>8, TotalAgrees, TotalType
<1>10. OrdersValue(S) = Revenue(S)
  BY DEF OrdersValue, Revenue, OrderValue
<1>11. Sold(S) = Total(p, S) /\ Revenue(S) = Total(v, S)
  BY <1>3, <1>7 DEF Sold, Revenue
<1> QED BY <1>2, <1>5, <1>6, <1>9, <1>10, <1>11

\* Rows that share out a set of orders.
SharesOut(group, S) ==
  /\ IsFiniteSet(DOMAIN group)
  /\ \A k \in DOMAIN group : group[k] \subseteq S
  /\ \A i \in S : \E k \in DOMAIN group : i \in group[k]
  /\ \A k, l \in DOMAIN group : k # l => group[k] \cap group[l] = {}

LEMMA GroupsAddUp ==
  ASSUME HistoryInv, NEW S \in SUBSET Placed, NEW group, SharesOut(group, S)
  PROVE  SoldBy(group) = Sold(S) /\ RevenueBy(group) = Revenue(S)
<1>1. IsFiniteSet(S)
  BY OrderFacts, FS_Subset
<1>2. PICK K : K = DOMAIN group
  OBVIOUS
<1>3. IsFiniteSet(K) /\ \A k \in K : group[k] \in SUBSET Placed
  BY <1>2 DEF SharesOut
<1>4. PICK q : q = Quantities
  OBVIOUS
<1>5. PICK p : p = [k \in K |-> Sold(group[k])]
  OBVIOUS
<1>6. PICK u : u = Amounts
  OBVIOUS
<1>7. PICK v : v = [k \in K |-> Revenue(group[k])]
  OBVIOUS
<1>8. \A i \in S : q[i] \in Int /\ u[i] \in Int
  BY <1>4, <1>6, OrderFacts DEF Quantities, Amounts
<1>9. \A k \in K : group[k] \subseteq S /\ p[k] = Total(q, group[k]) /\ v[k] = Total(u, group[k])
  BY <1>2, <1>3, <1>4, <1>5, <1>6, <1>7, SumsOfOrders DEF SharesOut
<1>10. /\ \A i \in S : \E k \in K : i \in group[k]
       /\ \A k, l \in K : k # l => group[k] \cap group[l] = {}
  BY <1>2 DEF SharesOut
<1>11. Total(p, K) = Total(q, S)
  BY ONLY <1>1, <1>3, <1>8, <1>9, <1>10, TotalOfGroups
<1>12. Total(v, K) = Total(u, S)
  BY ONLY <1>1, <1>3, <1>8, <1>9, <1>10, TotalOfGroups
<1>13. SoldBy(group) = Total(p, K) /\ RevenueBy(group) = Total(v, K)
  BY <1>2, <1>5, <1>7 DEF SoldBy, RevenueBy
<1> QED BY <1>4, <1>6, <1>11, <1>12, <1>13, SumsOfOrders

LEMMA CompletedFacts ==
  ASSUME HistoryInv, NEW type
  PROVE  /\ Completed(type) \in SUBSET Placed
         /\ \A i \in Completed(type) :
              /\ orders[i].deal.good \in GoodsTraded
              /\ orders[i].deal.src \in SitesOf
              /\ DayOf(orders[i].actualDate) \in 0..(Days - 1)
<1>1. Completed(type) \in SUBSET Placed
  BY DEF Completed
<1>2. ASSUME NEW i \in Completed(type)
      PROVE  /\ orders[i].deal.good \in GoodsTraded
             /\ orders[i].deal.src \in SitesOf
             /\ DayOf(orders[i].actualDate) \in 0..(Days - 1)
  <2>1. orders[i].deal \in Deals /\ orders[i].actualDate \in 0..moment
    BY OrderFacts DEF Completed
  <2>2. PICK t \in 0..moment : t = orders[i].actualDate
    BY <2>1
  <2>3. t \in Nat /\ t <= 2 * Days - 1 /\ Days \in Nat
    BY <2>2, HistoryAssumption DEF HistoryInv
  <2>4. t \div 2 \in 0..(Days - 1)
    BY <2>3
  <2> QED BY <2>1, <2>2, <2>4 DEF DayOf, GoodsTraded, SitesOf
<1> QED BY <1>1, <1>2

\* By product, by warehouse, by day, and of one product by warehouse.
LEMMA ReportsShareOut ==
  ASSUME HistoryInv
  PROVE  /\ SharesOut(ProductSales, Completed("OUTGOING"))
         /\ SharesOut(SalesTrends, Completed("OUTGOING"))
         /\ SharesOut(PurchaseTrends, Completed("INCOMING"))
         /\ SharesOut(WarehouseSales, Completed("OUTGOING"))
         /\ \A g \in GoodsTraded : SharesOut(ProductDemand(g), ProductSales[g])
<1>1. IsFiniteSet(GoodsTraded) /\ IsFiniteSet(SitesOf)
  BY HistoryAssumption
<1>2. IsFiniteSet(0..(Days - 1))
  <2>1. 0 \in Int /\ Days - 1 \in Int
    BY HistoryAssumption
  <2> QED BY <2>1, FS_Interval
<1>3. SharesOut(ProductSales, Completed("OUTGOING"))
  BY <1>1, CompletedFacts DEF SharesOut, ProductSales
<1>4. SharesOut(SalesTrends, Completed("OUTGOING"))
  BY <1>2, CompletedFacts DEF SharesOut, SalesTrends
<1>5. SharesOut(PurchaseTrends, Completed("INCOMING"))
  BY <1>2, CompletedFacts DEF SharesOut, PurchaseTrends
<1>6. SharesOut(WarehouseSales, Completed("OUTGOING"))
  BY <1>1, CompletedFacts DEF SharesOut, WarehouseSales
<1>7. \A g \in GoodsTraded : SharesOut(ProductDemand(g), ProductSales[g])
  BY <1>1, CompletedFacts DEF SharesOut, ProductDemand, ProductSales
<1> QED BY <1>3, <1>4, <1>5, <1>6, <1>7

----------------------------------------------------------------------------
(* Movements.                                                              *)

DealOfMovement(type) == IF type \in {"TRANSFER_OUT", "TRANSFER_IN"} THEN "TRANSFER" ELSE type
SiteOfMovement(i, type) ==
  IF type \in {"INCOMING", "TRANSFER_IN"} THEN orders[i].deal.dst ELSE orders[i].deal.src
MovementTypes == {"INCOMING", "OUTGOING", "TRANSFER_OUT", "TRANSFER_IN"}

\* A completed order has one movement of each type its deal has.
LEMMA MovementsAre ==
  ASSUME HistoryInv, NEW m
  PROVE  m \in Movements <=>
           \E type \in MovementTypes : \E i \in Completed(DealOfMovement(type)) :
             m = MovementAt(i, type, SiteOfMovement(i, type))
<1>1. ASSUME NEW i \in Placed
      PROVE  m \in MovementsOf(i) <=>
               \E type \in MovementTypes :
                 orders[i].deal.type = DealOfMovement(type) /\ m = MovementAt(i, type, SiteOfMovement(i, type))
  <2>1. orders[i].deal.type \in {"INCOMING", "OUTGOING", "TRANSFER"}
    BY OrderFacts
  <2>2. CASE orders[i].deal.type = "INCOMING"
    <3>1. MovementsOf(i) = {MovementAt(i, "INCOMING", orders[i].deal.dst)}
      BY <2>2 DEF MovementsOf
    <3> QED BY <2>2, <3>1 DEF DealOfMovement, SiteOfMovement, MovementTypes
  <2>3. CASE orders[i].deal.type = "OUTGOING"
    <3>1. MovementsOf(i) = {MovementAt(i, "OUTGOING", orders[i].deal.src)}
      BY <2>3 DEF MovementsOf
    <3> QED BY <2>3, <3>1 DEF DealOfMovement, SiteOfMovement, MovementTypes
  <2>4. CASE orders[i].deal.type = "TRANSFER"
    <3>1. MovementsOf(i) = {MovementAt(i, "TRANSFER_OUT", orders[i].deal.src),
                            MovementAt(i, "TRANSFER_IN", orders[i].deal.dst)}
      BY <2>4 DEF MovementsOf
    <3> QED BY <2>4, <3>1 DEF DealOfMovement, SiteOfMovement, MovementTypes
  <2> QED BY <2>1, <2>2, <2>3, <2>4
<1>2. m \in Movements <=> \E i \in Placed : orders[i].status = "COMPLETED" /\ m \in MovementsOf(i)
  BY DEF Movements
<1> QED BY <1>1, <1>2 DEF Completed

MovementsOfType(type, g) == {m \in Movements : m.type = type /\ m.good = g}
OrdersOf(type, g) == {i \in Completed(DealOfMovement(type)) : orders[i].deal.good = g}

LEMMA UnitsMoved ==
  ASSUME HistoryInv, NEW type \in MovementTypes, NEW g
  PROVE  /\ IsFiniteSet(MovementsOfType(type, g))
         /\ \A m \in MovementsOfType(type, g) : m.quantity \in Int
         /\ Units(MovementsOfType(type, g)) = Sold(OrdersOf(type, g))
<1>1. PICK S : S = OrdersOf(type, g)
  OBVIOUS
<1>2. PICK T : T = MovementsOfType(type, g)
  OBVIOUS
<1>3. PICK b : b = [i \in S |-> MovementAt(i, type, SiteOfMovement(i, type))]
  OBVIOUS
<1>4. S \in SUBSET Placed /\ IsFiniteSet(S)
  <2>1. S \in SUBSET Placed
    BY <1>1 DEF OrdersOf, Completed
  <2> QED BY <2>1, OrderFacts, FS_Subset
<1>5. \A i \in S : /\ b[i].type = type /\ b[i].good = orders[i].deal.good
                   /\ b[i].quantity = orders[i].deal.quantity /\ b[i].order = i
                   /\ b[i].good = g
  BY <1>1, <1>3 DEF MovementAt, OrdersOf
<1>6. \A i \in S : b[i] \in T
  <2>1. ASSUME NEW i \in S PROVE b[i] \in Movements
    <3>1. i \in Completed(DealOfMovement(type)) /\ b[i] = MovementAt(i, type, SiteOfMovement(i, type))
      BY <1>1, <1>3 DEF OrdersOf
    <3> QED BY <3>1, MovementsAre
  <2> QED BY <1>2, <1>5, <2>1 DEF MovementsOfType
<1>7. \A m \in T : \E i \in S : b[i] = m
  <2>1. ASSUME NEW m \in T PROVE \E i \in S : b[i] = m
    <3>1. m \in Movements /\ m.type = type /\ m.good = g
      BY <1>2 DEF MovementsOfType
    <3>0. PICK t \in MovementTypes : \E i \in Completed(DealOfMovement(t)) :
            m = MovementAt(i, t, SiteOfMovement(i, t))
      BY <3>1, MovementsAre
    <3>2. PICK i \in Completed(DealOfMovement(t)) : m = MovementAt(i, t, SiteOfMovement(i, t))
      BY <3>0
    <3>3. t = type /\ orders[i].deal.good = g
      BY <3>1, <3>2 DEF MovementAt
    <3>4. i \in S
      BY <1>1, <3>2, <3>3 DEF OrdersOf
    <3> QED BY <1>3, <3>2, <3>3, <3>4
  <2> QED BY <2>1
<1>8. \A i, j \in S : b[i] = b[j] => i = j
  BY <1>5
<1>9. IsFiniteSet(T)
  <2>1. b \in Surjection(S, T)
    BY <1>3, <1>6, <1>7 DEF Surjection
  <2> QED BY <1>4, <2>1, FS_Surjection
<1>10. PICK q : q = Quantities
  OBVIOUS
<1>11. PICK p : p = [m \in T |-> m.quantity]
  OBVIOUS
<1>12. \A i \in S : q[i] \in Int /\ q[i] = orders[i].deal.quantity
  BY <1>4, <1>10, OrderFacts DEF Quantities
<1>13. \A i \in S : b[i] \in T /\ p[b[i]] = q[i] /\ q[i] \in Int
  BY <1>5, <1>6, <1>11, <1>12
<1>14. Total(p, T) = Total(q, S)
  BY ONLY <1>4, <1>7, <1>8, <1>9, <1>13, TotalRenamed
<1>15. \A m \in T : m.quantity \in Int
  BY <1>5, <1>7, <1>12
<1>16. Units(T) = Total(p, T)
  BY <1>11 DEF Units
<1> QED BY <1>1, <1>2, <1>4, <1>9, <1>10, <1>14, <1>15, <1>16, SumsOfOrders

\* Two disjoint sets of movements.
LEMMA UnitsOfBoth ==
  ASSUME NEW M, NEW N, IsFiniteSet(M), IsFiniteSet(N), M \cap N = {},
         \A m \in M \cup N : m.quantity \in Int
  PROVE  Units(M \cup N) = Units(M) + Units(N) /\ Units(M) \in Int /\ Units(N) \in Int
<1>1. PICK q : q = [m \in M \cup N |-> m.quantity]
  OBVIOUS
<1>2. PICK p : p = [m \in M |-> m.quantity]
  OBVIOUS
<1>3. PICK r : r = [m \in N |-> m.quantity]
  OBVIOUS
<1>4. IsFiniteSet(M \cup N) /\ (M \cup N) \ M = N /\ M \subseteq M \cup N
  BY FS_Union
<1>5. \A m \in M \cup N : q[m] \in Int
  BY <1>1
<1>6. Total(q, M \cup N) = Total(q, M) + Total(q, N)
  BY <1>4, <1>5, TotalSplit
<1>7. Total(p, M) = Total(q, M) /\ Total(r, N) = Total(q, N)
  <2>1. (\A m \in M : p[m] = q[m]) /\ (\A m \in N : r[m] = q[m])
    BY <1>1, <1>2, <1>3
  <2> QED BY <2>1, TotalAgrees
<1>8. Total(q, M) \in Int /\ Total(q, N) \in Int
  BY <1>5, TotalType
<1> QED BY <1>1, <1>2, <1>3, <1>6, <1>7, <1>8 DEF Units

\* What was bought is open, cancelled or has come.
LEMMA PurchasesSplit ==
  ASSUME HistoryInv, NEW P, P = {i \in Placed : orders[i].deal.type = "INCOMING"}
  PROVE  Revenue(P) = OrdersValue(OpenPurchaseOrders) + OrdersValue(Status(P, "CANCELLED"))
                        + Revenue(Completed("INCOMING"))
<1>1. PICK A : A = OpenPurchaseOrders
  OBVIOUS
<1>2. PICK B : B = Status(P, "CANCELLED")
  OBVIOUS
<1>3. PICK C : C = Completed("INCOMING")
  OBVIOUS
<1>4. P \in SUBSET Placed /\ IsFiniteSet(P)
  <2>1. P \in SUBSET Placed
    OBVIOUS
  <2> QED BY <2>1, OrderFacts, FS_Subset
<1>5. /\ A \subseteq P /\ B \subseteq P /\ C \subseteq P
      /\ P \ A = B \cup C /\ (P \ A) \ B = C
  <2>1. \A i \in Placed : orders[i].status \in {"PENDING", "COMPLETED", "CANCELLED"}
    BY DEF HistoryInv, OrderHolds, OrderRow
  <2> QED BY <1>1, <1>2, <1>3, <2>1 DEF OpenPurchaseOrders, Status, Completed
<1>6. PICK q : q = Amounts
  OBVIOUS
<1>7. \A i \in P : q[i] \in Int
  BY <1>4, <1>6, OrderFacts DEF Amounts
<1>8. Total(q, P) = Total(q, A) + Total(q, P \ A)
  BY ONLY <1>4, <1>5, <1>7, TotalSplit
<1>9. Total(q, P \ A) = Total(q, B) + Total(q, C)
  <2>1. IsFiniteSet(P \ A) /\ B \subseteq P \ A /\ \A i \in P \ A : q[i] \in Int
    <3>1. IsFiniteSet(P \ A)
      BY <1>4, FS_Subset
    <3> QED BY ONLY <1>5, <1>7, <3>1
  <2>2. Total(q, P \ A) = Total(q, B) + Total(q, (P \ A) \ B)
    BY ONLY <2>1, TotalSplit
  <2> QED BY <1>5, <2>2
<1>10. A \in SUBSET Placed /\ B \in SUBSET Placed /\ C \in SUBSET Placed
  BY <1>4, <1>5
<1>11. /\ Revenue(P) = Total(q, P)
       /\ OrdersValue(A) = Total(q, A) /\ Total(q, A) \in Int
       /\ OrdersValue(B) = Total(q, B) /\ Total(q, B) \in Int
       /\ Revenue(C) = Total(q, C) /\ Total(q, C) \in Int
  BY <1>4, <1>6, <1>10, SumsOfOrders
<1> QED BY <1>1, <1>2, <1>3, <1>8, <1>9, <1>11

\* All the movements that leave for a customer are in the window of all days.
LEMMA LeftInAllDays ==
  ASSUME HistoryInv, NEW g \in GoodsTraded
  PROVE  /\ FastMoving(Days)[g] = Sold(ProductSales[g])
         /\ ProductSales[g] \in SUBSET Placed
<1>1. {m \in Movements : m.type = "OUTGOING" /\ m.good = g /\ m.at >= moment - 2 * Days}
        = MovementsOfType("OUTGOING", g)
  <2>1. ASSUME NEW m \in Movements PROVE m.at >= moment - 2 * Days
    <3>1. PICK t \in MovementTypes : \E i \in Completed(DealOfMovement(t)) :
            m = MovementAt(i, t, SiteOfMovement(i, t))
      BY MovementsAre
    <3>2. PICK i \in Completed(DealOfMovement(t)) : m = MovementAt(i, t, SiteOfMovement(i, t))
      BY <3>1
    <3>3. m.at = orders[i].actualDate /\ m.at \in 0..moment
      BY <3>2, OrderFacts DEF MovementAt, Completed
    <3>4. moment \in Nat /\ moment <= 2 * Days - 1 /\ Days \in Nat
      BY HistoryAssumption DEF HistoryInv
    <3>5. PICK n \in 0..moment : n = m.at
      BY <3>3
    <3> QED BY <3>4, <3>5
  <2> QED BY <2>1 DEF MovementsOfType
<1>2. OrdersOf("OUTGOING", g) = ProductSales[g]
  BY DEF OrdersOf, ProductSales, DealOfMovement
<1>3. "OUTGOING" \in MovementTypes
  BY DEF MovementTypes
<1>4. Units(MovementsOfType("OUTGOING", g)) = Sold(OrdersOf("OUTGOING", g))
  BY <1>3, UnitsMoved
<1>5. FastMoving(Days)[g] = Units(MovementsOfType("OUTGOING", g))
  BY <1>1 DEF FastMoving
<1>6. ProductSales[g] \in SUBSET Placed
  BY DEF ProductSales, Completed
<1> QED BY <1>2, <1>4, <1>5, <1>6

\* What of one product has come and gone: transfers cancel out.
LEMMA ProductBalance ==
  ASSUME HistoryInv, NEW g
  PROVE  /\ Units(Arrivals(g)) - Units(StockHistory(g) \ Arrivals(g))
              = Sold(OrdersOf("INCOMING", g)) - Sold(OrdersOf("OUTGOING", g))
         /\ Sold(OrdersOf("INCOMING", g)) \in Int /\ Sold(OrdersOf("OUTGOING", g)) \in Int
<1>1. PICK i : i = MovementsOfType("INCOMING", g)
  OBVIOUS
<1>2. PICK o : o = MovementsOfType("OUTGOING", g)
  OBVIOUS
<1>3. PICK f : f = MovementsOfType("TRANSFER_IN", g)
  OBVIOUS
<1>4. PICK t : t = MovementsOfType("TRANSFER_OUT", g)
  OBVIOUS
<1>5. \A m \in Movements : m.type \in MovementTypes
  <2>1. ASSUME NEW m \in Movements PROVE m.type \in MovementTypes
    <3>1. PICK k \in MovementTypes : \E j \in Completed(DealOfMovement(k)) :
            m = MovementAt(j, k, SiteOfMovement(j, k))
      BY MovementsAre
    <3> QED BY <3>1 DEF MovementAt
  <2> QED BY <2>1
<1>6. Arrivals(g) = i \cup f /\ i \cap f = {}
  BY <1>1, <1>3 DEF Arrivals, StockHistory, MovementsOfType
<1>7. StockHistory(g) \ Arrivals(g) = o \cup t /\ o \cap t = {}
  BY <1>2, <1>4, <1>5 DEF Arrivals, StockHistory, MovementsOfType, MovementTypes
<1>8. {"INCOMING", "OUTGOING", "TRANSFER_IN", "TRANSFER_OUT"} \subseteq MovementTypes
  BY DEF MovementTypes
<1>9. /\ IsFiniteSet(i) /\ IsFiniteSet(f) /\ IsFiniteSet(o) /\ IsFiniteSet(t)
      /\ \A m \in i \cup f : m.quantity \in Int
      /\ \A m \in o \cup t : m.quantity \in Int
  BY <1>1, <1>2, <1>3, <1>4, <1>8, UnitsMoved
<1>10. /\ Units(i \cup f) = Units(i) + Units(f) /\ Units(i) \in Int /\ Units(f) \in Int
  BY ONLY <1>6, <1>9, UnitsOfBoth
<1>11. /\ Units(o \cup t) = Units(o) + Units(t) /\ Units(o) \in Int /\ Units(t) \in Int
  BY ONLY <1>7, <1>9, UnitsOfBoth
<1>12. /\ Units(i) = Sold(OrdersOf("INCOMING", g)) /\ Units(o) = Sold(OrdersOf("OUTGOING", g))
       /\ Units(f) = Sold(OrdersOf("TRANSFER_IN", g)) /\ Units(t) = Sold(OrdersOf("TRANSFER_OUT", g))
  BY <1>1, <1>2, <1>3, <1>4, <1>8, UnitsMoved
<1>13. OrdersOf("TRANSFER_IN", g) = OrdersOf("TRANSFER_OUT", g)
  BY DEF OrdersOf, DealOfMovement
<1>14. PICK x \in Int, y \in Int, z \in Int : x = Units(i) /\ y = Units(o) /\ z = Units(f)
  BY <1>10, <1>11
<1>15. Units(t) = z /\ Units(Arrivals(g)) = x + z /\ Units(StockHistory(g) \ Arrivals(g)) = y + z
  BY <1>6, <1>7, <1>10, <1>11, <1>12, <1>13, <1>14
<1> QED BY <1>12, <1>14, <1>15

LEMMA BalancesAddUp ==
  ASSUME HistoryInv
  PROVE  Total([g \in GoodsTraded |-> Units(Arrivals(g)) - Units(StockHistory(g) \ Arrivals(g))], GoodsTraded)
           = SoldBy(PurchaseTrends) - SoldBy(SalesTrends)
<1>1. PICK K : K = GoodsTraded
  OBVIOUS
<1>2. PICK d : d = [g \in K |-> Units(Arrivals(g)) - Units(StockHistory(g) \ Arrivals(g))]
  OBVIOUS
<1>3. PICK in : in = [g \in K |-> OrdersOf("INCOMING", g)]
  OBVIOUS
<1>4. PICK out : out = [g \in K |-> OrdersOf("OUTGOING", g)]
  OBVIOUS
<1>5. PICK q : q = [g \in K |-> Sold(in[g])]
  OBVIOUS
<1>6. PICK p : p = [g \in K |-> Sold(out[g])]
  OBVIOUS
<1>7. IsFiniteSet(K)
  BY <1>1, HistoryAssumption
<1>8. \A g \in K : q[g] \in Int /\ p[g] \in Int /\ d[g] = q[g] - p[g]
  BY <1>2, <1>3, <1>4, <1>5, <1>6, ProductBalance
<1>9. Total(d, K) = Total(q, K) - Total(p, K)
  BY ONLY <1>7, <1>8, TotalDifference
<1>10. DOMAIN in = K /\ DOMAIN out = K
  BY <1>3, <1>4
<1>11. SoldBy(in) = Total(q, K) /\ SoldBy(out) = Total(p, K)
  BY <1>5, <1>6, <1>10 DEF SoldBy
<1>12. SharesOut(in, Completed("INCOMING")) /\ SharesOut(out, Completed("OUTGOING"))
  BY <1>1, <1>3, <1>4, <1>7, CompletedFacts DEF SharesOut, OrdersOf, DealOfMovement
<1>13. SoldBy(in) = SoldBy(PurchaseTrends) /\ SoldBy(out) = SoldBy(SalesTrends)
  <2>1. PICK u : u = PurchaseTrends
    OBVIOUS
  <2>2. PICK v : v = SalesTrends
    OBVIOUS
  <2>3. SharesOut(u, Completed("INCOMING")) /\ SharesOut(v, Completed("OUTGOING"))
    BY <2>1, <2>2, ReportsShareOut
  <2>4. PICK I \in SUBSET Placed : I = Completed("INCOMING")
    BY CompletedFacts
  <2>5. PICK O \in SUBSET Placed : O = Completed("OUTGOING")
    BY CompletedFacts
  <2>6. SoldBy(in) = Sold(I) /\ SoldBy(u) = Sold(I) /\ SoldBy(out) = Sold(O) /\ SoldBy(v) = Sold(O)
    BY <1>12, <2>3, <2>4, <2>5, GroupsAddUp
  <2> QED BY <2>1, <2>2, <2>6
<1> QED BY <1>1, <1>2, <1>9, <1>11, <1>13

LEMMA AllSalesAddUp == HistoryInv => SalesAddUp
<1> SUFFICES ASSUME HistoryInv PROVE SalesAddUp
  OBVIOUS
<1>1. PICK S \in SUBSET Placed : S = Completed("OUTGOING")
  BY CompletedFacts
<1>2. PICK B \in SUBSET Placed : B = Completed("INCOMING")
  BY CompletedFacts
<1>3. PICK a : a = ProductSales
  OBVIOUS
<1>4. PICK b : b = SalesTrends
  OBVIOUS
<1>5. PICK c : c = WarehouseSales
  OBVIOUS
<1>6. PICK d : d = PurchaseTrends
  OBVIOUS
<1>7. SharesOut(a, S) /\ SharesOut(b, S) /\ SharesOut(c, S) /\ SharesOut(d, B)
  BY <1>1, <1>2, <1>3, <1>4, <1>5, <1>6, ReportsShareOut
<1>8. /\ SoldBy(a) = Sold(S) /\ SoldBy(b) = Sold(S) /\ SoldBy(c) = Sold(S)
      /\ RevenueBy(a) = Revenue(S) /\ RevenueBy(b) = Revenue(S) /\ RevenueBy(d) = Revenue(B)
  BY <1>7, GroupsAddUp
<1>9. PICK P : P = {i \in Placed : orders[i].deal.type = "INCOMING"}
  OBVIOUS
<1>10. Revenue(P) = OrdersValue(OpenPurchaseOrders) + OrdersValue(Status(P, "CANCELLED")) + Revenue(B)
  BY <1>2, <1>9, PurchasesSplit
<1>11. ASSUME NEW g \in GoodsTraded
       PROVE  FastMoving(Days)[g] = Sold(ProductSales[g]) /\ FastMoving(Days)[g] = SoldBy(ProductDemand(g))
  <2>1. PICK D : D = ProductDemand(g)
    OBVIOUS
  <2>2. PICK T \in SUBSET Placed : T = ProductSales[g]
    BY LeftInAllDays
  <2>3. SharesOut(D, T)
    BY <2>1, <2>2, ReportsShareOut
  <2>4. SoldBy(D) = Sold(T)
    BY <2>3, GroupsAddUp
  <2> QED BY <2>1, <2>2, <2>4, LeftInAllDays
<1> QED BY <1>3, <1>4, <1>5, <1>6, <1>8, <1>9, <1>10, <1>11, BalancesAddUp DEF SalesAddUp

----------------------------------------------------------------------------
LEMMA SuppliersAgree == HistoryInv => SupplierReportsAgree
<1> SUFFICES ASSUME HistoryInv, NEW v \in {d.supplier : d \in Deals} \ {NoOne}
             PROVE  Comparison(v) = Statistics(v)
  BY DEF SupplierReportsAgree
<1>1. PICK P : P = Purchases(v)
  OBVIOUS
<1>2. P = {i \in Placed : orders[i].deal.supplier = v}
  <2>1. ASSUME NEW i \in Placed, orders[i].deal.supplier = v PROVE orders[i].deal.type = "INCOMING"
    BY <2>1, OrderFacts, HistoryAssumption
  <2> QED BY <1>1, <2>1 DEF Purchases
<1>3. {i \in Status(P, "COMPLETED") : orders[i].expectedDate # NoOne}
        = {i \in P : orders[i].expectedDate # NoOne /\ orders[i].actualDate # NoOne}
  <2>1. \A i \in P : orders[i].status = "COMPLETED" <=> orders[i].actualDate # NoOne
    BY <1>2 DEF HistoryInv, OrderHolds
  <2> QED BY <2>1 DEF Status
<1> QED BY <1>1, <1>2, <1>3 DEF Comparison, Statistics

LEMMA DueListsAre == HistoryInv => DueListsPartition
<1> SUFFICES ASSUME HistoryInv PROVE DueListsPartition
  OBVIOUS
<1>1. PICK today \in Nat : today = DayOf(moment)
  BY DEF HistoryInv, DayOf
<1>2. StartOfToday = 2 * today /\ Window \in Nat
  BY <1>1, HistoryAssumption DEF StartOfToday, Midnight
<1>3. \A i \in Pendings : orders[i].expectedDate \in Nat /\ i \in Placed
  BY DEF Pendings, HistoryInv, OrderHolds, OrderRow
<1>4. Midnight(DayOf(moment) + Window + 1) - 1 = 2 * (today + Window + 1) - 1
  BY <1>1 DEF Midnight
<1>5. Upcoming \cap Overdue = {}
  BY <1>2, <1>3 DEF Upcoming, Overdue
<1>6. {i \in Pendings : orders[i].expectedDate <= StartOfToday + 2 * Window} \subseteq Upcoming \cup Overdue
  <2>1. ASSUME NEW i \in Pendings, orders[i].expectedDate <= StartOfToday + 2 * Window
        PROVE  i \in Upcoming \cup Overdue
    <3>1. PICK e \in Nat : e = orders[i].expectedDate
      BY <1>3
    <3>2. e <= 2 * (today + Window + 1) - 1
      BY <1>2, <2>1, <3>1
    <3>3. e >= StartOfToday \/ e < StartOfToday
      BY <1>2, <3>1
    <3> QED BY <1>4, <3>1, <3>2, <3>3 DEF Upcoming, Overdue
  <2> QED BY <2>1
<1>7. CalledOverdue = Overdue \cap OpenPurchaseOrders
  <2>1. ASSUME NEW i \in Pendings
        PROVE  DayOf(orders[i].expectedDate) < DayOf(moment) <=> orders[i].expectedDate < StartOfToday
    <3>1. PICK e \in Nat : e = orders[i].expectedDate
      BY <1>3
    <3>2. e \div 2 < today <=> e < 2 * today
      OBVIOUS
    <3> QED BY <1>1, <1>2, <3>1, <3>2 DEF DayOf
  <2> QED BY <2>1 DEF CalledOverdue, Overdue, OpenPurchaseOrders, Pendings
<1> QED BY <1>5, <1>6, <1>7 DEF DueListsPartition

LEMMA NoUnits == Units({}) = 0
BY TotalEmpty DEF Units

LEMMA DeadDoesNotRise == HistoryInv => DeadStockDoesNotRise
<1> SUFFICES ASSUME HistoryInv, IdleDays > Window, NEW g, NEW s, DeadStock(g, s)
             PROVE  Change(g, s) # "INCREASE"
  BY DEF DeadStockDoesNotRise
<1>1. \A m \in Sales(g, s) : ~(m.at >= moment - 2 * Window)
  <2>1. ASSUME NEW m \in Sales(g, s) PROVE ~(m.at >= moment - 2 * Window)
    <3>1. PICK t \in MovementTypes : \E i \in Completed(DealOfMovement(t)) :
            m = MovementAt(i, t, SiteOfMovement(i, t))
      BY MovementsAre DEF Sales
    <3>2. PICK i \in Completed(DealOfMovement(t)) : m = MovementAt(i, t, SiteOfMovement(i, t))
      BY <3>1
    <3>3. m.at \in 0..moment
      BY <3>2, OrderFacts DEF MovementAt, Completed
    <3>4. PICK n \in Nat : n = m.at
      BY <3>3 DEF HistoryInv
    <3>5. n <= moment - 2 * IdleDays
      BY <3>4 DEF DeadStock
    <3>6. IdleDays \in Nat /\ Window \in Nat /\ moment \in Nat
      BY HistoryAssumption DEF HistoryInv
    <3> QED BY <3>4, <3>5, <3>6
  <2> QED BY <2>1
<1>2. PICK older : older = {m \in Sales(g, s) \ {} : m.at >= moment - 4 * Window}
  OBVIOUS
<1>3. {m \in Sales(g, s) : m.at >= moment - 2 * Window} = {}
  BY <1>1
<1>4. Change(g, s) = ConsumptionChange(0, Units(older), 50, 0)
  BY <1>2, <1>3, NoUnits DEF Change
<1>5. \A n \in Int : ConsumptionChange(0, n, 50, 0) # "INCREASE"
  <2>1. ASSUME NEW n \in Int PROVE ConsumptionChange(0, n, 50, 0) # "INCREASE"
    <3>1. n > 0 => ~(0 >= n)
      OBVIOUS
    <3> QED BY <3>1 DEF ConsumptionChange
  <2> QED BY <2>1
<1>6. Units(older) \in Int
  <2>1. PICK M : M = MovementsOfType("OUTGOING", g)
    OBVIOUS
  <2>2. IsFiniteSet(M) /\ \A m \in M : m.quantity \in Int
    BY <2>1, UnitsMoved DEF MovementTypes
  <2>3. older \subseteq M
    BY <1>2, <2>1 DEF MovementsOfType, Sales
  <2>4. IsFiniteSet(older)
    BY <2>2, <2>3, FS_Subset
  <2>5. PICK q : q = [m \in older |-> m.quantity]
    OBVIOUS
  <2>6. \A m \in older : q[m] \in Int
    BY <2>2, <2>3, <2>5
  <2>7. Total(q, older) \in Int
    BY ONLY <2>4, <2>6, TotalType
  <2> QED BY <2>5, <2>7 DEF Units
<1> QED BY <1>4, <1>5, <1>6

\* Sales, purchases, suppliers, movements and values, whichever report groups them and
\* however, add up to the same: the reports of the analytics tell one story.
THEOREM ReportsTellOneStory == HistorySpec => []ReportsAgree
<1>1. HistoryInv => ReportsAgree
  BY AllSalesAddUp, SuppliersAgree, DueListsAre, DeadDoesNotRise DEF ReportsAgree
<1> QED BY <1>1, HistoryInvariant, PTL

----------------------------------------------------------------------------
(* The data of a document. The first of some fields is one of them, and the *)
(* items are lines of the document, in their order.                         *)

LEMMA MinIsIn ==
  ASSUME NEW n \in Nat, NEW I, I \subseteq 1..n, I # {}
  PROVE  Min(I) \in I
<1>1. I \subseteq Nat
  OBVIOUS
<1>2. \E i \in I : \A j \in I : i <= j
  BY <1>1, LeastNat
<1> QED BY <1>2 DEF Min

LEMMA FirstIsOne ==
  ASSUME NEW fields, NEW n \in Nat, DOMAIN fields = 1..n, NEW found, found \subseteq 1..n
  PROVE  \/ found = {} /\ FirstValue(fields, found) = Undefined
         \/ \E k \in found : FirstValue(fields, found) = ValueOf(fields[k])
<1>1. CASE found = {}
  BY <1>1 DEF FirstValue
<1>2. CASE found # {}
  <2>1. Min(found) \in found
    BY <1>2, MinIsIn
  <2> QED BY <1>2, <2>1 DEF FirstValue
<1> QED BY <1>1, <1>2

LEMMA ValueIs ==
  ASSUME NEW field, ValueOf(field) # Undefined
  PROVE  ValueOf(field) = field.text
BY DEF ValueOf, Value

LEMMA TypedValue ==
  ASSUME NEW fields, NEW n \in Nat, DOMAIN fields = 1..n, NEW type
  PROVE  \/ FindValueByType(fields, type) = Undefined
         \/ \E k \in DOMAIN fields : /\ fields[k].type = type
                                     /\ FindValueByType(fields, type) = fields[k].text
<1>1. PICK found : found = {k \in DOMAIN fields : fields[k].type = type}
  OBVIOUS
<1>2. PICK v : v = FirstValue(fields, found)
  OBVIOUS
<1>3. v = FindValueByType(fields, type)
  BY <1>1, <1>2 DEF FindValueByType
<1>4. found \subseteq 1..n
  BY <1>1
<1>5. v = Undefined \/ \E k \in found : v = ValueOf(fields[k])
  BY <1>2, <1>4, FirstIsOne
<1>6. v = Undefined \/ \E k \in found : v = fields[k].text
  BY <1>5, ValueIs
<1> QED BY <1>1, <1>3, <1>6

LEMMA GroupValue ==
  ASSUME NEW fields, NEW n \in Nat, DOMAIN fields = 1..n, NEW types, NEW group
  PROVE  \/ FirstInGroup(fields, types, group) = Undefined
         \/ \E k \in DOMAIN fields : /\ group \in fields[k].groups
                                     /\ FirstInGroup(fields, types, group) = fields[k].text
<1>1. PICK found : found = {k \in DOMAIN fields : fields[k].type \in types /\ group \in fields[k].groups}
  OBVIOUS
<1>2. PICK v : v = FirstValue(fields, found)
  OBVIOUS
<1>3. v = FirstInGroup(fields, types, group)
  BY <1>1, <1>2 DEF FirstInGroup
<1>4. found \subseteq 1..n
  BY <1>1
<1>5. v = Undefined \/ \E k \in found : v = ValueOf(fields[k])
  BY <1>2, <1>4, FirstIsOne
<1>6. v = Undefined \/ \E k \in found : v = fields[k].text
  BY <1>5, ValueIs
<1> QED BY <1>1, <1>3, <1>6

LEMMA GroupedValue ==
  ASSUME NEW fields, NEW n \in Nat, DOMAIN fields = 1..n, NEW types,
         NEW groups, NEW m \in Nat, DOMAIN groups = 1..m
  PROVE  \/ FindGroupedValue(fields, types, groups) = Undefined
         \/ \E k \in DOMAIN fields, g \in DOMAIN groups :
              /\ groups[g] \in fields[k].groups
              /\ FindGroupedValue(fields, types, groups) = fields[k].text
<1>1. PICK found : found = {k \in DOMAIN groups : FirstInGroup(fields, types, groups[k]) # Undefined}
  OBVIOUS
<1>2. PICK v : v = FindGroupedValue(fields, types, groups)
  OBVIOUS
<1>3. v = IF found = {} THEN Undefined ELSE FirstInGroup(fields, types, groups[Min(found)])
  BY <1>1, <1>2 DEF FindGroupedValue
<1>4. CASE found # {}
  <2>1. Min(found) \in found
    BY <1>1, <1>4, MinIsIn
  <2>2. PICK g \in DOMAIN groups : v = FirstInGroup(fields, types, groups[g])
    BY <1>1, <1>3, <1>4, <2>1
  <2>3. PICK group : group = groups[g]
    OBVIOUS
  <2>4. v = Undefined \/ \E k \in DOMAIN fields : group \in fields[k].groups /\ v = fields[k].text
    BY <2>2, <2>3, GroupValue
  <2> QED BY <1>2, <2>3, <2>4
<1> QED BY <1>2, <1>3, <1>4

----------------------------------------------------------------------------
(* Numbers.                                                                *)

\* A value of a line item: none, or what one of its fields says.
Said(v) == v = Undefined \/ IsText(v)

LEMMA QuantityIs ==
  ASSUME NEW v, Said(v), ParseQuantity(v) # Undefined
  PROVE  ParseQuantity(v) \in Nat \ {0}
<1>1. v # Undefined /\ v[1] = "number" /\ v[2] % 100 = 0 /\ v[2] > 0 /\ ParseQuantity(v) = v[2] \div 100
  BY DEF ParseQuantity
<1>2. v[2] \in Nat
  BY <1>1 DEF Said, IsText
<1>3. \A n \in Nat : n % 100 = 0 /\ n > 0 => n \div 100 \in Nat \ {0}
  OBVIOUS
<1> QED BY <1>1, <1>2, <1>3

LEMMA PriceIs ==
  ASSUME NEW v, Said(v), ParsePrice(v) # Undefined
  PROVE  ParsePrice(v) = v[2] /\ ParsePrice(v) \in Nat
<1>1. v # Undefined /\ v[1] \in {"number", "money"} /\ ParsePrice(v) = v[2]
  BY DEF ParsePrice
<1> QED BY <1>1 DEF Said, IsText

LEMMA SaidBy ==
  ASSUME NEW entry \in LineItems, NEW type
  PROVE  /\ \E n \in Nat : DOMAIN entry = 1..n
         /\ Said(FindValueByType(entry, type))
<1>1. entry \in Seq(Range(entry)) /\ \A k \in DOMAIN entry : IsText(entry[k].text)
  BY ExtractionAssumption
<1>2. PICK n \in Nat : DOMAIN entry = 1..n
  <2>1. PICK S : S = Range(entry)
    OBVIOUS
  <2>2. entry \in Seq(S)
    BY <1>1, <2>1
  <2> QED BY <2>2, LenProperties
<1>3. \/ FindValueByType(entry, type) = Undefined
      \/ \E k \in DOMAIN entry : /\ entry[k].type = type
                                 /\ FindValueByType(entry, type) = entry[k].text
  BY <1>2, TypedValue
<1> QED BY <1>1, <1>2, <1>3 DEF Said

LEMMA ItemHolds ==
  ASSUME NEW entry \in LineItems, IsItem(entry)
  PROVE  /\ ItemOf(entry).product # Undefined
         /\ ItemOf(entry).quantity \in Nat \ {0}
         /\ ItemOf(entry).priceOfAll # Undefined => ItemOf(entry).priceOfAll \in Nat
         /\ \E k \in DOMAIN entry : entry[k].type = "ITEM" /\ entry[k].text = ItemOf(entry).product
         /\ ~HasUnitPrice(entry) /\ ItemOf(entry).priceOfAll # Undefined =>
              ItemOf(entry).priceOfAll = FindValueByType(entry, "PRICE")[2]
<1>1. PICK q : q = ParseQuantity(FindValueByType(entry, "QUANTITY"))
  OBVIOUS
<1>2. PICK u : u = ParsePrice(FindValueByType(entry, "UNIT_PRICE"))
  OBVIOUS
<1>3. PICK t : t = ParsePrice(FindValueByType(entry, "PRICE"))
  OBVIOUS
<1>4. PICK p : p = FindValueByType(entry, "ITEM")
  OBVIOUS
<1>5. ItemOf(entry).product = p /\ ItemOf(entry).quantity = q
  BY <1>1, <1>4 DEF ItemOf
<1>6. p # Undefined /\ q # Undefined
  BY <1>5 DEF IsItem
<1>7. q \in Nat \ {0}
  BY <1>1, <1>6, SaidBy, QuantityIs
<1>8. u # Undefined => u \in Nat
  BY <1>2, SaidBy, PriceIs
<1>9. t # Undefined => t \in Nat /\ t = FindValueByType(entry, "PRICE")[2]
  BY <1>3, SaidBy, PriceIs
<1>10. ItemOf(entry).priceOfAll =
         IF ~HasUnitPrice(entry) THEN t ELSE IF u = Undefined THEN Undefined ELSE u * q
  BY <1>1, <1>2, <1>3, <1>6 DEF ItemOf, PriceOfAll
<1>11. u \in Nat => u * q \in Nat
  BY <1>7
<1>12. ItemOf(entry).priceOfAll # Undefined => ItemOf(entry).priceOfAll \in Nat
  BY <1>8, <1>9, <1>10, <1>11
<1>13. \E k \in DOMAIN entry : entry[k].type = "ITEM" /\ entry[k].text = p
  <2>1. PICK n \in Nat : DOMAIN entry = 1..n
    BY SaidBy
  <2>2. PICK type : type = "ITEM"
    OBVIOUS
  <2>3. \/ FindValueByType(entry, type) = Undefined
        \/ \E k \in DOMAIN entry : entry[k].type = type /\ FindValueByType(entry, type) = entry[k].text
    BY <2>1, TypedValue
  <2> QED BY <1>4, <1>6, <2>2, <2>3
<1> QED BY <1>5, <1>6, <1>7, <1>9, <1>10, <1>12, <1>13

----------------------------------------------------------------------------
(* The document.                                                           *)

Read == summary \in Seq(Fields) /\ blocks \in Seq(Blocks) /\ lineItems \in Seq(LineItems)

\* The line item each item was read from.
ItemsComeFromLines ==
  \E line \in [DOMAIN Items -> DOMAIN lineItems] :
    /\ \A j, k \in DOMAIN line : j < k => line[j] < line[k]
    /\ \A k \in DOMAIN line :
         /\ lineItems[line[k]] \in LineItems /\ IsItem(lineItems[line[k]])
         /\ Items[k] = ItemOf(lineItems[line[k]])

LEMMA ItemsAreRead ==
  ASSUME Read
  PROVE  ItemsComeFromLines
<1>1. PICK m : m = Len(lineItems)
  OBVIOUS
<1>2. m \in Nat /\ DOMAIN lineItems = 1..m /\ \A k \in 1..m : lineItems[k] \in LineItems
  BY <1>1, LenProperties DEF Read
<1>3. PICK I : I = {k \in DOMAIN lineItems : IsItem(lineItems[k])}
  OBVIOUS
<1>4. I \subseteq 1..m
  BY <1>2, <1>3
<1>5. PICK list : list = lineItems
  OBVIOUS
<1>6. DOMAIN list = 1..m
  BY <1>2, <1>5
<1>7. /\ Cardinality(I) \in Nat
      /\ DOMAIN AtPlaces(list, I) = 1..Cardinality(I)
      /\ \A k \in 1..Cardinality(I) : NthOf(I, k) \in I /\ AtPlaces(list, I)[k] = list[NthOf(I, k)]
      /\ \A k, l \in 1..Cardinality(I) : k < l => NthOf(I, k) < NthOf(I, l)
      /\ \A i \in I : \E k \in 1..Cardinality(I) : NthOf(I, k) = i
  <2>1. m \in Nat
    BY <1>2
  <2>2. Filters(list, I)
    BY ONLY <2>1, <1>4, <1>6, FilterKeeps
  <2> QED BY ONLY <2>2 DEF Filters
<1>8. PICK kept : kept = AtPlaces(list, I)
  OBVIOUS
<1>9. PICK n : n = Cardinality(I)
  OBVIOUS
<1>10. DOMAIN kept = 1..n /\ (\A k \in 1..n : kept[k] = list[NthOf(I, k)])
  BY <1>7, <1>8, <1>9
<1>11. Items = [k \in 1..n |-> ItemOf(kept[k])]
  BY <1>3, <1>5, <1>8, <1>10 DEF Items
<1>12. PICK line : line = [k \in 1..n |-> NthOf(I, k)]
  OBVIOUS
<1>13. line \in [DOMAIN Items -> DOMAIN lineItems]
  BY <1>2, <1>4, <1>7, <1>9, <1>11, <1>12
<1>14. \A j, k \in DOMAIN line : j < k => line[j] < line[k]
  BY <1>7, <1>9, <1>12
<1>15. \A k \in DOMAIN line :
         /\ lineItems[line[k]] \in LineItems /\ IsItem(lineItems[line[k]])
         /\ Items[k] = ItemOf(lineItems[line[k]])
  BY <1>2, <1>3, <1>5, <1>7, <1>9, <1>10, <1>11, <1>12
<1> QED BY <1>13, <1>14, <1>15 DEF ItemsComeFromLines

LEMMA SummaryIs ==
  ASSUME Read
  PROVE  \E n \in Nat : /\ DOMAIN summary = 1..n
                        /\ \A k \in 1..n : summary[k] \in Range(summary)
BY LenProperties DEF Read, Range

LEMMA TypeIsMarked ==
  ASSUME TransactionType # Undefined
  PROVE  Markers = {TransactionType} /\ TransactionType \in Types
<1>1. Undefined \notin Markers /\ Cardinality(Markers) = 1 /\ TransactionType = CHOOSE t \in Markers : TRUE
  BY DEF TransactionType
<1>2. Markers \subseteq Types
  BY <1>1 DEF Markers, ParseType
<1>3. IsFiniteSet(Types)
  <2>1. IsFiniteSet({"INCOMING"}) /\ IsFiniteSet({"OUTGOING"}) /\ Types = {"INCOMING"} \cup {"OUTGOING"}
    BY FS_Singleton DEF Types
  <2> QED BY <2>1, FS_Union
<1>4. IsFiniteSet(Markers)
  BY <1>2, <1>3, FS_Subset
<1>5. PICK t : Markers = {t}
  BY <1>1, <1>4, FS_Singleton
<1>6. TransactionType = t
  BY <1>1, <1>5
<1> QED BY <1>2, <1>5, <1>6

LEMMA DateIsRead ==
  ASSUME Read
  PROVE  InvoiceDate \in Dated \cup {Undefined} /\ InvoiceDate \in Texts \cup {Undefined}
<1> DEFINE FieldsOf(type) == {k \in DOMAIN summary : summary[k].type = type /\ ValueOf(summary[k]) \in Dated}
           DateOf(type) == FirstValue(summary, FieldsOf(type))
<1>1. PICK n \in Nat : DOMAIN summary = 1..n /\ \A k \in 1..n : summary[k] \in Range(summary)
  BY SummaryIs
<1>2. ASSUME NEW type PROVE DateOf(type) = Undefined \/ (DateOf(type) \in Dated /\ DateOf(type) \in Texts)
  <2>1. PICK found : found = FieldsOf(type)
    OBVIOUS
  <2>2. PICK v : v = FirstValue(summary, found)
    OBVIOUS
  <2>3. found \subseteq 1..n
    BY <1>1, <2>1
  <2>4. v = Undefined \/ \E k \in found : v = ValueOf(summary[k])
    BY <1>1, <2>2, <2>3, FirstIsOne
  <2>5. ASSUME v # Undefined PROVE v \in Dated /\ v \in Texts
    <3>1. PICK k \in found : v = ValueOf(summary[k])
      BY <2>4, <2>5
    <3>2. v \in Dated /\ k \in 1..n
      BY <2>1, <2>3, <3>1
    <3>3. v = summary[k].text
      BY <2>5, <3>1, ValueIs
    <3> QED BY <1>1, <3>2, <3>3 DEF Texts
  <2> QED BY <2>1, <2>2, <2>5
<1>3. InvoiceDate = Or(DateOf("INVOICE_RECEIPT_DATE"), DateOf("ORDER_DATE"))
  BY DEF InvoiceDate
<1> HIDE DEF DateOf
<1> QED BY <1>2, <1>3 DEF Or

LEMMA MappedIsValid ==
  ASSUME Read, TransactionType # Undefined
  PROVE  IsValid(Mapped)
<1>1. PICK line \in [DOMAIN Items -> DOMAIN lineItems] :
        \A k \in DOMAIN line : /\ lineItems[line[k]] \in LineItems /\ IsItem(lineItems[line[k]])
                               /\ Items[k] = ItemOf(lineItems[line[k]])
  BY ItemsAreRead DEF ItemsComeFromLines
<1>2. ASSUME NEW k \in DOMAIN Items
      PROVE  /\ Items[k].product # Undefined
             /\ Items[k].quantity \in Nat \ {0}
             /\ Items[k].priceOfAll # Undefined => Items[k].priceOfAll >= 0
  <2>1. PICK entry \in LineItems : IsItem(entry) /\ Items[k] = ItemOf(entry)
    BY <1>1, <1>2
  <2>2. PICK item : item = ItemOf(entry)
    OBVIOUS
  <2>3. /\ item.product # Undefined /\ item.quantity \in Nat \ {0}
        /\ item.priceOfAll # Undefined => item.priceOfAll \in Nat
    BY <2>1, <2>2, ItemHolds
  <2> QED BY <2>1, <2>2, <2>3
<1>3. TransactionType \in Types /\ InvoiceDate \in Dated \cup {Undefined}
  BY TypeIsMarked, DateIsRead
<1>4. Mapped.transactionType = TransactionType /\ Mapped.date = InvoiceDate /\ Mapped.items = Items
  BY DEF Mapped
<1> QED BY <1>2, <1>3, <1>4 DEF IsValid

\* What the fields of a receiver, of a vendor and of a warehouse say.
LEMMA ReceiverIsRead ==
  ASSUME Read, NEW types
  PROVE  ReceiverField(types) \in InGroups(Range(ReceiverGroups)) \cup {Undefined}
<1>1. PICK n \in Nat : DOMAIN summary = 1..n /\ \A k \in 1..n : summary[k] \in Range(summary)
  BY SummaryIs
<1>2. PICK groups : groups = ReceiverGroups
  OBVIOUS
<1>3. DOMAIN groups = 1..3 /\ \A g \in DOMAIN groups : groups[g] \in Range(ReceiverGroups)
  BY <1>2 DEF ReceiverGroups, Range
<1>4. PICK v : v = FindGroupedValue(summary, types, groups)
  OBVIOUS
<1>5. \/ v = Undefined
      \/ \E k \in DOMAIN summary, g \in DOMAIN groups : groups[g] \in summary[k].groups /\ v = summary[k].text
  <2>1. 3 \in Nat
    OBVIOUS
  <2>2. PICK m \in Nat : m = 3
    BY <2>1
  <2>3. DOMAIN groups = 1..m
    BY <1>3, <2>2
  <2> QED BY <1>1, <1>4, <2>3, GroupedValue
<1>6. v = Undefined \/ v \in InGroups(Range(ReceiverGroups))
  <2>1. ASSUME NEW k \in DOMAIN summary, NEW g \in DOMAIN groups, groups[g] \in summary[k].groups,
               v = summary[k].text
        PROVE  v \in InGroups(Range(ReceiverGroups))
    <3>1. summary[k] \in Range(summary) /\ summary[k].groups \cap Range(ReceiverGroups) # {}
      BY <1>1, <1>3, <2>1
    <3> QED BY <2>1, <3>1 DEF InGroups
  <2> QED BY <1>5, <2>1
<1> QED BY <1>2, <1>4, <1>6 DEF ReceiverField

LEMMA TypeIsRead ==
  ASSUME Read, NEW type
  PROVE  FindValueByType(summary, type) \in
           {f.text : f \in {g \in Range(summary) : g.type = type}} \cup {Undefined}
<1>1. PICK n \in Nat : DOMAIN summary = 1..n /\ \A k \in 1..n : summary[k] \in Range(summary)
  BY SummaryIs
<1>2. PICK v : v = FindValueByType(summary, type)
  OBVIOUS
<1>3. v = Undefined \/ \E k \in DOMAIN summary : summary[k].type = type /\ v = summary[k].text
  BY <1>1, <1>2, TypedValue
<1> QED BY <1>1, <1>2, <1>3

LEMMA VendorIsRead ==
  ASSUME Read
  PROVE  FindGroupedValue(summary, {"NAME"}, <<"VENDOR_SUPPLIER">>) \in InGroups({"VENDOR_SUPPLIER"}) \cup {Undefined}
<1>1. PICK n \in Nat : DOMAIN summary = 1..n /\ \A k \in 1..n : summary[k] \in Range(summary)
  BY SummaryIs
<1>2. PICK groups : groups = <<"VENDOR_SUPPLIER">>
  OBVIOUS
<1>3. DOMAIN groups = 1..1 /\ \A g \in DOMAIN groups : groups[g] = "VENDOR_SUPPLIER"
  BY <1>2
<1>4. PICK types : types = {"NAME"}
  OBVIOUS
<1>5. PICK v : v = FindGroupedValue(summary, types, groups)
  OBVIOUS
<1>6. \/ v = Undefined
      \/ \E k \in DOMAIN summary, g \in DOMAIN groups : groups[g] \in summary[k].groups /\ v = summary[k].text
  <2>1. PICK m \in Nat : m = 1
    OBVIOUS
  <2>2. DOMAIN groups = 1..m
    BY <1>3, <2>1
  <2> QED BY <1>1, <1>5, <2>2, GroupedValue
<1>7. v = Undefined \/ v \in InGroups({"VENDOR_SUPPLIER"})
  <2>1. ASSUME NEW k \in DOMAIN summary, "VENDOR_SUPPLIER" \in summary[k].groups, v = summary[k].text
        PROVE  v \in InGroups({"VENDOR_SUPPLIER"})
    <3>1. summary[k] \in Range(summary) /\ summary[k].groups \cap {"VENDOR_SUPPLIER"} # {}
      BY <1>1, <2>1
    <3> QED BY <2>1, <3>1 DEF InGroups
  <2> QED BY <1>3, <1>6, <2>1
<1> QED BY <1>2, <1>4, <1>5, <1>7

LEMMA WarehouseIsRead ==
  WarehouseName \in Texts \cup {Undefined}
<1>1. WarehouseNames \subseteq Texts
  BY ValueIs DEF WarehouseNames, Texts
<1> QED BY <1>1 DEF WarehouseName

ExtractionInv ==
  /\ Read
  /\ \/ answer = Awaited \/ answer = Refused
     \/ /\ answer = [status |-> "extracted", data |-> Mapped]
        /\ TransactionType # Undefined

LEMMA ExtractionInvariant == ExtractionSpec => []ExtractionInv
<1>1. ExtractionInit => ExtractionInv
  <2>1. ASSUME NEW S PROVE <<>> \in Seq(S)
    OBVIOUS
  <2> QED BY <2>1 DEF ExtractionInit, ExtractionInv, Read
<1>2. ASSUME ExtractionInv, [ExtractionNext]_extractionVars PROVE ExtractionInv'
  <2> USE <1>2 DEF ExtractionInv
  <2>1. ASSUME answer = Awaited, answer' = answer, Read' PROVE ExtractionInv'
    BY <2>1
  <2>2. ASSUME NEW f \in Fields, PrintField(f) PROVE ExtractionInv'
    <3>1. Append(summary, f) \in Seq(Fields)
      BY AppendProperties DEF Read
    <3> QED BY <2>1, <2>2, <3>1 DEF PrintField, Read
  <2>3. ASSUME NEW text \in Blocks, PrintBlock(text) PROVE ExtractionInv'
    <3>1. Append(blocks, text) \in Seq(Blocks)
      BY AppendProperties DEF Read
    <3> QED BY <2>1, <2>3, <3>1 DEF PrintBlock, Read
  <2>4. ASSUME NEW entry \in LineItems, PrintRow(entry) PROVE ExtractionInv'
    <3>1. Append(lineItems, entry) \in Seq(LineItems)
      BY AppendProperties DEF Read
    <3> QED BY <2>1, <2>4, <3>1 DEF PrintRow, Read
  <2>5. ASSUME UNCHANGED <<summary, blocks, lineItems>>
        PROVE  Read' /\ Mapped' = Mapped /\ TransactionType' = TransactionType
    <3>1. Read' /\ Markers' = Markers /\ WarehouseNames' = WarehouseNames /\ Items' = Items
      BY <2>5 DEF Read, Markers, WarehouseNames, Items
    <3>2. TransactionType' = TransactionType /\ WarehouseName' = WarehouseName
      BY <3>1 DEF TransactionType, WarehouseName
    <3>3. /\ SupplierName' = SupplierName /\ ReceiverName' = ReceiverName
          /\ InvoiceDate' = InvoiceDate
      BY <2>5 DEF SupplierName, ReceiverName, InvoiceDate
    <3>4. \A types : ReceiverField(types)' = ReceiverField(types)
      BY <2>5 DEF ReceiverField
    <3>5. DeliveryAddress' = DeliveryAddress
      <4>1. PICK found : found = FindValueByType(summary, "RECEIVER_ADDRESS")
        OBVIOUS
      <4>2. FindValueByType(summary', "RECEIVER_ADDRESS") = found
        BY <2>5, <4>1
      <4> QED BY <3>2, <3>4, <4>1, <4>2 DEF DeliveryAddress
    <3> QED BY <3>1, <3>2, <3>3, <3>4, <3>5 DEF Mapped
  <2>6. CASE Extract
    <3>1. UNCHANGED <<summary, blocks, lineItems>>
      BY <2>6 DEF Extract
    <3>2. CASE TransactionType = Undefined \/ Cardinality(WarehouseNames) > 1
      BY <2>5, <2>6, <3>1, <3>2 DEF Extract
    <3>3. CASE ~(TransactionType = Undefined \/ Cardinality(WarehouseNames) > 1)
      <4>1. IsValid(Mapped)
        BY <3>3, MappedIsValid
      <4>2. answer' = [status |-> "extracted", data |-> Mapped]
        BY <2>6, <3>3, <4>1 DEF Extract
      <4> QED BY <2>5, <3>1, <3>3, <4>2
    <3> QED BY <3>2, <3>3
  <2>7. CASE ExtractFails
    BY <2>5, <2>7 DEF ExtractFails
  <2>8. CASE UNCHANGED extractionVars
    BY <2>5, <2>8 DEF extractionVars
  <2> QED BY <2>2, <2>3, <2>4, <2>6, <2>7, <2>8 DEF ExtractionNext
<1> QED BY <1>1, <1>2, PTL DEF ExtractionSpec

\* Whatever is printed on an invoice and in whichever order, what the review row says of
\* it stands on it, where it must, and passes the validation of the review.
THEOREM NothingInvented == ExtractionSpec => []NothingIsInvented
<1>1. ExtractionInv => NothingIsInvented
  <2>1. SUFFICES ASSUME ExtractionInv PROVE NothingIsInvented
    OBVIOUS
  <2>2. CASE answer = Awaited \/ answer = Refused
    <3>1. answer.status \in {"asked", "refused"}
      BY <2>2 DEF Awaited, Refused
    <3> QED BY <3>1 DEF NothingIsInvented
  <2>3. CASE answer = [status |-> "extracted", data |-> Mapped] /\ TransactionType # Undefined
    <3>1. Read /\ Data = Mapped /\ answer.status = "extracted"
      BY <2>1, <2>3 DEF ExtractionInv, Data
    <3>2. IsValid(Data) /\ Markers = {Data.transactionType}
      <4>1. Markers = {TransactionType}
        BY <2>3, TypeIsMarked
      <4>2. Mapped.transactionType = TransactionType
        BY DEF Mapped
      <4> QED BY <2>3, <3>1, <4>1, <4>2, MappedIsValid
    <3>3. \A types : ReceiverField(types) \in Texts \cup {Undefined}
      BY <3>1, ReceiverIsRead DEF InGroups, Texts
    <3>4. \A type : FindValueByType(summary, type) \in Texts \cup {Undefined}
      BY <3>1, TypeIsRead DEF Texts
    <3>5. DeliveryAddress \in Texts \cup {Undefined}
      BY <3>3, <3>4 DEF DeliveryAddress, Or
    <3>6. {Data.date, Data.warehouseName, Data.deliveryAddress, Data.deliveryCountry,
           Data.deliveryRegion} \subseteq Texts \cup {Undefined}
      BY <3>1, <3>3, <3>5, DateIsRead, WarehouseIsRead DEF Mapped
    <3>7. Data.supplierName \in {f.text : f \in {g \in Range(summary) : g.type = "VENDOR_NAME"}}
                                  \cup InGroups({"VENDOR_SUPPLIER"}) \cup {Undefined}
      <4>1. SupplierName \in {f.text : f \in {g \in Range(summary) : g.type = "VENDOR_NAME"}}
                               \cup InGroups({"VENDOR_SUPPLIER"}) \cup {Undefined}
        BY <3>1, TypeIsRead, VendorIsRead DEF SupplierName, Or
      <4>2. Data.supplierName \in {SupplierName, Undefined}
        BY <3>1 DEF Mapped
      <4> QED BY <4>1, <4>2
    <3>8. Data.partyName \in {f.text : f \in {g \in Range(summary) : g.type = "RECEIVER_NAME"}}
                               \cup InGroups(Range(ReceiverGroups)) \cup {Undefined}
      <4>1. ReceiverName \in {f.text : f \in {g \in Range(summary) : g.type = "RECEIVER_NAME"}}
                               \cup InGroups(Range(ReceiverGroups)) \cup {Undefined}
        <5>1. ReceiverName = Or(FindValueByType(summary, "RECEIVER_NAME"), ReceiverField({"NAME"}))
          BY DEF ReceiverName, ReceiverField
        <5> QED BY <3>1, <5>1, TypeIsRead, ReceiverIsRead DEF Or
      <4>2. Data.partyName \in {ReceiverName, Undefined}
        BY <3>1 DEF Mapped
      <4> QED BY <4>1, <4>2
    <3>9. Undefined \in {Data.supplierName, Data.partyName}
      BY <3>1 DEF Mapped
    <3>10. \E line \in [DOMAIN Data.items -> DOMAIN lineItems] :
             /\ \A j, k \in DOMAIN line : j < k => line[j] < line[k]
             /\ \A k \in DOMAIN line :
                  LET item == Data.items[k]
                      total == FindValueByType(lineItems[line[k]], "PRICE")
                  IN /\ \E f \in Range(lineItems[line[k]]) : f.type = "ITEM" /\ f.text = item.product
                     /\ (~HasUnitPrice(lineItems[line[k]]) /\ item.priceOfAll # Undefined)
                          => item.priceOfAll = total[2]
      <4>1. PICK line \in [DOMAIN Items -> DOMAIN lineItems] :
              /\ \A j, k \in DOMAIN line : j < k => line[j] < line[k]
              /\ \A k \in DOMAIN line :
                   /\ lineItems[line[k]] \in LineItems /\ IsItem(lineItems[line[k]])
                   /\ Items[k] = ItemOf(lineItems[line[k]])
        BY <3>1, ItemsAreRead DEF ItemsComeFromLines
      <4>2. Data.items = Items
        BY <3>1 DEF Mapped
      <4>3. ASSUME NEW k \in DOMAIN line
            PROVE  /\ \E f \in Range(lineItems[line[k]]) : f.type = "ITEM" /\ f.text = Items[k].product
                   /\ (~HasUnitPrice(lineItems[line[k]]) /\ Items[k].priceOfAll # Undefined)
                        => Items[k].priceOfAll = FindValueByType(lineItems[line[k]], "PRICE")[2]
        <5>1. PICK entry : entry = lineItems[line[k]]
          OBVIOUS
        <5>2. entry \in LineItems /\ IsItem(entry) /\ Items[k] = ItemOf(entry)
          BY <4>1, <4>3, <5>1
        <5>3. /\ \E j \in DOMAIN entry : entry[j].type = "ITEM" /\ entry[j].text = ItemOf(entry).product
              /\ ~HasUnitPrice(entry) /\ ItemOf(entry).priceOfAll # Undefined =>
                   ItemOf(entry).priceOfAll = FindValueByType(entry, "PRICE")[2]
          BY <5>2, ItemHolds
        <5>4. \E f \in Range(entry) : f.type = "ITEM" /\ f.text = ItemOf(entry).product
          BY <5>3 DEF Range
        <5> QED BY <5>1, <5>2, <5>3, <5>4
      <4> QED BY <4>1, <4>2, <4>3
    <3> QED BY <3>1, <3>2, <3>6, <3>7, <3>8, <3>9, <3>10 DEF NothingIsInvented
  <2> QED BY <2>1, <2>2, <2>3 DEF ExtractionInv
<1> QED BY <1>1, ExtractionInvariant, PTL

----------------------------------------------------------------------------
(* The example queries. The requests keep the tables in step: reservations  *)
(* are those of the orders that take something, stock is what the ledger    *)
(* adds up to, and what waits for a row is there unless somebody has counted*)
(* less of it.                                                              *)

Adjustment ==
  [order : Int, type : {"ADJUSTMENT"}, site : Storehouses, good : Products, quantity : Int, at : Nat]

CountsHold ==
  /\ counts \in Seq(Adjustment)
  /\ \A k \in DOMAIN counts : counts[k].order = 0 - k /\ counts[k].at <= moment

StatusOfReservation(status) ==
  CASE status = "PENDING" -> "ACTIVE"
    [] status = "COMPLETED" -> "FULFILLED"
    [] status = "CANCELLED" -> "CANCELLED"
ReservationOf(o) ==
  [row |-> <<o.deal.good, o.deal.src>>, quantity |-> o.deal.quantity,
   status |-> StatusOfReservation(o.status)]
Takers == {i \in Placed : orders[i].deal.type # "INCOMING"}
ReservationsFollow == reservations = [i \in Takers |-> ReservationOf(orders[i])]

CellsOf(ms) == {<<m.good, m.site>> : m \in ms}
StockFollows == inventory = [r \in CellsOf(Ledger) |-> Net(LedgerAt(Ledger, r))]

\* What waits for a row is there, unless somebody has counted less of it.
Waiting(r) ==
  {i \in Placed : /\ orders[i].deal.type # "INCOMING" /\ orders[i].status = "PENDING"
                  /\ <<orders[i].deal.good, orders[i].deal.src>> = r}
Miscounted(r) == \E k \in DOMAIN counts : counts[k].quantity < 0 /\ <<counts[k].good, counts[k].site>> = r
HeldUp == \A r \in Products \X Storehouses : ~Miscounted(r) => Sold(Waiting(r)) <= HeldAt(r)

ExamplesInv == HistoryInv /\ CountsHold /\ ReservationsFollow /\ StockFollows /\ HeldUp

----------------------------------------------------------------------------
(* The ledger.                                                             *)

LEMMA MovementFacts ==
  ASSUME HistoryInv
  PROVE  /\ IsFiniteSet(Movements)
         /\ \A m \in Movements :
              /\ m.type \in MovementTypes
              /\ m.order \in Completed(DealOfMovement(m.type))
              /\ m = MovementAt(m.order, m.type, SiteOfMovement(m.order, m.type))
              /\ m.quantity \in Nat /\ m.good \in Products /\ m.site \in Storehouses
              /\ m.at \in Nat /\ m.at <= moment
<1>1. ASSUME NEW m \in Movements
      PROVE  /\ m.type \in MovementTypes
             /\ m.order \in Completed(DealOfMovement(m.type))
             /\ m = MovementAt(m.order, m.type, SiteOfMovement(m.order, m.type))
             /\ m.quantity \in Nat /\ m.good \in Products /\ m.site \in Storehouses
             /\ m.at \in Nat /\ m.at <= moment
  <2>1. PICK t \in MovementTypes : \E i \in Completed(DealOfMovement(t)) :
          m = MovementAt(i, t, SiteOfMovement(i, t))
    BY MovementsAre
  <2>2. PICK i \in Completed(DealOfMovement(t)) : m = MovementAt(i, t, SiteOfMovement(i, t))
    BY <2>1
  <2>3. /\ m.type = t /\ m.order = i /\ m.site = SiteOfMovement(i, t)
        /\ m.good = orders[i].deal.good /\ m.quantity = orders[i].deal.quantity
        /\ m.at = orders[i].actualDate
    BY <2>2 DEF MovementAt
  <2>4. /\ i \in Placed /\ orders[i].deal \in Deals /\ orders[i].deal.quantity \in Nat
        /\ orders[i].actualDate \in 0..moment /\ orders[i].deal.type = DealOfMovement(t)
    BY OrderFacts DEF Completed
  <2>5. PICK d \in Deals : d = orders[i].deal
    BY <2>4
  <2>6. /\ d.good \in Products
        /\ d.type # "INCOMING" => d.src \in Storehouses
        /\ d.type # "OUTGOING" => d.dst \in Storehouses
    BY ExamplesAssumption
  <2>7. m.site \in Storehouses
    BY <2>3, <2>4, <2>5, <2>6 DEF SiteOfMovement, DealOfMovement, MovementTypes
  <2>8. m.at \in Nat /\ m.at <= moment
    BY <2>3, <2>4 DEF HistoryInv
  <2> QED BY <2>1, <2>2, <2>3, <2>4, <2>5, <2>6, <2>7, <2>8
<1>2. IsFiniteSet(Movements)
  <2>1. IsFiniteSet(Placed) /\ IsFiniteSet(MovementTypes)
    <3>1. MovementTypes = ({"INCOMING"} \cup {"OUTGOING"}) \cup ({"TRANSFER_OUT"} \cup {"TRANSFER_IN"})
      BY DEF MovementTypes
    <3>2. IsFiniteSet({"INCOMING"} \cup {"OUTGOING"}) /\ IsFiniteSet({"TRANSFER_OUT"} \cup {"TRANSFER_IN"})
      BY FS_Singleton, FS_Union
    <3> QED BY <3>1, <3>2, FS_Union, OrderFacts
  <2>2. IsFiniteSet(Placed \X MovementTypes)
    BY <2>1, FS_Product
  <2>3. PICK f : f = [p \in Placed \X MovementTypes |-> MovementAt(p[1], p[2], SiteOfMovement(p[1], p[2]))]
    OBVIOUS
  <2>4. PICK I : I = {f[p] : p \in Placed \X MovementTypes}
    OBVIOUS
  <2>5. f \in Surjection(Placed \X MovementTypes, I)
    BY <2>3, <2>4 DEF Surjection
  <2>6. IsFiniteSet(I)
    BY <2>2, <2>5, FS_Surjection
  <2>7. ASSUME NEW m \in Movements PROVE m \in I
    <3>1. <<m.order, m.type>> \in Placed \X MovementTypes
      BY <1>1 DEF Completed
    <3>2. m = f[<<m.order, m.type>>]
      BY <1>1, <2>3, <3>1
    <3> QED BY <2>4, <3>1, <3>2
  <2> QED BY <2>6, <2>7, FS_Subset
<1> QED BY <1>1, <1>2

LEMMA LedgerFacts ==
  ASSUME HistoryInv, CountsHold
  PROVE  /\ IsFiniteSet(Ledger)
         /\ \A m \in Ledger :
              /\ m.quantity \in Int /\ Signed(m) \in Int
              /\ m.good \in Products /\ m.site \in Storehouses
              /\ m.at \in Nat /\ m.at <= moment
<1>1. PICK C : C = {counts[k] : k \in DOMAIN counts}
  OBVIOUS
<1>2. Ledger = Movements \cup C
  BY <1>1 DEF Ledger
<1>3. \A m \in C : m \in Adjustment /\ m.at <= moment
  BY <1>1 DEF CountsHold
<1>4. IsFiniteSet(C)
  <2>1. DOMAIN counts = 1..Len(counts) /\ Len(counts) \in Nat
    BY DEF CountsHold
  <2>2. IsFiniteSet(DOMAIN counts)
    BY <2>1, FS_Interval
  <2>3. counts \in Surjection(DOMAIN counts, C)
    BY <1>1 DEF Surjection, CountsHold
  <2> QED BY <2>2, <2>3, FS_Surjection
<1>5. \A m \in Ledger : m.quantity \in Int /\ m.good \in Products /\ m.site \in Storehouses
                        /\ m.at \in Nat /\ m.at <= moment
  BY <1>2, <1>3, MovementFacts DEF Adjustment
<1>6. IsFiniteSet(Ledger)
  BY <1>2, <1>4, MovementFacts, FS_Union
<1>7. \A m \in Ledger : Signed(m) \in Int
  BY <1>5 DEF Signed
<1> QED BY <1>5, <1>6, <1>7

\* What a set of movements comes to.
LEMMA NetOf ==
  ASSUME NEW M, IsFiniteSet(M), \A m \in M : Signed(m) \in Int
  PROVE  /\ Net(M) \in Int
         /\ \A N : N \subseteq M => Net(M) = Net(N) + Net(M \ N)
<1>1. PICK q : q = [m \in M |-> Signed(m)]
  OBVIOUS
<1>2. \A m \in M : q[m] \in Int
  BY <1>1
<1>3. ASSUME NEW N, N \subseteq M PROVE Net(N) = Total(q, N)
  <2>1. IsFiniteSet(N)
    BY <1>3, FS_Subset
  <2>2. PICK p : p = [m \in N |-> Signed(m)]
    OBVIOUS
  <2>3. \A m \in N : p[m] = q[m]
    BY <1>1, <1>3, <2>2
  <2>4. Total(p, N) = Total(q, N)
    BY <2>1, <2>3, TotalAgrees
  <2> QED BY <2>2, <2>4 DEF Net
<1>4. Net(M) = Total(q, M) /\ Total(q, M) \in Int
  BY <1>2, <1>3, TotalType
<1>5. ASSUME NEW N, N \subseteq M PROVE Net(M) = Net(N) + Net(M \ N)
  <2>1. Total(q, M) = Total(q, N) + Total(q, M \ N)
    BY <1>2, <1>5, TotalSplit
  <2>2. M \ N \subseteq M
    OBVIOUS
  <2> QED BY <1>3, <1>4, <1>5, <2>1, <2>2
<1> QED BY <1>4, <1>5

LEMMA NetOfNothing == Net({}) = 0
BY TotalEmpty DEF Net

LEMMA NetOfOne ==
  ASSUME NEW m, Signed(m) \in Int
  PROVE  Net({m}) = Signed(m)
<1>1. PICK q : q = [x \in {m} |-> Signed(x)]
  OBVIOUS
<1>2. IsFiniteSet({m}) /\ \A x \in {m} : q[x] \in Int
  BY <1>1, FS_Singleton
<1>3. Total(q, {m}) = q[m] + Total(q, {m} \ {m})
  BY <1>2, TotalWithout
<1>4. {m} \ {m} = {}
  OBVIOUS
<1>5. Total(q, {m}) = Signed(m)
  BY <1>1, <1>3, <1>4, TotalEmpty
<1> QED BY <1>1, <1>5 DEF Net

----------------------------------------------------------------------------
(* The requests keep the tables in step.                                   *)

LEMMA ExamplesInitially == ExamplesInit => ExamplesInv
<1> SUFFICES ASSUME ExamplesInit PROVE ExamplesInv
  OBVIOUS
<1>1. HistoryInv /\ Placed = {}
  BY HistoryInitially DEF ExamplesInit, HistoryInit, Placed
<1>2. CountsHold
  BY DEF ExamplesInit, CountsHold
<1>3. ReservationsFollow
  BY <1>1 DEF ExamplesInit, ReservationsFollow, Takers
<1>4. Ledger = {}
  BY <1>1 DEF ExamplesInit, Ledger, Movements
<1>5. StockFollows
  BY <1>4 DEF ExamplesInit, StockFollows, CellsOf
<1>6. \A r : Sold(Waiting(r)) = 0 /\ HeldAt(r) = 0
  <2>1. ASSUME NEW r PROVE Waiting(r) = {} /\ HeldAt(r) = 0
    BY <1>1 DEF ExamplesInit, Waiting, HeldAt
  <2> QED BY <2>1, TotalEmpty DEF Sold
<1> QED BY <1>1, <1>2, <1>3, <1>5, <1>6 DEF ExamplesInv, HeldUp

LEMMA MovementsStay ==
  ASSUME NEW S, S = {i \in Placed : orders[i].status = "COMPLETED"},
         S = {i \in Placed : orders[i].status = "COMPLETED"}', \A i \in S : orders'[i] = orders[i]
  PROVE  Movements' = Movements
<1>1. \A i \in S : MovementsOf(i)' = MovementsOf(i)
  BY DEF MovementsOf, MovementAt
<1> QED BY <1>1 DEF Movements

LEMMA StockStays ==
  ASSUME StockFollows, Movements' = Movements, UNCHANGED <<counts, inventory>>
  PROVE  StockFollows' /\ \A r : HeldAt(r)' = HeldAt(r)
<1>1. Ledger' = Ledger
  BY DEF Ledger
<1> QED BY <1>1 DEF StockFollows, CellsOf, LedgerAt, Net, Signed, HeldAt

\* The orders that wait, when one is added or goes.
LEMMA SoldStays ==
  ASSUME HistoryInv, NEW S \in SUBSET Placed, \A i \in S : orders'[i].deal = orders[i].deal
  PROVE  Total([i \in S |-> orders'[i].deal.quantity], S) = Sold(S)
<1>1. PICK q : q = [i \in S |-> orders[i].deal.quantity]
  OBVIOUS
<1>2. [i \in S |-> orders'[i].deal.quantity] = q
  BY <1>1
<1> QED BY <1>1, <1>2 DEF Sold

LEMMA WaitingIs ==
  ASSUME HistoryInv, NEW r
  PROVE  Waiting(r) \in SUBSET Placed /\ IsFiniteSet(Waiting(r)) /\ Sold(Waiting(r)) \in Nat
<1>1. Waiting(r) \in SUBSET Placed
  BY DEF Waiting
<1>2. IsFiniteSet(Waiting(r))
  BY <1>1, OrderFacts, FS_Subset
<1>3. Sold(Waiting(r)) = Total(Quantities, Waiting(r)) /\ Sold(Waiting(r)) \in Int
  BY <1>1, SumsOfOrders
<1>4. \A i \in Waiting(r) : Quantities[i] \in Nat
  BY <1>1, OrderFacts DEF Quantities
<1>5. Total(Quantities, {}) <= Total(Quantities, Waiting(r))
  BY <1>2, <1>4, TotalGrows
<1>6. Total(Quantities, {}) = 0
  BY TotalEmpty
<1>7. PICK n \in Int : n = Sold(Waiting(r))
  BY <1>3
<1> QED BY <1>1, <1>2, <1>3, <1>5, <1>6, <1>7

\* A reservation says what its order says.
LEMMA ReservationFacts ==
  ASSUME HistoryInv, ReservationsFollow
  PROVE  /\ DOMAIN reservations = Takers
         /\ \A i \in Takers :
              /\ reservations[i].status = "ACTIVE" <=> orders[i].status = "PENDING"
              /\ reservations[i].row = <<orders[i].deal.good, orders[i].deal.src>>
              /\ reservations[i].quantity = orders[i].deal.quantity
<1>1. DOMAIN reservations = Takers /\ \A i \in Takers : i \in Placed /\ reservations[i] = ReservationOf(orders[i])
  BY DEF ReservationsFollow, Takers
<1>2. \A i \in Placed : orders[i].status \in {"PENDING", "COMPLETED", "CANCELLED"}
  BY DEF HistoryInv, OrderHolds, OrderRow
<1>3. ASSUME NEW i \in Takers
      PROVE  /\ reservations[i].status = "ACTIVE" <=> orders[i].status = "PENDING"
             /\ reservations[i].row = <<orders[i].deal.good, orders[i].deal.src>>
             /\ reservations[i].quantity = orders[i].deal.quantity
  <2>1. PICK o : o = orders[i]
    OBVIOUS
  <2>2. o.status \in {"PENDING", "COMPLETED", "CANCELLED"} /\ reservations[i] = ReservationOf(o)
    BY <1>1, <1>2, <2>1
  <2>3. /\ reservations[i].row = <<o.deal.good, o.deal.src>>
        /\ reservations[i].quantity = o.deal.quantity
        /\ reservations[i].status = StatusOfReservation(o.status)
    BY <2>2 DEF ReservationOf
  <2>4. StatusOfReservation(o.status) = "ACTIVE" <=> o.status = "PENDING"
    BY <2>2 DEF StatusOfReservation
  <2> QED BY <2>1, <2>3, <2>4
<1> QED BY <1>1, <1>3

LEMMA ReservationsAre ==
  ASSUME HistoryInv, ReservationsFollow, NEW r
  PROVE  ActiveAt(r) = Waiting(r) /\ UnitsHeld(reservations, ActiveAt(r)) = Sold(Waiting(r))
<1>1. ActiveAt(r) = Waiting(r)
  BY ReservationFacts DEF ActiveAt, Waiting, Takers
<1>2. [i \in Waiting(r) |-> reservations[i].quantity] = [i \in Waiting(r) |-> orders[i].deal.quantity]
  BY ReservationFacts DEF Waiting, Takers
<1> QED BY <1>1, <1>2 DEF UnitsHeld, Sold

LEMMA HeldIsInt ==
  ASSUME ExamplesInv, NEW r
  PROVE  HeldAt(r) \in Int /\ HeldAt(r) = Net(LedgerAt(Ledger, r))
<1>1. LedgerAt(Ledger, r) \subseteq Ledger
  BY DEF LedgerAt
<1>2. IsFiniteSet(Ledger) /\ \A m \in Ledger : Signed(m) \in Int
  BY LedgerFacts DEF ExamplesInv
<1>3. IsFiniteSet(LedgerAt(Ledger, r))
  BY <1>1, <1>2, FS_Subset
<1>4. Net(LedgerAt(Ledger, r)) \in Int
  BY <1>1, <1>2, <1>3, NetOf
<1>5. CASE r \in CellsOf(Ledger)
  BY <1>4, <1>5 DEF HeldAt, ExamplesInv, StockFollows
<1>6. CASE r \notin CellsOf(Ledger)
  <2>1. LedgerAt(Ledger, r) = {}
    BY <1>6 DEF LedgerAt, CellsOf
  <2>2. HeldAt(r) = 0
    BY <1>6 DEF HeldAt, ExamplesInv, StockFollows
  <2> QED BY <2>1, <2>2, NetOfNothing
<1> QED BY <1>5, <1>6

LEMMA PlacedAfter ==
  ASSUME HistoryInv, NEW d \in Deals, PlaceDeal(d)
  PROVE  /\ Len(orders) + 1 \notin Placed
         /\ Placed' = Placed \cup {Len(orders) + 1}
         /\ \A j \in Placed : orders'[j] = orders[j]
         /\ orders'[Len(orders) + 1] = NewOrder(d)
<1>1. PICK o : o = NewOrder(d)
  OBVIOUS
<1>2. orders' = Append(orders, o) /\ orders \in Seq(OrderRow)
  BY <1>1 DEF PlaceDeal, NewOrder, HistoryInv
<1>3. /\ DOMAIN Append(orders, o) = DOMAIN orders \cup {Len(orders) + 1}
      /\ \A j \in DOMAIN orders : Append(orders, o)[j] = orders[j]
      /\ Append(orders, o)[Len(orders) + 1] = o
      /\ DOMAIN orders = 1..Len(orders) /\ Len(orders) \in Nat
  BY <1>2
<1> QED BY <1>1, <1>2, <1>3 DEF Placed

LEMMA PlaceAndReserveKeeps ==
  ASSUME ExamplesInv, NEW d \in Deals, PlaceAndReserve(d)
  PROVE  ExamplesInv'
<1> DEFINE n == Len(orders) + 1
           cell == <<d.good, d.src>>
<1>1. PlaceDeal(d) /\ UNCHANGED <<moment, inventory, counts>>
  BY DEF PlaceAndReserve, PlaceDeal
<1>2. HistoryInv /\ HistoryInv'
  BY <1>1, PlacingKeeps DEF ExamplesInv
<1>3. /\ n \notin Placed /\ Placed' = Placed \cup {n}
      /\ \A j \in Placed : orders'[j] = orders[j]
      /\ orders'[n] = NewOrder(d)
  BY <1>1, <1>2, PlacedAfter
<1>4. orders'[n].deal = d /\ orders'[n].status = "PENDING"
  BY <1>3 DEF NewOrder
<1> HIDE DEF n
<1>5. Movements' = Movements
  <2>1. PICK S : S = {i \in Placed : orders[i].status = "COMPLETED"}
    OBVIOUS
  <2>2. S = {i \in Placed : orders[i].status = "COMPLETED"}' /\ \A i \in S : orders'[i] = orders[i]
    BY <1>3, <1>4, <2>1
  <2> QED BY <2>1, <2>2, MovementsStay
<1>6. StockFollows' /\ \A r : HeldAt(r)' = HeldAt(r)
  BY <1>1, <1>5, StockStays DEF ExamplesInv
<1>7. CountsHold'
  BY <1>1 DEF ExamplesInv, CountsHold
<1>8. Takers' = IF d.type = "INCOMING" THEN Takers ELSE Takers \cup {n}
  BY <1>3, <1>4 DEF Takers
<1>9. /\ d.type = "INCOMING" => reservations' = reservations
      /\ d.type # "INCOMING" =>
           /\ d.quantity <= HeldAt(cell) - UnitsHeld(reservations, ActiveAt(cell))
           /\ reservations' = [j \in DOMAIN reservations \cup {n} |->
                  IF j = n THEN [row |-> cell, quantity |-> d.quantity, status |-> "ACTIVE"]
                  ELSE reservations[j]]
  BY DEF PlaceAndReserve, n
<1>10. ReservationsFollow'
  <2>1. reservations = [i \in Takers |-> ReservationOf(orders[i])] /\ Takers \subseteq Placed
    BY DEF ExamplesInv, ReservationsFollow, Takers
  <2>2. ReservationOf(orders'[n]) = [row |-> cell, quantity |-> d.quantity, status |-> "ACTIVE"]
    BY <1>4 DEF ReservationOf, StatusOfReservation
  <2>3. \A j \in Takers : reservations[j] = ReservationOf(orders'[j])
    BY <1>3, <2>1
  <2>4. reservations' = [i \in Takers' |-> ReservationOf(orders'[i])]
    <3>1. CASE d.type = "INCOMING"
      BY <1>8, <1>9, <2>1, <2>3, <3>1
    <3>2. CASE d.type # "INCOMING"
      <4>1. DOMAIN reservations = Takers /\ n \notin Takers
        BY <1>3, <2>1
      <4>2. reservations' = [j \in Takers \cup {n} |->
              IF j = n THEN [row |-> cell, quantity |-> d.quantity, status |-> "ACTIVE"] ELSE reservations[j]]
        BY <1>9, <3>2, <4>1
      <4>3. \A j \in Takers \cup {n} :
              (IF j = n THEN [row |-> cell, quantity |-> d.quantity, status |-> "ACTIVE"] ELSE reservations[j])
                = ReservationOf(orders'[j])
        BY <2>2, <2>3
      <4> QED BY <1>8, <3>2, <4>2, <4>3
    <3> QED BY <3>1, <3>2
  <2> QED BY <2>4 DEF ReservationsFollow, Takers, Placed
<1>11. HeldUp'
  <2> SUFFICES ASSUME NEW r \in Products \X Storehouses, ~Miscounted(r)'
               PROVE  Sold(Waiting(r))' <= HeldAt(r)'
    BY DEF HeldUp
  <2>1. ~Miscounted(r)
    BY <1>1 DEF Miscounted
  <2>2. Sold(Waiting(r)) <= HeldAt(r) /\ HeldAt(r)' = HeldAt(r)
    BY <1>6, <2>1 DEF ExamplesInv, HeldUp
  <2>3. PICK W \in SUBSET Placed : W = Waiting(r)
    BY <1>2, WaitingIs
  <2>4. \A i \in W : orders'[i].deal = orders[i].deal
    BY <1>3, <2>3
  <2>5. CASE d.type = "INCOMING" \/ cell # r
    <3>1. Waiting(r)' = W
      BY <1>3, <1>4, <2>3, <2>5 DEF Waiting
    <3>2. Sold(Waiting(r))' = Sold(W)
      BY <1>2, <2>3, <2>4, <3>1, SoldStays DEF Sold
    <3> QED BY <2>2, <2>3, <3>2
  <2>6. CASE d.type # "INCOMING" /\ cell = r
    <3>1. Waiting(r)' = W \cup {n} /\ n \notin W
      BY <1>3, <1>4, <2>3, <2>6 DEF Waiting
    <3>2. PICK q : q = [i \in W \cup {n} |-> orders'[i].deal.quantity]
      OBVIOUS
    <3>3. IsFiniteSet(W) /\ \A i \in W : q[i] \in Int /\ q[i] = orders[i].deal.quantity
      BY <1>2, <2>3, <2>4, <3>2, OrderFacts, WaitingIs
    <3>4. q[n] = d.quantity /\ d.quantity \in Int
      BY <1>4, <3>2, HistoryAssumption
    <3>5. Total(q, W \cup {n}) = q[n] + Total(q, W)
      BY <3>1, <3>3, <3>4, TotalWith
    <3>6. PICK p : p = [i \in W |-> orders[i].deal.quantity]
      OBVIOUS
    <3>7. Total(p, W) = Total(q, W)
      <4>1. \A i \in W : p[i] = q[i]
        BY <3>3, <3>6
      <4> QED BY <3>3, <4>1, TotalAgrees
    <3>8. Sold(Waiting(r))' = Total(q, W \cup {n}) /\ Sold(W) = Total(p, W)
      BY <3>1, <3>2, <3>6 DEF Sold
    <3>9. d.quantity <= HeldAt(r) - Sold(W)
      BY <1>2, <1>9, <2>3, <2>6, ReservationsAre DEF ExamplesInv
    <3>10. Sold(W) \in Int /\ HeldAt(r) \in Int
      <4>1. HeldAt(r) \in Int
        BY HeldIsInt
      <4> QED BY <1>2, <4>1, SumsOfOrders
    <3> QED BY <2>2, <2>3, <3>4, <3>5, <3>7, <3>8, <3>9, <3>10
  <2> QED BY <2>5, <2>6
<1> QED BY <1>2, <1>6, <1>7, <1>10, <1>11 DEF ExamplesInv

\* An order that is not pending any more.
Decided(i, o) ==
  /\ orders[i].status = "PENDING" /\ Written(i, o)
  /\ OrderHolds(o) /\ o.deal = orders[i].deal /\ o.status \in {"COMPLETED", "CANCELLED"}

LEMMA DecidedAfter ==
  ASSUME HistoryInv, NEW i \in Placed, NEW o, Decided(i, o)
  PROVE  Placed' = Placed /\ orders'[i] = o /\ \A j \in Placed \ {i} : orders'[j] = orders[j]
BY DEF Decided, Written, Placed, HistoryInv

LEMMA FlipKeeps ==
  ASSUME HistoryInv, ReservationsFollow, NEW i \in Placed, NEW o, Decided(i, o),
         Flip(i, StatusOfReservation(o.status))
  PROVE  ReservationsFollow'
<1>1. Placed' = Placed /\ orders'[i] = o /\ \A j \in Placed \ {i} : orders'[j] = orders[j]
  BY DecidedAfter
<1>2. o.deal = orders[i].deal
  BY DEF Decided
<1>3. Takers' = Takers
  BY <1>1, <1>2 DEF Takers
<1>4. reservations = [j \in Takers |-> ReservationOf(orders[j])]
  BY DEF ReservationsFollow
<1>5. reservations' = [j \in Takers |->
         IF j = i THEN [reservations[i] EXCEPT !.status = StatusOfReservation(o.status)] ELSE reservations[j]]
  BY <1>4 DEF Flip
<1>6. ASSUME NEW j \in Takers PROVE reservations'[j] = ReservationOf(orders'[j])
  <2>1. CASE j # i
    BY <1>1, <1>4, <1>5, <2>1 DEF Takers
  <2>2. CASE j = i
    <3>1. reservations'[i] = [ReservationOf(orders[i]) EXCEPT !.status = StatusOfReservation(o.status)]
      BY <1>4, <1>5, <1>6, <2>2
    <3>2. ReservationOf(o) = [ReservationOf(orders[i]) EXCEPT !.status = StatusOfReservation(o.status)]
      BY <1>2 DEF ReservationOf
    <3> QED BY <1>1, <2>2, <3>1, <3>2
  <2> QED BY <2>1, <2>2
<1>7. reservations' = [j \in Takers |-> ReservationOf(orders'[j])]
  BY <1>5, <1>6
<1> QED BY <1>3, <1>7 DEF ReservationsFollow

LEMMA NoLongerWaiting ==
  ASSUME HistoryInv, NEW i \in Placed, NEW o, Decided(i, o), NEW r
  PROVE  /\ Sold(Waiting(r))' \in Int
         /\ i \notin Waiting(r) => Sold(Waiting(r))' = Sold(Waiting(r))
         /\ i \in Waiting(r) => Sold(Waiting(r))' = Sold(Waiting(r)) - orders[i].deal.quantity
<1>1. Placed' = Placed /\ orders'[i] = o /\ \A j \in Placed \ {i} : orders'[j] = orders[j]
  BY DecidedAfter
<1>2. o.deal = orders[i].deal /\ o.status # "PENDING"
  BY DEF Decided
<1>3. PICK W \in SUBSET Placed : W = Waiting(r)
  BY WaitingIs
<1>4. Waiting(r)' = W \ {i}
  BY <1>1, <1>2, <1>3 DEF Waiting
<1>5. \A j \in W \ {i} : orders'[j].deal = orders[j].deal
  BY <1>1, <1>3
<1>6. Sold(Waiting(r))' = Sold(W \ {i})
  <2>1. W \ {i} \in SUBSET Placed
    BY <1>3
  <2>2. Total([j \in W \ {i} |-> orders'[j].deal.quantity], W \ {i}) = Sold(W \ {i})
    BY <1>5, <2>1, SoldStays
  <2> QED BY <1>4, <2>2 DEF Sold
<1>7. PICK q : q = Quantities
  OBVIOUS
<1>8. Sold(W) = Total(q, W) /\ Sold(W \ {i}) = Total(q, W \ {i}) /\ Sold(W \ {i}) \in Int
  <2>1. W \ {i} \in SUBSET Placed
    BY <1>3
  <2> QED BY <1>3, <1>7, <2>1, SumsOfOrders
<1>9. IsFiniteSet(W) /\ \A j \in W : q[j] \in Int /\ q[j] = orders[j].deal.quantity
  BY <1>3, <1>7, OrderFacts, WaitingIs DEF Quantities
<1>10. i \in W => Total(q, W) = q[i] + Total(q, W \ {i})
  BY <1>9, TotalWithout
<1>11. i \notin W => W \ {i} = W
  OBVIOUS
<1>12. CASE i \notin W
  BY <1>3, <1>6, <1>8, <1>11, <1>12
<1>13. CASE i \in W
  <2>1. q[i] \in Int /\ q[i] = orders[i].deal.quantity
    BY <1>9, <1>13
  <2>2. Sold(W) = q[i] + Sold(W \ {i})
    BY <1>8, <1>10, <1>13
  <2>3. PICK n \in Int : n = Sold(W \ {i})
    BY <1>8
  <2>4. PICK k \in Int : k = q[i]
    BY <2>1
  <2>5. n = (k + n) - k
    OBVIOUS
  <2>6. Sold(W \ {i}) = Sold(W) - q[i]
    BY <2>2, <2>3, <2>4, <2>5
  <2> QED BY <1>3, <1>6, <1>8, <1>13, <2>1, <2>6
<1> QED BY <1>3, <1>12, <1>13

LEMMA LaterCounts ==
  ASSUME CountsHold, UNCHANGED counts, moment \in Nat, moment' \in Nat, moment <= moment'
  PROVE  CountsHold'
<1>1. \A k \in DOMAIN counts : counts[k] \in Adjustment
  BY DEF CountsHold
<1>2. ASSUME NEW k \in DOMAIN counts PROVE counts[k].at <= moment'
  <2>1. PICK t \in Nat : t = counts[k].at /\ t <= moment
    BY <1>1, <1>2 DEF CountsHold, Adjustment
  <2> QED BY <2>1
<1> QED BY <1>2 DEF CountsHold

LEMMA CancelAndReleaseKeeps ==
  ASSUME ExamplesInv, NEW i \in Placed, CancelAndRelease(i)
  PROVE  ExamplesInv'
<1>1. HistoryInv /\ HistoryInv' /\ UNCHANGED <<moment, inventory, counts>>
  BY CancellingKeeps DEF ExamplesInv, CancelAndRelease, CancelOrder
<1>2. PICK o : o = [orders[i] EXCEPT !.status = "CANCELLED"]
  OBVIOUS
<1>3. OrderHolds(orders[i]) /\ orders[i].status = "PENDING"
  BY <1>1 DEF CancelAndRelease, CancelOrder, HistoryInv
<1>4. Decided(i, o) /\ o.status = "CANCELLED"
  <2>1. OrderHolds(o) /\ o.status = "CANCELLED" /\ o.deal = orders[i].deal
    BY <1>2, <1>3 DEF OrderHolds, OrderRow
  <2>2. Written(i, o)
    BY <1>2 DEF CancelAndRelease, CancelOrder, Written
  <2> QED BY <1>3, <2>1, <2>2 DEF Decided
<1>5. Placed' = Placed /\ orders'[i] = o /\ \A j \in Placed \ {i} : orders'[j] = orders[j]
  BY <1>1, <1>4, DecidedAfter
<1>6. Movements' = Movements
  <2>1. PICK S : S = {j \in Placed : orders[j].status = "COMPLETED"}
    OBVIOUS
  <2>2. S = {j \in Placed : orders[j].status = "COMPLETED"}' /\ \A j \in S : orders'[j] = orders[j]
    BY <1>3, <1>4, <1>5, <2>1
  <2> QED BY <2>1, <2>2, MovementsStay
<1>7. StockFollows' /\ \A r : HeldAt(r)' = HeldAt(r)
  BY <1>1, <1>6, StockStays DEF ExamplesInv
<1>8. CountsHold'
  BY <1>1 DEF ExamplesInv, CountsHold
<1>9. ReservationsFollow'
  <2>1. Flip(i, StatusOfReservation(o.status))
    BY <1>4 DEF CancelAndRelease, StatusOfReservation
  <2> QED BY <1>1, <1>4, <2>1, FlipKeeps DEF ExamplesInv
<1>10. HeldUp'
  <2> SUFFICES ASSUME NEW r \in Products \X Storehouses, ~Miscounted(r)'
               PROVE  Sold(Waiting(r))' <= HeldAt(r)'
    BY DEF HeldUp
  <2>1. Sold(Waiting(r)) <= HeldAt(r) /\ HeldAt(r) \in Int
    <3>1. ~Miscounted(r)
      BY <1>1 DEF Miscounted
    <3> QED BY <3>1, HeldIsInt DEF ExamplesInv, HeldUp
  <2>2. Sold(Waiting(r)) \in Int /\ orders[i].deal.quantity \in Nat
    BY <1>1, WaitingIs, OrderFacts
  <2>3. Sold(Waiting(r))' <= Sold(Waiting(r)) /\ Sold(Waiting(r))' \in Int
    BY <1>1, <1>4, <2>2, NoLongerWaiting
  <2> QED BY <1>7, <2>1, <2>2, <2>3
<1> QED BY <1>1, <1>7, <1>8, <1>9, <1>10 DEF ExamplesInv

\* What is recorded is new to the ledger.
LEMMA RecordKeeps ==
  ASSUME ExamplesInv, NEW ms, IsFiniteSet(ms), \A m \in ms : Signed(m) \in Int,
         ms \cap Ledger = {}, Ledger' = Ledger \cup ms, Record(ms)
  PROVE  /\ StockFollows'
         /\ \A r : HeldAt(r)' = HeldAt(r) + Net(LedgerAt(ms, r))
<1>1. ASSUME NEW r
      PROVE  /\ Net(LedgerAt(Ledger \cup ms, r)) = HeldAt(r) + Net(LedgerAt(ms, r))
             /\ MovedAt(ms, r) = Net(LedgerAt(ms, r))
  <2>1. PICK A : A = LedgerAt(Ledger, r)
    OBVIOUS
  <2>2. PICK B : B = LedgerAt(ms, r)
    OBVIOUS
  <2>3. A \subseteq Ledger /\ B \subseteq ms /\ (A \cup B) \ A = B /\ LedgerAt(Ledger \cup ms, r) = A \cup B
    BY <2>1, <2>2 DEF LedgerAt
  <2>4. IsFiniteSet(Ledger) /\ \A m \in Ledger : Signed(m) \in Int
    BY LedgerFacts DEF ExamplesInv
  <2>5. IsFiniteSet(A \cup B) /\ \A m \in A \cup B : Signed(m) \in Int
    <3>1. IsFiniteSet(A) /\ IsFiniteSet(B)
      BY <2>3, <2>4, FS_Subset
    <3> QED BY <2>3, <2>4, <3>1, FS_Union
  <2>6. Net(A \cup B) = Net(A) + Net((A \cup B) \ A)
    BY <2>5, NetOf
  <2>7. HeldAt(r) = Net(A)
    BY <2>1, HeldIsInt
  <2>8. MovedAt(ms, r) = Net(B)
    BY <2>2 DEF MovedAt, Net, LedgerAt
  <2> QED BY <2>2, <2>3, <2>6, <2>7, <2>8
<1>2. DOMAIN inventory = CellsOf(Ledger)
  BY DEF ExamplesInv, StockFollows
<1>3. inventory' = [r \in CellsOf(Ledger) \cup CellsOf(ms) |-> HeldAt(r) + MovedAt(ms, r)]
  BY <1>2 DEF Record, After, CellsOf
<1>4. CellsOf(Ledger \cup ms) = CellsOf(Ledger) \cup CellsOf(ms)
  BY DEF CellsOf
<1>5. inventory' = [r \in CellsOf(Ledger \cup ms) |-> Net(LedgerAt(Ledger \cup ms, r))]
  BY <1>1, <1>3, <1>4
<1>6. StockFollows'
  <2>1. CellsOf(Ledger)' = CellsOf(Ledger \cup ms) /\ \A r : Net(LedgerAt(Ledger, r))' = Net(LedgerAt(Ledger \cup ms, r))
    BY DEF CellsOf, LedgerAt, Net, Signed
  <2> QED BY <1>5, <2>1 DEF StockFollows
<1>7. ASSUME NEW r PROVE HeldAt(r)' = HeldAt(r) + Net(LedgerAt(ms, r))
  <2>1. CASE r \in CellsOf(Ledger) \cup CellsOf(ms)
    BY <1>1, <1>3, <2>1 DEF HeldAt
  <2>2. CASE r \notin CellsOf(Ledger) \cup CellsOf(ms)
    <3>1. LedgerAt(ms, r) = {}
      BY <2>2 DEF LedgerAt, CellsOf
    <3>2. HeldAt(r) = 0 /\ HeldAt(r)' = 0
      BY <1>2, <1>3, <2>2 DEF HeldAt
    <3> QED BY <3>1, <3>2, NetOfNothing
  <2> QED BY <2>1, <2>2
<1> QED BY <1>6, <1>7

\* What the movements of an order take from a row is at most what the order has
\* reserved there.
TakesReserved(i, ms) ==
  /\ IsFiniteSet(ms)
  /\ \A m \in ms : m.order = i /\ Signed(m) \in Int
  /\ \A r : /\ Net(LedgerAt(ms, r)) \in Int
            /\ Net(LedgerAt(ms, r)) < 0 =>
                 /\ orders[i].deal.type # "INCOMING"
                 /\ <<orders[i].deal.good, orders[i].deal.src>> = r
                 /\ Net(LedgerAt(ms, r)) = 0 - orders[i].deal.quantity

LEMMA MovesTakeReserved ==
  ASSUME HistoryInv, NEW i \in Placed, NEW t, NEW ms, ms = {[m EXCEPT !.at = t] : m \in MovementsOf(i)}
  PROVE  TakesReserved(i, ms)
<1>1. PICK d : d = orders[i].deal
  OBVIOUS
<1>2. d.type \in {"INCOMING", "OUTGOING", "TRANSFER"} /\ d.quantity \in Nat
  BY <1>1, OrderFacts
<1> DEFINE Moved(type, site) ==
      [order |-> i, type |-> type, site |-> site, good |-> d.good, quantity |-> d.quantity, at |-> t]
<1>3. \A type, site : [MovementAt(i, type, site) EXCEPT !.at = t] = Moved(type, site)
  BY <1>1 DEF MovementAt
<1>4. \A type, site : Moved(type, site).order = i /\ Moved(type, site).type = type
                      /\ Moved(type, site).quantity = d.quantity
                      /\ Moved(type, site).good = d.good /\ Moved(type, site).site = site
  OBVIOUS
<1> HIDE DEF Moved
<1>5. CASE d.type \in {"INCOMING", "OUTGOING"}
  <2>1. PICK m : m = IF d.type = "INCOMING" THEN Moved("INCOMING", d.dst) ELSE Moved("OUTGOING", d.src)
    OBVIOUS
  <2>2. ms = {m}
    <3>1. CASE d.type = "INCOMING"
      <4>1. MovementsOf(i) = {MovementAt(i, "INCOMING", d.dst)}
        BY <1>1, <3>1 DEF MovementsOf
      <4> QED BY <1>3, <2>1, <3>1, <4>1
    <3>2. CASE d.type = "OUTGOING"
      <4>1. MovementsOf(i) = {MovementAt(i, "OUTGOING", d.src)}
        BY <1>1, <3>2 DEF MovementsOf
      <4> QED BY <1>3, <2>1, <3>2, <4>1
    <3> QED BY <1>5, <3>1, <3>2
  <2>3. /\ m.order = i /\ m.good = d.good
        /\ d.type = "INCOMING" => Signed(m) = d.quantity
        /\ d.type = "OUTGOING" => Signed(m) = 0 - d.quantity /\ m.site = d.src
    BY <1>4, <2>1 DEF Signed
  <2>4. Signed(m) \in Int
    BY <1>2, <1>5, <2>3
  <2>5. ASSUME NEW r
        PROVE  Net(LedgerAt(ms, r)) = IF <<m.good, m.site>> = r THEN Signed(m) ELSE 0
    <3>1. LedgerAt(ms, r) = IF <<m.good, m.site>> = r THEN {m} ELSE {}
      BY <2>2 DEF LedgerAt
    <3> QED BY <2>4, <3>1, NetOfOne, NetOfNothing
  <2>6. IsFiniteSet(ms) /\ \A x \in ms : x.order = i /\ Signed(x) \in Int
    BY <2>2, <2>3, <2>4, FS_Singleton
  <2>7. ASSUME NEW r
        PROVE  /\ Net(LedgerAt(ms, r)) \in Int
               /\ Net(LedgerAt(ms, r)) < 0 =>
                    d.type # "INCOMING" /\ <<d.good, d.src>> = r /\ Net(LedgerAt(ms, r)) = 0 - d.quantity
    <3>1. PICK n : n = Net(LedgerAt(ms, r))
      OBVIOUS
    <3>2. n = IF <<m.good, m.site>> = r THEN Signed(m) ELSE 0
      BY <2>5, <3>1
    <3>3. PICK q \in Nat : q = d.quantity
      BY <1>2
    <3>4. n \in Int
      BY <2>4, <3>2
    <3>5. d.type = "INCOMING" => n >= 0
      BY <2>3, <3>2, <3>3
    <3>6. n < 0 => <<d.good, d.src>> = r /\ n = 0 - d.quantity
      <4>1. ASSUME n < 0 PROVE <<m.good, m.site>> = r /\ n = Signed(m) /\ d.type = "OUTGOING"
        BY <1>5, <3>2, <3>4, <3>5, <4>1
      <4> QED BY <2>3, <4>1
    <3> QED BY <3>1, <3>4, <3>5, <3>6
  <2> QED BY <1>1, <2>6, <2>7 DEF TakesReserved
<1>6. CASE d.type = "TRANSFER"
  <2>1. PICK m : m = Moved("TRANSFER_OUT", d.src)
    OBVIOUS
  <2>2. PICK n : n = Moved("TRANSFER_IN", d.dst)
    OBVIOUS
  <2>3. ms = {m, n}
    <3>1. MovementsOf(i) = {MovementAt(i, "TRANSFER_OUT", d.src), MovementAt(i, "TRANSFER_IN", d.dst)}
      BY <1>1, <1>6 DEF MovementsOf
    <3> QED BY <1>3, <2>1, <2>2, <3>1
  <2>4. /\ m.order = i /\ m.good = d.good /\ m.site = d.src /\ Signed(m) = 0 - d.quantity
        /\ n.order = i /\ n.good = d.good /\ n.site = d.dst /\ Signed(n) = d.quantity
        /\ m # n
    BY <1>4, <2>1, <2>2 DEF Signed
  <2>5. Signed(m) \in Int /\ Signed(n) \in Int
    BY <1>2, <2>4
  <2>6. IsFiniteSet({m, n}) /\ {m, n} \ {m} = {n}
    <3>1. {m, n} = {m} \cup {n}
      OBVIOUS
    <3>2. IsFiniteSet({m}) /\ IsFiniteSet({n})
      BY FS_Singleton
    <3> QED BY <2>4, <3>1, <3>2, FS_Union
  <2>7. Net({m}) = Signed(m) /\ Net({n}) = Signed(n)
    BY <2>5, NetOfOne
  <2>8. Net({m, n}) = Signed(m) + Signed(n)
    <3>1. \A x \in {m, n} : Signed(x) \in Int
      BY <2>5
    <3>2. Net({m, n}) = Net({m}) + Net({m, n} \ {m})
      BY <2>6, <3>1, NetOf
    <3> QED BY <2>6, <2>7, <3>2
  <2>9. ASSUME NEW r
        PROVE  /\ Net(LedgerAt(ms, r)) \in Int
               /\ Net(LedgerAt(ms, r)) < 0 => <<m.good, m.site>> = r /\ Net(LedgerAt(ms, r)) = 0 - d.quantity
    <3>1. LedgerAt(ms, r) = (IF <<m.good, m.site>> = r THEN {m} ELSE {}) \cup (IF <<n.good, n.site>> = r THEN {n} ELSE {})
      BY <2>3 DEF LedgerAt
    <3>2. PICK q \in Nat : q = d.quantity
      BY <1>2
    <3>3. PICK v : v = Net(LedgerAt(ms, r))
      OBVIOUS
    <3>4. CASE <<n.good, n.site>> = r
      <4>1. LedgerAt(ms, r) = {m, n} \/ LedgerAt(ms, r) = {n}
        BY <3>1, <3>4
      <4>2. v = (0 - q) + q \/ v = q
        BY <2>4, <2>7, <2>8, <3>2, <3>3, <4>1
      <4>3. v \in Nat
        BY <3>2, <4>2
      <4> QED BY <3>3, <4>3
    <3>5. CASE ~(<<n.good, n.site>> = r) /\ <<m.good, m.site>> = r
      <4>1. LedgerAt(ms, r) = {m}
        BY <3>1, <3>5
      <4>2. v = 0 - q
        BY <2>4, <2>7, <3>2, <3>3, <4>1
      <4>3. v \in Int
        BY <3>2, <4>2
      <4> QED BY <3>2, <3>3, <3>5, <4>2, <4>3
    <3>6. CASE ~(<<n.good, n.site>> = r) /\ ~(<<m.good, m.site>> = r)
      <4>1. LedgerAt(ms, r) = {}
        BY <3>1, <3>6
      <4>2. v = 0
        BY <3>3, <4>1, NetOfNothing
      <4>3. v \in Nat
        BY <4>2
      <4> QED BY <3>3, <4>3
    <3> QED BY <3>4, <3>5, <3>6
  <2>10. IsFiniteSet(ms) /\ \A x \in ms : x.order = i /\ Signed(x) \in Int
    BY <2>3, <2>4, <2>5, <2>6
  <2>11. d.type # "INCOMING" /\ m.good = d.good /\ m.site = d.src
    BY <1>6, <2>4
  <2> QED BY <1>1, <2>9, <2>10, <2>11 DEF TakesReserved
<1> QED BY <1>2, <1>5, <1>6

LEMMA CompleteAndMoveKeeps ==
  ASSUME ExamplesInv, NEW i \in Placed, CompleteAndMove(i)
  PROVE  ExamplesInv'
<1>1. HistoryInv /\ HistoryInv' /\ UNCHANGED <<moment, counts>>
  BY CompletingKeeps DEF ExamplesInv, CompleteAndMove, CompleteOrder
<1>2. PICK o : o = [orders[i] EXCEPT !.status = "COMPLETED", !.actualDate = moment]
  OBVIOUS
<1>3. OrderHolds(orders[i]) /\ orders[i].status = "PENDING"
  BY <1>1 DEF CompleteAndMove, CompleteOrder, HistoryInv
<1>4. orders' = [orders EXCEPT ![i] = o]
  BY <1>2 DEF CompleteAndMove, CompleteOrder, ExamplesInv, HistoryInv, Placed
<1>5. Decided(i, o) /\ o.status = "COMPLETED" /\ o.actualDate = moment
  <2>1. o.status = "COMPLETED" /\ o.actualDate = moment /\ o.deal = orders[i].deal
    BY <1>2, <1>3 DEF OrderHolds, OrderRow
  <2>2. orders'[i] = o /\ i \in Placed'
    BY <1>1, <1>4 DEF HistoryInv, Placed
  <2>3. OrderHolds(orders[i])'
    BY <1>1, <2>2 DEF HistoryInv
  <2>4. OrderHolds(o)
    BY <1>1, <2>2, <2>3 DEF OrderHolds
  <2> QED BY <1>3, <1>4, <2>1, <2>4 DEF Decided, Written
<1>6. Placed' = Placed /\ orders'[i] = o /\ \A j \in Placed \ {i} : orders'[j] = orders[j]
  BY <1>1, <1>5, DecidedAfter
<1>7. PICK ms : ms = {[m EXCEPT !.at = moment] : m \in MovementsOf(i)}
  OBVIOUS
<1>8. Record(ms) /\ Flip(i, "FULFILLED")
  BY <1>7 DEF CompleteAndMove
<1>9. MovementsOf(i)' = ms
  <2>1. PICK d : d = orders[i].deal
    OBVIOUS
  <2>2. orders'[i].deal = d /\ orders'[i].actualDate = moment
    BY <1>5, <1>6, <2>1 DEF Decided
  <2>3. \A type, site : MovementAt(i, type, site)' = [MovementAt(i, type, site) EXCEPT !.at = moment]
    BY <2>1, <2>2 DEF MovementAt
  <2>4. d.type \in {"INCOMING", "OUTGOING", "TRANSFER"}
    BY <1>1, <2>1, OrderFacts
  <2>5. CASE d.type = "INCOMING"
    <3>1. MovementsOf(i) = {MovementAt(i, "INCOMING", d.dst)}
      BY <2>1, <2>5 DEF MovementsOf
    <3>2. MovementsOf(i)' = {MovementAt(i, "INCOMING", d.dst)'}
      BY <2>2, <2>5 DEF MovementsOf, MovementAt
    <3> QED BY <1>7, <2>3, <3>1, <3>2
  <2>6. CASE d.type = "OUTGOING"
    <3>1. MovementsOf(i) = {MovementAt(i, "OUTGOING", d.src)}
      BY <2>1, <2>6 DEF MovementsOf
    <3>2. MovementsOf(i)' = {MovementAt(i, "OUTGOING", d.src)'}
      BY <2>2, <2>6 DEF MovementsOf, MovementAt
    <3> QED BY <1>7, <2>3, <3>1, <3>2
  <2>7. CASE d.type = "TRANSFER"
    <3>1. MovementsOf(i) = {MovementAt(i, "TRANSFER_OUT", d.src), MovementAt(i, "TRANSFER_IN", d.dst)}
      BY <2>1, <2>7 DEF MovementsOf
    <3>2. MovementsOf(i)' = {MovementAt(i, "TRANSFER_OUT", d.src)', MovementAt(i, "TRANSFER_IN", d.dst)'}
      BY <2>2, <2>7 DEF MovementsOf, MovementAt
    <3> QED BY <1>7, <2>3, <3>1, <3>2
  <2> QED BY <2>4, <2>5, <2>6, <2>7
<1>10. Ledger' = Ledger \cup ms
  <2>1. PICK S : S = {j \in Placed : orders[j].status = "COMPLETED"}
    OBVIOUS
  <2>2. {j \in Placed : orders[j].status = "COMPLETED"}' = S \cup {i} /\ i \notin S
    BY <1>3, <1>5, <1>6, <2>1
  <2>3. \A j \in S : MovementsOf(j)' = MovementsOf(j)
    BY <1>6, <2>1, <2>2 DEF MovementsOf, MovementAt
  <2>4. Movements' = Movements \cup ms
    BY <1>9, <2>1, <2>2, <2>3 DEF Movements
  <2> QED BY <1>1, <2>4 DEF Ledger
<1>t. TakesReserved(i, ms)
  <2>1. PICK t : t = moment
    OBVIOUS
  <2>2. ms = {[m EXCEPT !.at = t] : m \in MovementsOf(i)}
    BY <1>7, <2>1
  <2> QED BY <1>1, <2>2, MovesTakeReserved
<1>11. IsFiniteSet(ms) /\ \A m \in ms : m.order = i /\ Signed(m) \in Int
  BY <1>t DEF TakesReserved
<1>12. ms \cap Ledger = {}
  <2>1. \A m \in Movements : m.order # i
    BY <1>1, <1>3, MovementFacts DEF Completed
  <2>2. \A k \in DOMAIN counts : counts[k].order # i
    <3>1. i \in Nat
      BY <1>1 DEF HistoryInv, Placed
    <3>2. \A k \in DOMAIN counts : k \in Nat /\ k >= 1 /\ counts[k].order = 0 - k
      BY DEF ExamplesInv, CountsHold
    <3> QED BY <3>1, <3>2
  <2> QED BY <1>11, <2>1, <2>2 DEF Ledger
<1>13. StockFollows' /\ \A r : HeldAt(r)' = HeldAt(r) + Net(LedgerAt(ms, r))
  BY <1>8, <1>10, <1>11, <1>12, RecordKeeps
<1>14. CountsHold'
  BY <1>1 DEF ExamplesInv, CountsHold
<1>15. ReservationsFollow'
  <2>1. Flip(i, StatusOfReservation(o.status))
    BY <1>5, <1>8 DEF StatusOfReservation
  <2> QED BY <1>1, <1>5, <2>1, FlipKeeps DEF ExamplesInv
<1>16. HeldUp'
  <2> SUFFICES ASSUME NEW r \in Products \X Storehouses, ~Miscounted(r)'
               PROVE  Sold(Waiting(r))' <= HeldAt(r)'
    BY DEF HeldUp
  <2>1. PICK h \in Int : h = HeldAt(r)
    BY HeldIsInt
  <2>2. PICK w \in Int : w = Sold(Waiting(r))
    BY <1>1, WaitingIs
  <2>3. PICK n \in Int : n = Net(LedgerAt(ms, r))
    BY <1>t DEF TakesReserved
  <2>4. PICK q \in Nat : q = orders[i].deal.quantity
    BY <1>1, OrderFacts
  <2>5. w <= h
    <3>1. ~Miscounted(r)
      BY <1>1 DEF Miscounted
    <3> QED BY <2>1, <2>2, <3>1 DEF ExamplesInv, HeldUp
  <2>6. HeldAt(r)' = h + n
    BY <1>13, <2>1, <2>3
  <2>7. i \in Waiting(r) => Sold(Waiting(r))' = w - q
    BY <1>1, <1>5, <2>2, <2>4, NoLongerWaiting
  <2>8. i \notin Waiting(r) => Sold(Waiting(r))' = w
    BY <1>1, <1>5, <2>2, NoLongerWaiting
  <2>9. n < 0 => i \in Waiting(r) /\ n = 0 - q
    BY <1>3, <1>t, <2>3, <2>4 DEF Waiting, TakesReserved
  <2>10. CASE i \in Waiting(r)
    <3>1. w - q <= h + n
      BY <2>5, <2>9
    <3> QED BY <2>6, <2>7, <2>10, <3>1
  <2>11. CASE i \notin Waiting(r)
    <3>1. w <= h + n
      BY <2>5, <2>9, <2>11
    <3> QED BY <2>6, <2>8, <2>11, <3>1
  <2> QED BY <2>10, <2>11
<1> QED BY <1>1, <1>13, <1>14, <1>15, <1>16 DEF ExamplesInv

LEMMA SalesStay ==
  ASSUME HistoryInv, UNCHANGED orders
  PROVE  Movements' = Movements /\ \A r : Waiting(r)' = Waiting(r) /\ Sold(Waiting(r))' = Sold(Waiting(r))
<1>1. Placed' = Placed
  BY DEF Placed
<1>2. Movements' = Movements
  BY <1>1 DEF Movements, MovementsOf, MovementAt
<1>3. ASSUME NEW r PROVE Waiting(r)' = Waiting(r)
  BY <1>1 DEF Waiting
<1>4. ASSUME NEW r PROVE Sold(Waiting(r))' = Sold(Waiting(r))
  BY <1>3 DEF Sold
<1> QED BY <1>2, <1>3, <1>4

LEMMA CountKeeps ==
  ASSUME ExamplesInv, NEW cell \in Products \X Storehouses, NEW quantity \in Corrections, Count(cell, quantity)
  PROVE  ExamplesInv'
<1> DEFINE n == Len(counts) + 1
<1>1. PICK m : m = [order |-> 0 - n, type |-> "ADJUSTMENT", site |-> cell[2],
                    good |-> cell[1], quantity |-> quantity, at |-> moment]
  OBVIOUS
<1>2. Record({m}) /\ counts' = Append(counts, m) /\ UNCHANGED <<historyVars, reservations>>
  BY <1>1 DEF Count
<1>3. HistoryInv /\ HistoryInv' /\ UNCHANGED <<moment, orders>>
  BY <1>2, HistoryInductive DEF ExamplesInv, historyVars
<1>4. counts \in Seq(Adjustment) /\ Len(counts) \in Nat /\ DOMAIN counts = 1..Len(counts)
  BY DEF ExamplesInv, CountsHold
<1>5. quantity \in Int /\ cell = <<cell[1], cell[2]>> /\ cell[1] \in Products /\ cell[2] \in Storehouses
  BY ExamplesAssumption
<1>6. m \in Adjustment /\ m.order = 0 - n /\ m.at = moment /\ <<m.good, m.site>> = cell
      /\ m.quantity = quantity /\ m.type = "ADJUSTMENT"
  BY <1>1, <1>3, <1>4, <1>5 DEF Adjustment, HistoryInv
<1>7. Signed(m) = quantity
  BY <1>6 DEF Signed
<1>8. /\ counts' \in Seq(Adjustment) /\ DOMAIN counts' = DOMAIN counts \cup {n}
      /\ \A k \in DOMAIN counts : counts'[k] = counts[k]
      /\ counts'[n] = m /\ n \notin DOMAIN counts
  BY <1>2, <1>4, <1>6
<1> HIDE DEF n
<1>9. CountsHold'
  <2>1. \A k \in DOMAIN counts : counts[k].order = 0 - k /\ counts[k].at <= moment
    BY DEF ExamplesInv, CountsHold
  <2>2. moment <= moment
    BY <1>3 DEF HistoryInv
  <2> QED BY <1>3, <1>6, <1>8, <2>1, <2>2 DEF CountsHold
<1>10. Ledger' = Ledger \cup {m}
  <2>1. Movements' = Movements
    BY <1>3, SalesStay
  <2> QED BY <1>8, <2>1 DEF Ledger
<1>11. {m} \cap Ledger = {}
  <2>1. ASSUME NEW x \in Movements PROVE x # m
    <3>1. x.order \in Placed
      BY <1>3, MovementFacts DEF Completed
    <3>2. x.order \in Nat
      BY <1>3, <3>1 DEF HistoryInv, Placed
    <3>3. n \in Nat /\ n >= 1
      BY <1>4 DEF n
    <3> QED BY <1>6, <3>2, <3>3
  <2>2. \A k \in DOMAIN counts : counts[k] # m
    <3>1. ASSUME NEW k \in DOMAIN counts PROVE counts[k].order # m.order
      <4>1. counts[k].order = 0 - k /\ k \in Nat /\ n \in Nat /\ k # n
        BY <1>4, <1>8 DEF ExamplesInv, CountsHold, n
      <4> QED BY <1>6, <4>1
    <3> QED BY <3>1
  <2> QED BY <2>1, <2>2 DEF Ledger
<1>12. StockFollows' /\ \A r : HeldAt(r)' = HeldAt(r) + Net(LedgerAt({m}, r))
  <2>1. IsFiniteSet({m}) /\ \A x \in {m} : Signed(x) \in Int
    BY <1>5, <1>7, FS_Singleton
  <2> QED BY <1>2, <1>10, <1>11, <2>1, RecordKeeps
<1>13. ReservationsFollow'
  <2>1. Takers' = Takers
    BY <1>3 DEF Takers, Placed
  <2> QED BY <1>2, <1>3, <2>1 DEF ExamplesInv, ReservationsFollow
<1>14. HeldUp'
  <2> SUFFICES ASSUME NEW r \in Products \X Storehouses, ~Miscounted(r)'
               PROVE  Sold(Waiting(r))' <= HeldAt(r)'
    BY DEF HeldUp
  <2>1. ~Miscounted(r) /\ ~(quantity < 0 /\ cell = r)
    BY <1>6, <1>8 DEF Miscounted
  <2>2. PICK h \in Int : h = HeldAt(r)
    BY HeldIsInt
  <2>3. PICK w \in Int : w = Sold(Waiting(r))
    BY <1>3, WaitingIs
  <2>4. w <= h
    BY <2>1, <2>2, <2>3 DEF ExamplesInv, HeldUp
  <2>5. LedgerAt({m}, r) = IF cell = r THEN {m} ELSE {}
    BY <1>6 DEF LedgerAt
  <2>6. Net(LedgerAt({m}, r)) = IF cell = r THEN quantity ELSE 0
    BY <1>5, <1>7, <2>5, NetOfOne, NetOfNothing
  <2>7. PICK k \in Int : k = Net(LedgerAt({m}, r)) /\ k >= 0
    BY <1>5, <2>1, <2>6
  <2>8. w <= h + k
    BY <2>4, <2>7
  <2>9. HeldAt(r)' = h + k
    BY <1>12, <2>2, <2>7
  <2> QED BY <1>3, <2>3, <2>8, <2>9, SalesStay
<1> QED BY <1>3, <1>9, <1>12, <1>13, <1>14 DEF ExamplesInv

\* Time passes, or something is taken out of use.
LEMMA NothingMoves ==
  ASSUME ExamplesInv, HistoryInv', UNCHANGED <<orders, inventory, reservations, counts>>, moment <= moment'
  PROVE  ExamplesInv'
<1>1. HistoryInv /\ moment \in Nat /\ moment' \in Nat
  BY DEF ExamplesInv, HistoryInv
<1>2. CountsHold'
  BY <1>1, LaterCounts DEF ExamplesInv
<1>3. ReservationsFollow'
  <2>1. Takers' = Takers
    BY DEF Takers, Placed
  <2> QED BY <2>1 DEF ExamplesInv, ReservationsFollow
<1>4. StockFollows' /\ \A r : HeldAt(r)' = HeldAt(r)
  BY <1>1, SalesStay, StockStays DEF ExamplesInv
<1>5. \A r : Miscounted(r)' <=> Miscounted(r)
  BY DEF Miscounted
<1>6. HeldUp'
  BY <1>1, <1>4, <1>5, SalesStay DEF ExamplesInv, HeldUp
<1> QED BY <1>2, <1>3, <1>4, <1>6 DEF ExamplesInv

LEMMA ExamplesInductive == ExamplesInv /\ [ExamplesNext]_exampleVars => ExamplesInv'
<1> SUFFICES ASSUME ExamplesInv, [ExamplesNext]_exampleVars PROVE ExamplesInv'
  OBVIOUS
<1>1. moment \in Nat /\ moment <= moment
  BY DEF ExamplesInv, HistoryInv
<1>2. CASE UNCHANGED exampleVars
  <2>1. UNCHANGED <<historyVars, orders, moment, inventory, reservations, counts>>
    BY <1>2 DEF exampleVars, historyVars
  <2>2. HistoryInv'
    BY <2>1, HistoryInductive DEF ExamplesInv
  <2> QED BY <1>1, <2>1, <2>2, NothingMoves
<1>3. ASSUME NEW x, Deactivate(x) PROVE ExamplesInv'
  <2>1. UNCHANGED <<historyVars, orders, moment, inventory, reservations, counts>>
    BY <1>3 DEF Deactivate, historyVars
  <2>2. HistoryInv'
    BY <2>1, HistoryInductive DEF ExamplesInv
  <2> QED BY <1>1, <2>1, <2>2, NothingMoves
<1>4. ASSUME Later, UNCHANGED <<inventory, reservations, cancelledAt, counts, inactive>> PROVE ExamplesInv'
  <2>1. HistoryInv'
    BY <1>4, LaterKeeps DEF ExamplesInv
  <2>2. moment <= moment' /\ UNCHANGED orders
    BY <1>1, <1>4 DEF Later
  <2> QED BY <1>4, <2>1, <2>2, NothingMoves
<1> QED
  BY <1>2, <1>3, <1>4, PlaceAndReserveKeeps, CompleteAndMoveKeeps, CancelAndReleaseKeeps, CountKeeps
  DEF ExamplesNext

LEMMA ExamplesInvariant == ExamplesSpec => []ExamplesInv
BY ExamplesInitially, ExamplesInductive, PTL DEF ExamplesSpec

\* Of every cancelled order the moment is known.
CancelledOnes == {i \in Placed : orders[i].status = "CANCELLED"}
CancellationsHold == \A i \in CancelledOnes : i \in DOMAIN cancelledAt /\ cancelledAt[i] \in Nat

LEMMA CancellationsInductive ==
  ASSUME ExamplesInv, CancellationsHold, [ExamplesNext]_exampleVars
  PROVE  CancellationsHold'
<1>1. HistoryInv /\ moment \in Nat /\ orders \in Seq(OrderRow) /\ Placed = 1..Len(orders) /\ Len(orders) \in Nat
  BY DEF ExamplesInv, HistoryInv, Placed
<1>2. ASSUME CancelledOnes' \subseteq CancelledOnes, cancelledAt' = cancelledAt PROVE CancellationsHold'
  BY <1>2 DEF CancellationsHold
<1>3. ASSUME UNCHANGED orders PROVE CancelledOnes' = CancelledOnes
  BY <1>3 DEF CancelledOnes, Placed
<1>4. ASSUME NEW d \in Deals, PlaceAndReserve(d) PROVE CancellationsHold'
  <2>1. PlaceDeal(d) /\ cancelledAt' = cancelledAt
    BY <1>4 DEF PlaceAndReserve
  <2>2. HistoryInv'
    BY <1>1, <2>1, PlacingKeeps
  <2>3. PICK o : orders' = Append(orders, o) /\ o.status = "PENDING"
    BY <2>1 DEF PlaceDeal
  <2>4. Placed' = 1..Len(orders')
    BY <2>2 DEF HistoryInv, Placed
  <2>5. \A i \in Placed' : (i \in Placed /\ orders'[i] = orders[i]) \/ orders'[i] = o
    BY <1>1, <2>3, <2>4
  <2>6. CancelledOnes' \subseteq CancelledOnes
    BY <2>3, <2>5 DEF CancelledOnes
  <2> QED BY <1>2, <2>1, <2>6
<1>5. ASSUME NEW i \in Placed, CompleteAndMove(i) PROVE CancellationsHold'
  <2>1. /\ orders' = [orders EXCEPT ![i].status = "COMPLETED", ![i].actualDate = moment]
        /\ cancelledAt' = cancelledAt
    BY <1>5 DEF CompleteAndMove, CompleteOrder
  <2>2. PICK o : o = [orders[i] EXCEPT !.status = "COMPLETED", !.actualDate = moment]
    OBVIOUS
  <2>3. orders[i] \in OrderRow
    BY <1>1
  <2>4. o.status = "COMPLETED"
    BY <2>2, <2>3 DEF OrderRow
  <2>5. orders' = [orders EXCEPT ![i] = o]
    BY <2>1, <2>2
  <2>6. Placed' = Placed /\ \A j \in Placed : orders'[j] = IF j = i THEN o ELSE orders[j]
    BY <2>5 DEF Placed
  <2>7. CancelledOnes' \subseteq CancelledOnes
    BY <2>4, <2>6 DEF CancelledOnes
  <2> QED BY <1>2, <2>1, <2>7
<1>6. ASSUME NEW i \in Placed, CancelAndRelease(i) PROVE CancellationsHold'
  <2>1. /\ orders' = [orders EXCEPT ![i].status = "CANCELLED"]
        /\ cancelledAt' = [j \in DOMAIN cancelledAt \cup {i} |-> IF j = i THEN moment ELSE cancelledAt[j]]
    BY <1>6 DEF CancelAndRelease, CancelOrder
  <2>2. Placed' = Placed /\ \A j \in Placed \ {i} : orders'[j] = orders[j]
    BY <2>1 DEF Placed
  <2>3. CancelledOnes' \subseteq CancelledOnes \cup {i}
    BY <2>2 DEF CancelledOnes
  <2> QED BY <1>1, <2>1, <2>3 DEF CancellationsHold
<1>7. ASSUME NEW cell, NEW quantity, Count(cell, quantity) PROVE CancellationsHold'
  BY <1>2, <1>3, <1>7 DEF Count, historyVars
<1>8. ASSUME NEW x, Deactivate(x) PROVE CancellationsHold'
  BY <1>2, <1>3, <1>8 DEF Deactivate, historyVars
<1>9. ASSUME Later, cancelledAt' = cancelledAt PROVE CancellationsHold'
  BY <1>2, <1>3, <1>9 DEF Later
<1>10. ASSUME UNCHANGED exampleVars PROVE CancellationsHold'
  BY <1>2, <1>3, <1>10 DEF exampleVars, historyVars
<1> QED BY <1>4, <1>5, <1>6, <1>7, <1>8, <1>9, <1>10 DEF ExamplesNext

LEMMA CancellationsInvariant == ExamplesSpec => []CancellationsHold
<1>1. ExamplesInit => CancellationsHold
  BY DEF ExamplesInit, HistoryInit, CancellationsHold, CancelledOnes, Placed
<1>2. ExamplesInv /\ CancellationsHold /\ [ExamplesNext]_exampleVars => CancellationsHold'
  BY CancellationsInductive
<1> QED BY <1>1, <1>2, ExamplesInvariant, PTL DEF ExamplesSpec

----------------------------------------------------------------------------
(* The groups of a query.                                                  *)

Keys(S, key) == {key[i] : i \in S}
Having(S, key, k) == {i \in S : key[i] = k}
Groups(S, key) == [k \in Keys(S, key) |-> Having(S, key, k)]

LEMMA ImageFinite ==
  ASSUME NEW S, IsFiniteSet(S), NEW key
  PROVE  IsFiniteSet({key[i] : i \in S})
<1>1. PICK I : I = {key[i] : i \in S}
  OBVIOUS
<1>2. PICK f : f = [i \in S |-> key[i]]
  OBVIOUS
<1>3. f \in Surjection(S, I)
  BY <1>1, <1>2 DEF Surjection
<1>4. IsFiniteSet(I)
  BY <1>3, FS_Surjection
<1> QED BY <1>1, <1>4

\* What is grouped by a key is shared out, and no order is counted twice.
LEMMA GroupsShareOut ==
  ASSUME HistoryInv, NEW S \in SUBSET Placed, NEW key, NEW G, G = Groups(S, key)
  PROVE  /\ SharesOut(G, S) /\ DOMAIN G = Keys(S, key)
         /\ \A k \in DOMAIN G : G[k] = Having(S, key, k)
<1>1. IsFiniteSet(S)
  BY OrderFacts, FS_Subset
<1>2. DOMAIN G = Keys(S, key) /\ \A k \in DOMAIN G : G[k] = Having(S, key, k)
  BY DEF Groups
<1>3. IsFiniteSet(DOMAIN G)
  BY <1>1, <1>2, ImageFinite DEF Keys
<1>4. \A k \in DOMAIN G : G[k] \subseteq S
  BY <1>2 DEF Having
<1>5. \A i \in S : \E k \in DOMAIN G : i \in G[k]
  <2>1. ASSUME NEW i \in S PROVE key[i] \in DOMAIN G /\ i \in G[key[i]]
    BY <1>2 DEF Keys, Having
  <2> QED BY <2>1
<1>6. \A k, l \in DOMAIN G : k # l => G[k] \cap G[l] = {}
  BY <1>2 DEF Having
<1> QED BY <1>2, <1>3, <1>4, <1>5, <1>6 DEF SharesOut

LEMMA GroupsCount ==
  ASSUME NEW S, IsFiniteSet(S), NEW G, SharesOut(G, S),
         NEW p, p = [k \in DOMAIN G |-> Cardinality(G[k])]
  PROVE  Total(p, DOMAIN G) = Cardinality(S)
<1>1. PICK one : one = [i \in S |-> 1]
  OBVIOUS
<1>2. ASSUME NEW R, R \subseteq S PROVE Total(one, R) = Cardinality(R)
  <2>1. IsFiniteSet(R)
    BY <1>2, FS_Subset
  <2>2. \A i \in R : one[i] = 1
    BY <1>1, <1>2
  <2>3. Total(one, R) = 1 * Cardinality(R)
    BY <2>1, <2>2, TotalConstant
  <2>4. Cardinality(R) \in Nat
    BY <2>1, FS_CardinalityType
  <2> QED BY <2>3, <2>4
<1>3. PICK K : K = DOMAIN G
  OBVIOUS
<1>4. IsFiniteSet(S) /\ IsFiniteSet(K) /\ \A i \in S : one[i] \in Int
  BY <1>1, <1>3 DEF SharesOut
<1>5. \A k \in K : G[k] \subseteq S /\ p[k] = Total(one, G[k])
  BY <1>2, <1>3 DEF SharesOut
<1>6. /\ \A i \in S : \E k \in K : i \in G[k]
      /\ \A k, l \in K : k # l => G[k] \cap G[l] = {}
  BY <1>3 DEF SharesOut
<1>7. Total(p, K) = Total(one, S)
  BY ONLY <1>4, <1>5, <1>6, TotalOfGroups
<1> QED BY <1>2, <1>3, <1>7

Adds(groups, S) ==
  /\ SumOver(groups, "orders") = Cardinality(S)
  /\ SumOver(groups, "units") = Sold(S)
  /\ SumOver(groups, "value") = Revenue(S)

LEMMA GroupedAdds ==
  ASSUME HistoryInv, NEW S \in SUBSET Placed, NEW key
  PROVE  /\ Adds(GroupedBy(S, key), S)
         /\ DOMAIN GroupedBy(S, key) = Keys(S, key)
         /\ \A k \in Keys(S, key) :
              /\ GroupedBy(S, key)[k].orders = Cardinality(Having(S, key, k))
              /\ GroupedBy(S, key)[k].units = Sold(Having(S, key, k))
              /\ GroupedBy(S, key)[k].value = Revenue(Having(S, key, k))
<1>1. PICK G : G = Groups(S, key)
  OBVIOUS
<1>2. /\ SharesOut(G, S) /\ DOMAIN G = Keys(S, key)
      /\ \A k \in DOMAIN G : G[k] = Having(S, key, k)
  BY <1>1, GroupsShareOut
<1>3. PICK g : g = GroupedBy(S, key)
  OBVIOUS
<1>4. g = [k \in DOMAIN G |-> [orders |-> Cardinality(G[k]), units |-> Sold(G[k]), value |-> Revenue(G[k])]]
  <2>1. g = [k \in Keys(S, key) |-> [orders |-> Cardinality(Having(S, key, k)),
                 units |-> Sold(Having(S, key, k)), value |-> Revenue(Having(S, key, k))]]
    BY <1>3 DEF GroupedBy, Keys, Having
  <2> QED BY <1>2, <2>1
<1>5. DOMAIN g = DOMAIN G
  BY <1>4
<1>6. \A k \in DOMAIN G : /\ g[k].orders = Cardinality(G[k]) /\ g[k].units = Sold(G[k])
                          /\ g[k].value = Revenue(G[k])
  BY <1>4
<1>7. SumOver(g, "orders") = Cardinality(S)
  <2>1. PICK p : p = [k \in DOMAIN G |-> Cardinality(G[k])]
    OBVIOUS
  <2>2. p = [k \in DOMAIN g |-> g[k]["orders"]]
    BY <1>5, <1>6, <2>1
  <2>3. IsFiniteSet(S)
    BY OrderFacts, FS_Subset
  <2>4. Total(p, DOMAIN G) = Cardinality(S)
    BY <1>2, <2>1, <2>3, GroupsCount
  <2> QED BY <1>5, <2>2, <2>4 DEF SumOver
<1>8. SoldBy(G) = Sold(S) /\ RevenueBy(G) = Revenue(S)
  BY <1>2, GroupsAddUp
<1>9. SumOver(g, "units") = SoldBy(G)
  <2>1. [k \in DOMAIN G |-> Sold(G[k])] = [k \in DOMAIN g |-> g[k]["units"]]
    BY <1>5, <1>6
  <2> QED BY <1>5, <2>1 DEF SumOver, SoldBy
<1>10. SumOver(g, "value") = RevenueBy(G)
  <2>1. [k \in DOMAIN G |-> Revenue(G[k])] = [k \in DOMAIN g |-> g[k]["value"]]
    BY <1>5, <1>6
  <2> QED BY <1>5, <2>1 DEF SumOver, RevenueBy
<1>11. Adds(g, S)
  BY <1>7, <1>8, <1>9, <1>10 DEF Adds
<1> QED BY <1>2, <1>3, <1>5, <1>6, <1>11

LEMMA RecentAre ==
  ASSUME HistoryInv, NEW type
  PROVE  /\ Recent(Completed(type)) \subseteq Completed(type)
         /\ Recent(Completed(type)) \in SUBSET Placed /\ Completed(type) \in SUBSET Placed
<1>1. Completed(type) \in SUBSET Placed
  BY CompletedFacts
<1> QED BY <1>1 DEF Recent

LEMMA LessMoney ==
  ASSUME HistoryInv, NEW S \in SUBSET Placed, NEW R \in SUBSET S
  PROVE  Revenue(R) <= Revenue(S) /\ Revenue(S) = Revenue(R) + Revenue(S \ R)
<1>1. IsFiniteSet(S)
  BY OrderFacts, FS_Subset
<1>2. PICK q : q = Amounts
  OBVIOUS
<1>3. \A i \in S : q[i] \in Nat
  BY <1>2, OrderFacts DEF Amounts
<1>4. Total(q, R) <= Total(q, S)
  BY ONLY <1>1, <1>3, R \in SUBSET S, TotalGrows
<1>5. Total(q, S) = Total(q, R) + Total(q, S \ R)
  <2>1. R \subseteq S /\ \A i \in S : q[i] \in Int
    BY <1>3
  <2> QED BY ONLY <1>1, <2>1, TotalSplit
<1>6. R \in SUBSET Placed /\ S \ R \in SUBSET Placed
  OBVIOUS
<1>7. Revenue(S) = Total(q, S) /\ Revenue(R) = Total(q, R) /\ Revenue(S \ R) = Total(q, S \ R)
  BY <1>2, <1>6, SumsOfOrders
<1> QED BY <1>4, <1>5, <1>7

LEMMA FewerOrders ==
  ASSUME HistoryInv, NEW S \in SUBSET Placed, NEW R \in SUBSET S
  PROVE  Cardinality(R) <= Cardinality(S)
<1>1. IsFiniteSet(S)
  BY OrderFacts, FS_Subset
<1> QED BY <1>1, FS_Subset, FS_CardinalityType

\* The rows of a query about the most, of what it would list without a limit.
LEMMA MinOf ==
  ASSUME NEW a \in Nat, NEW b \in Nat
  PROVE  Min({a, b}) \in 0..b /\ Min({a, b}) \in {a, b}
<1>1. \E x \in {a, b} : \A y \in {a, b} : x <= y
  <2>1. CASE a <= b
    BY <2>1
  <2>2. CASE ~(a <= b)
    BY <2>2
  <2> QED BY <2>1, <2>2
<1>2. PICK m : m = Min({a, b})
  OBVIOUS
<1>3. m \in {a, b} /\ \A y \in {a, b} : m <= y
  BY <1>1, <1>2 DEF Min
<1> QED BY <1>2, <1>3

IsTable(table, column) ==
  IsFiniteSet(DOMAIN table) /\ \A k \in DOMAIN table : table[k][column] \in Int

IsTop(top, table, column, n) ==
  /\ DOMAIN top \subseteq DOMAIN table /\ top = [k \in DOMAIN top |-> table[k]]
  /\ \A k \in DOMAIN top : top[k] = table[k]
  /\ Cardinality(DOMAIN top) = Min({n, Cardinality(DOMAIN table)})
  /\ \A k \in DOMAIN top, l \in DOMAIN table \ DOMAIN top : top[k][column] >= table[l][column]

LEMMA TopIs ==
  ASSUME NEW table, NEW column, NEW n, NEW top \in TopOf(table, column, n)
  PROVE  IsTop(top, table, column, n)
BY DEF TopOf, IsTop

LEMMA TopExists ==
  ASSUME NEW table, NEW column, IsTable(table, column), NEW n \in Nat
  PROVE  TopOf(table, column, n) # {}
<1>1. PICK D : D = DOMAIN table
  OBVIOUS
<1>2. PICK v : v = [k \in D |-> table[k][column]]
  OBVIOUS
<1>3. IsFiniteSet(D) /\ \A k \in D : v[k] \in Int
  BY <1>1, <1>2 DEF IsTable
<1>4. PICK m : m = Min({n, Cardinality(D)})
  OBVIOUS
<1>5. m \in 0..Cardinality(D)
  BY <1>3, <1>4, MinOf, FS_CardinalityType
<1>6. PICK A \in SUBSET D : Cardinality(A) = m /\ Leads(A, D, v)
  BY ONLY <1>3, <1>5, LeadersExist
<1>7. \A k \in A, l \in D \ A : table[k][column] >= table[l][column]
  BY <1>2, <1>6 DEF Leads
<1>8. [k \in A |-> table[k]] \in TopOf(table, column, n)
  BY <1>1, <1>4, <1>6, <1>7 DEF TopOf
<1> QED BY <1>8

LEMMA LessUnits ==
  ASSUME HistoryInv, NEW S \in SUBSET Placed, NEW R \in SUBSET S
  PROVE  Sold(S) = Sold(R) + Sold(S \ R) /\ Sold(R) \in Nat /\ Revenue(R) \in Nat
<1>1. IsFiniteSet(S)
  BY OrderFacts, FS_Subset
<1>2. PICK q : q = Quantities
  OBVIOUS
<1>3. \A i \in S : q[i] \in Nat /\ q[i] \in Int
  BY <1>2, OrderFacts DEF Quantities
<1>4. R \subseteq S /\ R \in SUBSET Placed /\ S \ R \in SUBSET Placed /\ {} \in SUBSET R
  OBVIOUS
<1>5. Total(q, S) = Total(q, R) + Total(q, S \ R)
  BY ONLY <1>1, <1>3, <1>4, TotalSplit
<1>6. Sold(S) = Total(q, S) /\ Sold(R) = Total(q, R) /\ Sold(S \ R) = Total(q, S \ R) /\ Sold(R) \in Int
  BY <1>2, <1>4, SumsOfOrders
<1>7. IsFiniteSet(R) /\ \A i \in R : q[i] \in Nat
  BY <1>1, <1>3, <1>4, FS_Subset
<1>8. Total(q, {}) <= Total(q, R) /\ Total(q, {}) = 0
  BY ONLY <1>4, <1>7, TotalGrows, TotalEmpty
<1>9. Revenue({}) <= Revenue(R) /\ Revenue(R) \in Int
  BY <1>4, LessMoney, SumsOfOrders
<1>10. Revenue({}) = 0
  BY TotalEmpty DEF Revenue
<1> QED BY <1>5, <1>6, <1>8, <1>9, <1>10

LEMMA GroupsAreTable ==
  ASSUME HistoryInv, NEW S \in SUBSET Placed, NEW key, NEW column \in {"units", "value"}
  PROVE  IsTable(GroupedBy(S, key), column)
<1>1. PICK table : table = GroupedBy(S, key)
  OBVIOUS
<1>2. DOMAIN table = Keys(S, key)
  BY <1>1, GroupedAdds
<1>3. IsFiniteSet(DOMAIN table)
  <2>1. IsFiniteSet(S)
    BY OrderFacts, FS_Subset
  <2> QED BY <1>2, <2>1, ImageFinite DEF Keys
<1>4. ASSUME NEW k \in DOMAIN table PROVE table[k].units \in Int /\ table[k].value \in Int
  <2>1. table[k].units = Sold(Having(S, key, k)) /\ table[k].value = Revenue(Having(S, key, k))
    BY <1>1, <1>2, GroupedAdds
  <2>2. Having(S, key, k) \in SUBSET Placed
    BY DEF Having
  <2> QED BY <2>1, <2>2, SumsOfOrders
<1> QED BY <1>1, <1>3, <1>4 DEF IsTable

\* A limited answer is grouped like an unlimited one over the orders of its rows, so
\* that it and what it leaves out add up.
TopAdds(top, S, key) ==
  /\ DOMAIN top \subseteq Keys(S, key)
  /\ \A k \in DOMAIN top : /\ top[k].orders = Cardinality(Having(S, key, k))
                           /\ top[k].units = Sold(Having(S, key, k))
                           /\ top[k].value = Revenue(Having(S, key, k))
  /\ SumOver(top, "units") + Sold({i \in S : key[i] \notin DOMAIN top}) = Sold(S)
  /\ SumOver(top, "value") + Revenue({i \in S : key[i] \notin DOMAIN top}) = Revenue(S)

LEMMA TopAddsUp ==
  ASSUME HistoryInv, NEW S \in SUBSET Placed, NEW key, NEW column, NEW n,
         NEW top \in TopOf(GroupedBy(S, key), column, n)
  PROVE  TopAdds(top, S, key)
<1>1. PICK table : table = GroupedBy(S, key)
  OBVIOUS
<1>2. PICK D : D = DOMAIN top
  OBVIOUS
<1>3. D \subseteq Keys(S, key) /\ top = [k \in D |-> table[k]] /\ \A k \in D : top[k] = table[k]
  <2>1. DOMAIN table = Keys(S, key)
    BY <1>1, GroupedAdds
  <2>2. IsTop(top, table, column, n)
    BY <1>1, TopIs
  <2> QED BY <1>2, <2>1, <2>2 DEF IsTop
<1>4. PICK R : R = {i \in S : key[i] \in D}
  OBVIOUS
<1>5. R \in SUBSET S /\ R \in SUBSET Placed /\ S \ R = {i \in S : key[i] \notin D}
  BY <1>4
<1>6. Keys(R, key) = D
  BY <1>3, <1>4 DEF Keys
<1>7. \A k \in D : {i \in R : key[i] = k} = {i \in S : key[i] = k}
  BY <1>4
<1>8. top = GroupedBy(R, key)
  <2>1. PICK row : row = [k \in Keys(S, key) |->
                            [orders |-> Cardinality({i \in S : key[i] = k}),
                             units |-> Sold({i \in S : key[i] = k}),
                             value |-> Revenue({i \in S : key[i] = k})]]
    OBVIOUS
  <2>2. table = row
    BY <1>1, <2>1 DEF GroupedBy, Keys
  <2>3. GroupedBy(R, key) = [k \in D |-> [orders |-> Cardinality({i \in R : key[i] = k}),
                                          units |-> Sold({i \in R : key[i] = k}),
                                          value |-> Revenue({i \in R : key[i] = k})]]
    BY <1>6 DEF GroupedBy, Keys
  <2>4. ASSUME NEW k \in D
        PROVE  [orders |-> Cardinality({i \in R : key[i] = k}), units |-> Sold({i \in R : key[i] = k}),
                value |-> Revenue({i \in R : key[i] = k})] = top[k]
    <3>1. PICK group : group = {i \in S : key[i] = k} /\ group = {i \in R : key[i] = k}
      BY <1>7
    <3>2. row[k] = [orders |-> Cardinality(group), units |-> Sold(group), value |-> Revenue(group)]
      BY <1>3, <2>1, <3>1
    <3> QED BY <1>3, <2>2, <3>1, <3>2
  <2> QED BY <1>3, <2>3, <2>4
<1>9. Adds(top, R)
  BY <1>5, <1>8, GroupedAdds
<1>10. Sold(S) = Sold(R) + Sold(S \ R) /\ Revenue(S) = Revenue(R) + Revenue(S \ R)
  BY <1>5, LessUnits, LessMoney
<1>11. \A k \in D : /\ top[k].orders = Cardinality(Having(S, key, k))
                    /\ top[k].units = Sold(Having(S, key, k))
                    /\ top[k].value = Revenue(Having(S, key, k))
  BY <1>1, <1>3, GroupedAdds
<1> QED BY <1>2, <1>3, <1>5, <1>9, <1>10, <1>11 DEF Adds, TopAdds

\* Whoever is left out has no more.
LEMMA TopIsTop ==
  ASSUME HistoryInv, NEW S \in SUBSET Placed, NEW key, NEW column, NEW n,
         NEW top \in TopOf(GroupedBy(S, key), column, n), NEW k \in DOMAIN top, NEW l, l \notin DOMAIN top
  PROVE  /\ column = "units" => Sold(Having(S, key, l)) <= top[k].units
         /\ column = "value" => Revenue(Having(S, key, l)) <= top[k].value
<1>1. PICK table : table = GroupedBy(S, key)
  OBVIOUS
<1>2. PICK H \in SUBSET Placed : H = Having(S, key, l)
  BY DEF Having
<1>3. top[k].units \in Nat /\ top[k].value \in Nat
  <2>1. PICK G \in SUBSET S : G = Having(S, key, k)
    BY DEF Having
  <2>2. TopAdds(top, S, key)
    BY TopAddsUp
  <2>3. top[k].units = Sold(G) /\ top[k].value = Revenue(G)
    BY <2>1, <2>2 DEF TopAdds
  <2>4. Sold(G) \in Nat /\ Revenue(G) \in Nat
    BY LessUnits
  <2> QED BY <2>3, <2>4
<1>4. DOMAIN table = Keys(S, key) /\ IsTop(top, table, column, n)
  BY <1>1, GroupedAdds, TopIs
<1>5. CASE l \in Keys(S, key)
  <2>1. top[k][column] >= table[l][column]
    BY <1>4, <1>5 DEF IsTop
  <2>2. table[l].units = Sold(H) /\ table[l].value = Revenue(H)
    BY <1>1, <1>2, <1>5, GroupedAdds
  <2>3. Sold(H) \in Int /\ Revenue(H) \in Int
    BY SumsOfOrders
  <2> QED BY <1>2, <1>3, <2>1, <2>2, <2>3
<1>6. CASE l \notin Keys(S, key)
  <2>1. H = {}
    BY <1>2, <1>6 DEF Having, Keys
  <2>2. Sold(H) = 0 /\ Revenue(H) = 0
    BY <2>1, TotalEmpty DEF Sold, Revenue
  <2> QED BY <1>2, <1>3, <2>2
<1> QED BY <1>5, <1>6

\* What earns most earns no less than what sells most.
LEMMA EarnersEarnMost ==
  ASSUME HistoryInv, NEW S \in SUBSET Placed, NEW key, NEW column, NEW n,
         NEW top \in TopOf(GroupedBy(S, key), "value", n), NEW most \in TopOf(GroupedBy(S, key), column, n)
  PROVE  SumOver(most, "value") <= SumOver(top, "value")
<1>1. PICK table : table = GroupedBy(S, key)
  OBVIOUS
<1>2. PICK D : D = DOMAIN table
  OBVIOUS
<1>3. PICK v : v = [k \in D |-> table[k]["value"]]
  OBVIOUS
<1>4. PICK A : A = DOMAIN top
  OBVIOUS
<1>5. PICK B : B = DOMAIN most
  OBVIOUS
<1>6. IsFiniteSet(D) /\ \A k \in D : v[k] \in Int
  BY <1>1, <1>2, <1>3, GroupsAreTable DEF IsTable
<1>7. /\ A \in SUBSET D /\ Cardinality(A) = Min({n, Cardinality(D)}) /\ \A k \in A : top[k] = table[k]
      /\ \A k \in A, l \in D \ A : top[k]["value"] >= table[l]["value"]
  <2>1. IsTop(top, table, "value", n)
    BY <1>1, TopIs
  <2> QED BY <1>2, <1>4, <2>1 DEF IsTop
<1>8. B \in SUBSET D /\ Cardinality(B) = Min({n, Cardinality(D)}) /\ \A k \in B : most[k] = table[k]
  <2>1. IsTop(most, table, column, n)
    BY <1>1, TopIs
  <2> QED BY <1>2, <1>5, <2>1 DEF IsTop
<1>9. Cardinality(A) = Cardinality(B) /\ Leads(A, D, v)
  BY <1>3, <1>7, <1>8 DEF Leads
<1>10. Total(v, B) <= Total(v, A)
  BY ONLY <1>6, <1>7, <1>8, <1>9, LeadersSumMost
<1>11. PICK p : p = [k \in A |-> top[k]["value"]]
  OBVIOUS
<1>12. PICK q : q = [k \in B |-> most[k]["value"]]
  OBVIOUS
<1>13. IsFiniteSet(A) /\ IsFiniteSet(B)
  BY <1>6, <1>7, <1>8, FS_Subset
<1>14. (\A k \in A : p[k] = v[k]) /\ (\A k \in B : q[k] = v[k])
  BY <1>3, <1>7, <1>8, <1>11, <1>12
<1>15. Total(p, A) = Total(v, A) /\ Total(q, B) = Total(v, B)
  BY ONLY <1>13, <1>14, TotalAgrees
<1>16. SumOver(top, "value") = Total(p, A) /\ SumOver(most, "value") = Total(q, B)
  BY <1>4, <1>5, <1>11, <1>12 DEF SumOver
<1> QED BY <1>10, <1>15, <1>16

\* The orders of a product, and those of a customer.
LEMMA ProductSalesAre ==
  ASSUME HistoryInv, NEW g
  PROVE  /\ g \in GoodsTraded => Having(Completed("OUTGOING"), GoodOf, g) = ProductSales[g]
         /\ Keys(Completed("OUTGOING"), GoodOf) \subseteq GoodsTraded
<1>1. PICK S \in SUBSET Placed : S = Completed("OUTGOING")
  BY CompletedFacts
<1>2. PICK key : key = GoodOf
  OBVIOUS
<1>3. \A i \in S : key[i] = orders[i].deal.good /\ orders[i].deal.good \in GoodsTraded
  BY <1>1, <1>2, CompletedFacts DEF GoodOf, DealOf
<1>4. Keys(S, key) \subseteq GoodsTraded
  BY <1>3 DEF Keys
<1>5. Having(S, key, g) = {i \in S : orders[i].deal.good = g}
  BY <1>3 DEF Having
<1>6. g \in GoodsTraded => {i \in S : orders[i].deal.good = g} = ProductSales[g]
  BY <1>1 DEF ProductSales
<1> QED BY <1>1, <1>2, <1>4, <1>5, <1>6

LEMMA TopProducts ==
  ASSUME HistoryInv, NEW top
  PROVE  /\ top \in BestSellers =>
              /\ \A g \in DOMAIN top : top[g].units = Sold(ProductSales[g])
              /\ \A g \in DOMAIN top, h \in GoodsTraded \ DOMAIN top :
                   Sold(ProductSales[h]) <= top[g].units
              /\ SumOver(top, "units") + Sold({i \in Completed("OUTGOING") : GoodOf[i] \notin DOMAIN top})
                   = Sold(Completed("OUTGOING"))
         /\ top \in BestEarners =>
              /\ \A g \in DOMAIN top : top[g].value = Revenue(ProductSales[g])
              /\ \A g \in DOMAIN top, h \in GoodsTraded \ DOMAIN top :
                   Revenue(ProductSales[h]) <= top[g].value
              /\ SumOver(top, "value") + Revenue({i \in Completed("OUTGOING") : GoodOf[i] \notin DOMAIN top})
                   = Revenue(Completed("OUTGOING"))
              /\ \A most \in BestSellers : SumOver(most, "value") <= SumOver(top, "value")
<1>1. PICK S \in SUBSET Placed : S = Completed("OUTGOING")
  BY CompletedFacts
<1>2. PICK key : key = GoodOf
  OBVIOUS
<1>3. PICK n : n = TopRows
  OBVIOUS
<1>4. BestSellers = TopOf(GroupedBy(S, key), "units", n) /\ BestEarners = TopOf(GroupedBy(S, key), "value", n)
  BY <1>1, <1>2, <1>3 DEF BestSellers, BestEarners, SalesByProduct
<1>5. \A g \in GoodsTraded : Having(S, key, g) = ProductSales[g]
  BY <1>1, <1>2, ProductSalesAre
<1>6. ASSUME NEW column, top \in TopOf(GroupedBy(S, key), column, n)
      PROVE  /\ \A g \in DOMAIN top : /\ top[g].units = Sold(ProductSales[g])
                                      /\ top[g].value = Revenue(ProductSales[g])
             /\ SumOver(top, "units") + Sold({i \in S : key[i] \notin DOMAIN top}) = Sold(S)
             /\ SumOver(top, "value") + Revenue({i \in S : key[i] \notin DOMAIN top}) = Revenue(S)
  <2>1. TopAdds(top, S, key)
    BY <1>6, TopAddsUp
  <2>2. Keys(S, key) \subseteq GoodsTraded
    BY <1>1, <1>2, ProductSalesAre
  <2>3. \A g \in DOMAIN top : Having(S, key, g) = ProductSales[g]
    BY <1>5, <2>1, <2>2 DEF TopAdds
  <2> QED BY <2>1, <2>3 DEF TopAdds
<1>7. ASSUME top \in BestSellers
      PROVE  /\ \A g \in DOMAIN top : top[g].units = Sold(ProductSales[g])
             /\ \A g \in DOMAIN top, h \in GoodsTraded \ DOMAIN top : Sold(ProductSales[h]) <= top[g].units
             /\ SumOver(top, "units") + Sold({i \in S : key[i] \notin DOMAIN top}) = Sold(S)
  <2>1. top \in TopOf(GroupedBy(S, key), "units", n)
    BY <1>4, <1>7
  <2>2. \A g \in DOMAIN top, h \in GoodsTraded \ DOMAIN top : Sold(Having(S, key, h)) <= top[g].units
    BY <2>1, TopIsTop
  <2>3. \A g \in DOMAIN top, h \in GoodsTraded \ DOMAIN top : Sold(ProductSales[h]) <= top[g].units
    BY <1>5, <2>2
  <2> QED BY <1>6, <2>1, <2>3
<1>8. ASSUME top \in BestEarners
      PROVE  /\ \A g \in DOMAIN top : top[g].value = Revenue(ProductSales[g])
             /\ \A g \in DOMAIN top, h \in GoodsTraded \ DOMAIN top : Revenue(ProductSales[h]) <= top[g].value
             /\ SumOver(top, "value") + Revenue({i \in S : key[i] \notin DOMAIN top}) = Revenue(S)
             /\ \A most \in BestSellers : SumOver(most, "value") <= SumOver(top, "value")
  <2>1. top \in TopOf(GroupedBy(S, key), "value", n)
    BY <1>4, <1>8
  <2>2. \A g \in DOMAIN top, h \in GoodsTraded \ DOMAIN top : Revenue(Having(S, key, h)) <= top[g].value
    BY <2>1, TopIsTop
  <2>3. \A g \in DOMAIN top, h \in GoodsTraded \ DOMAIN top : Revenue(ProductSales[h]) <= top[g].value
    BY <1>5, <2>2
  <2>4. \A most \in BestSellers : SumOver(most, "value") <= SumOver(top, "value")
    BY <1>4, <2>1, EarnersEarnMost
  <2> QED BY <1>6, <2>1, <2>3, <2>4
<1> QED BY <1>1, <1>2, <1>7, <1>8

LEMMA TopCustomers ==
  ASSUME HistoryInv, NEW top \in Customers
  PROVE  /\ \A party \in DOMAIN top :
              /\ top[party].orders
                   = Cardinality({i \in DOMAIN OrderHistory(party) : orders[i].status = "COMPLETED"})
              /\ \A i \in Completed("OUTGOING") : DealOf(i).party \notin DOMAIN top \cup {NoOne} =>
                   Revenue({j \in Completed("OUTGOING") : DealOf(j).party = DealOf(i).party}) <= top[party].value
         /\ SumOver(top, "value") + Revenue({i \in Completed("OUTGOING") : DealOf(i).party \notin DOMAIN top})
              = Revenue(Completed("OUTGOING"))
<1>1. PICK S \in SUBSET Placed : S = Completed("OUTGOING")
  BY CompletedFacts
<1>2. PICK C \in SUBSET S : C = {i \in S : DealOf(i).party # NoOne}
  OBVIOUS
<1>3. PICK who : who = [i \in Placed |-> DealOf(i).party]
  OBVIOUS
<1>4. C \in SUBSET Placed /\ \A i \in C : who[i] = DealOf(i).party /\ DealOf(i).party # NoOne
  BY <1>2, <1>3
<1>5. PICK n : n = TopRows
  OBVIOUS
<1>6. top \in TopOf(GroupedBy(C, who), "value", n)
  BY <1>1, <1>2, <1>3, <1>5 DEF Customers, SalesByCustomer
<1>7. PICK D : D = DOMAIN top
  OBVIOUS
<1>t. TopAdds(top, C, who)
  BY <1>4, <1>6, TopAddsUp
<1>8. D \subseteq Keys(C, who) /\ NoOne \notin D
  <2>1. D \subseteq Keys(C, who)
    BY <1>7, <1>t DEF TopAdds
  <2> QED BY <1>4, <2>1 DEF Keys
<1>9. \A p : p # NoOne => Having(C, who, p) = {i \in S : DealOf(i).party = p}
  BY <1>2, <1>4 DEF Having
<1>10. ASSUME NEW party \in D
       PROVE  top[party].orders = Cardinality({i \in DOMAIN OrderHistory(party) : orders[i].status = "COMPLETED"})
  <2>1. top[party].orders = Cardinality(Having(C, who, party))
    BY <1>7, <1>t DEF TopAdds
  <2>2. Having(C, who, party) = {i \in S : DealOf(i).party = party}
    BY <1>8, <1>9
  <2>3. DOMAIN OrderHistory(party) = {j \in Placed : DealOf(j).type = "OUTGOING" /\ DealOf(j).party = party}
    BY DEF OrderHistory
  <2>4. {i \in DOMAIN OrderHistory(party) : orders[i].status = "COMPLETED"} = {i \in S : DealOf(i).party = party}
    BY <1>1, <2>3 DEF Completed, DealOf
  <2> QED BY <2>1, <2>2, <2>4
<1>11. ASSUME NEW party \in D, NEW p, p \notin D \cup {NoOne}
       PROVE  Revenue({j \in S : DealOf(j).party = p}) <= top[party].value
  <2>1. Revenue(Having(C, who, p)) <= top[party].value
    BY <1>4, <1>6, <1>7, <1>11, TopIsTop
  <2> QED BY <1>9, <1>11, <2>1
<1>12. SumOver(top, "value") + Revenue({i \in S : DealOf(i).party \notin D}) = Revenue(S)
  <2>1. PICK O : O = {i \in C : who[i] \notin D}
    OBVIOUS
  <2>2. PICK M : M = {i \in S : DealOf(i).party \notin D}
    OBVIOUS
  <2>3. M = O \cup (S \ C) /\ O \in SUBSET M /\ M \ O = S \ C /\ M \in SUBSET Placed
    BY <1>2, <1>4, <1>8, <2>1, <2>2
  <2>4. SumOver(top, "value") + Revenue(O) = Revenue(C)
    BY <1>7, <1>t, <2>1 DEF TopAdds
  <2>5. Revenue(S) = Revenue(C) + Revenue(S \ C)
    BY LessMoney
  <2>6. Revenue(M) = Revenue(O) + Revenue(S \ C)
    BY <2>3, LessMoney
  <2>7. Revenue(C) \in Int /\ Revenue(O) \in Int /\ Revenue(S \ C) \in Int
    <3>1. O \in SUBSET Placed /\ S \ C \in SUBSET Placed
      BY <2>3
    <3> QED BY <1>4, <3>1, SumsOfOrders
  <2>8. PICK t : t = SumOver(top, "value")
    OBVIOUS
  <2>9. Cardinality(D) \in Nat /\ t \in Int
    <3>1. IsFiniteSet(D) /\ \A k \in D : top[k]["value"] \in Int
      <4>1. IsFiniteSet(C)
        BY <1>4, OrderFacts, FS_Subset
      <4>2. IsFiniteSet(Keys(C, who))
        BY <4>1, ImageFinite DEF Keys
      <4>3. IsFiniteSet(D)
        BY <1>8, <4>2, FS_Subset
      <4>4. ASSUME NEW k \in D PROVE top[k]["value"] \in Int
        <5>1. PICK G \in SUBSET Placed : G = Having(C, who, k)
          BY <1>4 DEF Having
        <5>2. top[k]["value"] = Revenue(G)
          BY <1>7, <1>t, <5>1 DEF TopAdds
        <5> QED BY <5>2, SumsOfOrders
      <4> QED BY <4>3, <4>4
    <3>2. PICK q : q = [k \in D |-> top[k]["value"]]
      OBVIOUS
    <3>3. \A k \in D : q[k] \in Int
      BY <3>1, <3>2
    <3>4. Total(q, D) \in Int
      BY ONLY <3>1, <3>3, TotalType
    <3> QED BY <1>7, <2>8, <3>1, <3>2, <3>4, FS_CardinalityType DEF SumOver
  <2> QED BY <2>2, <2>4, <2>5, <2>6, <2>7, <2>8, <2>9
<1> QED BY <1>1, <1>7, <1>10, <1>11, <1>12

LEMMA TopIsThere ==
  ASSUME HistoryInv, CancellationsHold
  PROVE  {} \notin {BestSellers, BestEarners, Customers, TransferredMost, RecentlyCancelled}
<1>1. TopRows \in Nat /\ RecentRows \in Nat
  BY ExamplesAssumption
<1>2. BestSellers # {} /\ BestEarners # {}
  <2>1. PICK table : table = SalesByProduct
    OBVIOUS
  <2>2. IsTable(table, "units") /\ IsTable(table, "value")
    BY <2>1, CompletedFacts, GroupsAreTable DEF SalesByProduct
  <2> QED BY <1>1, <2>1, <2>2, TopExists DEF BestSellers, BestEarners
<1>3. Customers # {}
  <2>1. PICK table : table = SalesByCustomer
    OBVIOUS
  <2>2. {i \in Completed("OUTGOING") : DealOf(i).party # NoOne} \in SUBSET Placed
    BY CompletedFacts
  <2>3. IsTable(table, "value")
    BY <2>1, <2>2, GroupsAreTable DEF SalesByCustomer
  <2> QED BY <1>1, <2>1, <2>3, TopExists DEF Customers
<1>4. TransferredMost # {}
  <2>1. PICK table : table = TransfersByProduct
    OBVIOUS
  <2>2. IsTable(table, "units")
    BY <2>1, CompletedFacts, GroupsAreTable DEF TransfersByProduct
  <2> QED BY <1>1, <2>1, <2>2, TopExists DEF TransferredMost
<1>5. RecentlyCancelled # {}
  <2>1. PICK table : table = CancelledOrders
    OBVIOUS
  <2>2. DOMAIN table = CancelledOnes /\ \A i \in CancelledOnes : table[i] = [updatedAt |-> cancelledAt[i]]
    BY <2>1 DEF CancelledOrders, CancelledOnes
  <2>3. IsFiniteSet(CancelledOnes)
    <3>1. CancelledOnes \in SUBSET Placed
      BY DEF CancelledOnes
    <3> QED BY <3>1, OrderFacts, FS_Subset
  <2>4. \A i \in DOMAIN table : table[i]["updatedAt"] \in Int
    BY <2>2 DEF CancellationsHold
  <2>5. IsTable(table, "updatedAt")
    BY <2>2, <2>3, <2>4 DEF IsTable
  <2> QED BY <1>1, <2>1, <2>5, TopExists DEF RecentlyCancelled
<1> QED BY <1>2, <1>3, <1>4, <1>5

LEMMA TopIsTrue ==
  ASSUME HistoryInv, CancellationsHold
  PROVE  TopExamplesAgree
BY TopIsThere, TopProducts, TopCustomers DEF TopExamplesAgree

\* Warehouses and days.
LEMMA SalesByGroup ==
  ASSUME HistoryInv
  PROVE  /\ \A s \in DOMAIN ShippedFrom : ShippedFrom[s].units = Sold(WarehouseSales[s])
         /\ \A day \in DOMAIN DailySales : DailySales[day].value = Revenue(SalesTrends[day])
<1>1. PICK S \in SUBSET Placed : S = Completed("OUTGOING")
  BY CompletedFacts
<1>3. ASSUME NEW s \in DOMAIN ShippedFrom PROVE ShippedFrom[s].units = Sold(WarehouseSales[s])
  <2>1. PICK key : key = [i \in Placed |-> DealOf(i).src]
    OBVIOUS
  <2>2. ShippedFrom = GroupedBy(S, key)
    BY <1>1, <2>1 DEF ShippedFrom
  <2>3. s \in Keys(S, key)
    BY <1>3, <2>2, GroupedAdds
  <2>4. ShippedFrom[s].units = Sold(Having(S, key, s))
    BY <2>2, <2>3, GroupedAdds
  <2>5. \A i \in S : key[i] = orders[i].deal.src /\ orders[i].deal.src \in SitesOf
    BY <1>1, <2>1, CompletedFacts DEF DealOf
  <2>6. s \in SitesOf /\ Having(S, key, s) = {i \in S : orders[i].deal.src = s}
    BY <2>3, <2>5 DEF Keys, Having
  <2>7. Having(S, key, s) = WarehouseSales[s]
    BY <1>1, <2>6 DEF WarehouseSales
  <2> QED BY <2>4, <2>7
<1>4. ASSUME NEW day \in DOMAIN DailySales PROVE DailySales[day].value = Revenue(SalesTrends[day])
  <2>1. PICK key : key = CompletedOn
    OBVIOUS
  <2>2. PICK R \in SUBSET Placed : R = Recent(S) /\ R \subseteq S
    BY <1>1, RecentAre
  <2>3. DailySales = GroupedBy(R, key)
    BY <1>1, <2>1, <2>2 DEF DailySales
  <2>4. day \in Keys(R, key)
    BY <1>4, <2>3, GroupedAdds
  <2>5. DailySales[day].value = Revenue(Having(R, key, day))
    BY <2>3, <2>4, GroupedAdds
  <2>6. PICK first : first = DayOf(moment) - LastDays
    OBVIOUS
  <2>7. first \in Int
    BY <2>6, ExamplesAssumption DEF HistoryInv, DayOf
  <2>8. ASSUME NEW i \in S
        PROVE  /\ key[i] = DayOf(orders[i].actualDate) /\ key[i] \in 0..(Days - 1)
               /\ i \in R <=> key[i] >= first
    <3>1. key[i] = DayOf(orders[i].actualDate) /\ key[i] \in 0..(Days - 1)
      BY <1>1, <2>1, CompletedFacts DEF CompletedOn
    <3>2. PICK t \in Nat : t = orders[i].actualDate
      <4>1. orders[i].actualDate \in 0..moment /\ moment \in Nat
        BY <1>1, OrderFacts DEF Completed, HistoryInv
      <4> QED BY <4>1
    <3>3. i \in R <=> t >= 2 * first
      BY <2>2, <2>6, <3>2 DEF Recent, Midnight
    <3>4. t >= 2 * first <=> t \div 2 >= first
      BY <2>7
    <3> QED BY <3>1, <3>2, <3>3, <3>4 DEF DayOf
  <2>9. day \in 0..(Days - 1) /\ day >= first
    BY <2>2, <2>4, <2>8 DEF Keys
  <2>10. Having(R, key, day) = {i \in S : DayOf(orders[i].actualDate) = day}
    BY <2>2, <2>8, <2>9 DEF Having
  <2>11. Having(R, key, day) = SalesTrends[day]
    BY <1>1, <2>9, <2>10 DEF SalesTrends
  <2> QED BY <2>5, <2>11
<1> QED BY <1>3, <1>4

\* Months, and the days they have.
LEMMA MonthsAddUp ==
  ASSUME HistoryInv
  PROVE  SumOver(MonthlySales, "value")
           = RevenueBy([day \in {d \in DOMAIN SalesTrends : InLastYear(d)} |-> SalesTrends[day]])
<1>1. PICK trends : trends = SalesTrends
  OBVIOUS
<1>2. PICK days : days = {d \in DOMAIN trends : InLastYear(d)}
  OBVIOUS
<1>3. PICK M : M = {i \in Completed("OUTGOING") : InLastYear(DayOf(orders[i].actualDate))}
  OBVIOUS
<1>4. M \in SUBSET Placed
  BY <1>3, CompletedFacts
<1>5. PICK group : group = [day \in days |-> trends[day]]
  OBVIOUS
<1>6. SharesOut(trends, Completed("OUTGOING"))
  BY <1>1, ReportsShareOut
<1>7. DOMAIN trends = 0..(Days - 1)
      /\ \A d \in DOMAIN trends : trends[d] = {i \in Completed("OUTGOING") : DayOf(orders[i].actualDate) = d}
  BY <1>1 DEF SalesTrends
<1>8. SharesOut(group, M)
  <2>1. DOMAIN group = days /\ \A d \in days : group[d] = trends[d] /\ d \in DOMAIN trends /\ InLastYear(d)
    BY <1>2, <1>5
  <2>2. IsFiniteSet(DOMAIN group)
    <3>1. IsFiniteSet(DOMAIN trends)
      BY <1>6 DEF SharesOut
    <3>2. days \subseteq DOMAIN trends
      BY <1>2
    <3> QED BY <2>1, <3>1, <3>2, FS_Subset
  <2>3. \A d \in days : group[d] \subseteq M
    BY <1>3, <1>7, <2>1
  <2>4. ASSUME NEW i \in M PROVE \E d \in days : i \in group[d]
    <3>1. i \in Completed("OUTGOING") /\ InLastYear(DayOf(orders[i].actualDate))
      BY <1>3
    <3>2. PICK d : d = DayOf(orders[i].actualDate)
      OBVIOUS
    <3>3. d \in DOMAIN trends
      BY <1>7, <3>1, <3>2, CompletedFacts
    <3>4. d \in days /\ i \in trends[d]
      BY <1>2, <1>7, <3>1, <3>2, <3>3
    <3> QED BY <2>1, <3>4
  <2>5. \A k, l \in days : k # l => group[k] \cap group[l] = {}
    BY <1>6, <2>1 DEF SharesOut
  <2> QED BY <2>1, <2>2, <2>3, <2>4, <2>5 DEF SharesOut
<1>9. RevenueBy(group) = Revenue(M)
  BY <1>4, <1>8, GroupsAddUp
<1>10. PICK key : key = [i \in Placed |-> MonthOf(DayOf(orders[i].actualDate))]
  OBVIOUS
<1>11. MonthlySales = GroupedBy(M, key)
  BY <1>3, <1>10 DEF MonthlySales
<1>12. SumOver(MonthlySales, "value") = Revenue(M)
  BY <1>4, <1>11, GroupedAdds DEF Adds
<1> QED BY <1>1, <1>2, <1>5, <1>9, <1>12

LEMMA PricesAddUp ==
  ASSUME HistoryInv
  PROVE  SumOver(AveragePrices, "units") = Sold(Completed("INCOMING"))
<1>1. PICK B \in SUBSET Placed : B = Completed("INCOMING")
  BY CompletedFacts
<1>2. PICK key : key = [i \in Placed |-> <<DealOf(i).supplier, DealOf(i).good>>]
  OBVIOUS
<1>3. PICK G : G = Groups(B, key)
  OBVIOUS
<1>4. SharesOut(G, B) /\ DOMAIN G = Keys(B, key) /\ \A k \in DOMAIN G : G[k] = Having(B, key, k)
  BY <1>3, GroupsShareOut
<1>5. \A i \in B : key[i] = <<DealOf(i).supplier, DealOf(i).good>>
  BY <1>2
<1>6. DOMAIN AveragePrices = DOMAIN G
  <2>1. DOMAIN AveragePrices = {<<DealOf(i).supplier, DealOf(i).good>> : i \in B}
    BY <1>1 DEF AveragePrices
  <2>2. Keys(B, key) = {<<DealOf(i).supplier, DealOf(i).good>> : i \in B}
    BY <1>5 DEF Keys
  <2> QED BY <1>4, <2>1, <2>2
<1>7. ASSUME NEW k \in DOMAIN G PROVE AveragePrices[k]["units"] = Sold(G[k])
  <2>1. AveragePrices[k].units = Sold({i \in B : <<DealOf(i).supplier, DealOf(i).good>> = k})
    <3>1. k \in DOMAIN AveragePrices
      BY <1>6
    <3> QED BY <1>1, <3>1 DEF AveragePrices
  <2>2. G[k] = {i \in B : <<DealOf(i).supplier, DealOf(i).good>> = k}
    BY <1>4, <1>5 DEF Having
  <2> QED BY <2>1, <2>2
<1>8. [k \in DOMAIN AveragePrices |-> AveragePrices[k]["units"]] = [k \in DOMAIN G |-> Sold(G[k])]
  BY <1>6, <1>7
<1>9. SumOver(AveragePrices, "units") = SoldBy(G)
  BY <1>6, <1>8 DEF SumOver, SoldBy
<1> QED BY <1>1, <1>4, <1>9, GroupsAddUp

LEMMA TradeIs == HistoryInv /\ CancellationsHold => TradeExamplesAgree
<1> SUFFICES ASSUME HistoryInv, CancellationsHold PROVE TradeExamplesAgree
  OBVIOUS
<1>1. PICK S \in SUBSET Placed : S = Completed("OUTGOING")
  BY CompletedFacts
<1>2. PICK B \in SUBSET Placed : B = Completed("INCOMING")
  BY CompletedFacts
<1>3. PICK R \in SUBSET S : R = Recent(S)
  BY <1>1, RecentAre
<1>4. PICK T \in SUBSET B : T = Recent(B)
  BY <1>2, RecentAre
<1>5. PICK E \in SUBSET S : E = {i \in S : DealOf(i).country # NoOne}
  OBVIOUS
<1>6. R \in SUBSET Placed /\ T \in SUBSET Placed /\ E \in SUBSET Placed
  OBVIOUS
<1>7. Adds(DailySales, R) /\ Adds(ShippedFrom, S)
  BY <1>1, <1>3, <1>6, GroupedAdds DEF DailySales, ShippedFrom
<1>8. Adds(SpentWith, B) /\ Adds(DeliveredBy, B)
  BY <1>2, GroupedAdds DEF SpentWith, DeliveredBy
<1>9. PICK where : where = [i \in Placed |-> DealOf(i).country]
  OBVIOUS
<1>10. Countries = GroupedBy(E, where)
  BY <1>1, <1>5, <1>9 DEF Countries
<1>11. Adds(Countries, E)
  BY <1>6, <1>10, GroupedAdds
<1>12. Margin.revenue = Revenue(R) /\ Margin.cost = Revenue(T)
  BY <1>1, <1>2, <1>3, <1>4 DEF Margin
<1>13. SumOver(DailySales, "value") = Margin.revenue
  BY <1>7, <1>12 DEF Adds
<1>14. Margin.revenue <= Revenue(S) /\ Margin.cost <= SumOver(SpentWith, "value")
  <2>1. Revenue(R) <= Revenue(S) /\ Revenue(T) <= Revenue(B)
    BY LessMoney
  <2> QED BY <1>7, <1>8, <1>12, <2>1 DEF Adds
<1>15. SumOver(Countries, "orders") <= SumOver(ShippedFrom, "orders")
  <2>1. Cardinality(E) <= Cardinality(S)
    BY FewerOrders
  <2> QED BY <1>7, <1>11, <2>1 DEF Adds
<1>16. ASSUME NEW v \in DOMAIN DeliveredBy PROVE DeliveredBy[v].orders = Comparison(v).completed
  <2>1. PICK key : key = SupplierOf
    OBVIOUS
  <2>2. DeliveredBy = GroupedBy(B, key)
    BY <1>2, <2>1 DEF DeliveredBy
  <2>3. v \in Keys(B, key)
    BY <1>16, <2>2, GroupedAdds
  <2>4. DeliveredBy[v].orders = Cardinality(Having(B, key, v))
    BY <2>2, <2>3, GroupedAdds
  <2>5. \A i \in B : key[i] = orders[i].deal.supplier
    BY <2>1 DEF SupplierOf, DealOf
  <2>6. Having(B, key, v) = Status(Purchases(v), "COMPLETED")
    BY <1>2, <2>5 DEF Having, Status, Purchases, Completed
  <2>7. Comparison(v).completed = Cardinality(Status(Purchases(v), "COMPLETED"))
    BY DEF Comparison
  <2> QED BY <2>4, <2>6, <2>7
<1>17. SumOver(DeliveredBy, "units") = SumOver(AveragePrices, "units")
  BY <1>2, <1>8, PricesAddUp DEF Adds
<1> QED
  BY <1>1, <1>13, <1>14, <1>15, <1>16, <1>17, TopIsTrue, SalesByGroup, MonthsAddUp
  DEF TradeExamplesAgree

LEMMA OverdueIs == HistoryInv => OverdueExampleAgrees
<1> SUFFICES ASSUME HistoryInv PROVE OverdueExampleAgrees
  OBVIOUS
<1>1. PICK now \in Nat : now = moment
  BY DEF HistoryInv
<1>2. PICK today \in Nat : today = DayOf(moment) /\ 2 * today <= now /\ now <= 2 * today + 1
  BY <1>1 DEF DayOf
<1>3. StartOfToday = 2 * today
  BY <1>2 DEF StartOfToday, Midnight
<1>4. Midnight(DayOf(moment) + Window + 1) - 1 = 2 * (today + Window + 1) - 1 /\ Window \in Nat
  BY <1>2, HistoryAssumption DEF Midnight
<1>5. PendingOf("INCOMING") \subseteq Placed
      /\ \A i \in PendingOf("INCOMING") : orders[i].status = "PENDING"
  BY DEF PendingOf
<1>6. ASSUME NEW i \in PendingOf("INCOMING"), orders[i].expectedDate # NoOne
      PROVE  /\ i \in Overdue => i \in OverdueDeliveries
             /\ i \in OverdueDeliveries => i \in Overdue \/ i \in Upcoming
             /\ i \in OverdueDeliveries /\ i \notin Overdue => orders[i].expectedDate = StartOfToday
  <2>1. PICK e \in Nat : e = orders[i].expectedDate
    BY <1>5, <1>6 DEF HistoryInv, OrderHolds, OrderRow
  <2>2. i \in Pendings
    BY <1>5, <1>6 DEF Pendings
  <2>3. i \in Overdue <=> e < 2 * today
    BY <1>3, <2>1, <2>2 DEF Overdue
  <2>4. i \in OverdueDeliveries <=> e < now
    BY <1>1, <1>6, <2>1 DEF OverdueDeliveries
  <2>5. i \in Upcoming <=> e >= 2 * today /\ e <= 2 * (today + Window + 1) - 1
    BY <1>3, <1>4, <2>1, <2>2 DEF Upcoming
  <2>6. e < 2 * today => e < now
    BY <1>2
  <2>7. e < now => e < 2 * today \/ (e >= 2 * today /\ e <= 2 * (today + Window + 1) - 1)
    BY <1>2, <1>4
  <2>8. e < now /\ ~(e < 2 * today) => e = 2 * today
    BY <1>2
  <2> QED BY <1>3, <2>1, <2>3, <2>4, <2>5, <2>6, <2>7, <2>8
<1>7. \A i \in OverdueDeliveries : i \in PendingOf("INCOMING") /\ orders[i].expectedDate # NoOne
  BY DEF OverdueDeliveries
<1>8. \A i \in Overdue : orders[i].expectedDate # NoOne
  BY DEF Overdue, Pendings
<1>9. OverdueDeliveries \subseteq DOMAIN PendingDeliveries
  BY <1>7 DEF PendingDeliveries
<1>10. Overdue \cap PendingOf("INCOMING") \subseteq OverdueDeliveries
  BY <1>6, <1>8
<1>11. OverdueDeliveries \subseteq Overdue \cup Upcoming
  BY <1>6, <1>7
<1>12. \A i \in OverdueDeliveries \ Overdue : orders[i].expectedDate = StartOfToday
  BY <1>6, <1>7
<1> QED BY <1>9, <1>10, <1>11, <1>12 DEF OverdueExampleAgrees

\* The movements of one type that belong to some orders.
MovesOf(type, S) == {m \in Movements : m.type = type /\ m.order \in S}

LEMMA MovesOfOrders ==
  ASSUME HistoryInv, NEW type \in MovementTypes, NEW S, S \subseteq Completed(DealOfMovement(type))
  PROVE  /\ IsFiniteSet(MovesOf(type, S)) /\ Units(MovesOf(type, S)) = Sold(S)
         /\ \A i \in S : \E m \in MovesOf(type, S) : m.order = i
<1>1. PICK T : T = MovesOf(type, S)
  OBVIOUS
<1>2. PICK b : b = [i \in S |-> MovementAt(i, type, SiteOfMovement(i, type))]
  OBVIOUS
<1>3. S \in SUBSET Placed /\ IsFiniteSet(S)
  <2>1. S \in SUBSET Placed
    BY DEF Completed
  <2> QED BY <2>1, OrderFacts, FS_Subset
<1>4. \A i \in S : b[i].type = type /\ b[i].quantity = orders[i].deal.quantity /\ b[i].order = i
  BY <1>2 DEF MovementAt
<1>5. \A i \in S : b[i] \in T
  <2>1. ASSUME NEW i \in S PROVE b[i] \in Movements
    BY <1>2, MovementsAre
  <2> QED BY <1>1, <1>4, <2>1 DEF MovesOf
<1>6. \A m \in T : m.order \in S /\ b[m.order] = m
  <2>1. ASSUME NEW m \in T PROVE m.order \in S /\ b[m.order] = m
    <3>1. m \in Movements /\ m.type = type /\ m.order \in S
      BY <1>1 DEF MovesOf
    <3>2. m = MovementAt(m.order, m.type, SiteOfMovement(m.order, m.type))
      BY <3>1, MovementFacts
    <3> QED BY <1>2, <3>1, <3>2
  <2> QED BY <2>1
<1>7. \A t \in T : \E i \in S : b[i] = t
  BY <1>6
<1>8. \A i, j \in S : b[i] = b[j] => i = j
  BY <1>4
<1>9. IsFiniteSet(T)
  <2>1. b \in Surjection(S, T)
    BY <1>2, <1>5, <1>7 DEF Surjection
  <2> QED BY <1>3, <2>1, FS_Surjection
<1>10. PICK q : q = Quantities
  OBVIOUS
<1>11. PICK p : p = [m \in T |-> m.quantity]
  OBVIOUS
<1>12. \A i \in S : q[i] \in Int /\ q[i] = orders[i].deal.quantity
  BY <1>3, <1>10, OrderFacts DEF Quantities
<1>13. \A i \in S : b[i] \in T /\ p[b[i]] = q[i] /\ q[i] \in Int
  BY <1>4, <1>5, <1>11, <1>12
<1>14. Total(p, T) = Total(q, S)
  BY ONLY <1>3, <1>7, <1>8, <1>9, <1>13, TotalRenamed
<1>15. Units(T) = Total(p, T)
  BY <1>11 DEF Units
<1>16. Sold(S) = Total(q, S)
  BY <1>3, <1>10, SumsOfOrders
<1>17. \A i \in S : \E m \in T : m.order = i
  BY <1>4, <1>5
<1> QED BY <1>1, <1>9, <1>14, <1>15, <1>16, <1>17

\* In the ledger the movements of orders have one of the types of movements.
LEMMA LedgerOfType ==
  ASSUME ExamplesInv, NEW type \in MovementTypes
  PROVE  /\ {m \in Ledger : m.type = type} = MovesOf(type, Completed(DealOfMovement(type)))
         /\ \A m \in Ledger : m.type = type => m \in Movements
<1>1. \A k \in DOMAIN counts : counts[k].type = "ADJUSTMENT"
  <2>1. \A k \in DOMAIN counts : counts[k] \in Adjustment
    BY DEF ExamplesInv, CountsHold
  <2> QED BY <2>1 DEF Adjustment
<1>2. type # "ADJUSTMENT"
  BY DEF MovementTypes
<1>3. \A m \in Ledger : m.type = type => m \in Movements
  BY <1>1, <1>2 DEF Ledger
<1>4. \A m \in Movements : m \in Ledger /\ (m.type = type => m.order \in Completed(DealOfMovement(type)))
  BY MovementFacts DEF ExamplesInv, Ledger
<1> QED BY <1>3, <1>4 DEF MovesOf

LEMMA LedgerExplains ==
  ASSUME ExamplesInv
  PROVE  /\ DOMAIN LedgerDifferences = {}
         /\ \A r \in DOMAIN inventory :
              inventory[r] = Net(LedgerAt(Ledger \ Since(Ledger), r))
                            + (IF r \in DOMAIN NetChange THEN NetChange[r] ELSE 0)
<1>1. \A r \in DOMAIN inventory : inventory[r] = Net(LedgerAt(Ledger, r))
  BY DEF ExamplesInv, StockFollows
<1>2. DOMAIN LedgerDifferences = {}
  BY <1>1 DEF LedgerDifferences
<1>3. ASSUME NEW r \in DOMAIN inventory
      PROVE  inventory[r] = Net(LedgerAt(Ledger \ Since(Ledger), r))
                            + (IF r \in DOMAIN NetChange THEN NetChange[r] ELSE 0)
  <2>1. PICK M : M = LedgerAt(Ledger, r)
    OBVIOUS
  <2>2. PICK N : N = LedgerAt(Since(Ledger), r)
    OBVIOUS
  <2>3. N \subseteq M /\ M \ N = LedgerAt(Ledger \ Since(Ledger), r) /\ M \subseteq Ledger
    BY <2>1, <2>2 DEF LedgerAt, Since
  <2>4. IsFiniteSet(M) /\ \A m \in M : Signed(m) \in Int
    <3>1. IsFiniteSet(Ledger) /\ \A m \in Ledger : Signed(m) \in Int
      BY LedgerFacts DEF ExamplesInv
    <3> QED BY <2>3, <3>1, FS_Subset
  <2>5. Net(M) = Net(N) + Net(M \ N)
    BY <2>3, <2>4, NetOf
  <2>6. Net(N) \in Int /\ Net(M \ N) \in Int
    <3>1. IsFiniteSet(N) /\ IsFiniteSet(M \ N)
      BY <2>3, <2>4, FS_Subset
    <3> QED BY <2>3, <2>4, <3>1, NetOf
  <2>7. (IF r \in DOMAIN NetChange THEN NetChange[r] ELSE 0) = Net(N)
    <3>1. CASE r \in DOMAIN NetChange
      BY <2>2, <3>1 DEF NetChange
    <3>2. CASE r \notin DOMAIN NetChange
      <4>1. N = {}
        BY <2>2, <3>2 DEF NetChange, LedgerAt
      <4> QED BY <3>2, <4>1, NetOfNothing
    <3> QED BY <3>1, <3>2
  <2> QED BY <1>1, <2>1, <2>3, <2>5, <2>6, <2>7
<1> QED BY <1>2, <1>3

LEMMA TransfersBalance ==
  ASSUME ExamplesInv
  PROVE  /\ SumOver(BusiestRoutes, "units") = Units({m \in Ledger : m.type = "TRANSFER_OUT"})
         /\ SumOver(BusiestRoutes, "units") = Units({m \in Ledger : m.type = "TRANSFER_IN"})
         /\ \A top \in TransferredMost :
              SumOver(top, "units") + Sold({i \in Completed("TRANSFER") : GoodOf[i] \notin DOMAIN top})
                = SumOver(BusiestRoutes, "units")
<1>1. HistoryInv
  BY DEF ExamplesInv
<1>2. PICK S \in SUBSET Placed : S = Completed("TRANSFER")
  BY <1>1, CompletedFacts
<1>3. PICK route : route = [i \in Placed |-> <<DealOf(i).src, DealOf(i).dst>>]
  OBVIOUS
<1>4. BusiestRoutes = GroupedBy(S, route)
  BY <1>2, <1>3 DEF BusiestRoutes
<1>5. SumOver(BusiestRoutes, "units") = Sold(S)
  BY <1>1, <1>4, GroupedAdds DEF Adds
<1>6. ASSUME NEW type \in {"TRANSFER_OUT", "TRANSFER_IN"}
      PROVE  Units({m \in Ledger : m.type = type}) = Sold(S)
  <2>1. type \in MovementTypes /\ DealOfMovement(type) = "TRANSFER"
    BY DEF MovementTypes, DealOfMovement
  <2>2. Units(MovesOf(type, S)) = Sold(S)
    BY <1>1, <1>2, <2>1, MovesOfOrders
  <2> QED BY <1>2, <2>1, <2>2, LedgerOfType
<1>7. ASSUME NEW top \in TransferredMost
      PROVE  SumOver(top, "units") + Sold({i \in S : GoodOf[i] \notin DOMAIN top}) = Sold(S)
  <2>1. PICK key : key = GoodOf
    OBVIOUS
  <2>2. PICK n : n = TopRows
    OBVIOUS
  <2>3. top \in TopOf(GroupedBy(S, key), "units", n)
    BY <1>2, <2>1, <2>2 DEF TransferredMost, TransfersByProduct
  <2>4. TopAdds(top, S, key)
    BY <1>1, <2>3, TopAddsUp
  <2> QED BY <2>1, <2>4 DEF TopAdds
<1> QED BY <1>2, <1>5, <1>6, <1>7

\* The transfers of the last days, and what they brought to the warehouses.
LEMMA RecentTransfersAre ==
  ASSUME ExamplesInv
  PROVE  Total(RecentTransfers, DOMAIN RecentTransfers)
           = Total(MovedByWarehouse, {k \in DOMAIN MovedByWarehouse : k[2] = "TRANSFER_IN"})
<1>1. HistoryInv
  BY DEF ExamplesInv
<1>2. PICK S \in SUBSET Placed : S = Completed("TRANSFER")
  BY <1>1, CompletedFacts
<1>3. PICK R \in SUBSET S : R = Recent(S)
  BY <1>1, <1>2, RecentAre
<1>4. PICK M : M = MovesOf("TRANSFER_IN", R)
  OBVIOUS
<1>5. "TRANSFER_IN" \in MovementTypes /\ DealOfMovement("TRANSFER_IN") = "TRANSFER"
  BY DEF MovementTypes, DealOfMovement
<1>6. IsFiniteSet(M) /\ Units(M) = Sold(R)
  BY <1>1, <1>2, <1>4, <1>5, MovesOfOrders
<1>7. {m \in Since(Ledger) : m.type = "TRANSFER_IN"} = M
  <2>1. ASSUME NEW m \in Ledger, m.type = "TRANSFER_IN"
        PROVE  m \in Since(Ledger) <=> m \in M
    <3>1. m \in Movements /\ m.order \in S
      BY <1>2, <1>5, <2>1, LedgerOfType DEF MovesOf
    <3>2. m = MovementAt(m.order, m.type, SiteOfMovement(m.order, m.type))
      BY <1>1, <3>1, MovementFacts
    <3>3. m.at = orders[m.order].actualDate
      BY <3>2 DEF MovementAt
    <3> QED BY <1>3, <1>4, <2>1, <3>1, <3>3 DEF Since, Recent, MovesOf
  <2>2. \A m \in M : m \in Ledger /\ m.type = "TRANSFER_IN"
    BY <1>4 DEF MovesOf, Ledger
  <2> QED BY <2>1, <2>2 DEF Since
<1>8. \A m \in M : m.quantity \in Int
  <2>1. \A m \in Ledger : m.quantity \in Int
    BY LedgerFacts DEF ExamplesInv
  <2> QED BY <1>7, <2>1 DEF Since
<1>9. PICK moved : moved = MovedByWarehouse
  OBVIOUS
<1>10. PICK K : K = {k \in DOMAIN moved : k[2] = "TRANSFER_IN"}
  OBVIOUS
<1>11. PICK q : q = [m \in M |-> m.quantity]
  OBVIOUS
<1>12. PICK G : G = [k \in K |-> {m \in Since(Ledger) : <<m.site, m.type>> = k}]
  OBVIOUS
<1>13. K = {<<m.site, m.type>> : m \in M}
  <2>1. DOMAIN moved = {<<m.site, m.type>> : m \in Since(Ledger)}
    BY <1>9 DEF MovedByWarehouse
  <2> QED BY <1>7, <1>10, <2>1
<1>14. IsFiniteSet(K)
  <2>1. PICK key : key = [m \in M |-> <<m.site, m.type>>]
    OBVIOUS
  <2>2. {key[m] : m \in M} = K
    BY <1>13, <2>1
  <2>3. IsFiniteSet({key[m] : m \in M})
    BY <1>6, ImageFinite
  <2> QED BY <2>2, <2>3
<1>15. ASSUME NEW k \in K PROVE G[k] \subseteq M /\ moved[k] = Total(q, G[k])
  <2>1. G[k] = {m \in Since(Ledger) : <<m.site, m.type>> = k} /\ k[2] = "TRANSFER_IN"
    BY <1>10, <1>12
  <2>2. G[k] \subseteq M
    BY <1>7, <2>1
  <2>3. moved[k] = Units(G[k])
    BY <1>9, <1>10, <2>1 DEF MovedByWarehouse
  <2>4. IsFiniteSet(G[k])
    BY <1>6, <2>2, FS_Subset
  <2>5. PICK p : p = [m \in G[k] |-> m.quantity]
    OBVIOUS
  <2>6. \A m \in G[k] : p[m] = q[m]
    BY <1>11, <2>2, <2>5
  <2>7. Total(p, G[k]) = Total(q, G[k])
    BY <2>4, <2>6, TotalAgrees
  <2> QED BY <2>2, <2>3, <2>5, <2>7 DEF Units
<1>16. \A m \in M : \E k \in K : m \in G[k]
  <2>1. ASSUME NEW m \in M PROVE <<m.site, m.type>> \in K /\ m \in G[<<m.site, m.type>>]
    <3>1. m \in Since(Ledger) /\ <<m.site, m.type>> \in K
      BY <1>7, <1>13
    <3> QED BY <1>12, <3>1
  <2> QED BY <2>1
<1>17. \A k, l \in K : k # l => G[k] \cap G[l] = {}
  BY <1>12
<1>18. \A m \in M : q[m] \in Int
  BY <1>8, <1>11
<1>19. Total(moved, K) = Total(q, M)
  BY ONLY <1>6, <1>14, <1>15, <1>16, <1>17, <1>18, TotalOfGroups
<1>20. Total(moved, K) = Sold(R)
  BY <1>6, <1>11, <1>19 DEF Units
<1>21. Total(RecentTransfers, DOMAIN RecentTransfers) = Sold(R)
  <2>1. PICK a : a = RecentTransfers
    OBVIOUS
  <2>2. PICK u : u = Quantities
    OBVIOUS
  <2>3. DOMAIN a = R
    BY <1>2, <1>3, <2>1 DEF RecentTransfers
  <2>4. R \in SUBSET Placed /\ IsFiniteSet(R)
    <3>1. R \in SUBSET Placed
      OBVIOUS
    <3> QED BY <1>1, <3>1, OrderFacts, FS_Subset
  <2>5. ASSUME NEW i \in R PROVE a[i] = u[i]
    <3>1. a[i] = Sold({i})
      BY <1>2, <1>3, <2>1 DEF RecentTransfers
    <3>2. Sold({i}) = Total(u, {i})
      <4>1. {i} \in SUBSET Placed
        BY <2>4
      <4> QED BY <1>1, <2>2, <4>1, SumsOfOrders
    <3>3. u[i] \in Int
      BY <1>1, <2>2, <2>4, OrderFacts DEF Quantities
    <3>4. Total(u, {i}) = u[i] + Total(u, {i} \ {i})
      <4>1. IsFiniteSet({i}) /\ i \in {i} /\ \A x \in {i} : u[x] \in Int
        BY <3>3, FS_Singleton
      <4> QED BY ONLY <4>1, TotalWithout
    <3>5. {i} \ {i} = {}
      OBVIOUS
    <3> QED BY <3>1, <3>2, <3>3, <3>4, <3>5, TotalEmpty
  <2>6. Total(a, R) = Total(u, R)
    BY <2>4, <2>5, TotalAgrees
  <2> QED BY <1>1, <2>1, <2>2, <2>3, <2>4, <2>6, SumsOfOrders
<1> QED BY <1>9, <1>10, <1>20, <1>21

LEMMA MaxIsOne ==
  ASSUME NEW S, IsFiniteSet(S), S # {}, NEW q, \A x \in S : q[x] \in Int
  PROVE  \E x \in S : Max({q[y] : y \in S}) = q[x]
<1>1. PICK m \in S : \A x \in S : q[m] >= q[x]
  BY LargestExists
<1> DEFINE V == {q[x] : x \in S}
<1>2. q[m] \in V /\ \A v \in V : q[m] >= v
  BY <1>1
<1>3. Max(V) \in V
  BY <1>2 DEF Max
<1> QED BY <1>3

\* The last sale of a product is in the ledger, and decides what is dead.
LEMMA LastSales ==
  ASSUME ExamplesInv, NEW g \in Products
  PROVE  /\ LastTrades[g].sold # NoOne => LastTrades[g].sold \in {m.at : m \in LedgerOf(g)}
         /\ (\A s \in Storehouses : DeadStock(g, s))
              <=> (LastTrades[g].sold = NoOne \/ LastTrades[g].sold <= moment - 2 * IdleDays)
<1>1. HistoryInv
  BY DEF ExamplesInv
<1>2. PICK A : A = {i \in Completed("OUTGOING") : GoodOf[i] = g}
  OBVIOUS
<1>3. A \in SUBSET Placed /\ IsFiniteSet(A) /\ A \subseteq Completed("OUTGOING")
      /\ \A i \in A : orders[i].deal.good = g /\ orders[i].actualDate \in Nat
  <2>1. A \in SUBSET Placed /\ A \subseteq Completed("OUTGOING")
    BY <1>1, <1>2, CompletedFacts
  <2>2. IsFiniteSet(A)
    BY <1>1, <2>1, OrderFacts, FS_Subset
  <2>3. \A i \in A : orders[i].deal.good = g
    BY <1>2, <2>1 DEF GoodOf, DealOf
  <2>4. \A i \in A : orders[i].actualDate \in 0..moment
    BY <1>1, <2>1, OrderFacts DEF Completed
  <2> QED BY <1>1, <2>1, <2>2, <2>3, <2>4 DEF HistoryInv
<1>4. PICK last : last = LastTrades[g].sold
  OBVIOUS
<1>5. last = Latest(A)
  BY <1>2, <1>4 DEF LastTrades
<1>6. PICK limit \in Int : limit = moment - 2 * IdleDays
  BY <1>1, HistoryAssumption DEF HistoryInv
<1>7. \A s : DeadStock(g, s) <=> \A m \in Sales(g, s) : m.at <= limit
  BY <1>6 DEF DeadStock
\* The movement of a sale.
<1>8. ASSUME NEW s, NEW m \in Sales(g, s) PROVE m.order \in A /\ m.at = orders[m.order].actualDate
  <2>1. m \in Movements /\ m.type = "OUTGOING" /\ m.good = g
    BY DEF Sales
  <2>2. m.order \in Completed("OUTGOING") /\ m = MovementAt(m.order, m.type, SiteOfMovement(m.order, m.type))
    BY <1>1, <2>1, MovementFacts DEF DealOfMovement
  <2>3. m.at = orders[m.order].actualDate /\ m.good = orders[m.order].deal.good
    BY <2>2 DEF MovementAt
  <2> QED BY <1>1, <1>2, <2>1, <2>2, <2>3, CompletedFacts DEF GoodOf, DealOf
<1>9. ASSUME NEW i \in A
      PROVE  \E s \in Storehouses : \E m \in Sales(g, s) : m \in LedgerOf(g) /\ m.at = orders[i].actualDate
  <2>1. "OUTGOING" \in MovementTypes /\ DealOfMovement("OUTGOING") = "OUTGOING"
    BY DEF MovementTypes, DealOfMovement
  <2>2. PICK m : m = MovementAt(i, "OUTGOING", SiteOfMovement(i, "OUTGOING"))
    OBVIOUS
  <2>3. m \in Movements
    BY <1>1, <1>3, <2>1, <2>2, MovementsAre
  <2>4. m.type = "OUTGOING" /\ m.good = g /\ m.at = orders[i].actualDate
    BY <1>3, <2>2 DEF MovementAt
  <2>5. m.site \in Storehouses
    BY <1>1, <2>3, MovementFacts
  <2> QED BY <2>3, <2>4, <2>5 DEF Sales, LedgerOf, Ledger
<1>10. CASE A = {}
  <2>1. last = NoOne
    BY <1>5, <1>10 DEF Latest
  <2>2. \A s : Sales(g, s) = {}
    BY <1>8, <1>10
  <2> QED BY <1>4, <1>7, <2>1, <2>2
<1>11. CASE A # {}
  <2>1. PICK q : q = [i \in A |-> orders[i].actualDate]
    OBVIOUS
  <2>2. \A i \in A : q[i] = orders[i].actualDate /\ q[i] \in Int
    BY <1>3, <2>1
  <2>3. last = Max({q[i] : i \in A})
    <3>1. {q[i] : i \in A} = {orders[i].actualDate : i \in A}
      BY <2>2
    <3> QED BY <1>5, <1>11, <3>1 DEF Latest
  <2>4. last \in Int /\ \A i \in A : last >= q[i]
    BY <1>3, <1>11, <2>2, <2>3, MaxOfValues
  <2>5. PICK i \in A : last = q[i]
    <3>1. IsFiniteSet(A) /\ A # {} /\ \A x \in A : q[x] \in Int
      BY <1>3, <1>11, <2>2
    <3>2. \E x \in A : Max({q[y] : y \in A}) = q[x]
      BY ONLY <3>1, MaxIsOne
    <3> QED BY ONLY <2>3, <3>2
  <2>6. last # NoOne
    BY <2>4, HistoryAssumption
  <2>7. PICK s \in Storehouses : \E m \in Sales(g, s) : m \in LedgerOf(g) /\ m.at = orders[i].actualDate
    BY <1>9
  <2>8. PICK m \in Sales(g, s) : m \in LedgerOf(g) /\ m.at = last
    BY <2>2, <2>5, <2>7
  <2>9. (\A t \in Storehouses : DeadStock(g, t)) => last <= limit
    BY <1>7, <2>8
  <2>10. ASSUME last <= limit, NEW t \in Storehouses, NEW n \in Sales(g, t) PROVE n.at <= limit
    <3>1. n.order \in A /\ n.at = q[n.order]
      BY <1>8, <2>2
    <3>2. n.at \in Int /\ last >= n.at
      BY <2>2, <2>4, <3>1
    <3> QED BY <2>4, <2>10, <3>2
  <2>11. last <= limit => \A t \in Storehouses : DeadStock(g, t)
    BY <1>7, <2>10
  <2> QED BY <1>4, <1>6, <2>6, <2>8, <2>9, <2>11
<1> QED BY <1>10, <1>11

\* Transactions by type and status, by product, and those that are cancelled.
LEMMA CountsAddUp ==
  ASSUME HistoryInv
  PROVE  /\ Total(TransactionCounts, DOMAIN TransactionCounts)
              = Total([g \in Products |-> Cardinality(DOMAIN TransactionsOf(g))], Products)
         /\ Total(TransactionCounts, {k \in DOMAIN TransactionCounts : k[2] = "CANCELLED"})
              = Cardinality(CancelledOnes)
<1>1. PICK key : key = [i \in Placed |-> <<DealOf(i).type, orders[i].status>>]
  OBVIOUS
<1>2. PICK table : table = TransactionCounts
  OBVIOUS
<1>3. PICK S : S = Placed
  OBVIOUS
<1>4. S \in SUBSET Placed /\ IsFiniteSet(S) /\ \A i \in S : key[i] = <<DealOf(i).type, orders[i].status>>
  BY <1>1, <1>3, OrderFacts
<1>5. table = [k \in Keys(S, key) |-> Cardinality(Having(S, key, k))]
  <2>1. Keys(S, key) = {<<DealOf(i).type, orders[i].status>> : i \in Placed}
    BY <1>3, <1>4 DEF Keys
  <2>2. \A k : Having(S, key, k) = {i \in Placed : <<DealOf(i).type, orders[i].status>> = k}
    BY <1>3, <1>4 DEF Having
  <2> QED BY <1>2, <2>1, <2>2 DEF TransactionCounts
<1>6. Total(table, DOMAIN table) = Cardinality(S)
  <2>1. PICK G : G = Groups(S, key)
    OBVIOUS
  <2>2. SharesOut(G, S) /\ DOMAIN G = Keys(S, key) /\ \A k \in DOMAIN G : G[k] = Having(S, key, k)
    BY <1>4, <2>1, GroupsShareOut
  <2>3. table = [k \in DOMAIN G |-> Cardinality(G[k])] /\ DOMAIN table = DOMAIN G
    BY <1>5, <2>2
  <2> QED BY <1>4, <2>2, <2>3, GroupsCount
<1>7. Total([g \in Products |-> Cardinality(DOMAIN TransactionsOf(g))], Products) = Cardinality(S)
  <2>1. PICK G : G = [g \in Products |-> {i \in S : orders[i].deal.good = g}]
    OBVIOUS
  <2>2. DOMAIN G = Products /\ \A g \in Products : G[g] = {i \in S : orders[i].deal.good = g}
    BY <2>1
  <2>3. \A g \in Products : DOMAIN TransactionsOf(g) = G[g]
    <3>1. \A g : DOMAIN TransactionsOf(g) = {j \in Placed : GoodOf[j] = g}
      BY DEF TransactionsOf
    <3>2. \A j \in Placed : GoodOf[j] = orders[j].deal.good
      BY DEF GoodOf, DealOf
    <3>3. \A g : {j \in Placed : GoodOf[j] = g} = {i \in S : orders[i].deal.good = g}
      BY <1>3, <3>2
    <3> QED BY <2>2, <3>1, <3>3
  <2>4. SharesOut(G, S)
    <3>1. IsFiniteSet(Products) /\ \A i \in S : orders[i].deal.good \in Products
      BY <1>3, OrderFacts, ExamplesAssumption
    <3>2. \A g \in DOMAIN G : G[g] \subseteq S
      BY <2>2
    <3>3. \A i \in S : \E g \in DOMAIN G : i \in G[g]
      BY <2>2, <3>1
    <3>4. \A g, h \in DOMAIN G : g # h => G[g] \cap G[h] = {}
      BY <2>2
    <3> QED BY <2>2, <3>1, <3>2, <3>3, <3>4 DEF SharesOut
  <2>5. PICK p : p = [g \in DOMAIN G |-> Cardinality(G[g])]
    OBVIOUS
  <2>6. Total(p, DOMAIN G) = Cardinality(S)
    BY <1>4, <2>4, <2>5, GroupsCount
  <2>7. [g \in Products |-> Cardinality(DOMAIN TransactionsOf(g))] = p
    BY <2>2, <2>3, <2>5
  <2> QED BY <2>2, <2>6, <2>7
<1>8. Total(table, {k \in DOMAIN table : k[2] = "CANCELLED"}) = Cardinality(CancelledOnes)
  <2>1. PICK C : C = CancelledOnes
    OBVIOUS
  <2>2. C \in SUBSET Placed /\ C = {i \in S : orders[i].status = "CANCELLED"}
    BY <1>3, <2>1 DEF CancelledOnes
  <2>3. IsFiniteSet(C)
    BY <1>4, <2>2, FS_Subset
  <2>4. PICK G : G = Groups(C, key)
    OBVIOUS
  <2>5. SharesOut(G, C) /\ DOMAIN G = Keys(C, key) /\ \A k \in DOMAIN G : G[k] = Having(C, key, k)
    BY <2>2, <2>4, GroupsShareOut
  <2>6. PICK K : K = {k \in DOMAIN table : k[2] = "CANCELLED"}
    OBVIOUS
  <2>7. \A i \in S : key[i][2] = orders[i].status
    BY <1>4
  <2>8. K = DOMAIN G
    <3>1. DOMAIN table = {key[i] : i \in S}
      BY <1>5 DEF Keys
    <3>2. DOMAIN G = {key[i] : i \in C}
      BY <2>5 DEF Keys
    <3> QED BY <2>2, <2>6, <2>7, <3>1, <3>2
  <2>9. ASSUME NEW k \in K PROVE table[k] = Cardinality(G[k])
    <3>1. k \in DOMAIN table /\ k[2] = "CANCELLED"
      BY <2>6
    <3>2. table[k] = Cardinality(Having(S, key, k))
      BY <1>5, <3>1
    <3>3. Having(S, key, k) = Having(C, key, k)
      BY <2>2, <2>7, <3>1 DEF Having
    <3> QED BY <2>5, <2>8, <3>2, <3>3
  <2>10. PICK p : p = [k \in DOMAIN G |-> Cardinality(G[k])]
    OBVIOUS
  <2>11. Total(p, DOMAIN G) = Cardinality(C)
    BY <2>3, <2>5, <2>10, GroupsCount
  <2>12. IsFiniteSet(K) /\ \A k \in K : table[k] = p[k]
    BY <2>5, <2>8, <2>9, <2>10 DEF SharesOut
  <2>13. Total(table, K) = Total(p, K)
    BY ONLY <2>12, TotalAgrees
  <2> QED BY <2>1, <2>6, <2>8, <2>11, <2>13
<1> QED BY <1>2, <1>6, <1>7, <1>8

LEMMA RecentlyCancelledAre ==
  ASSUME ExamplesInv, NEW top \in RecentlyCancelled
  PROVE  /\ Cardinality(DOMAIN top)
              = Min({RecentRows, Total(TransactionCounts, {k \in DOMAIN TransactionCounts : k[2] = "CANCELLED"})})
         /\ \A i \in DOMAIN top \cap DOMAIN reservations : reservations[i].status = "CANCELLED"
<1>1. HistoryInv /\ ReservationsFollow
  BY DEF ExamplesInv
<1>2. PICK table : table = CancelledOrders
  OBVIOUS
<1>3. DOMAIN table = CancelledOnes
  BY <1>2 DEF CancelledOrders, CancelledOnes
<1>4. DOMAIN top \subseteq CancelledOnes /\ Cardinality(DOMAIN top) = Min({RecentRows, Cardinality(CancelledOnes)})
  <2>1. PICK n : n = RecentRows
    OBVIOUS
  <2>2. PICK column : column = "updatedAt"
    OBVIOUS
  <2>3. top \in TopOf(table, column, n)
    BY <1>2, <2>1, <2>2 DEF RecentlyCancelled
  <2>4. IsTop(top, table, column, n)
    BY <2>3, TopIs
  <2> QED BY <1>3, <2>1, <2>4 DEF IsTop
<1>5. ASSUME NEW i \in CancelledOnes, i \in DOMAIN reservations PROVE reservations[i].status = "CANCELLED"
  <2>1. i \in Takers
    BY <1>1, <1>5, ReservationFacts
  <2>2. PICK o : o = orders[i]
    OBVIOUS
  <2>3. reservations[i] = ReservationOf(o) /\ o.status = "CANCELLED"
    BY <1>1, <2>1, <2>2 DEF ReservationsFollow, CancelledOnes
  <2> QED BY <2>3 DEF ReservationOf, StatusOfReservation
<1> QED BY <1>1, <1>4, <1>5, CountsAddUp

LEMMA LedgerIs == ExamplesInv => LedgerExamplesAgree
<1> SUFFICES ASSUME ExamplesInv PROVE LedgerExamplesAgree
  OBVIOUS
<1>1. HistoryInv
  BY DEF ExamplesInv
<1> QED BY <1>1, LedgerExplains, TransfersBalance, RecentTransfersAre, LastSales, CountsAddUp,
           RecentlyCancelledAre
        DEF LedgerExamplesAgree

LEMMA TotalOne ==
  ASSUME NEW q, NEW x, q[x] \in Int
  PROVE  Total(q, {x}) = q[x]
<1>1. IsFiniteSet({x}) /\ x \in {x} /\ \A y \in {x} : q[y] \in Int
  BY FS_Singleton
<1>2. Total(q, {x}) = q[x] + Total(q, {x} \ {x})
  BY ONLY <1>1, TotalWithout
<1>3. {x} \ {x} = {}
  OBVIOUS
<1> QED BY <1>2, <1>3, TotalEmpty

\* What is reserved and what is free of the rows there are.
ReservedOf == [r \in DOMAIN inventory |-> UnitsHeld(reservations, ActiveAt(r))]
FreeOf == [r \in DOMAIN inventory |-> inventory[r] - ReservedOf[r]]

LEMMA StockFacts ==
  ASSUME ExamplesInv
  PROVE  /\ IsFiniteSet(DOMAIN inventory)
         /\ \A r \in DOMAIN inventory :
              /\ r[1] \in Products /\ r[2] \in Storehouses /\ r = <<r[1], r[2]>>
              /\ inventory[r] \in Int /\ ReservedOf[r] = Sold(Waiting(r)) /\ ReservedOf[r] \in Nat
              /\ FreeOf[r] = inventory[r] - ReservedOf[r] /\ FreeOf[r] \in Int
<1>1. HistoryInv /\ ReservationsFollow /\ DOMAIN inventory = CellsOf(Ledger)
  BY DEF ExamplesInv, StockFollows
<1>2. IsFiniteSet(DOMAIN inventory)
  <2>1. IsFiniteSet(Ledger)
    BY LedgerFacts DEF ExamplesInv
  <2>2. PICK key : key = [m \in Ledger |-> <<m.good, m.site>>]
    OBVIOUS
  <2>3. {key[m] : m \in Ledger} = CellsOf(Ledger)
    BY <2>2 DEF CellsOf
  <2>4. IsFiniteSet({key[m] : m \in Ledger})
    BY <2>1, ImageFinite
  <2> QED BY <1>1, <2>3, <2>4
<1>3. ASSUME NEW r \in DOMAIN inventory
      PROVE  /\ r[1] \in Products /\ r[2] \in Storehouses /\ r = <<r[1], r[2]>>
             /\ inventory[r] \in Int /\ ReservedOf[r] = Sold(Waiting(r)) /\ ReservedOf[r] \in Nat
             /\ FreeOf[r] = inventory[r] - ReservedOf[r] /\ FreeOf[r] \in Int
  <2>1. PICK m \in Ledger : r = <<m.good, m.site>>
    BY <1>1 DEF CellsOf
  <2>2. m.good \in Products /\ m.site \in Storehouses
    BY LedgerFacts DEF ExamplesInv
  <2>3. HeldAt(r) = inventory[r]
    BY DEF HeldAt
  <2>4. inventory[r] \in Int
    BY <2>3, HeldIsInt
  <2>5. ReservedOf[r] = Sold(Waiting(r)) /\ ReservedOf[r] \in Nat
    BY <1>1, ReservationsAre, WaitingIs DEF ReservedOf
  <2> QED BY <2>1, <2>2, <2>4, <2>5 DEF FreeOf
<1> QED BY <1>2, <1>3

\* The three numbers of some rows.
LEMMA AvailabilityIs ==
  ASSUME ExamplesInv, NEW R, R \subseteq DOMAIN inventory
  PROVE  /\ IsFiniteSet(R)
         /\ Availability(R).onHand = Total(inventory, R)
         /\ Availability(R).reserved = Total(ReservedOf, R)
         /\ Availability(R).available = Total(FreeOf, R)
         /\ Total(inventory, R) \in Int /\ Total(ReservedOf, R) \in Int /\ Total(FreeOf, R) \in Int
         /\ \A S : S \subseteq R =>
              /\ Total(inventory, R) = Total(inventory, S) + Total(inventory, R \ S)
              /\ Total(FreeOf, R) = Total(FreeOf, S) + Total(FreeOf, R \ S)
<1>1. IsFiniteSet(R)
  BY StockFacts, FS_Subset
<1>2. PICK i : i = inventory
  OBVIOUS
<1>3. PICK h : h = ReservedOf
  OBVIOUS
<1>4. PICK f : f = FreeOf
  OBVIOUS
<1>5. \A r \in R : i[r] \in Int /\ h[r] \in Int /\ f[r] \in Int /\ f[r] = i[r] - h[r]
  BY <1>2, <1>3, <1>4, StockFacts
<1>6. Total(i, R) \in Int /\ Total(h, R) \in Int /\ Total(f, R) \in Int
  BY ONLY <1>1, <1>5, TotalType
<1>7. Total(f, R) = Total(i, R) - Total(h, R)
  BY ONLY <1>1, <1>5, TotalDifference
<1>8. PICK p : p = [r \in R |-> UnitsHeld(reservations, ActiveAt(r))]
  OBVIOUS
<1>9. \A r \in R : p[r] = h[r]
  BY <1>3, <1>8 DEF ReservedOf
<1>10. Total(p, R) = Total(h, R)
  BY ONLY <1>1, <1>9, TotalAgrees
<1>11. Availability(R) = [onHand |-> Total(i, R), reserved |-> Total(p, R), available |-> Total(i, R) - Total(p, R)]
  BY <1>2, <1>8 DEF Availability
<1>12. ASSUME NEW S, S \subseteq R
       PROVE  Total(i, R) = Total(i, S) + Total(i, R \ S) /\ Total(f, R) = Total(f, S) + Total(f, R \ S)
  <2>1. S \subseteq R
    BY <1>12
  <2> QED BY ONLY <1>1, <1>5, <2>1, TotalSplit
<1>13. /\ Availability(R).onHand = Total(i, R) /\ Availability(R).reserved = Total(p, R)
       /\ Availability(R).available = Total(i, R) - Total(p, R)
  BY <1>11
<1>14. /\ Availability(R).onHand = Total(i, R) /\ Availability(R).reserved = Total(h, R)
       /\ Availability(R).available = Total(f, R)
  BY ONLY <1>7, <1>10, <1>13
<1> QED BY ONLY <1>1, <1>2, <1>3, <1>4, <1>6, <1>12, <1>14

LEMMA AvailableHere ==
  ASSUME ExamplesInv, NEW r \in DOMAIN inventory
  PROVE  /\ Availability({r}).onHand = inventory[r]
         /\ Availability({r}).reserved = ReservedOf[r]
         /\ Availability({r}).available = FreeOf[r]
<1>1. {r} \subseteq DOMAIN inventory
  OBVIOUS
<1>2. inventory[r] \in Int /\ ReservedOf[r] \in Int /\ FreeOf[r] \in Int
  BY StockFacts
<1>3. PICK i : i = inventory
  OBVIOUS
<1>4. PICK h : h = ReservedOf
  OBVIOUS
<1>5. PICK f : f = FreeOf
  OBVIOUS
<1>6. Total(i, {r}) = i[r] /\ Total(h, {r}) = h[r] /\ Total(f, {r}) = f[r]
  BY <1>2, <1>3, <1>4, <1>5, TotalOne
<1>7. Availability({r}).onHand = Total(i, {r}) /\ Availability({r}).reserved = Total(h, {r})
      /\ Availability({r}).available = Total(f, {r})
  BY <1>1, <1>3, <1>4, <1>5, AvailabilityIs
<1> QED BY <1>3, <1>4, <1>5, <1>6, <1>7

\* A product's total, and its warehouses.
LEMMA TotalsOfProduct ==
  ASSUME ExamplesInv, NEW g \in DOMAIN TotalAvailable
  PROVE  TotalAvailable[g].available
           = SumOver(AvailableOf(g), "available")
               + Availability({r \in RowsOf(g) : r[2] \notin ActiveWarehouses}).available
<1>1. g \in ActiveProducts /\ TotalAvailable[g] = Availability(RowsOf(g))
  BY DEF TotalAvailable
<1>2. PICK R : R = RowsOf(g)
  OBVIOUS
<1>3. PICK A : A = ActiveRows \cap R
  OBVIOUS
<1>4. R \subseteq DOMAIN inventory /\ A \subseteq R /\ R \ A = {r \in R : r[2] \notin ActiveWarehouses}
      /\ \A r \in R : r[1] = g
  BY <1>1, <1>2, <1>3 DEF RowsOf, ActiveRows
<1>5. PICK f : f = FreeOf
  OBVIOUS
<1>6. /\ Availability(R).available = Total(f, R) /\ Total(f, R) = Total(f, A) + Total(f, R \ A)
      /\ Availability(R \ A).available = Total(f, R \ A) /\ IsFiniteSet(A)
  <2>1. A \subseteq DOMAIN inventory /\ R \ A \subseteq DOMAIN inventory
    BY <1>4
  <2> QED BY <1>4, <1>5, <2>1, AvailabilityIs
<1>7. PICK table : table = AvailableOf(g)
  OBVIOUS
<1>8. PICK T : T = {r[2] : r \in A}
  OBVIOUS
<1>9. DOMAIN table = T /\ \A s \in T : table[s] = Availability({<<g, s>>})
  BY <1>2, <1>3, <1>7, <1>8 DEF AvailableOf
<1>10. PICK p : p = [s \in T |-> table[s]["available"]]
  OBVIOUS
<1>11. PICK b : b = [r \in A |-> r[2]]
  OBVIOUS
<1>12. \A r \in A : r = <<g, r[2]>> /\ b[r] = r[2] /\ b[r] \in T /\ r \in DOMAIN inventory
  BY <1>4, <1>8, <1>11, StockFacts
<1>13. ASSUME NEW r \in A PROVE b[r] \in T /\ p[b[r]] = f[r] /\ f[r] \in Int
  <2>1. table[b[r]] = Availability({r})
    BY <1>9, <1>12
  <2>2. Availability({r}).available = FreeOf[r] /\ FreeOf[r] \in Int
    BY <1>12, AvailableHere, StockFacts
  <2> QED BY <1>5, <1>10, <1>12, <2>1, <2>2
<1>14. \A x, y \in A : b[x] = b[y] => x = y
  BY <1>12
<1>15. \A s \in T : \E r \in A : b[r] = s
  BY <1>8, <1>11
<1>16. IsFiniteSet(T)
  <2>1. b \in Surjection(A, T)
    BY <1>11, <1>12, <1>15 DEF Surjection
  <2> QED BY <1>6, <2>1, FS_Surjection
<1>17. Total(p, T) = Total(f, A)
  BY ONLY <1>6, <1>13, <1>14, <1>15, <1>16, TotalRenamed
<1>18. SumOver(table, "available") = Total(p, T)
  BY <1>9, <1>10 DEF SumOver
<1> QED BY <1>1, <1>2, <1>4, <1>6, <1>7, <1>17, <1>18

\* Rows that are grouped by what they have in common.
LEMMA RowsShareOut ==
  ASSUME ExamplesInv, NEW R, R \subseteq DOMAIN inventory, NEW K, IsFiniteSet(K), NEW G, NEW table,
         DOMAIN table = K,
         \A k \in K : G[k] \subseteq R /\ table[k] = Availability(G[k]),
         \A r \in R : \E k \in K : r \in G[k],
         \A k, l \in K : k # l => G[k] \cap G[l] = {}
  PROVE  SumOver(table, "onHand") = Total(inventory, R)
<1>1. PICK i : i = inventory
  OBVIOUS
<1>2. PICK p : p = [k \in K |-> table[k]["onHand"]]
  OBVIOUS
<1>3. IsFiniteSet(R) /\ \A r \in R : i[r] \in Int
  <2>1. IsFiniteSet(R)
    BY StockFacts, FS_Subset
  <2> QED BY <1>1, <2>1, StockFacts
<1>4. ASSUME NEW k \in K PROVE G[k] \subseteq R /\ p[k] = Total(i, G[k])
  <2>1. G[k] \subseteq R /\ table[k] = Availability(G[k]) /\ p[k] = table[k].onHand
    BY <1>2
  <2>2. G[k] \subseteq DOMAIN inventory
    BY <2>1
  <2>3. Availability(G[k]).onHand = Total(inventory, G[k])
    BY <2>2, AvailabilityIs
  <2> QED BY <1>1, <2>1, <2>3
<1>5. /\ IsFiniteSet(K)
      /\ \A r \in R : \E k \in K : r \in G[k]
      /\ \A k, l \in K : k # l => G[k] \cap G[l] = {}
  OBVIOUS
<1>6. Total(p, K) = Total(i, R)
  BY ONLY <1>3, <1>4, <1>5, TotalOfGroups
<1>7. SumOver(table, "onHand") = Total(p, K)
  BY <1>2 DEF SumOver
<1> QED BY <1>1, <1>6, <1>7

LEMMA CategoriesAddUp ==
  ASSUME ExamplesInv
  PROVE  SumOver(StockByCategory, "onHand") = SumOver(TotalAvailable, "onHand")
<1>1. PICK R : R = {r \in DOMAIN inventory : r[1] \in ActiveProducts}
  OBVIOUS
<1>2. R \subseteq DOMAIN inventory /\ IsFiniteSet(R) /\ \A r \in R : r[1] \in Products /\ r[1] \in ActiveProducts
  <2>1. R \subseteq DOMAIN inventory
    BY <1>1
  <2>2. IsFiniteSet(R)
    BY <2>1, StockFacts, FS_Subset
  <2> QED BY <1>1, <2>1, <2>2, StockFacts
<1>3. SumOver(TotalAvailable, "onHand") = Total(inventory, R)
  <2>1. PICK table : table = TotalAvailable
    OBVIOUS
  <2>2. PICK K : K = {r[1] : r \in DOMAIN inventory} \cap ActiveProducts
    OBVIOUS
  <2>3. PICK G : G = [g \in K |-> RowsOf(g)]
    OBVIOUS
  <2>4. DOMAIN table = K /\ \A g \in K : table[g] = Availability(G[g])
    BY <2>1, <2>2, <2>3 DEF TotalAvailable
  <2>5. \A g \in K : g \in ActiveProducts /\ G[g] = {r \in DOMAIN inventory : r[1] = g}
    BY <2>2, <2>3 DEF RowsOf
  <2>6. \A g \in K : G[g] \subseteq R
    BY <1>1, <2>5
  <2>7. \A r \in R : \E g \in K : r \in G[g]
    <3>1. ASSUME NEW r \in R PROVE r[1] \in K /\ r \in G[r[1]]
      <4>1. r[1] \in K
        BY <1>2, <2>2
      <4> QED BY <1>2, <2>5, <4>1
    <3> QED BY <3>1
  <2>8. \A k, l \in K : k # l => G[k] \cap G[l] = {}
    BY <2>5
  <2>9. IsFiniteSet(K)
    <3>1. K \subseteq Products
      BY <2>2 DEF ActiveProducts
    <3> QED BY <3>1, ExamplesAssumption, FS_Subset
  <2>10. \A g \in K : G[g] \subseteq R /\ table[g] = Availability(G[g])
    BY <2>4, <2>6
  <2> QED BY <1>2, <2>1, <2>4, <2>7, <2>8, <2>9, <2>10, RowsShareOut
<1>4. SumOver(StockByCategory, "onHand") = Total(inventory, R)
  <2>1. PICK table : table = StockByCategory
    OBVIOUS
  <2>2. PICK cats : cats = {CategoryName[g] : g \in Products}
    OBVIOUS
  <2>3. PICK G : G = [c \in cats |-> {r \in R : CategoryName[r[1]] = c}]
    OBVIOUS
  <2>4. PICK K : K = {c \in cats : G[c] # {}}
    OBVIOUS
  <2>5. \A c : {r \in DOMAIN inventory : CategoryName[r[1]] = c /\ r[1] \in ActiveProducts}
                 = {r \in R : CategoryName[r[1]] = c}
    BY <1>1
  <2>6. DOMAIN table = K /\ \A c \in K : table[c] = Availability(G[c])
    <3>1. table = [c \in {k \in cats : {r \in R : CategoryName[r[1]] = k} # {}} |->
                     Availability({r \in R : CategoryName[r[1]] = c})]
      BY <2>1, <2>2, <2>5 DEF StockByCategory
    <3>2. K = {k \in cats : {r \in R : CategoryName[r[1]] = k} # {}}
      BY <2>3, <2>4
    <3>3. \A c \in K : G[c] = {r \in R : CategoryName[r[1]] = c}
      BY <2>3, <2>4
    <3> QED BY <3>1, <3>2, <3>3
  <2>7. \A c \in K : c \in cats /\ G[c] = {r \in R : CategoryName[r[1]] = c}
    BY <2>3, <2>4
  <2>8. \A r \in R : \E c \in K : r \in G[c]
    <3>1. ASSUME NEW r \in R PROVE \E c \in K : r \in G[c]
      <4>1. PICK c : c = CategoryName[r[1]]
        OBVIOUS
      <4>2. c \in cats
        BY <1>2, <2>2, <4>1
      <4>3. r \in G[c]
        BY <2>3, <4>1, <4>2
      <4> QED BY <2>4, <4>2, <4>3
    <3> QED BY <3>1
  <2>9. \A k, l \in K : k # l => G[k] \cap G[l] = {}
    BY <2>7
  <2>10. IsFiniteSet(K)
    <3>1. IsFiniteSet(cats)
      BY <2>2, ExamplesAssumption, ImageFinite
    <3> QED BY <2>4, <3>1, FS_Subset
  <2>11. \A c \in K : G[c] \subseteq R /\ table[c] = Availability(G[c])
    BY <2>6, <2>7
  <2> QED BY <1>2, <2>1, <2>6, <2>8, <2>9, <2>10, <2>11, RowsShareOut
<1> QED BY <1>3, <1>4

LEMMA WarehousesAddUp ==
  ASSUME ExamplesInv
  PROVE  SumOver(AvailableByWarehouse, "onHand")
           = Total(PhysicalStock, DOMAIN PhysicalStock)
               + Total(inventory, {r \in DOMAIN inventory : r[1] \notin ActiveProducts /\ r[2] \in ActiveWarehouses})
<1>1. PICK R : R = {r \in DOMAIN inventory : r[2] \in ActiveWarehouses}
  OBVIOUS
<1>2. R \subseteq DOMAIN inventory /\ \A r \in R : r[2] \in ActiveWarehouses
  BY <1>1
<1>3. SumOver(AvailableByWarehouse, "onHand") = Total(inventory, R)
  <2>1. PICK table : table = AvailableByWarehouse
    OBVIOUS
  <2>2. PICK K : K = {r[2] : r \in DOMAIN inventory} \cap ActiveWarehouses
    OBVIOUS
  <2>3. PICK G : G = [s \in K |-> RowsIn(s)]
    OBVIOUS
  <2>4. DOMAIN table = K /\ \A s \in K : table[s] = Availability(G[s])
    BY <2>1, <2>2, <2>3 DEF AvailableByWarehouse
  <2>5. \A s \in K : s \in ActiveWarehouses /\ G[s] = {r \in DOMAIN inventory : r[2] = s}
    BY <2>2, <2>3 DEF RowsIn
  <2>6. \A s \in K : G[s] \subseteq R
    BY <1>1, <2>5
  <2>7. \A r \in R : \E s \in K : r \in G[s]
    <3>1. ASSUME NEW r \in R PROVE r[2] \in K /\ r \in G[r[2]]
      <4>1. r[2] \in K
        BY <1>2, <2>2
      <4> QED BY <1>2, <2>5, <4>1
    <3> QED BY <3>1
  <2>8. \A k, l \in K : k # l => G[k] \cap G[l] = {}
    BY <2>5
  <2>9. IsFiniteSet(K)
    <3>1. K \subseteq Storehouses
      BY <2>2 DEF ActiveWarehouses
    <3> QED BY <3>1, ExamplesAssumption, FS_Subset
  <2>10. \A s \in K : G[s] \subseteq R /\ table[s] = Availability(G[s])
    BY <2>4, <2>6
  <2> QED BY <1>2, <2>1, <2>4, <2>7, <2>8, <2>9, <2>10, RowsShareOut
<1>4. PICK A : A = ActiveRows
  OBVIOUS
<1>5. A \subseteq R /\ R \ A = {r \in DOMAIN inventory : r[1] \notin ActiveProducts /\ r[2] \in ActiveWarehouses}
  BY <1>1, <1>4 DEF ActiveRows
<1>6. Total(inventory, R) = Total(inventory, A) + Total(inventory, R \ A)
  BY <1>2, <1>5, AvailabilityIs
<1>7. Total(PhysicalStock, DOMAIN PhysicalStock) = Total(inventory, A)
  <2>1. PICK p : p = PhysicalStock
    OBVIOUS
  <2>2. PICK i : i = inventory
    OBVIOUS
  <2>3. DOMAIN p = A /\ \A r \in A : p[r] = i[r]
    BY <1>4, <2>1, <2>2 DEF PhysicalStock
  <2>4. IsFiniteSet(A)
    BY <1>2, <1>5, AvailabilityIs
  <2>5. Total(p, A) = Total(i, A)
    BY ONLY <2>3, <2>4, TotalAgrees
  <2> QED BY <2>1, <2>2, <2>3, <2>5
<1> QED BY <1>3, <1>5, <1>6, <1>7

\* One warehouse has a product once.
LEMMA NamedAgree ==
  ASSUME ExamplesInv, NEW s \in ActiveWarehouses, NEW k \in DOMAIN AvailableInNamed({s})
  PROVE  AvailableInNamed({s})[k] = AvailableStock[<<k[1], s>>]
<1>1. PICK R : R = {r \in ActiveRows : r[2] \in {s}}
  OBVIOUS
<1>2. AvailableInNamed({s}) =
        [l \in {<<r[1], inventory[r]>> : r \in R} |->
          [onHand |-> l[2], reserved |-> Availability({r \in R : r[1] = l[1] /\ inventory[r] = l[2]}).reserved,
           available |-> l[2] - Availability({r \in R : r[1] = l[1] /\ inventory[r] = l[2]}).reserved]]
  BY <1>1 DEF AvailableInNamed
<1>3. PICK r \in R : k = <<r[1], inventory[r]>>
  BY <1>2
<1>4. r \in ActiveRows /\ r \in DOMAIN inventory /\ r = <<k[1], s>> /\ k[2] = inventory[r]
  BY <1>1, <1>3, StockFacts DEF ActiveRows
<1>5. {t \in R : t[1] = k[1] /\ inventory[t] = k[2]} = {r}
  <2>1. \A t \in R : t \in DOMAIN inventory /\ t = <<t[1], s>>
    BY <1>1, StockFacts DEF ActiveRows
  <2> QED BY <1>3, <1>4, <2>1
<1>6. AvailableInNamed({s})[k] =
        [onHand |-> inventory[r], reserved |-> Availability({r}).reserved,
         available |-> inventory[r] - Availability({r}).reserved]
  BY <1>2, <1>4, <1>5
<1>7. Availability({r}) = [onHand |-> inventory[r], reserved |-> Availability({r}).reserved,
                           available |-> inventory[r] - Availability({r}).reserved]
  <2>1. Availability({r}).onHand = Total(inventory, {r}) /\ Availability({r}).onHand = inventory[r]
    BY <1>4, AvailableHere DEF Availability
  <2>2. PICK h : h = Total([t \in {r} |-> UnitsHeld(reservations, ActiveAt(t))], {r})
    OBVIOUS
  <2>3. Availability({r}) = [onHand |-> Total(inventory, {r}), reserved |-> h,
                             available |-> Total(inventory, {r}) - h]
    BY <2>2 DEF Availability
  <2> QED BY <2>1, <2>3
<1>8. AvailableStock[r] = Availability({r})
  BY <1>4 DEF AvailableStock
<1> QED BY <1>4, <1>6, <1>7, <1>8

\* There is less than is reserved only of what was counted away.
LEMMA ShortOnlyWhenMiscounted ==
  ASSUME ExamplesInv, NEW r \in DOMAIN AvailableStock, AvailableStock[r].available < 0
  PROVE  \E k \in DOMAIN counts : counts[k].quantity < 0 /\ <<counts[k].good, counts[k].site>> = r
<1>1. r \in DOMAIN inventory /\ AvailableStock[r] = Availability({r})
  BY DEF AvailableStock, ActiveRows
<1>2. PICK a \in Int, b \in Int : a = inventory[r] /\ b = ReservedOf[r] /\ FreeOf[r] = a - b
  BY <1>1, StockFacts
<1>3. a - b < 0
  BY <1>1, <1>2, AvailableHere
<1>4. HeldAt(r) = a /\ Sold(Waiting(r)) = b /\ r \in Products \X Storehouses
  BY <1>1, <1>2, StockFacts DEF HeldAt
<1>5. ~(b <= a)
  BY <1>3
<1>6. Miscounted(r)
  BY <1>4, <1>5 DEF ExamplesInv, HeldUp
<1> QED BY <1>6 DEF Miscounted

\* What is reserved is what orders and transfers wait for.
LEMMA ReservedAddUp ==
  ASSUME ExamplesInv
  PROVE  /\ Total(ReservedByRow, DOMAIN ReservedByRow)
              = Total(ReservingOrders, DOMAIN ReservingOrders) + UnitsHeld(reservations, DOMAIN ReservingTransfers)
         /\ DOMAIN ReservingTransfers = DOMAIN PendingTransfers
         /\ DOMAIN ReservingOrders = PendingOf("OUTGOING")
<1>1. HistoryInv /\ ReservationsFollow
  BY DEF ExamplesInv
<1>2. PICK A : A = ActiveReservations
  OBVIOUS
<1>3. PICK O : O = PendingOf("OUTGOING")
  OBVIOUS
<1>4. PICK T : T = PendingOf("TRANSFER")
  OBVIOUS
<1>5. A = {i \in Takers : orders[i].status = "PENDING"}
  BY <1>1, <1>2, ReservationFacts DEF ActiveReservations
<1>6. A = O \cup T /\ O \cap T = {} /\ A \in SUBSET Placed
  <2>1. \A i \in Placed : orders[i].deal.type \in {"INCOMING", "OUTGOING", "TRANSFER"}
    BY <1>1, OrderFacts
  <2>2. O = {i \in Placed : orders[i].status = "PENDING" /\ orders[i].deal.type = "OUTGOING"}
    BY <1>3 DEF PendingOf, DealOf
  <2>3. T = {i \in Placed : orders[i].status = "PENDING" /\ orders[i].deal.type = "TRANSFER"}
    BY <1>4 DEF PendingOf, DealOf
  <2> QED BY <1>5, <2>1, <2>2, <2>3 DEF Takers
<1>7. IsFiniteSet(A) /\ O \subseteq A /\ A \ O = T
  <2>1. IsFiniteSet(A)
    BY <1>1, <1>6, OrderFacts, FS_Subset
  <2> QED BY <1>6, <2>1
<1>8. PICK q : q = [i \in A |-> reservations[i].quantity]
  OBVIOUS
<1>9. \A i \in A : i \in Takers /\ i \in DOMAIN reservations /\ q[i] \in Int
  <2>1. \A i \in A : i \in Takers /\ i \in Placed /\ reservations[i].quantity = orders[i].deal.quantity
    BY <1>1, <1>5, <1>6, ReservationFacts
  <2> QED BY <1>1, <1>8, <2>1, OrderFacts, ReservationFacts
<1>10. ASSUME NEW S, S \subseteq A PROVE UnitsHeld(reservations, S) = Total(q, S)
  <2>1. IsFiniteSet(S)
    BY <1>7, <1>10, FS_Subset
  <2>2. PICK p : p = [i \in S |-> reservations[i].quantity]
    OBVIOUS
  <2>3. \A i \in S : p[i] = q[i]
    BY <1>8, <1>10, <2>2
  <2>4. Total(p, S) = Total(q, S)
    BY ONLY <2>1, <2>3, TotalAgrees
  <2> QED BY <2>2, <2>4 DEF UnitsHeld
<1>11. DOMAIN ReservingTransfers = T /\ DOMAIN PendingTransfers = T /\ DOMAIN ReservingOrders = O
  BY <1>2, <1>3, <1>4, <1>6 DEF ReservingTransfers, PendingTransfers, ReservingOrders
<1>12. Total(ReservingOrders, O) = Total(q, O)
  <2>1. PICK p : p = ReservingOrders
    OBVIOUS
  <2>2. \A i \in O : p[i] = q[i]
    BY <1>2, <1>3, <1>7, <1>8, <1>11, <2>1 DEF ReservingOrders
  <2>3. IsFiniteSet(O)
    BY <1>7, FS_Subset
  <2>4. Total(p, O) = Total(q, O)
    BY ONLY <2>2, <2>3, TotalAgrees
  <2> QED BY <2>1, <2>4
<1>13. UnitsHeld(reservations, T) = Total(q, T)
  <2>1. T \subseteq A
    BY <1>6
  <2> QED BY <1>10, <2>1
<1>14. Total(q, A) = Total(q, O) + Total(q, T)
  <2>1. Total(q, A) = Total(q, O) + Total(q, A \ O)
    BY ONLY <1>7, <1>9, TotalSplit
  <2> QED BY <1>7, <2>1
<1>15. Total(ReservedByRow, DOMAIN ReservedByRow) = Total(q, A)
  <2>1. PICK table : table = ReservedByRow
    OBVIOUS
  <2>2. PICK K : K = {reservations[i].row : i \in A}
    OBVIOUS
  <2>3. PICK G : G = [r \in K |-> ActiveAt(r)]
    OBVIOUS
  <2>4. DOMAIN table = K /\ \A r \in K : table[r] = UnitsHeld(reservations, G[r])
    BY <1>2, <2>1, <2>2, <2>3 DEF ReservedByRow
  <2>5. \A r \in K : G[r] = {i \in A : reservations[i].row = r}
    BY <1>2, <2>3 DEF ActiveAt, ActiveReservations
  <2>6. \A r \in K : G[r] \subseteq A /\ table[r] = Total(q, G[r])
    BY <1>10, <2>4, <2>5
  <2>7. \A i \in A : \E r \in K : i \in G[r]
    <3>1. ASSUME NEW i \in A PROVE reservations[i].row \in K /\ i \in G[reservations[i].row]
      <4>1. reservations[i].row \in K
        BY <2>2
      <4> QED BY <2>5, <4>1
    <3> QED BY <3>1
  <2>8. \A k, l \in K : k # l => G[k] \cap G[l] = {}
    BY <2>5
  <2>9. IsFiniteSet(K)
    <3>1. PICK key : key = [i \in A |-> reservations[i].row]
      OBVIOUS
    <3>2. {key[i] : i \in A} = K
      BY <2>2, <3>1
    <3>3. IsFiniteSet({key[i] : i \in A})
      BY <1>7, ImageFinite
    <3> QED BY <3>2, <3>3
  <2>10. \A i \in A : q[i] \in Int
    BY <1>9
  <2>11. Total(table, K) = Total(q, A)
    BY ONLY <1>7, <2>6, <2>7, <2>8, <2>9, <2>10, TotalOfGroups
  <2> QED BY <2>1, <2>4, <2>11
<1> QED BY <1>3, <1>11, <1>12, <1>13, <1>14, <1>15

LEMMA StockIs == ExamplesInv => StockExamplesAgree
<1> SUFFICES ASSUME ExamplesInv PROVE StockExamplesAgree
  OBVIOUS
<1>1. WithoutInventory \cap DOMAIN TotalAvailable = {}
  BY DEF WithoutInventory, TotalAvailable, RowsOf
<1>2. DOMAIN InSeveralWarehouses \subseteq DOMAIN TotalAvailable
  <2>1. ASSUME NEW g \in DOMAIN InSeveralWarehouses PROVE g \in DOMAIN TotalAvailable
    <3>1. g \in ActiveProducts /\ Cardinality({r \in ActiveRows \cap RowsOf(g) : inventory[r] > 0}) > 1
      BY DEF InSeveralWarehouses
    <3>2. PICK r \in RowsOf(g) : TRUE
      BY <3>1, FS_EmptySet
    <3> QED BY <3>1, <3>2 DEF RowsOf, TotalAvailable
  <2> QED BY <2>1
<1>3. ASSUME NEW s \in Limited, MaxCapacity[s] > 0
      PROVE  s \in AlmostFull <=> 100 * UnusedCapacity[s] <= 20 * MaxCapacity[s]
  <2>1. PICK u \in Int : u = StockedIn(s)
    <3>1. RowsIn(s) \subseteq DOMAIN inventory
      BY DEF RowsIn
    <3> QED BY <3>1, AvailabilityIs DEF StockedIn
  <2>2. PICK c \in Nat : c = MaxCapacity[s]
    BY ExamplesAssumption DEF Limited, ActiveWarehouses
  <2>3. s \in AlmostFull <=> c # 0 /\ 100 * u >= 80 * c
    BY <2>1, <2>2 DEF AlmostFull
  <2>4. UnusedCapacity[s] = c - u
    BY <2>1, <2>2 DEF UnusedCapacity
  <2>5. c > 0
    BY <1>3, <2>2
  <2>6. (c # 0 /\ 100 * u >= 80 * c) <=> 100 * (c - u) <= 20 * c
    BY <2>5
  <2> QED BY <2>2, <2>3, <2>4, <2>6
<1> QED
  BY <1>1, <1>2, <1>3, TotalsOfProduct, CategoriesAddUp, WarehousesAddUp, NamedAgree,
     ShortOnlyWhenMiscounted, ReservedAddUp
  DEF StockExamplesAgree

\* The example queries the agent learns from give answers that fit together, whatever
\* their limits cut off: with the tables as the requests keep them, with the ledger, and
\* with what the reports say.
THEOREM ExamplesTellOneStory == ExamplesSpec => []ExamplesAgree
<1>1. ExamplesInv /\ CancellationsHold => ExamplesAgree
  BY StockIs, TradeIs, OverdueIs, LedgerIs DEF ExamplesAgree, ExamplesInv
<1> QED BY <1>1, ExamplesInvariant, CancellationsInvariant, PTL
=============================================================================
