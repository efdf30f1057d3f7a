--------------------------- MODULE DuplicateCheck ---------------------------
(***************************************************************************)
(* The agent's check whether a document is a potential duplicate of one    *)
(* that still waits for review (detect_duplicate_document): it reads the   *)
(* document, the pending reviews and the catalogue in three requests, and  *)
(* compares supplier, date, total and products.                            *)
(***************************************************************************)
EXTENDS DocumentMatching

CONSTANTS
  Papers,     \* ids of the reviews
  Contents,   \* what may be read from a document: incoming, party, date, lines
  Likeness,   \* for a name and a product, how alike they are, 0..100
  Switchable, \* products that are switched off and on meanwhile
  NotUploaded,
  NoParty,    \* the party of a document that names none
  NoDate,     \* the date of a document that has none
  NoPrice     \* the price of a line that has none

ASSUME DuplicatesAssumption ==
  /\ NotUploaded \notin Contents /\ NoPrice \notin Nat
  /\ Switchable \subseteq Catalogue
  /\ \A c \in Contents :
       /\ c.date # NoDate => c.date \in Int
       /\ IsFiniteSet(DOMAIN c.lines)
       /\ \A i \in DOMAIN c.lines : c.lines[i].quantity \in Nat /\ c.lines[i].price \in Nat \cup {NoPrice}

VARIABLES
  content,  \* of each review, what was read from its document
  waiting,  \* reviews that are pending
  active,   \* products of the catalogue that are active
  check     \* the check made of each review

duplicateVars == <<content, waiting, active, check>>

NoCheck == [stage |-> "idle", found |-> {}, prods |-> {}, flagged |-> {}]

----------------------------------------------------------------------------
(* Names: the same rule matches products and suppliers in both agents.     *)

MatchThreshold == 80
AmbiguousFloor == 60
AmbiguousGap == 8

\* The one product a name matches, if it does: no other one comes close.
MatchedTo(name, prods) ==
  {k \in prods :
    /\ Likeness[name][k] >= MatchThreshold
    /\ \A j \in prods \ {k} :
         \/ Likeness[name][j] < MatchThreshold
         \/ Likeness[name][k] - Likeness[name][j] >= AmbiguousGap}
Standing(name, prods) ==
  IF \A k \in prods : Likeness[name][k] < AmbiguousFloor THEN "NOT_FOUND"
  ELSE IF MatchedTo(name, prods) # {} THEN "MATCHED" ELSE "AMBIGUOUS"

----------------------------------------------------------------------------
(* The four signals.                                                       *)

DateWindow == 3
SignalThreshold == 3

SameParty(c, d) == c.party # NoParty /\ c.party = d.party
DatesClose(c, d) ==
  /\ NoDate \notin {c.date, d.date}
  /\ c.date - d.date \in -DateWindow..DateWindow

\* Only lines with a price count, if it is 0; without one there is no total.
Priced(c) == {i \in DOMAIN c.lines : c.lines[i].price # NoPrice}
DocumentTotal(c) == MapThenSumSet(LAMBDA i : c.lines[i].quantity * c.lines[i].price, Priced(c))

\* Mutant: within two per cent of the total of the document that is checked.
TotalsCloseToTarget(c, d) ==
  /\ Priced(c) # {} /\ Priced(d) # {}
  /\ 50 * (DocumentTotal(c) - DocumentTotal(d)) \in -Max({DocumentTotal(c), 50})..Max({DocumentTotal(c), 50})
\* Within two per cent of the larger total, or one dollar.
TotalsClose(c, d) ==
  LET allowed == Max({DocumentTotal(c), DocumentTotal(d), 50})
  IN /\ Priced(c) # {} /\ Priced(d) # {}
     /\ 50 * (DocumentTotal(c) - DocumentTotal(d)) \in -allowed..allowed

ProductsOf(c, prods) ==
  UNION {MatchedTo(c.lines[i].name, prods) : i \in DOMAIN c.lines}
ItemsOverlap(c, d, prods) ==
  LET mine == ProductsOf(c, prods)
      theirs == ProductsOf(d, prods)
  IN /\ mine \cup theirs # {}
     /\ 2 * Cardinality(mine \cap theirs) >= Cardinality(mine \cup theirs)

Signals(c, d, prods) ==
  {s \in {"supplier", "date", "total", "items"} :
    CASE s = "supplier" -> SameParty(c, d)
      [] s = "date" -> DatesClose(c, d)
      [] s = "total" -> TotalsClose(c, d)
      [] s = "items" -> ItemsOverlap(c, d, prods)}
MayBeDuplicate(c, d, prods) == Cardinality(Signals(c, d, prods)) >= SignalThreshold

----------------------------------------------------------------------------
DuplicatesInit ==
  /\ content = [r \in Papers |-> NotUploaded]
  /\ waiting = {}
  /\ active = Catalogue
  /\ check = [r \in Papers |-> NoCheck]

\* A document is uploaded and its review created.
Upload(r, c) ==
  /\ content[r] = NotUploaded
  /\ content' = [content EXCEPT ![r] = c]
  /\ waiting' = waiting \cup {r}
  /\ UNCHANGED <<active, check>>

\* A review is approved or rejected, once and for all.
Settle(r) ==
  /\ r \in waiting
  /\ waiting' = waiting \ {r}
  /\ UNCHANGED <<content, active, check>>

\* An administrator switches a product off or on.
Switch(k) ==
  /\ active' = (active \ {k}) \cup ({k} \ active)
  /\ UNCHANGED <<content, waiting, check>>

\* GET /document-review/:id, whatever its status.
ReadTarget(r) ==
  /\ content[r] # NotUploaded /\ check[r].stage = "idle"
  /\ check' = [check EXCEPT ![r].stage = "target"]
  /\ UNCHANGED <<content, waiting, active>>

\* GET /document-review/pending: the others of the same type.
ReadPending(r) ==
  LET others == {q \in waiting \ {r} : content[q].incoming = content[r].incoming}
  IN /\ check[r].stage = "target"
     /\ check' = [check EXCEPT ![r].found = others,
                               ![r].stage = IF others = {} THEN "done" ELSE "pending"]
     /\ UNCHANGED <<content, waiting, active>>

\* GET /products, once for all names, and the comparison.
Compare(r) ==
  /\ check[r].stage = "pending"
  /\ LET copies == {q \in check[r].found : MayBeDuplicate(content[r], content[q], active)}
     IN check' = [check EXCEPT ![r] = [stage |-> "done", found |-> @.found,
                                       prods |-> active, flagged |-> copies]]
  /\ UNCHANGED <<content, waiting, active>>

DuplicatesNext ==
  \/ \E r \in Papers : ReadTarget(r) \/ ReadPending(r) \/ Compare(r) \/ Settle(r)
  \/ \E r \in Papers, c \in Contents : Upload(r, c)
  \/ \E k \in Switchable : Switch(k)

DuplicatesSpec == DuplicatesInit /\ [][DuplicatesNext]_duplicateVars

----------------------------------------------------------------------------
(* Properties.                                                             *)

\* Two checks that have seen each other's document and the same catalogue
\* agree: whichever of the two a reviewer opens, he gets the same warning.
DuplicatesAreMutual ==
  \A q, r \in Papers :
    /\ q \in check[r].found /\ r \in check[q].found
    /\ check[q].stage = "done" /\ check[r].stage = "done"
    /\ check[q].prods = check[r].prods
    => (q \in check[r].flagged <=> r \in check[q].flagged)

\* However the requests of two checks interleave, of two copies of a dated and
\* priced document with a party that both still wait, one is reported.
NoPairSlipsBy ==
  \A q, r \in waiting :
    /\ q # r /\ content[q] = content[r]
    /\ content[r].party # NoParty /\ content[r].date # NoDate /\ Priced(content[r]) # {}
    /\ check[q].stage = "done" /\ check[r].stage = "done"
    => q \in check[r].flagged \/ r \in check[q].flagged

\* Another active product may take a name over or make it ambiguous; it never
\* hands the name from one product to a third, nor makes a known name unknown.
NamesKeepTheirProduct ==
  \A name \in ExtractedNames, k \in Catalogue \ active :
    LET grown == active \cup {k}
    IN /\ MatchedTo(name, grown) \subseteq MatchedTo(name, active) \cup {k}
       /\ Standing(name, grown) = "NOT_FOUND" => Standing(name, active) = "NOT_FOUND"

\* What the agents say of a document can be relied on.
HintsAreSound ==
  SuggestionsKeepTheRules /\ DuplicatesAreMutual /\ NoPairSlipsBy /\ NamesKeepTheirProduct
=============================================================================
