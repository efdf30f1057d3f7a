-------------------------- MODULE SupplierRanking --------------------------
(***************************************************************************)
(* The ranking of the suppliers of one product: four factors, each scaled  *)
(* to 0..100 between the worst and the best candidate, weighted 40, 30, 20 *)
(* and 10.  Scores are kept exact by multiplying out the denominators.     *)
(***************************************************************************)
EXTENDS Sorting, FiniteSetsExt

CONSTANTS
  Suppliers,   \* supplier ids
  Prices,      \* average prices a supplier may have
  Rates,       \* on-time and cancellation rates, as shares of one denominator
  Histories,   \* numbers of completed transactions
  Unavailable  \* a statistic without data

ASSUME RankingAssumption ==
  /\ IsFiniteSet(Suppliers) /\ Suppliers \subseteq Int /\ Unavailable \notin Suppliers
  /\ Prices \subseteq Int /\ Rates \subseteq Int /\ Histories \subseteq Int

MinHistory == 3
Factors == {"price", "onTime", "cancellations", "history"}
Weight == [price |-> 40, onTime |-> 30, cancellations |-> 20, history |-> 10]
HigherIsBetter == {"onTime", "history"}

VARIABLES stats, ranking
rankingVars == <<stats, ranking>>

Candidate ==
  [price : Prices \cup {Unavailable}, onTime : Rates \cup {Unavailable},
   cancellations : Rates, history : Histories]

\* Too few completed transactions are no evidence.
Known(s, f) == stats[s][f] # Unavailable /\ (f = "history" => stats[s].history >= MinHistory)
Evaluated == {s \in DOMAIN stats : \A f \in Factors : Known(s, f)}

BestOf(f) == Max({stats[s][f] : s \in {t \in DOMAIN stats : Known(t, f)}})
WorstOf(f) == Min({stats[s][f] : s \in {t \in DOMAIN stats : Known(t, f)}})
Span(f) == BestOf(f) - WorstOf(f)

Denominator(f) == IF Span(f) = 0 THEN 1 ELSE Span(f)
Others(f) ==
  LET D(g) == IF g = f THEN 1 ELSE Denominator(g)
  IN D("price") * D("onTime") * D("cancellations") * D("history")

\* The share of the way from worst to best; everyone is best when all are equal.
\* Mutant: a low price is rated as if it were a high one.
ShareHigher(s, f) == IF Span(f) = 0 THEN 1 ELSE stats[s][f] - WorstOf(f)
Share(s, f) ==
  IF Span(f) = 0 THEN 1
  ELSE IF f \in HigherIsBetter THEN stats[s][f] - WorstOf(f) ELSE BestOf(f) - stats[s][f]

Score(s) == MapThenSumSet(LAMBDA f : Weight[f] * Share(s, f) * Others(f), Factors)

\* Best score first, ties by id; then those that could not be evaluated, by id.
Before(s, t) ==
  \/ s \in Evaluated /\ t \notin Evaluated
  \/ s \in Evaluated /\ t \in Evaluated /\ Score(s) > Score(t)
  \/ s \in Evaluated /\ t \in Evaluated /\ Score(s) = Score(t) /\ s < t
  \/ s \notin Evaluated /\ t \notin Evaluated /\ s < t

RankOrder == {st \in (DOMAIN stats) \X (DOMAIN stats) : Before(st[1], st[2])}

RankingInit ==
  /\ stats \in UNION {[S -> Candidate] : S \in SUBSET Suppliers \ {{}}}
  /\ ranking = <<>>

RankSuppliers ==
  /\ ranking = <<>>
  /\ ranking' = Sorted(DOMAIN stats, RankOrder)
  /\ UNCHANGED stats

RankingNext == RankSuppliers

RankingSpec == RankingInit /\ [][RankingNext]_rankingVars

----------------------------------------------------------------------------
(* The supplier the agent recommends, and the one it recommends instead of *)
(* the supplier of an overdue order.                                       *)

FirstOf(S) ==
  IF S = {} THEN Unavailable
  ELSE ranking[Min({k \in DOMAIN ranking : ranking[k] \in S})]
RecommendedSupplier == FirstOf(Evaluated)
AlternativeTo(s) == FirstOf(Evaluated \ {s})

----------------------------------------------------------------------------
(* Properties.                                                             *)

AtLeastAsGood(s, t, f) ==
  IF f \in HigherIsBetter THEN stats[s][f] >= stats[t][f] ELSE stats[s][f] <= stats[t][f]
Dominates(s, t) ==
  /\ {s, t} \subseteq Evaluated
  /\ \A f \in Factors : AtLeastAsGood(s, t, f)
  /\ \E f \in Factors : ~AtLeastAsGood(t, s, f)

\* A supplier is never ranked behind one that is no better in any factor and
\* worse in some, nor behind one without the evidence to be ranked, whoever else
\* is compared with them and however the factors are scaled.  And the agent
\* recommends none, as first choice or instead of the supplier that is late,
\* when another one beats it.
BetterRanksFirst ==
  ranking # <<>> =>
    /\ \A i, j \in DOMAIN ranking :
         \/ Dominates(ranking[i], ranking[j])
         \/ ranking[i] \in Evaluated /\ ranking[j] \notin Evaluated
         => i < j
    /\ \A s \in DOMAIN stats :
         /\ AlternativeTo(s) # s
         /\ \A t \in Evaluated \ {s} :
              AlternativeTo(s) # Unavailable /\ ~Dominates(t, AlternativeTo(s))
         /\ s # RecommendedSupplier => AlternativeTo(s) = RecommendedSupplier
=============================================================================
