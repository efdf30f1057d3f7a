---------------------------- MODULE StockInsights ----------------------------
(***************************************************************************)
(* The classifications every stock report shares: how urgent a row is, and *)
(* whether what it sells has changed.                                      *)
(***************************************************************************)
EXTENDS Integers

RiskLevel(available, threshold) ==
  CASE available <= 0 -> "OUT_OF_STOCK"
    [] available > 0 /\ available < threshold -> "AT_RISK"
    [] OTHER -> "OK"

AtLeastZero(n) == IF n < 0 THEN 0 ELSE n
Distance(a, b) == IF a < b THEN b - a ELSE a - b

\* The change of a pair that sold `baseline` in one window and `recent` in the
\* next: a change from nothing is always flagged, however small the floor allows.
ConsumptionChange(recent, baseline, percent, floor) ==
  CASE baseline = 0 /\ recent > 0 /\ recent >= floor -> "INCREASE"
    [] /\ baseline > 0
       /\ Distance(recent, baseline) * 100 >= percent * baseline
       /\ Distance(recent, baseline) >= floor
       -> IF recent >= baseline THEN "INCREASE" ELSE "DECREASE"
    [] OTHER -> "NONE"
=============================================================================
