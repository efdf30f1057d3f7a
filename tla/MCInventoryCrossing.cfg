CONSTANTS
  Products = {1, 2}
  Warehouses = {1, 2}
  Txns = {t1, t2}
  Sessions = {s1, s2}
  ItemIds = {1, 2}
  Orders <- OrdersCrossing
  Patches <- PatchesCrossing
  Adjustments = {}
  OpeningStock <- StockAtBoth
  MaxReservations = 6
  MaxAdjustments = 0
  NoTxn = NoTxn
SPECIFICATION FairSpec
INVARIANTS NoDeadlock
PROPERTIES EveryRequestEnds
