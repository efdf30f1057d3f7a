CONSTANTS
  Products = {1, 2}
  Warehouses = {1, 2}
  Txns = {t1, t2}
  Sessions = {s1, s2}
  ItemIds = {1, 2}
  Orders <- OrdersMixed
  Patches <- PatchesMixed
  Adjustments = {}
  OpeningStock <- StockAtOne
  MaxReservations = 4
  MaxAdjustments = 0
  NoTxn = NoTxn
SPECIFICATION Spec
SYMMETRY MCSymmetry
INVARIANTS NeverOversold ReservationsMirrorItems MovedExactlyOnce ClaimsHold
PROPERTIES FinishedIsFinal
