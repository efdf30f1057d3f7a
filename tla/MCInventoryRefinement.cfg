CONSTANTS
  Products = {1, 2}
  Warehouses = {1, 2}
  Txns = {t1, t2}
  Sessions = {s1, s2}
  ItemIds = {1, 2}
  Orders <- OrdersMixed
  Patches <- PatchesMixed
  Adjustments <- Corrections
  OpeningStock <- StockTwoProducts
  MaxReservations = 3
  MaxAdjustments = 1
  NoTxn = NoTxn
  Amounts = {0, 1, 2}
SPECIFICATION Spec
SYMMETRY MCSymmetry
INVARIANTS LedgerExplainsStock
PROPERTIES ImplementsStockLedger
