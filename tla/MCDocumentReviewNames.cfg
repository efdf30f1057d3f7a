CONSTANTS
  p1 = p1
  f1 = f1
  f2 = f2
  Files = {f1, f2}
  Requests = {r1, r2}
  Names <- MCNames
  Folded <- MCFolded
  Catalogue <- MCCatalogue
  Invoices <- MCInvoices
  NoFile = NoFile
  NoProduct = NoProduct
  NoName = NoName
SYMMETRY MCSymmetry
SPECIFICATION Spec
INVARIANTS NewNamesAreNew
CHECK_DEADLOCK FALSE
