----------------------- MODULE MCInventoryRefinement -----------------------
(* A small instance of InventoryRefinement for TLC.                        *)
EXTENDS InventoryRefinement, TLC

MCSymmetry == Permutations(Txns) \cup Permutations(Sessions)

Line(product, quantity) == [product |-> product, quantity |-> quantity]
Order(type, src, dst, items) == [type |-> type, src |-> src, dst |-> dst, items |-> items]
Change(src, dst, items) == [src |-> src, dst |-> dst, items |-> items]

StockTwoProducts == (<<1, 1>> :> 2) @@ (<<2, 1>> :> 1)

\* An admin who counts one less, or one more.
Corrections == {-1, 1}

\* A two-item request, so that one of its reservations can fall short, and a
\* transfer that competes with it for product 1.
OrdersMixed ==
  { Order("INCOMING", 0, 1, 1 :> Line(1, 1)),
    Order("OUTGOING", 1, 0, (1 :> Line(1, 2)) @@ (2 :> Line(2, 1))),
    Order("TRANSFER", 1, 2, 1 :> Line(1, 1)) }

PatchesMixed ==
  { Change(0, 0, 1 :> Line(0, 1)), Change(2, 0, <<>>) }
=============================================================================
