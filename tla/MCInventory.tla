---------------------------- MODULE MCInventory ----------------------------
(* Small instances of InventoryTransactions for TLC.                       *)
EXTENDS InventoryTransactions, TLC

MCSymmetry == Permutations(Txns) \cup Permutations(Sessions)

Line(product, quantity) == [product |-> product, quantity |-> quantity]
Order(type, src, dst, items) == [type |-> type, src |-> src, dst |-> dst, items |-> items]
Change(src, dst, items) == [src |-> src, dst |-> dst, items |-> items]
Two(line1, line2) == (1 :> line1) @@ (2 :> line2)

\* Two units of product 1 and one of product 2 at warehouse 1; nothing, and no
\* inventory row yet, at warehouse 2.
StockAtOne == (<<1, 1>> :> 2) @@ (<<2, 1>> :> 1)

\* Orders of each type; one of two items, which together need all the stock, one
\* with a product named twice and a transfer to its own source.
OrdersMixed ==
  { Order("INCOMING", 0, 1, 1 :> Line(1, 1)),
    Order("OUTGOING", 1, 0, Two(Line(1, 2), Line(2, 1))),
    Order("OUTGOING", 1, 0, Two(Line(1, 1), Line(1, 1))),
    Order("TRANSFER", 1, 2, 1 :> Line(1, 1)),
    Order("TRANSFER", 1, 1, 1 :> Line(1, 1)) }

\* Updates of a quantity, of a product (onto the other item's product when there
\* are two), of a warehouse, and of an item the transaction may not have.
PatchesMixed ==
  { Change(0, 0, 1 :> Line(0, 1)),
    Change(0, 0, 1 :> Line(2, 0)),
    Change(2, 0, <<>>),
    Change(0, 1, 2 :> Line(0, 1)) }

\* Stock at both warehouses, and transfers of both products in both directions.
StockAtBoth == [r \in Rows |-> 1]
OrdersCrossing ==
  { Order("TRANSFER", 1, 2, Two(Line(1, 1), Line(2, 1))),
    Order("TRANSFER", 2, 1, Two(Line(2, 1), Line(1, 1))) }
PatchesCrossing == { Change(0, 0, Two(Line(2, 0), Line(1, 0))) }
=============================================================================
