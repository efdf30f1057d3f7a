-------------------------- MODULE MCDocumentReview --------------------------
(* Small instances of DocumentReview for TLC.                              *)
EXTENDS DocumentReview, TLC

CONSTANTS p1, f1, f2

\* A name is a word and whether it is written in capitals.
MCNames == {<<"mouse", FALSE>>, <<"mouse", TRUE>>, <<"desk", FALSE>>}
MCFolded(name) == name[1]
MCCatalogue == p1 :> <<"desk", FALSE>>

Known(p) == [product |-> p, name |-> NoName]
New(name) == [product |-> NoProduct, name |-> name]

\* A known product, the same twice, a new one, the same name twice, a name the
\* catalogue has, a line that says nothing.
MCInvoices ==
  {<<Known(p1)>>, <<Known(p1), Known(p1)>>,
   <<New(<<"mouse", FALSE>>), Known(p1)>>,
   <<New(<<"mouse", TRUE>>)>>,
   <<New(<<"mouse", FALSE>>), New(<<"mouse", TRUE>>)>>,
   <<New(<<"desk", FALSE>>)>>, <<New(NoName)>>}

\* A line that says both.
MCInvoicesBoth == {<<[product |-> p1, name |-> <<"mouse", FALSE>>]>>}

MCSymmetry == Permutations(Requests) \cup Permutations(Files)
=============================================================================
