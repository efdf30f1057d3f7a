------------------------------ MODULE Extraction ------------------------------
(***************************************************************************)
(* TextractDocumentExtractionProvider: from what Textract reads on one     *)
(* uploaded invoice to the data of a review row, or to a refusal of the    *)
(* upload, and validateExtractedDocumentData, which that data must pass.   *)
(* What is printed on the invoice, and in which order Textract lists it,   *)
(* is up to the invoice; a text is <<kind, value>>, already trimmed and    *)
(* without its punctuation and its case.                                   *)
(***************************************************************************)
EXTENDS Naturals, SequencesExt, Sorting

CONSTANTS
  Fields,     \* summary fields: [type, label, groups, text]
  Blocks,     \* lines of plain text that begin with "Transaction Type:": what follows
  LineItems,  \* line items: sequences of [type, text]
  Dated,      \* texts that the Date constructor takes for a date
  MaxFields,  \* bound: summary fields of a document
  MaxBlocks,  \* bound: such lines of a document
  MaxRows,    \* bound: line items of a document
  Undefined   \* undefined

Kinds == {"words", "number", "money", "blank"}
Types == {"INCOMING", "OUTGOING"}
WarehouseLabels == {"WAREHOUSE", "SOURCE WAREHOUSE", "DESTINATION WAREHOUSE"}
ReceiverGroups == <<"RECEIVER_SHIP_TO", "RECEIVER_SOLD_TO", "RECEIVER_BILL_TO">>

\* What a number or an amount is made of has no sign.
IsText(text) == text[1] \in Kinds /\ (text[1] \in {"number", "money"} => text[2] \in Nat)

ASSUME ExtractionAssumption ==
  /\ \A f \in Fields : DOMAIN f = {"type", "label", "groups", "text"} /\ IsText(f.text)
  /\ \A entry \in LineItems :
       /\ entry \in Seq(Range(entry))
       /\ \A k \in DOMAIN entry : DOMAIN entry[k] = {"type", "text"} /\ IsText(entry[k].text)
  /\ Undefined \notin Int
  /\ MaxFields \in Nat /\ MaxBlocks \in Nat /\ MaxRows \in Nat

VARIABLES
  summary,   \* SummaryFields of the one expense document
  blocks,    \* Blocks with a transaction type
  lineItems, \* line items
  answer     \* of extract: "asked", "refused" or [status, data]

extractionVars == <<summary, blocks, lineItems, answer>>

----------------------------------------------------------------------------
(* Finding values.                                                         *)

Value(text) == IF text[1] = "blank" THEN Undefined ELSE text
ValueOf(field) == Value(field.text)
Or(a, b) == IF a # Undefined THEN a ELSE b

\* The first field of a type decides, with or without a value.
FirstValue(fields, found) == IF found = {} THEN Undefined ELSE ValueOf(fields[Min(found)])
FindValueByType(fields, type) == FirstValue(fields, {k \in DOMAIN fields : fields[k].type = type})

\* The first group whose first field has a value.
FirstInGroup(fields, types, group) ==
  FirstValue(fields, {k \in DOMAIN fields : fields[k].type \in types /\ group \in fields[k].groups})
FindGroupedValue(fields, types, groups) ==
  LET found == {k \in DOMAIN groups : FirstInGroup(fields, types, groups[k]) # Undefined}
  IN IF found = {} THEN Undefined ELSE FirstInGroup(fields, types, groups[Min(found)])

\* parseTransactionType: anything else makes a marker invalid.
ParseType(text) == IF text[1] = "words" /\ text[2] \in Types THEN text[2] ELSE Undefined

Markers ==
  {ParseType(f.text) : f \in {g \in Range(summary) : g.label = "TRANSACTION TYPE"}}
    \cup {ParseType(text) : text \in Range(blocks)}

\* Mutant: a marker that can be read decides, whatever the others say.
SomeMarker == IF Markers \ {Undefined} = {} THEN Undefined ELSE CHOOSE t \in Markers \ {Undefined} : TRUE

\* Undefined when the extraction is refused: no marker, an invalid one, or two that differ.
TransactionType ==
  IF Undefined \notin Markers /\ Cardinality(Markers) = 1 THEN CHOOSE t \in Markers : TRUE ELSE Undefined

SupplierName ==
  Or(FindValueByType(summary, "VENDOR_NAME"),
     FindGroupedValue(summary, {"NAME"}, <<"VENDOR_SUPPLIER">>))
ReceiverName ==
  Or(FindValueByType(summary, "RECEIVER_NAME"),
     FindGroupedValue(summary, {"NAME"}, ReceiverGroups))

\* Unlike a name, a date is looked for in every field of a type.
InvoiceDate ==
  LET DateOf(type) ==
        FirstValue(summary, {k \in DOMAIN summary : summary[k].type = type /\ ValueOf(summary[k]) \in Dated})
  IN Or(DateOf("INVOICE_RECEIPT_DATE"), DateOf("ORDER_DATE"))

WarehouseNames ==
  {ValueOf(f) : f \in {g \in Range(summary) : g.label \in WarehouseLabels}} \ {Undefined}
WarehouseName == IF WarehouseNames = {} THEN Undefined ELSE CHOOSE name \in WarehouseNames : TRUE

ReceiverField(types) == FindGroupedValue(summary, types, ReceiverGroups)
DeliveryAddress ==
  IF TransactionType = "OUTGOING"
  THEN Or(FindValueByType(summary, "RECEIVER_ADDRESS"),
          Or(ReceiverField({"ADDRESS_BLOCK"}), ReceiverField({"ADDRESS"})))
  ELSE ReceiverField({"ADDRESS"})

----------------------------------------------------------------------------
(* Line items.  A number is in hundredths.                                 *)

\* Mutant: a fraction is rounded down.
RoundedQuantity(text) ==
  IF text # Undefined /\ text[1] = "number" THEN text[2] \div 100 ELSE Undefined
ParseQuantity(text) ==
  IF text # Undefined /\ text[1] = "number" /\ text[2] % 100 = 0 /\ text[2] > 0
  THEN text[2] \div 100 ELSE Undefined
ParsePrice(text) ==
  IF text # Undefined /\ text[1] \in {"number", "money"} THEN text[2] ELSE Undefined

\* Hundredths for a number of units; a price nobody can read is left out, and
\* the total is only asked where no field holds a price of one.
\* Mutant: the total of a line is taken for the price of one.
TotalAsPrice(entry, quantity) ==
  LET price == Or(ParsePrice(FindValueByType(entry, "UNIT_PRICE")),
                  ParsePrice(FindValueByType(entry, "PRICE")))
  IN IF price = Undefined THEN Undefined ELSE price * quantity
HasUnitPrice(entry) == \E k \in DOMAIN entry : entry[k].type = "UNIT_PRICE"
PriceOfAll(entry, quantity) ==
  LET unit == ParsePrice(FindValueByType(entry, "UNIT_PRICE"))
      total == ParsePrice(FindValueByType(entry, "PRICE"))
  IN IF ~HasUnitPrice(entry) THEN total ELSE IF unit = Undefined THEN Undefined ELSE unit * quantity

ItemOf(entry) ==
  LET quantity == ParseQuantity(FindValueByType(entry, "QUANTITY"))
  IN [product |-> FindValueByType(entry, "ITEM"), quantity |-> quantity,
      priceOfAll |-> IF quantity = Undefined THEN Undefined ELSE PriceOfAll(entry, quantity)]

\* A line without a product or a quantity is dropped without a word.
IsItem(entry) == ItemOf(entry).product # Undefined /\ ItemOf(entry).quantity # Undefined
Items ==
  LET kept == AtPlaces(lineItems, {k \in DOMAIN lineItems : IsItem(lineItems[k])})
  IN [k \in DOMAIN kept |-> ItemOf(kept[k])]

----------------------------------------------------------------------------
(* extract.                                                                *)

Mapped ==
  [transactionType |-> TransactionType,
   supplierName |-> IF TransactionType = "INCOMING" THEN SupplierName ELSE Undefined,
   partyName |-> IF TransactionType = "OUTGOING" THEN ReceiverName ELSE Undefined,
   date |-> InvoiceDate, warehouseName |-> WarehouseName,
   deliveryAddress |-> DeliveryAddress,
   deliveryCountry |-> ReceiverField({"COUNTRY"}),
   deliveryRegion |-> ReceiverField({"STATE", "REGION"}),
   items |-> Items]

\* validateExtractedDocumentData.
IsValid(data) ==
  /\ data.transactionType \in Types
  /\ data.date \in Dated \cup {Undefined}
  /\ \A k \in DOMAIN data.items :
       /\ data.items[k].product # Undefined
       /\ data.items[k].quantity \in Nat \ {0}
       /\ data.items[k].priceOfAll # Undefined => data.items[k].priceOfAll >= 0

Awaited == [status |-> "asked", data |-> Undefined]
Refused == [status |-> "refused", data |-> Undefined]

ExtractionInit == summary = <<>> /\ blocks = <<>> /\ lineItems = <<>> /\ answer = Awaited

\* What is printed on the invoice, until Textract has read it.
PrintField(f) ==
  /\ answer = Awaited /\ Len(summary) < MaxFields
  /\ summary' = Append(summary, f)
  /\ UNCHANGED <<blocks, lineItems, answer>>
PrintBlock(text) ==
  /\ answer = Awaited /\ Len(blocks) < MaxBlocks
  /\ blocks' = Append(blocks, text)
  /\ UNCHANGED <<summary, lineItems, answer>>
PrintRow(entry) ==
  /\ answer = Awaited /\ Len(lineItems) < MaxRows
  /\ lineItems' = Append(lineItems, entry)
  /\ UNCHANGED <<summary, blocks, answer>>

\* It has read one expense document.
Extract ==
  /\ answer = Awaited
  /\ answer' = IF TransactionType = Undefined \/ Cardinality(WarehouseNames) > 1 THEN Refused
                ELSE IF IsValid(Mapped) THEN [status |-> "extracted", data |-> Mapped]
                ELSE [status |-> "invalid", data |-> Mapped]
  /\ UNCHANGED <<summary, blocks, lineItems>>

\* It failed, was not done in time, or read none or several.
ExtractFails ==
  /\ answer = Awaited /\ answer' = Refused
  /\ UNCHANGED <<summary, blocks, lineItems>>

ExtractionNext ==
  \/ \E f \in Fields : PrintField(f)
  \/ \E text \in Blocks : PrintBlock(text)
  \/ \E entry \in LineItems : PrintRow(entry)
  \/ Extract \/ ExtractFails

ExtractionSpec == ExtractionInit /\ [][ExtractionNext]_extractionVars

----------------------------------------------------------------------------
(* Properties.                                                             *)

Data == answer.data
Texts == {f.text : f \in Range(summary)}
InGroups(groups) == {f.text : f \in {g \in Range(summary) : g.groups \cap groups # {}}}

\* What the review row says stands on the invoice: its direction is the one of every
\* marker, wherever it is printed and whichever is read first; the supplier among what it
\* says of the vendor and the customer among what it says of the receiver, only
\* the one the direction calls for; the products are those of its lines, in their
\* order; and a product costs with its quantity what its line says.  And what is
\* extracted always passes the validation of the review.
NothingIsInvented ==
  /\ answer.status \in {"asked", "refused", "extracted"}
  /\ answer.status = "extracted" =>
    /\ IsValid(Data) /\ Markers = {Data.transactionType}
    /\ {Data.date, Data.warehouseName, Data.deliveryAddress, Data.deliveryCountry,
        Data.deliveryRegion} \subseteq Texts \cup {Undefined}
    /\ Data.supplierName \in {f.text : f \in {g \in Range(summary) : g.type = "VENDOR_NAME"}}
                               \cup InGroups({"VENDOR_SUPPLIER"}) \cup {Undefined}
    /\ Data.partyName \in {f.text : f \in {g \in Range(summary) : g.type = "RECEIVER_NAME"}}
                            \cup InGroups(Range(ReceiverGroups)) \cup {Undefined}
    /\ Undefined \in {Data.supplierName, Data.partyName}
    /\ \E line \in [DOMAIN Data.items -> DOMAIN lineItems] :
         /\ \A j, k \in DOMAIN line : j < k => line[j] < line[k]
         /\ \A k \in DOMAIN line :
              LET item == Data.items[k]
                  total == FindValueByType(lineItems[line[k]], "PRICE")
              IN /\ \E f \in Range(lineItems[line[k]]) : f.type = "ITEM" /\ f.text = item.product
                 /\ (~HasUnitPrice(lineItems[line[k]]) /\ item.priceOfAll # Undefined)
                      => item.priceOfAll = total[2]
=============================================================================
