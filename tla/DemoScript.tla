----------------------------- MODULE DemoScript ----------------------------
(***************************************************************************)
(* What the script that fills the database of the demo writes: products    *)
(* with their thresholds and, product by product and warehouse by          *)
(* warehouse, past and pending orders.  Ages are days before the reference *)
(* date.  Suppliers, customers and prices are left out.                    *)
(***************************************************************************)
EXTENDS Sequences, SequencesExt, TLC

CONSTANT Nowhere  \* no warehouse

----------------------------------------------------------------------------
(* The calls of the script.                                                *)

Call(type, outcome, src, dst, lines, age) ==
  [type |-> type, status |-> outcome, src |-> src, dst |-> dst, lines |-> lines, age |-> age]

\* A visit is one call for one product at one warehouse.
Visit(type, outcome, other, quantity, age) ==
  [type |-> type, status |-> outcome, other |-> other, quantity |-> quantity, age |-> age]

In(q, age) == Visit("INCOMING", "COMPLETED", Nowhere, q, age)
Ordered(q) == Visit("INCOMING", "PENDING", Nowhere, q, 0)
CancelledIn(q) == Visit("INCOMING", "CANCELLED", Nowhere, q, 0)
Out(q, age) == Visit("OUTGOING", "COMPLETED", Nowhere, q, age)
Reserved(q) == Visit("OUTGOING", "PENDING", Nowhere, q, 0)
CancelledOut(q) == Visit("OUTGOING", "CANCELLED", Nowhere, q, 0)
Sent(q, to, age) == Visit("TRANSFER", "COMPLETED", to, q, age)
Leaving(q, to) == Visit("TRANSFER", "PENDING", to, q, 0)
CancelledMove(q, to) == Visit("TRANSFER", "CANCELLED", to, q, 0)
Counted(q, age) == Visit("ADJUSTMENT", "COMPLETED", Nowhere, q, age)

\* The visits of product p to warehouse w, in their order; visits to different
\* rows do not depend on each other.
At(p, w, visits) ==
  [k \in DOMAIN visits |->
     LET v == visits[k] IN
       IF v.type = "INCOMING"
         THEN Call(v.type, v.status, Nowhere, w, p :> v.quantity, v.age)
         ELSE Call(v.type, v.status, w, v.other, p :> v.quantity, v.age)]
Order(w, lines, age) == <<Call("OUTGOING", "COMPLETED", w, Nowhere, lines, age)>>

Threshold ==
  [laptop |-> 25, monitor |-> 18, dock |-> 20, mouse |-> 30, keyboard |-> 15,
   headphones |-> 25, chair |-> 10, desk |-> 8, deskLamp |-> 15, tshirt |-> 35,
   hoodie |-> 25, rainJacket |-> 20, notebook |-> 60, calculator |-> 20,
   campusBackpack |-> 20, kettle |-> 20, coffeeMaker |-> 15, waterBottle |-> 30,
   yogaMat |-> 20, bands |-> 25, hikingBackpack |-> 15, hairDryer |-> 15,
   toothbrush |-> 18, groomingKit |-> 15, storageBin |-> 20]
Articles == DOMAIN Threshold
Depots == {"beirut", "tripoli", "saida", "zahle"}

----------------------------------------------------------------------------
(* The scenarios.                                                          *)

LaptopPurchases ==
  At("laptop", "beirut", <<In(22, 95), In(20, 70), In(22, 48), In(19, 40)>>)
  \o At("laptop", "tripoli",
        <<In(18, 90), In(16, 61), In(17, 42), In(18, 37), In(16, 38), CancelledIn(15)>>)
  \o At("laptop", "saida", <<In(20, 88), In(18, 60), In(20, 34), In(15, 40)>>)
  \o At("laptop", "zahle", <<In(20, 55), In(20, 40)>>)
Laptop ==
  LaptopPurchases
  \o At("laptop", "beirut",
        <<Out(10, 45), Out(10, 15), Reserved(20), Leaving(8, "zahle"), Ordered(12),
          In(8, 290), Out(8, 250)>>)
  \o At("laptop", "tripoli", <<Out(10, 45), Out(10, 15), Ordered(10)>>)
  \o At("laptop", "saida", <<Out(9, 45), Out(9, 15)>>)
  \o At("laptop", "zahle", <<Out(4, 45), Out(4, 15)>>)

Keyboard ==
  At("keyboard", "beirut", <<In(60, 85), Out(30, 45), Out(30, 15)>>)
  \o At("keyboard", "tripoli", <<In(25, 70), Out(10, 45), In(10, 30), Out(10, 15)>>)
  \o At("keyboard", "saida", <<In(25, 65), Out(10, 45), In(10, 30), Out(10, 15)>>)

Headphones ==
  At("headphones", "beirut", <<In(41, 95), Out(8, 45), Out(8, 15)>>)
  \o At("headphones", "tripoli", <<In(40, 90), Out(16, 45), Out(8, 15), Out(8, 5)>>)
  \o At("headphones", "saida", <<In(90, 90), Out(10, 45), Out(10, 15)>>)

Dock ==
  At("dock", "saida", <<In(35, 80), Out(15, 45), Out(15, 15), Ordered(20)>>)
  \o At("dock", "beirut", <<In(45, 160), In(30, 108), Out(10, 45), Out(10, 15)>>)

Anomalous ==
  At("mouse", "beirut", <<In(220, 120), In(80, 20), Out(10, 45), Out(20, 20), Out(30, 5)>>)
  \o At("mouse", "saida", <<In(90, 100), Out(12, 45), Out(12, 15)>>)
  \o At("notebook", "tripoli", <<In(420, 110), In(180, 70), Out(80, 45), Out(20, 15)>>)
  \o At("notebook", "beirut", <<In(500, 150), Out(90, 45), Out(90, 15)>>)
  \o At("yogaMat", "saida", <<In(100, 90), In(30, 40), Out(20, 10)>>)
  \o At("yogaMat", "beirut", <<In(80, 75), Out(8, 45), Out(8, 15)>>)

Idle60Days ==
  At("chair", "beirut", <<In(30, 125), Counted(2, 10)>>)
  \o At("chair", "tripoli", <<In(40, 80), In(15, 35), Out(8, 40), Out(7, 12)>>)
  \o At("desk", "tripoli", <<In(24, 150), Out(4, 95), In(8, 20)>>)
  \o At("desk", "beirut", <<In(30, 100), Out(5, 45), Out(5, 15)>>)

LowStocks ==
  At("hoodie", "beirut", <<In(55, 80), Out(20, 45), Out(20, 15)>>)
  \o At("hoodie", "tripoli", <<In(35, 70), Out(5, 45), Out(5, 15)>>)
  \o At("hoodie", "saida", <<In(35, 70), Out(5, 45), Out(5, 15)>>)
  \o At("kettle", "tripoli", <<In(38, 85), Out(15, 45), Out(15, 15), Ordered(5)>>)
  \o At("kettle", "beirut", <<In(30, 70), Out(5, 45), Out(5, 15)>>)
  \o At("kettle", "saida", <<In(30, 70), Out(5, 45), Out(5, 15)>>)

\* A product that sells as much in the last 30 days as in the 30 before.
\* Mutant: the last sales at the first warehouse are half of those before.
HealthyHistoryUnbalanced(p, primary, secondary) ==
  At(p, primary,
     <<In(Threshold[p] * 8 + 80, 330), In(Threshold[p] * 2 + 10, 90),
       Out(5, 280), Out(8, 190), Out(12, 45), Out(6, 15)>>)
  \o At(p, secondary, <<In(Threshold[p] * 5 + 50, 240), Out(6, 120), Out(8, 45), Out(8, 15)>>)
HealthyHistory(p, primary, secondary) ==
  At(p, primary,
     <<In(Threshold[p] * 8 + 80, 330), In(Threshold[p] * 2 + 10, 90),
       Out(5, 280), Out(8, 190), Out(12, 45), Out(12, 15)>>)
  \o At(p, secondary, <<In(Threshold[p] * 5 + 50, 240), Out(6, 120), Out(8, 45), Out(8, 15)>>)

HealthyConfigs ==
  << <<"monitor", "beirut", "tripoli">>, <<"deskLamp", "beirut", "saida">>,
     <<"tshirt", "beirut", "tripoli">>, <<"calculator", "beirut", "saida">>,
     <<"campusBackpack", "beirut", "tripoli">>, <<"waterBottle", "saida", "beirut">>,
     <<"hikingBackpack", "tripoli", "beirut">>, <<"hairDryer", "beirut", "saida">>,
     <<"toothbrush", "saida", "beirut">>, <<"groomingKit", "tripoli", "zahle">>,
     <<"storageBin", "beirut", "tripoli">> >>
Healthy ==
  FlattenSeq([k \in DOMAIN HealthyConfigs |->
    HealthyHistory(HealthyConfigs[k][1], HealthyConfigs[k][2], HealthyConfigs[k][3])])

EveryStatus ==
  At("campusBackpack", "beirut", <<Sent(12, "tripoli", 25)>>)
  \o At("groomingKit", "tripoli", <<Counted(-3, 8)>>)
  \o At("waterBottle", "beirut", <<Counted(5, 12)>>)
  \o At("tshirt", "beirut", <<Reserved(15)>>)
  \o At("campusBackpack", "tripoli", <<Leaving(6, "beirut")>>)
  \o At("rainJacket", "saida", <<CancelledOut(6)>>)
  \o At("monitor", "beirut", <<CancelledMove(4, "tripoli")>>)
  \o At("coffeeMaker", "zahle", <<CancelledIn(8)>>)
  \o At("calculator", "saida", <<Reserved(5)>>)
  \o At("notebook", "beirut", <<Ordered(100)>>)
  \o Order("beirut", [monitor |-> 2, mouse |-> 4, deskLamp |-> 3], 75)
  \o Order("beirut", [laptop |-> 2, dock |-> 3], 65)
  \o Order("saida", [waterBottle |-> 10, yogaMat |-> 5], 70)

Receivers ==
  At("rainJacket", "tripoli", <<In(18, 80), Out(2, 45), Out(2, 15)>>)
  \o At("coffeeMaker", "tripoli", <<In(15, 80), Out(2, 45), Out(2, 15)>>)
  \o At("bands", "saida", <<In(25, 80), Out(3, 45), Out(3, 15)>>)

Donors ==
  At("headphones", "saida", <<In(20, 70)>>)
  \o At("rainJacket", "zahle", <<In(60, 90), Out(5, 75)>>)
  \o At("bands", "tripoli", <<In(70, 100), Out(5, 75)>>)
  \o At("coffeeMaker", "saida", <<In(55, 95), Out(5, 75)>>)

\* Sales of the last days, each with a companion in the window before.
RecentRevenue ==
  At("deskLamp", "zahle", <<In(100, 100), Out(14, 20), Out(12, 7), Out(26, 45)>>)
  \o At("waterBottle", "zahle", <<In(120, 100), Out(18, 19), Out(14, 6), Out(32, 45)>>)
  \o At("monitor", "beirut", <<Out(15, 3), Out(15, 45)>>)
  \o At("deskLamp", "beirut", <<Out(20, 9), Out(20, 45)>>)
  \o At("hikingBackpack", "beirut", <<Out(18, 17), Out(18, 45)>>)
  \o At("storageBin", "beirut", <<Out(25, 24), Out(25, 45)>>)
  \o At("calculator", "beirut", <<Out(20, 6), Out(20, 45)>>)
  \o At("monitor", "tripoli", <<Out(12, 4), Out(12, 45)>>)
  \o At("campusBackpack", "tripoli", <<Out(20, 11), Out(20, 45)>>)
  \o At("tshirt", "tripoli", <<Out(30, 19), Out(30, 45)>>)
  \o At("storageBin", "tripoli", <<Out(15, 26), Out(15, 45)>>)
  \o At("groomingKit", "tripoli", <<Out(15, 7), Out(15, 45)>>)
  \o At("deskLamp", "saida", <<Out(18, 5), Out(18, 45)>>)
  \o At("calculator", "saida", <<Out(16, 12), Out(16, 45)>>)
  \o At("waterBottle", "saida", <<Out(25, 20), Out(25, 45)>>)
  \o At("hairDryer", "saida", <<Out(14, 27), Out(14, 45)>>)
  \o At("toothbrush", "saida", <<Out(20, 9), Out(20, 45)>>)
  \o At("groomingKit", "zahle", <<Out(14, 24), Out(12, 11), Out(10, 4), Out(36, 45)>>)

Script ==
  Laptop \o Keyboard \o Headphones \o Dock \o Anomalous \o Idle60Days \o LowStocks
    \o Healthy \o EveryStatus \o Receivers \o Donors \o RecentRevenue
=============================================================================
