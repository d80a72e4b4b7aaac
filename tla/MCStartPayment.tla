--------------------------- MODULE MCStartPayment ---------------------------
(* Instances of StartPayment small enough for TLC.                         *)
EXTENDS StartPayment, TLC

CONSTANT o1  \* an order

Body(order, amount, gateway) == [order |-> order, amount |-> amount, gateway |-> gateway]

(* Two prices and two banks for one order, and a call that is refused.     *)
AllBodies ==
  {Body(o1, 1000, "sep"), Body(o1, 2000, None), Body(o1, 999, None)}

OneBody == {Body(o1, 1000, "sep")}

Interchangeable == Permutations(Calls) \cup Permutations(Keys)
=============================================================================
