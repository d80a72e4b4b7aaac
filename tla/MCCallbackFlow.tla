--------------------------- MODULE MCCallbackFlow ---------------------------
(* Instances of CallbackFlow small enough for TLC.                         *)
EXTENDS CallbackFlow, TLC

CONSTANTS k1, k2

OneOrder == [k \in Payments |-> "order"]
TheOrder == {"order"}
Prices   == [k \in Payments |-> IF k = k1 THEN 1 ELSE 2]
Zibal    == [k \in Payments |-> "zibal"]
Zarinpal == [k \in Payments |-> "zarinpal"]
AllSep   == [k \in Payments |-> "sep"]
SepFirst == [k \in Payments |-> IF k = k1 THEN "sep" ELSE "zarinpal"]

Interchangeable == Permutations(Callbacks)
=============================================================================
