--------------------------- MODULE MCPaymentQueue ---------------------------
(* Instances of PaymentQueue small enough for TLC.                         *)
EXTENDS PaymentQueue, TLC

Interchangeable == Permutations(Items \ OldItems) \cup Permutations(Passes)
=============================================================================
