--------------------------- MODULE MCRefundRefresh ---------------------------
(* Instances of RefundRefresh small enough for TLC.                        *)
EXTENDS RefundRefresh, TLC

Interchangeable == Permutations(Calls) \cup Permutations(Refunds)
=============================================================================
