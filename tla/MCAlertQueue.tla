----------------------------- MODULE MCAlertQueue -----------------------------
(* Instances of AlertQueue small enough for TLC.                           *)
EXTENDS AlertQueue, TLC

Interchangeable == Permutations(Alerts)
=============================================================================
