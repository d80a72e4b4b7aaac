----------------------------- MODULE MCAdminApi -----------------------------
(* Instances of AdminApi small enough for TLC.                             *)
EXTENDS AdminApi, TLC

Interchangeable == Permutations(Keys)
=============================================================================
