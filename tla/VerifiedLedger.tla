--------------------------- MODULE VerifiedLedger ---------------------------
(***************************************************************************)
(* services/verified-ledger.service.js: which payments were verified and   *)
(* handed to the receiver.  One file, read and written whole on each call, *)
(* so every operation is one step.  An unreadable file reads as empty, and *)
(* the next write then stores only its own entry.                          *)
(***************************************************************************)
CONSTANTS
  Payments,     \* the keys gateway:code
  LedgerIO      \* how a call may go: "ok", "unreadable", "unwritten"

ASSUME LedgerIOAssumption ==
  /\ "ok" \in LedgerIO
  /\ LedgerIO \subseteq {"ok", "unreadable", "unwritten"}

VARIABLE ledger  \* per payment its outcome; "stale": claimed too long ago

Outcome == {"none", "claimed", "stale", "pending", "done", "refused"}

LedgerInit == ledger = [k \in Payments |-> "none"]

Loaded(io) == IF io = "unreadable" THEN [k \in Payments |-> "none"] ELSE ledger

Stored(entries, io) == ledger' = IF io = "unwritten" THEN ledger ELSE entries

(* seen: "none" when the payment is not taken, or only by a stale claim.   *)
Seen(k, io) == IF Loaded(io)[k] = "stale" THEN "none" ELSE Loaded(io)[k]

(* claim: who may take the payment, and the entry that takes it.           *)
MayClaimAnything(k, takeOverPending, io) == TRUE  \* mutant: no check
MayClaim(k, takeOverPending, io) ==
  \/ Loaded(io)[k] \in {"none", "stale"}
  \/ takeOverPending /\ Loaded(io)[k] = "pending"

Claim(k, io) == Stored([Loaded(io) EXCEPT ![k] = "claimed"], io)

(* settle: a payment without an entry gets none.                           *)
Settle(k, outcome, io) ==
  IF Loaded(io)[k] = "none"
  THEN UNCHANGED ledger
  ELSE Stored([Loaded(io) EXCEPT ![k] = outcome], io)

(* Time: a claim goes stale after STALE_CLAIM_MS, any entry is dropped     *)
(* after TTL_MS.                                                           *)
GoStale(k) == ledger[k] = "claimed" /\ ledger' = [ledger EXCEPT ![k] = "stale"]
Expire(k)  == ledger[k] # "none" /\ ledger' = [ledger EXCEPT ![k] = "none"]
=============================================================================
