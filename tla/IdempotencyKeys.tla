--------------------------- MODULE IdempotencyKeys ---------------------------
(***************************************************************************)
(* v2/idempotency.js: the answers kept for Idempotency-Keys, and the keys  *)
(* of the calls that still run.  The answers are one file, read and        *)
(* written whole on each call; the running keys are in memory.  Each       *)
(* operation is one step: nothing is awaited inside it.                    *)
(***************************************************************************)
CONSTANTS
  Keys,
  KeyIO      \* how a use of the file may go: "ok", "unreadable", "unwritten"

ASSUME KeyIOAssumption == "ok" \in KeyIO /\ KeyIO \subseteq {"ok", "unreadable", "unwritten"}

VARIABLES
  kept,      \* the answers kept: [key, meaning, answer]
  inFlight   \* keys of running calls

KeysInit == kept = {} /\ inFlight = {}

Loaded(io) == IF io = "unreadable" THEN {} ELSE kept

Stored(entries, io) == kept' = IF io = "unwritten" THEN kept ELSE entries

Known(k, io) == \E e \in Loaded(io) : e.key = k

(* begin: an answer kept is replayed to the same call and to no other.     *)
AnyMeaning(e, meaning) == TRUE  \* mutant: fingerprints are not compared
SameCall(e, meaning)   == e.meaning = meaning

AlsoRunning(k, io) == ~Known(k, io)  \* mutant: running calls are not looked at
IsNew(k, io)       == ~Known(k, io) /\ k \notin inFlight

Begin(k) == inFlight' = inFlight \cup {k} /\ UNCHANGED kept

(* finish: the key is released, and an answer that is not a 5xx is kept.   *)
AnyAnswer(answer) == TRUE  \* mutant: a 5xx is kept too
Keeps(answer)     == answer.status # "failed"

UnlessFailed(k, answer) == IF Keeps(answer) THEN inFlight \ {k} ELSE inFlight  \* mutant
Released(k, answer)     == inFlight \ {k}

Without(k, entries) == {e \in entries : e.key # k}

Finish(k, meaning, answer, io) ==
  /\ inFlight' = Released(k, answer)
  /\ IF Keeps(answer)
     THEN Stored(Without(k, Loaded(io))
                   \cup {[key |-> k, meaning |-> meaning, answer |-> answer]}, io)
     ELSE UNCHANGED kept

(* An answer is forgotten after TTL_MS.                                    *)
Expire(k) == Known(k, "ok") /\ kept' = Without(k, kept) /\ UNCHANGED inFlight
=============================================================================
