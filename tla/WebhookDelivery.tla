-------------------------- MODULE WebhookDelivery --------------------------
(***************************************************************************)
(* One call of the receiver's webhook: services/webhook.service.js with    *)
(* utils/reach.js.  A setting may list several addresses of one receiver;  *)
(* an attempt tries them in order, the next one only when the request      *)
(* provably never reached the last, and failed attempts are repeated.      *)
(***************************************************************************)
EXTENDS Naturals, FiniteSets

CONSTANTS
  MaxAddresses,  \* a bound on the addresses of a setting
  Retries        \* WEBHOOK_MAX_RETRIES; 1 for a failure and for a ping

ASSUME DeliveryAssumption == MaxAddresses \in Nat /\ Retries \in Nat \ {0}

VARIABLES
  addresses,   \* how many the setting lists; it does not change
  pc,          \* "new", "post" (under way), "sleep" (before a retry), "ended"
  attempt,
  at,          \* the address of the request under way
  posted,      \* requests sent so far: <<attempt, address>>
  received,    \* requests the receiver got
  late,        \* requests that timed out and may still reach it
  result       \* "none", "ok", "failed", "skipped"

vars == <<addresses, pc, attempt, at, posted, received, late, result>>

Init ==
  /\ addresses \in 0..MaxAddresses
  /\ pc = "new"
  /\ attempt = 1
  /\ at = 1
  /\ posted = {}
  /\ received = {}
  /\ late = {}
  /\ result = "none"

Post(n, a) ==
  /\ pc' = "post"
  /\ attempt' = n
  /\ at' = a
  /\ posted' = posted \cup {<<n, a>>}
  /\ UNCHANGED result

End(how) == pc' = "ended" /\ result' = how /\ UNCHANGED <<attempt, at, posted>>

Start ==
  /\ pc = "new"
  /\ IF addresses = 0
     THEN End("skipped")
     ELSE Post(1, 1)
  /\ UNCHANGED <<addresses, received, late>>

(* The receiver gets a request: the one under way, or one whose timeout is *)
(* over.  It may do the work and not answer.                               *)
Reaches ==
  /\ \E p \in late \cup (IF pc = "post" THEN {<<attempt, at>>} ELSE {}) :
       /\ p \notin received
       /\ received' = received \cup {p}
       /\ late' = late \ {p}
  /\ UNCHANGED <<addresses, pc, attempt, at, posted, result>>

(***************************************************************************)
(* How a request ends.  axios throws only when no answer came, so a proxy's *)
(* answer, even a 502 or 503 that says it has no upstream, is an answer    *)
(* like any other (validateStatus).                                        *)
(***************************************************************************)
Outcomes ==
  IF <<attempt, at>> \in received
  THEN {"taken", "rejected", "timeout"}
  ELSE {"unreached", "proxy", "timeout"}

AnyError(outcome)     == outcome \in {"unreached", "timeout"}  \* mutant: a timeout counts too
NeverReached(outcome) == outcome = "unreached"

AnyAnswer(outcome) == outcome \in {"taken", "rejected", "proxy"}  \* mutant: any status will do
Succeeds(outcome)  == outcome = "taken"

MayRetry(n) == n < Retries

RequestEnds ==
  /\ pc = "post"
  /\ \E outcome \in Outcomes :
       /\ late' = IF outcome = "timeout" THEN (late \cup {<<attempt, at>>}) \ received ELSE late
       /\ IF Succeeds(outcome) THEN End("ok")
          ELSE IF NeverReached(outcome) /\ at < addresses
          THEN Post(attempt, at + 1)
          ELSE IF MayRetry(attempt)
          THEN pc' = "sleep" /\ UNCHANGED <<attempt, at, posted, result>>
          ELSE End("failed")
  /\ UNCHANGED <<addresses, received>>

Again ==
  /\ pc = "sleep"
  /\ Post(attempt + 1, 1)
  /\ UNCHANGED <<addresses, received, late>>

Next == Start \/ Reaches \/ RequestEnds \/ Again

Spec == Init /\ [][Next]_vars
-----------------------------------------------------------------------------
(* Every variable has its type, and no attempt beyond the last is made.    *)
TypeOK ==
  /\ pc \in {"new", "post", "sleep", "ended"}
  /\ attempt \in 1..Retries
  /\ addresses \in 0..MaxAddresses
  /\ at \in Nat
  /\ posted \subseteq (1..Retries) \X (1..addresses)
  /\ received \subseteq posted
  /\ late \subseteq posted \ received
  /\ result \in {"none", "ok", "failed", "skipped"}

(***************************************************************************)
(* In one attempt the receiver gets the payload at most once, whichever of *)
(* its addresses answer late or not at all ("sending again could do the    *)
(* thing twice").                                                          *)
(***************************************************************************)
OncePerAttempt ==
  \A r, s \in received : r[1] = s[1] => r = s

(* A call that reports success reached the receiver, at its last request.  *)
OkMeansTaken == result = "ok" => <<attempt, at>> \in received
=============================================================================
