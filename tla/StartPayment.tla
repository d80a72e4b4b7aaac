---------------------------- MODULE StartPayment ----------------------------
(***************************************************************************)
(* Starting a payment: POST /payments of v1 and v2, the gateway chain with *)
(* its tries, the payment session and the Idempotency-Key of v2.  Calls    *)
(* run side by side and stop while a bank is asked.  A v1 call is a call   *)
(* without a key; the two differ otherwise only in the answer's wording.   *)
(***************************************************************************)
EXTENDS IdempotencyKeys, Naturals, Sequences

CONSTANTS
  Calls,
  Orders,
  Bodies,       \* what calls ask for: [order, amount, gateway]
  None,         \* no key, no order, no link, no session
  Minimum,      \* GATEWAY_MINIMUMS, the same for every bank
  Forced,       \* FORCED_PAYMENT_GATEWAY, or None
  Failover,     \* PAYMENT_FAILOVER_ENABLED
  Tries,        \* GATEWAY_REQUEST_RETRIES
  LastTries,    \* GATEWAY_LAST_RETRIES
  Faults,       \* "refuses" (a bank), "network", "session" (write), "ttl", "crash"
  MaxCrashes,
  MaxMisses     \* bound on failed uses of the file of answers

Gateways == {"zibal", "zarinpal", "zarinpal_sandbox", "sep"}

ASSUME StartAssumption ==
  /\ Bodies \subseteq [order : Orders \cup {None}, amount : Nat, gateway : Gateways \cup {None}]
  /\ None \notin Keys \cup Orders \cup Gateways
  /\ Minimum \in Nat \ {0}
  /\ Forced \in Gateways \cup {None}
  /\ Failover \in BOOLEAN
  /\ {Tries, LastTries} \subseteq Nat \ {0}
  /\ Faults \subseteq {"refuses", "network", "session", "ttl", "crash"}
  /\ {MaxCrashes, MaxMisses} \subseteq Nat

VARIABLES
  pc,        \* per call: "idle", "asking" (a bank), "over", "old" (its key expired since)
  key,       \* per call: its Idempotency-Key, or None
  body,      \* per call: what it asks for
  hop,       \* per call: its place in the chain
  try,       \* per call: tries at that bank
  answer,    \* per call: [status, link]
  opened,    \* payments the banks opened; the link leads to one
  session,   \* per order: [amount, gateway] of the payment started last, or None
  crashes,
  misses     \* failed uses of the file of answers

callVars == <<pc, key, body, hop, try, answer>>
vars == <<kept, inFlight, callVars, opened, session, crashes, misses>>

NoAnswer == [status |-> "none", link |-> None]
Said(status) == [status |-> status, link |-> None]

Init ==
  /\ KeysInit
  /\ pc = [c \in Calls |-> "idle"]
  /\ key = [c \in Calls |-> None]
  /\ body \in [Calls -> Bodies]
  /\ hop = [c \in Calls |-> 1]
  /\ try = [c \in Calls |-> 1]
  /\ answer = [c \in Calls |-> NoAnswer]
  /\ opened = {}
  /\ session = [o \in Orders |-> None]
  /\ crashes = 0
  /\ misses = 0

(***************************************************************************)
(* Which banks, in which order, and how often each.                        *)
(***************************************************************************)
ResolveGateway(requested) ==
  IF Forced \in Gateways THEN Forced
  ELSE IF requested \in Gateways THEN requested ELSE "zarinpal"

Chain(requested) ==
  LET primary == ResolveGateway(requested)
  IN  IF Failover /\ primary = "sep" THEN <<"sep", "zarinpal">> ELSE <<primary>>

ChainOf(c) == Chain(body[c].gateway)
AskedBank(c) == ChainOf(c)[hop[c]]
IsLast(c) == hop[c] = Len(ChainOf(c))
TriesAt(c) == IF IsLast(c) THEN LastTries ELSE Tries

Rejected(b) == b.order = None \/ b.amount < Minimum

(***************************************************************************)
(* The call comes in.  Without the secret, or with a malformed key, it     *)
(* stops there; with a key that is known or running it does not start.     *)
(***************************************************************************)
Answered(c, a) == answer' = [answer EXCEPT ![c] = a] /\ pc' = [pc EXCEPT ![c] = "over"]

TurnAway(c) ==
  /\ pc[c] = "idle"
  /\ Answered(c, Said("turned away"))
  /\ UNCHANGED <<kept, inFlight, key, body, hop, try, opened, session, crashes, misses>>

AnswerForKey(c, k, io) ==
  /\ pc[c] = "idle"
  /\ key' = [key EXCEPT ![c] = k]
  /\ \/ \E e \in Loaded(io) :
          e.key = k /\ Answered(c, IF SameCall(e, body[c]) THEN e.answer ELSE Said("key reused"))
     \/ ~Known(k, io) /\ ~IsNew(k, io) /\ Answered(c, Said("in progress"))
  /\ UNCHANGED <<kept, inFlight, body, hop, try, opened, session, crashes>>

Ask(c, k, io) ==
  /\ pc[c] = "idle"
  /\ ~Rejected(body[c])
  /\ IF k = None THEN UNCHANGED <<kept, inFlight>> ELSE IsNew(k, io) /\ Begin(k)
  /\ key' = [key EXCEPT ![c] = k]
  /\ pc' = [pc EXCEPT ![c] = "asking"]
  /\ UNCHANGED <<body, hop, try, answer, opened, session, crashes>>

(* begin and finish in one step, each with its own use of the file.        *)
Reject(c, k, io, io2) ==
  /\ pc[c] = "idle"
  /\ Rejected(body[c])
  /\ IF k = None THEN UNCHANGED <<kept, inFlight>>
     ELSE IsNew(k, io) /\ Finish(k, body[c], Said("refused"), io2)
  /\ key' = [key EXCEPT ![c] = k]
  /\ Answered(c, Said("refused"))
  /\ UNCHANGED <<body, hop, try, opened, session, crashes>>

(***************************************************************************)
(* One try at one bank.  Only a network error is tried again, and the bank *)
(* may have opened a payment whose link was lost.                          *)
(***************************************************************************)
Link(c) ==
  [by |-> <<c, hop[c], try[c]>>, order |-> body[c].order, amount |-> body[c].amount,
   gateway |-> AskedBank(c)]

BankOpens(c) ==
  /\ pc[c] = "asking"
  /\ Link(c) \notin opened
  /\ opened' = opened \cup {Link(c)}
  /\ UNCHANGED <<kept, inFlight, callVars, session, crashes, misses>>

End(c, a, io) ==
  /\ Answered(c, a)
  /\ IF key[c] = None THEN UNCHANGED <<kept, inFlight>> ELSE Finish(key[c], body[c], a, io)

AsRequested(c) == [amount |-> body[c].amount, gateway |-> ResolveGateway(body[c].gateway)]  \* mutant
SessionOf(c) == [amount |-> body[c].amount, gateway |-> AskedBank(c)]

BankAnswers(c, io) ==
  /\ pc[c] = "asking"
  /\ Link(c) \in opened
  /\ End(c, [status |-> "started", link |-> Link(c)], io)
  /\ \/ session' = [session EXCEPT ![body[c].order] = SessionOf(c)]
     \/ "session" \in Faults /\ UNCHANGED session
  /\ UNCHANGED <<key, body, hop, try, opened, crashes>>

NextBank(c, io) ==
  IF IsLast(c)
  THEN End(c, Said("failed"), io) /\ UNCHANGED <<hop, try>>
  ELSE /\ hop' = [hop EXCEPT ![c] = @ + 1]
       /\ try' = [try EXCEPT ![c] = 1]
       /\ UNCHANGED <<kept, inFlight, pc, answer>>

BankRefuses(c, io) ==
  /\ "refuses" \in Faults
  /\ pc[c] = "asking"
  /\ Link(c) \notin opened
  /\ NextBank(c, io)
  /\ UNCHANGED <<key, body, opened, session, crashes>>

NetworkFails(c, io) ==
  /\ "network" \in Faults
  /\ pc[c] = "asking"
  /\ IF try[c] < TriesAt(c)
     THEN /\ try' = [try EXCEPT ![c] = @ + 1]
          /\ UNCHANGED <<kept, inFlight, pc, hop, answer>>
     ELSE NextBank(c, io)
  /\ UNCHANGED <<key, body, opened, session, crashes>>

(***************************************************************************)
(* The environment: a session is removed or expires, a key expires, the    *)
(* process dies.  After a restart every call is gone; what the banks and   *)
(* the files hold is not.                                                  *)
(***************************************************************************)
SessionEnds(o) ==
  /\ session[o] # None
  /\ session' = [session EXCEPT ![o] = None]
  /\ UNCHANGED <<kept, inFlight, callVars, opened, crashes, misses>>

KeyExpires(k) ==
  /\ "ttl" \in Faults
  /\ Expire(k)
  /\ pc' = [c \in Calls |-> IF key[c] = k /\ pc[c] = "over" THEN "old" ELSE pc[c]]
  /\ UNCHANGED <<key, body, hop, try, answer, opened, session, crashes, misses>>

Crash ==
  /\ "crash" \in Faults
  /\ crashes < MaxCrashes
  /\ crashes' = crashes + 1
  /\ inFlight' = {}
  /\ pc' = [c \in Calls |-> IF pc[c] = "asking" THEN "over" ELSE pc[c]]
  /\ UNCHANGED <<kept, key, body, hop, try, answer, opened, session, misses>>

(* How an action uses the file of answers, one failure at a time.          *)
Uses(io) ==
  IF io = "ok" THEN UNCHANGED misses ELSE misses < MaxMisses /\ misses' = misses + 1

Incoming(c) ==
  \/ TurnAway(c)
  \/ \E io \in KeyIO :
       /\ Uses(io)
       /\ \/ \E k \in Keys : AnswerForKey(c, k, io)
          \/ \E k \in Keys \cup {None} :
               Ask(c, k, io) \/ Reject(c, k, io, "ok") \/ Reject(c, k, "ok", io)

TryEnds(c) ==
  \E io \in KeyIO :
    Uses(io) /\ (BankAnswers(c, io) \/ BankRefuses(c, io) \/ NetworkFails(c, io))

Next ==
  \/ \E c \in Calls : Incoming(c) \/ BankOpens(c) \/ TryEnds(c)
  \/ \E o \in Orders : SessionEnds(o)
  \/ \E k \in Keys : KeyExpires(k)
  \/ Crash

Spec == Init /\ [][Next]_vars
-----------------------------------------------------------------------------
Links == [by : Calls \X (1..2) \X Nat, order : Orders, amount : Nat, gateway : Gateways]
Statuses ==
  {"none", "started", "failed", "refused", "in progress", "key reused", "turned away"}
Answers == [status : Statuses, link : Links \cup {None}]

(* Every variable has its type.                                            *)
TypeOK ==
  /\ kept \subseteq [key : Keys, meaning : Bodies, answer : Answers]
  /\ inFlight \subseteq Keys
  /\ pc \in [Calls -> {"idle", "asking", "over", "old"}]
  /\ key \in [Calls -> Keys \cup {None}]
  /\ body \in [Calls -> Bodies]
  /\ hop \in [Calls -> 1..2]
  /\ try \in [Calls -> Nat \ {0}]
  /\ \A c \in Calls : hop[c] <= Len(ChainOf(c)) /\ try[c] <= TriesAt(c)
  /\ answer \in [Calls -> Answers]
  /\ opened \subseteq Links
  /\ session \in [Orders -> {None} \cup [amount : Nat, gateway : Gateways]]
  /\ crashes \in 0..MaxCrashes
  /\ misses \in 0..MaxMisses

(***************************************************************************)
(* While an answer is kept, every call with its key that is told a result  *)
(* is told the same one, a link or a refusal, as long as the file of       *)
(* answers could be used.  Calls race, fail and repeat, and the process    *)
(* restarts ("the same key sent again returns the first answer instead of  *)
(* doing the work twice").                                                 *)
(***************************************************************************)
HasResult(c) == pc[c] = "over" /\ answer[c].status \in {"started", "refused"}

OneAnswerPerKey ==
  misses = 0 => \A c, d \in Calls :
    HasResult(c) /\ HasResult(d) /\ key[c] = key[d] /\ key[c] # None => answer[c] = answer[d]

(* A link a call is given leads to a payment of its own order and amount,  *)
(* opened at a bank of its chain, whatever key it came with.               *)
AnswerIsForThisCall ==
  \A c \in Calls : answer[c].status = "started" =>
    /\ answer[c].link \in opened
    /\ answer[c].link.order = body[c].order
    /\ answer[c].link.amount = body[c].amount
    /\ \E i \in DOMAIN ChainOf(c) : answer[c].link.gateway = ChainOf(c)[i]

(* A kept answer is one a call with that key and meaning was told, and no  *)
(* failure: the caller of a failed call may try again with its key.        *)
KeptWasTold ==
  \A e \in kept :
    /\ e.answer.status # "failed"
    /\ \E c \in Calls : key[c] = e.key /\ body[c] = e.meaning /\ answer[c] = e.answer

(* The session of an order is that of a payment some bank opened for it,   *)
(* at that amount and by that bank, also after a failover: the amount is   *)
(* what Zarinpal's verify is sent.                                         *)
SessionIsOfAPayment ==
  \A o \in Orders : session[o] # None =>
    \E l \in opened :
      l.order = o /\ l.amount = session[o].amount /\ l.gateway = session[o].gateway

(* A key is in progress as long as a call with it is at a bank, and no     *)
(* longer: failed calls and restarts release it (each try has a timeout).  *)
KeyIsOfACall ==
  inFlight = {key[c] : c \in {d \in Calls : pc[d] = "asking"}} \ {None}
=============================================================================
