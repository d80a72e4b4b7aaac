---------------------------- MODULE CallbackFlow ----------------------------
(***************************************************************************)
(* The bank callback, from the guest's return to the hand-over of a        *)
(* verified payment: controllers/callbackFlow.js with bankVerification.js, *)
(* webhookDispatch.js, failureReport.js, the payment sessions and the      *)
(* verified ledger.  Callbacks of one payment run side by side and stop at *)
(* their awaits: the ping, the bank's answer, and the hand-over, for which *)
(* they wait a few seconds only while it goes on by itself.  The retry     *)
(* queue appears as what it promises (module Outbox).                      *)
(***************************************************************************)
EXTENDS VerifiedLedger, Naturals

CONSTANTS
  Callbacks,    \* requests to the callback address
  Orders,
  Order,        \* per payment, the order it is for
  Amount,       \* per payment, what the bank charges
  Gateway,      \* per payment: "zibal", "zarinpal" or "sep"
  None,
  Receiver,     \* "http" (a webhook) or "inprocess" (an extension)
  ReplayGuard,  \* CALLBACK_REPLAY_GUARD
  FrontFailure, \* FRONT_FAILURE_URL is set
  Retry,        \* a callback may carry retry=true
  VerifyTries,  \* how often a bank is asked when its answer is lost
  AdminAsks,    \* an admin verifies payments too
  Faults,       \* "crash", "answer" (lost on the way back), "queue", "ttl"
  MaxCrashes

ASSUME FlowAssumption ==
  /\ Order \in [Payments -> Orders]
  /\ Amount \in [Payments -> Nat \ {0}]
  /\ Gateway \in [Payments -> {"zibal", "zarinpal", "sep"}]
  /\ None \notin Payments
  /\ Receiver \in {"http", "inprocess"}
  /\ {ReplayGuard, FrontFailure, Retry, AdminAsks} \subseteq BOOLEAN
  /\ VerifyTries \in Nat \ {0}
  /\ Faults \subseteq {"crash", "answer", "queue", "ttl"}
  /\ MaxCrashes \in Nat

VARIABLES
  bank,         \* per payment: "none", "open", "paid", "verified"
  session,      \* per order: the amount of its latest payment, 0 when none
  pc,           \* per callback: the await it is at
  req,          \* per callback: what the bank sent
  asked,        \* per callback: the session amount it verifies with
  verdict,      \* per callback: what the bank decided, maybe not yet read
  repeats,      \* per callback: how often the bank was asked again
  charged,      \* per callback: charged_rial of its hand-over
  delivery,     \* per callback: its hand-over to the receiver
  answer,       \* per callback: where the guest was sent
  place,        \* per callback: its hand-over in the retry queue
  retrying,     \* hand-overs of the queue the receiver has just taken
  took,         \* per payment: what the receiver answered, each time
  handed,       \* per payment: hand-overs started
  failures,     \* payments whose failure was sent to the receiver
  crashes

cbVars == <<pc, req, asked, verdict, repeats, answer>>
handVars == <<charged, delivery, place, retrying, took, handed>>
vars == <<ledger, bank, session, cbVars, handVars, failures, crashes>>

Requests == [pay : Payments, retry : BOOLEAN, says : {"paid", "cancelled"}]
NoRequest == [pay |-> None, retry |-> FALSE, says |-> "cancelled"]

Pay(c) == req[c].pay

Init ==
  /\ LedgerInit
  /\ bank = [k \in Payments |-> "none"]
  /\ session = [o \in Orders |-> 0]
  /\ pc = [c \in Callbacks |-> "idle"]
  /\ req = [c \in Callbacks |-> NoRequest]
  /\ asked = [c \in Callbacks |-> 0]
  /\ verdict = [c \in Callbacks |-> "none"]
  /\ repeats = [c \in Callbacks |-> 0]
  /\ charged = [c \in Callbacks |-> 0]
  /\ delivery = [c \in Callbacks |-> "none"]
  /\ answer = [c \in Callbacks |-> "none"]
  /\ place = [c \in Callbacks |-> "new"]
  /\ retrying = {}
  /\ took = [k \in Payments |-> {}]
  /\ handed = [k \in Payments |-> 0]
  /\ failures = {}
  /\ crashes = 0

(***************************************************************************)
(* A payment is started (createPayment, once a gateway has accepted it)    *)
(* and paid at the bank; its session replaces the order's earlier one and  *)
(* lapses after two hours.                                                 *)
(***************************************************************************)
CreatePayment(k) ==
  /\ bank[k] = "none"
  /\ bank' = [bank EXCEPT ![k] = "open"]
  /\ session' = [session EXCEPT ![Order[k]] = Amount[k]]
  /\ UNCHANGED <<ledger, cbVars, handVars, failures, crashes>>

GuestPays(k) ==
  /\ bank[k] = "open"
  /\ bank' = [bank EXCEPT ![k] = "paid"]
  /\ UNCHANGED <<ledger, session, cbVars, handVars, failures, crashes>>

SessionLapses(o) ==
  /\ session[o] # 0
  /\ session' = [session EXCEPT ![o] = 0]
  /\ UNCHANGED <<ledger, bank, cbVars, handVars, failures, crashes>>

(***************************************************************************)
(* The answers.  Without FRONT_FAILURE_URL there is no page for a pending  *)
(* or a refused payment: the guest goes to the success page.               *)
(***************************************************************************)
ClaimedIsSuccess(outcome) ==       \* mutant: "claimed" is not pending
  CASE FrontFailure /\ outcome \in {"refused", "pending"} -> outcome
    [] OTHER                                              -> "success"
Page(outcome) ==
  CASE FrontFailure /\ outcome = "refused"               -> "refused"
    [] FrontFailure /\ outcome \in {"pending", "claimed"} -> "pending"
    [] OTHER                                             -> "success"

Answer(c, page) ==
  /\ pc' = [pc EXCEPT ![c] = "answered"]
  /\ answer' = [answer EXCEPT ![c] = page]

Await(c, what) ==
  /\ pc' = [pc EXCEPT ![c] = what]
  /\ UNCHANGED answer

(* dispatchFailureWebhook: one try, its result is not looked at.           *)
SendFailure(c) == failures' = failures \cup {Pay(c)}

(***************************************************************************)
(* Stages 1 and 2.  A Zarinpal cancel is refused at once; with the guard   *)
(* on, a payment already taken is answered from the ledger, except that    *)
(* retry=true may go on when its hand-over was only queued.                *)
(***************************************************************************)
IsReplay(r, io) ==
  /\ ReplayGuard
  /\ Seen(r.pay, io) # "none"
  /\ ~(r.retry /\ Seen(r.pay, io) = "pending")

Arrive(c) ==
  /\ pc[c] = "idle"
  /\ \E r \in Requests, io \in LedgerIO :
       /\ bank[r.pay] # "none"
       /\ r.says = "paid" => bank[r.pay] # "open"
       /\ r.retry => Retry
       /\ req' = [req EXCEPT ![c] = r]
       /\ IF Gateway[r.pay] = "zarinpal" /\ r.says = "cancelled"
          THEN /\ Answer(c, "cancelled")
               /\ failures' = failures \cup {r.pay}
          ELSE /\ IF IsReplay(r, io) THEN Answer(c, Page(Seen(r.pay, io)))
                                     ELSE Await(c, "ping")
               /\ UNCHANGED failures
  /\ UNCHANGED <<ledger, bank, session, asked, verdict, repeats, handVars, crashes>>

(***************************************************************************)
(* Stage 3.  The receiver is asked whether it is up; an extension in the   *)
(* process is not asked.                                                   *)
(***************************************************************************)
PingFails(c) ==
  /\ pc[c] = "ping"
  /\ Receiver = "http"
  /\ Answer(c, "unavailable")
  /\ UNCHANGED <<ledger, bank, session, req, asked, verdict, repeats, handVars, failures, crashes>>

(***************************************************************************)
(* Stage 4.  Zarinpal is asked with the session's amount, read now; a      *)
(* missing session ends the request.  A SEP callback that does not say     *)
(* "paid" is not verified; reporting it awaits an alert first.             *)
(***************************************************************************)
AskBank(c) ==
  /\ pc[c] = "ping"
  /\ LET amount == session[Order[Pay(c)]] IN
       IF Gateway[Pay(c)] # "zarinpal"
       THEN /\ Await(c, IF Gateway[Pay(c)] = "sep" /\ req[c].says = "cancelled"
                        THEN "report" ELSE "bank")
            /\ UNCHANGED asked
       ELSE /\ IF amount = 0 THEN Answer(c, "failed") ELSE Await(c, "bank")
            /\ asked' = [asked EXCEPT ![c] = amount]
  /\ UNCHANGED <<ledger, bank, session, req, verdict, repeats, handVars, failures, crashes>>

OnlyOnce(c) == bank[Pay(c)] = "paid"  \* mutant: "already verified" is no yes
(* The bank decides.  Asked again, Zibal and Zarinpal say "already         *)
(* verified", which counts as a yes; SEP answers without success.          *)
Accepts(c) ==
  LET k == Pay(c) IN
    CASE Gateway[k] = "zibal"    -> bank[k] \in {"paid", "verified"}
      [] Gateway[k] = "zarinpal" -> bank[k] \in {"paid", "verified"} /\ asked[c] = Amount[k]
      [] Gateway[k] = "sep"      -> bank[k] = "paid"

BankDecides(c) ==
  /\ pc[c] = "bank"
  /\ verdict[c] = "none"
  /\ IF Accepts(c)
     THEN /\ verdict' = [verdict EXCEPT ![c] = "yes"]
          /\ bank' = [bank EXCEPT ![Pay(c)] = "verified"]
     ELSE /\ verdict' = [verdict EXCEPT ![c] = "no"]
          /\ UNCHANGED bank
  /\ UNCHANGED <<ledger, session, pc, req, asked, repeats, answer, handVars, failures, crashes>>

(* retry: the answer did not arrive, and the bank is asked once more.      *)
AskAgain(c) ==
  /\ "answer" \in Faults
  /\ pc[c] = "bank"
  /\ verdict[c] # "none"
  /\ repeats[c] < VerifyTries - 1
  /\ repeats' = [repeats EXCEPT ![c] = @ + 1]
  /\ verdict' = [verdict EXCEPT ![c] = "none"]
  /\ UNCHANGED <<ledger, bank, session, pc, req, asked, answer, handVars, failures, crashes>>

(***************************************************************************)
(* verifyOnce, for v1's verify-only and v2's verifications: the bank is    *)
(* asked with the right amount, and nothing else happens.                  *)
(***************************************************************************)
AdminVerifies(k) ==
  /\ AdminAsks
  /\ bank[k] = "paid"
  /\ bank' = [bank EXCEPT ![k] = "verified"]
  /\ UNCHANGED <<ledger, session, cbVars, handVars, failures, crashes>>

(***************************************************************************)
(* Stage 5.  The bank did not confirm, or its answer is lost: then SEP's   *)
(* reads as a refusal, and the others' ends the request with an error.     *)
(***************************************************************************)
Refused(c) ==
  /\ pc[c] = "bank"
  /\ verdict[c] = "no"
  /\ SendFailure(c)
  /\ Answer(c, "failed")
  /\ UNCHANGED <<ledger, bank, session, req, asked, verdict, repeats, handVars, crashes>>

Unanswered(c) ==
  /\ "answer" \in Faults
  /\ pc[c] = "bank"
  /\ IF Gateway[Pay(c)] = "sep"
     THEN SendFailure(c) /\ Answer(c, "failed")
     ELSE UNCHANGED failures /\ Answer(c, "error")
  /\ UNCHANGED <<ledger, bank, session, req, asked, verdict, repeats, handVars, crashes>>

ReportCancel(c) ==
  /\ pc[c] = "report"
  /\ SendFailure(c)
  /\ Answer(c, "cancelled")
  /\ UNCHANGED <<ledger, bank, session, req, asked, verdict, repeats, handVars, crashes>>

(***************************************************************************)
(* Stage 6.  The bank confirmed.  With the guard on the callback must get  *)
(* hold of the payment (a claim that is not stored only raises an alert);  *)
(* then the session is cleared and the hand-over starts.                   *)
(***************************************************************************)
(* charged_rial: the bank's amount; Zarinpal's is the amount it was asked. *)
SessionNow(c) == session[Order[Pay(c)]]  \* mutant: the session is read again
ChargedRial(c) == IF Gateway[Pay(c)] = "zarinpal" THEN asked[c] ELSE Amount[Pay(c)]

StartHandOver(c) ==
  /\ session' = [session EXCEPT ![Order[Pay(c)]] = 0]
  /\ charged' = [charged EXCEPT ![c] = ChargedRial(c)]
  /\ handed' = [handed EXCEPT ![Pay(c)] = @ + 1]
  /\ delivery' = [delivery EXCEPT ![c] = "sent"]
  /\ Await(c, "handoff")

TakeForGuard(c) ==
  IF ReplayGuard
  THEN \E io \in LedgerIO : MayClaim(Pay(c), req[c].retry, io) /\ Claim(Pay(c), io)
  ELSE UNCHANGED ledger

Complete(c) ==
  /\ pc[c] = "bank"
  /\ verdict[c] = "yes"
  /\ TakeForGuard(c)
  /\ StartHandOver(c)
  /\ UNCHANGED <<bank, req, asked, verdict, repeats, place, retrying, took, failures, crashes>>

AnswerReplay(c) ==
  /\ pc[c] = "bank"
  /\ verdict[c] = "yes"
  /\ ReplayGuard
  /\ \E io \in LedgerIO :
       /\ ~MayClaim(Pay(c), req[c].retry, io)
       /\ Answer(c, Page(Seen(Pay(c), io)))
  /\ UNCHANGED <<ledger, bank, session, req, asked, verdict, repeats, handVars, failures, crashes>>

(***************************************************************************)
(* The hand-over.  The receiver answers it: over HTTP by taking it, in the *)
(* process also by "pending" or "refused".                                 *)
(***************************************************************************)
Verdicts == IF Receiver = "inprocess" THEN {"done", "pending", "refused"} ELSE {"done"}

ReceiverAnswers(c) ==
  /\ delivery[c] = "sent"
  /\ \E o \in Verdicts :
       /\ delivery' = [delivery EXCEPT ![c] = o]
       /\ took' = [took EXCEPT ![Pay(c)] = @ \cup {o}]
  /\ UNCHANGED <<ledger, bank, session, cbVars, charged, place, retrying, handed, failures, crashes>>

(* The answer is in.  A callback that still waits settles the ledger with  *)
(* it and answers the guest; after that only "done" is recorded.           *)
Records(c, outcome) ==
  /\ ReplayGuard
  /\ pc[c] = "handoff" \/ outcome = "done"

(* isPendingHandoff: neither taken nor refused yet.                        *)
UnfinishedIsDone == "done"  \* mutant: it is not asked
Unfinished == "pending"

SettleAs(c, outcome) ==
  IF Records(c, outcome)
  THEN \E io \in LedgerIO : Settle(Pay(c), outcome, io)
  ELSE UNCHANGED ledger

AnswerIfWaiting(c, outcome) ==
  IF pc[c] = "handoff" THEN Answer(c, Page(outcome)) ELSE UNCHANGED <<pc, answer>>

Delivered(c) ==
  /\ delivery[c] \in {"done", "pending", "refused"}
  /\ delivery' = [delivery EXCEPT ![c] = "over"]
  /\ SettleAs(c, delivery[c])
  /\ AnswerIfWaiting(c, delivery[c])
  /\ UNCHANGED <<bank, session, req, asked, verdict, repeats, charged, place, retrying, took,
                 handed, failures, crashes>>

Forget(c) == UNCHANGED place  \* mutant: nothing is queued
Enqueue(c) == place' = [place EXCEPT ![c] = "queued"]

(* Not taken, or taken but the answer is lost: the queue gets it.          *)
NotDelivered(c) ==
  /\ \/ delivery[c] = "sent"
     \/ "answer" \in Faults /\ delivery[c] = "done" /\ Receiver = "http"
  /\ delivery' = [delivery EXCEPT ![c] = "over"]
  /\ Enqueue(c)
  /\ SettleAs(c, Unfinished)
  /\ AnswerIfWaiting(c, Unfinished)
  /\ UNCHANGED <<bank, session, req, asked, verdict, repeats, charged, retrying, took, handed,
                 failures, crashes>>

(* SUCCESS_HANDOFF_WAIT_MS is over: the guest goes on, the hand-over too.  *)
StopWaiting(c) ==
  /\ pc[c] = "handoff"
  /\ SettleAs(c, Unfinished)
  /\ Answer(c, Page(Unfinished))
  /\ UNCHANGED <<bank, session, req, asked, verdict, repeats, handVars, failures, crashes>>

(***************************************************************************)
(* The queue, as the outbox promises: the receiver takes a queued          *)
(* hand-over, then the worker settles the ledger and removes it; or the    *)
(* worker gives up, an admin deletes it, or a fault takes it away.         *)
(***************************************************************************)
QueueDelivers(c) ==
  /\ place[c] = "queued"
  /\ c \notin retrying
  /\ retrying' = retrying \cup {c}
  /\ \E o \in Verdicts : took' = [took EXCEPT ![Pay(c)] = @ \cup {o}]
  /\ UNCHANGED <<ledger, bank, session, cbVars, charged, delivery, place, handed, failures,
                 crashes>>

Moved(c, from, to) == IF place[c] = from THEN [place EXCEPT ![c] = to] ELSE place

(* processQueuedWebhook settles "done" whatever a taken delivery answered. *)
QueueSettles(c) ==
  /\ c \in retrying
  /\ retrying' = retrying \ {c}
  /\ IF ReplayGuard THEN \E io \in LedgerIO : Settle(Pay(c), "done", io)
                    ELSE UNCHANGED ledger
  /\ \/ place' = Moved(c, "queued", "taken")
     \/ "queue" \in Faults /\ UNCHANGED place
  /\ UNCHANGED <<bank, session, cbVars, charged, delivery, took, handed, failures, crashes>>

QueueMissesAnswer(c) ==
  /\ "answer" \in Faults
  /\ c \in retrying
  /\ retrying' = retrying \ {c}
  /\ UNCHANGED <<ledger, bank, session, cbVars, charged, delivery, place, took, handed,
                 failures, crashes>>

QueueParts(c, to) ==
  /\ place' = [place EXCEPT ![c] = to]
  /\ UNCHANGED <<ledger, bank, session, cbVars, charged, delivery, retrying, took, handed,
                 failures, crashes>>

QueueGivesUp(c) == place[c] = "queued" /\ c \notin retrying /\ QueueParts(c, "dead")
AdminDeletes(c) == place[c] \in {"queued", "dead"} /\ QueueParts(c, "dropped")
QueueLoses(c)   == "queue" \in Faults /\ place[c] \in {"queued", "dead"} /\ QueueParts(c, "lost")

(***************************************************************************)
(* Time passes for the ledger; a claim outlives STALE_CLAIM_MS only when   *)
(* no callback waits on it, for that wait is far shorter.  The process     *)
(* dies: requests and hand-overs in flight are gone.                       *)
(***************************************************************************)
ClaimGoesStale(k) ==
  /\ \A c \in Callbacks : pc[c] = "handoff" => Pay(c) # k
  /\ GoStale(k)
  /\ UNCHANGED <<bank, session, cbVars, handVars, failures, crashes>>

EntryExpires(k) ==
  /\ "ttl" \in Faults
  /\ Expire(k)
  /\ UNCHANGED <<bank, session, cbVars, handVars, failures, crashes>>

InFlight(c) == pc[c] \in {"ping", "bank", "report", "handoff"}

Crash ==
  /\ "crash" \in Faults
  /\ crashes < MaxCrashes
  /\ crashes' = crashes + 1
  /\ pc' = [c \in Callbacks |-> IF InFlight(c) THEN "gone" ELSE pc[c]]
  /\ delivery' = [c \in Callbacks |-> IF delivery[c] = "none" THEN "none" ELSE "over"]
  /\ retrying' = {}
  /\ UNCHANGED <<ledger, bank, session, req, asked, verdict, repeats, answer, charged, place, took,
                 handed, failures>>

Request(c) ==
  \/ PingFails(c) \/ AskBank(c) \/ BankDecides(c) \/ AskAgain(c) \/ Refused(c) \/ Unanswered(c)
  \/ ReportCancel(c) \/ Complete(c) \/ AnswerReplay(c) \/ StopWaiting(c)

HandOver(c) ==
  \/ ReceiverAnswers(c) \/ Delivered(c) \/ NotDelivered(c)
  \/ QueueDelivers(c) \/ QueueSettles(c) \/ QueueMissesAnswer(c)
  \/ QueueGivesUp(c) \/ AdminDeletes(c) \/ QueueLoses(c)

Next ==
  \/ \E k \in Payments :
       \/ CreatePayment(k) \/ GuestPays(k) \/ AdminVerifies(k)
       \/ ClaimGoesStale(k) \/ EntryExpires(k)
  \/ \E o \in Orders : SessionLapses(o)
  \/ \E c \in Callbacks : Arrive(c) \/ Request(c) \/ HandOver(c)
  \/ Crash

Spec == Init /\ [][Next]_vars

(***************************************************************************)
(* Fairness.  The bank's requests, the ping and the wait for the hand-over *)
(* have a timeout, so a callback that has arrived goes on; a receiver's    *)
(* answer that is in is worked on.  Over HTTP a hand-over has a timeout    *)
(* too, so it ends, and the queue delivers an entry or gives it up         *)
(* (PaymentQueue's Settles).  An extension's handler is awaited without    *)
(* one (deliverSuccess): nothing says that it ever answers, neither the    *)
(* callback's hand-over nor the queue's.                                   *)
(***************************************************************************)
Fairness ==
  \A c \in Callbacks :
    /\ WF_vars(Request(c))
    /\ WF_vars(Delivered(c))
    /\ WF_vars(QueueSettles(c))
    /\ Receiver = "http" =>
         /\ WF_vars(Delivered(c) \/ NotDelivered(c))
         /\ WF_vars(QueueDelivers(c) \/ QueueGivesUp(c))

FairSpec == Spec /\ Fairness
-----------------------------------------------------------------------------
(***************************************************************************)
(* Properties                                                              *)
(***************************************************************************)
(* Every variable has its type.                                            *)
TypeOK ==
  /\ ledger \in [Payments -> Outcome]
  /\ bank \in [Payments -> {"none", "open", "paid", "verified"}]
  /\ session \in [Orders -> Nat]
  /\ pc \in [Callbacks -> {"idle", "ping", "bank", "report", "handoff", "answered", "gone"}]
  /\ req \in [Callbacks -> Requests \cup {NoRequest}]
  /\ asked \in [Callbacks -> Nat]
  /\ verdict \in [Callbacks -> {"none", "yes", "no"}]
  /\ repeats \in [Callbacks -> 0..(VerifyTries - 1)]
  /\ charged \in [Callbacks -> Nat]
  /\ delivery \in [Callbacks -> {"none", "sent", "done", "pending", "refused", "over"}]
  /\ answer \in [Callbacks -> {"none", "success", "pending", "refused", "cancelled",
                               "failed", "unavailable", "error"}]
  /\ place \in [Callbacks -> {"new", "queued", "dead", "taken", "dropped", "lost"}]
  /\ retrying \subseteq Callbacks
  /\ took \in [Payments -> SUBSET {"done", "pending", "refused"}]
  /\ handed \in [Payments -> Nat]
  /\ failures \subseteq Payments
  /\ crashes \in 0..MaxCrashes
(***************************************************************************)
(* One callback takes a payment: with the guard on, a payment is handed to *)
(* the receiver once, and once more only for a crash that left its claim   *)
(* to go stale, however many callbacks race (ledger claim, seen).          *)
(***************************************************************************)
HandedOncePerRun == \A k \in Payments : handed[k] <= 1 + crashes

(***************************************************************************)
(* What a hand-over says was charged is what the bank was paid for this    *)
(* very payment, though a newer payment of the order may have replaced the *)
(* session while the bank was asked (verifyWithGateway).                   *)
(***************************************************************************)
ChargedIsPaid ==
  \A c \in Callbacks :
    charged[c] # 0 => bank[Pay(c)] = "verified" /\ charged[c] = Amount[Pay(c)]

(***************************************************************************)
(* A guest is shown success only for a payment some hand-over, of this or  *)
(* of another callback or of the queue, got the receiver to take; this     *)
(* needs a receiver and FRONT_FAILURE_URL (answerAfterHandoff,             *)
(* answerForReplay).                                                       *)
(***************************************************************************)
SuccessMeansTaken ==
  \A c \in Callbacks : answer[c] = "success" => "done" \in took[Pay(c)]

(***************************************************************************)
(* The ledger tells the outcome: it says "done" only when the receiver     *)
(* took the payment (settleLedger, onDelivered, processQueuedWebhook).     *)
(***************************************************************************)
DoneMeansTaken == \A k \in Payments : ledger[k] = "done" => "done" \in took[k]

(***************************************************************************)
(* A payment the bank sent the guest back with as paid is reported to the  *)
(* receiver as failed only while the bank has not confirmed it to anybody: *)
(* not to this callback's lost try, another callback, or an admin          *)
(* (isBankVerified's "already verified", reportVerifyFailure).             *)
(***************************************************************************)
ReportsFailure(c) == answer[c] = "none" /\ answer'[c] = "failed" /\ Pay(c) \in failures'

FailureIsTrue ==
  [][\A c \in Callbacks :
       ReportsFailure(c) /\ req[c].says = "paid" => bank[Pay(c)] # "verified"]_vars

(***************************************************************************)
(* The guard never stands between a paid order and its hand-over: when a   *)
(* callback is answered from a settled entry, that payment's hand-over was *)
(* answered by the receiver, still runs, or is in the queue's hands        *)
(* (replayEntry, takeForGuard).                                            *)
(***************************************************************************)
Held(k) ==
  \/ took[k] # {}
  \/ \E c \in Callbacks :
       Pay(c) = k /\ (delivery[c] = "sent" \/ place[c] \in {"queued", "dead", "dropped"})

TurnedAway(c) ==
  /\ pc[c] \in {"idle", "bank"}
  /\ answer'[c] \in {"success", "pending", "refused"}
  /\ ledger[req'[c].pay] # "claimed"

TurnedAwayIsHeld == [][\A c \in Callbacks : TurnedAway(c) => Held(req'[c].pay)]_vars

(***************************************************************************)
(* With the guard on, callbacks of a paid payment tell one story: when one *)
(* sent its guest to the result, no other tells the guest that the payment *)
(* was not verified (reportVerifyFailure, zarinpalSessionMissing).  Not    *)
(* true of two racing Zarinpal callbacks, and in no run: README, section   *)
(* 7.                                                                      *)
(***************************************************************************)
OneStory ==
  \A c, d \in Callbacks :
    Pay(c) = Pay(d) /\ answer[c] \in {"success", "pending"} => answer[d] # "failed"

(***************************************************************************)
(* A payment the bank confirmed to a callback is handed over in the end:   *)
(* the receiver answers it, or the queue ends with it as dead or deleted   *)
(* by an admin.  Only a lost bank answer stops this, and an extension      *)
(* whose handler never answers the callback's hand-over or the queue's     *)
(* (completeVerifiedPayment, dispatchSuccessWebhook, deliverSuccess).      *)
(***************************************************************************)
Concluded(c, k) ==
  \/ took[k] # {}
  \/ \E d \in Callbacks : Pay(d) = k /\ place[d] \in {"dead", "dropped"}
  \/ answer[c] \in {"error", "failed"}

AwaitsHandler(k) ==
  /\ Receiver = "inprocess"
  /\ \E d \in Callbacks : Pay(d) = k /\ (delivery[d] = "sent" \/ place[d] = "queued")

VerifiedIsConcluded ==
  \A c \in Callbacks, k \in Payments :
    (Pay(c) = k /\ verdict[c] = "yes") ~> (Concluded(c, k) \/ []AwaitsHandler(k))
=============================================================================
