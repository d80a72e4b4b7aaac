# A verification project for ir-payment-gateway

The gateway takes a guest to an Iranian bank, verifies the payment when the
guest comes back, and hands the verified payment to a *receiver* (the shop's
webhook, or an extension in the same process). It also helps to pay guests back
through SEP. Money moves before the hand-over, so most of what can go wrong is a
payment that the bank charged and the receiver never heard of, heard of twice, or
at the wrong price; and a refund that is paid twice or by nobody.

This directory holds TLA+ models of the parts of the program that keep state or
decide what is told to whom, TLC configurations that check them on small
instances, and TLAPS proofs of the most important properties for every instance.
Paths below are relative to the repository's `src/` unless they start with
`tests/` or `docs/` or name the top-level `README.md`. `PROJECT.json` maps every
definition to the lines it models.

Run a model with `tlc -config QueueFaults.cfg MCPaymentQueue.tla`, a proof with
`tlapm PaymentQueueProofs.tla`.

## 1. Inventory

Node runs one callback at a time. Everything between two `await`s is atomic, and
interleaving happens at the awaits: a request to a bank, to the receiver, to the
refund store, to a chat platform. All files are read and written synchronously.
Several processes sharing the files are not supported by the code and not modelled.

| Component | Source | State | Operations | Talks to | What is hard | Correct when |
|---|---|---|---|---|---|---|
| Retry queue | `services/payment-queue.service.js`, `utils/queueFile.js`, worker in `index.js`, `processQueuedWebhook` in `controllers/webhookDispatch.js` | the queue file; entries held in memory; hold timer; `processing` | add, flush, a pass of the worker (expire, deliver, remove, retry), admin delete and list, debug cancel | receiver, ledger, alerts | a pass works on copies; writes fail; damaged file; crash; hard cap shared by file and memory | nothing vanishes or returns; losses are told; at most once without faults; everything settles |
| Verified ledger | `services/verified-ledger.service.js`, `utils/atomicJson.js` | one file: payment → outcome | seen, claim, settle, release; staleness, expiry | the callback | racing callbacks, unreadable file, crash between claim and settle | one callback takes a payment; "done" means taken |
| Bank callback | `controllers/callbackFlow.js`, `bankVerification.js`, `webhookDispatch.js`, `failureReport.js`, `services/bank-verify.service.js`, `utils/chargedAmount.js` | the request's locals; hand-overs in flight | six stages from arrival to answer | bank, ledger, session, receiver, queue | stale reads across awaits, lost answers, repeated questions, the eight-second wait | handed over once, at the price paid; the guest and the receiver hear the truth |
| Callback parameters | `controllers/callbackParams.js`, first stages of `callbackFlow.js`, `frontRedirect.js` | one request | read the fields, refuse, ask, tell, answer | the callback | three banks that share field names, two spellings, lists for strings, an order of refusals | each bank is understood; what is verified is what is handed over; nobody fails in silence |
| Starting a payment | `controllers/payment.controller.js`, `gatewaySelection.js`, `services/payment-gateway.service.js`, `services/payment-session.service.js`, `v2/routes.js` | payment sessions by order | v1 and v2 create, chain of banks with tries, session set/get/remove | banks, idempotency keys | a bank opened a payment and its answer was lost; failover | the link is for this call; the session is that of a payment that exists |
| Idempotency keys | `v2/idempotency.js`, `utils/atomicJson.js` | kept answers (file); running keys (memory) | begin, finish, expiry | v2 create | two calls with one key, restart in between, key reused for another order | one answer per key, no key locked |
| Webhook delivery | `services/webhook.service.js`, `utils/reach.js` | locals of one call | attempts over a list of addresses | receiver, proxies | a request that timed out and still arrives | once per attempt; success means it was received |
| Refund refresh | `sep/refreshClaim.js`, `refreshGuard.js`, `refreshDecision.js`, the admin route | claims (memory), stamps (memory or the receiver's store), holds | claim, hold, last, look-up, stamp, send, release | SEP | racing calls, SEP's lagging report, lost answers, restart | never put back to Start twice, no claim stays |
| Refund calls and rules | `sep/refundErrors.js`, `refundResponse.js`, `refreshDecision.js`, `services/payment-gateway.service.js` | none here: the state is SEP's and that of the job that asks | classify an error, decide on a refresh, read SEP's answer | SEP, the receiver's job, people | lost registrations, refreshes that nobody answers, reports that lag, codes that hide a payment | the guest is paid once; nobody is left unpaid in silence |
| Alert queue | `alerts/store.js`, `services/notification.service.js` | one file; `processing` | queue, a pass, expiry | Bale | a pass writes its copy back over the file | delivered once; every alert ends |
| Admin access | `utils/adminAuth.js`, `secretCompare.js`, scopes in `routes/payment.routes.js` and `v2/routes.js` | the keys, read on every call | which key opens which route | all admin routes | keys that change, are blank or equal; a route that names the wrong scope | only the money key changes anything |
| v2 lists, error log | `v2/pagination.js`, `v2/routes.js`, `utils/errorLogger.js` | the error log | append with a bound; one page | admin access | the list moves between two pages | a walk over the pages misses nothing |
| Alert texts and senders | `alerts/render.js`, `senders.js`, `events.js`, `services/paymentAlertText.js` | none | wording, HTTP | chat platforms | | not modelled |
| SEP report | `services/sep-report.service.js` | none | one request | SEP | | not modelled |
| Event and request log | `utils/eventLogger.js`, `requestLog.js` | lines nothing reads | | | | not modelled |
| Process, routes | `index.js`, `routes/*.js` | timers | wiring | all | | the debug routes on the queue are in `PaymentQueue` |

The hazards each of these is exposed to, with the line where each bites and the
properties that watch it, are in `PROJECT.json` under `hazards`.

## 2. Plan

Everything up to item 9 exists.

1. `Outbox` (what a retry queue promises) and `PaymentQueue`, with the
   refinement between them and the first proofs.
2. `VerifiedLedger` and `CallbackFlow`: the ledger is a module of operators on
   one variable, which the callback extends. The queue appears in it as what
   `Outbox` promises, not as the module `PaymentQueue`; this keeps the product
   of the two out of TLC's way.
3. `RefundRefresh`. 4. `AlertQueue`. 5. `IdempotencyKeys` and `StartPayment`,
   composed the same way. 6. `WebhookDelivery`.
7. `RefundJob`, the rules for paying back, driven by the job they instruct.
8. `CallbackParams`, one callback over every combination of its fields, and
   `AdminAccess` and `PagedLog`, composed in `AdminApi`.
9. Proofs about all of these: every invariant and every action property that a
   passing run checks, and the refinement of `Outbox`, is also a theorem.

Left: the callback without any webhook URL, the one user of the ledger's
`release`. Liveness stays with TLC (section 6).

`MC*` modules hold only the definitions that a `.cfg` cannot write (tuples,
functions, symmetry sets). Definitions marked `\* mutant` stand beside the one
they would replace: they are the plausible bugs each property was tried on
(`PROJECT.json`, `mutants`), and no run uses them.

## 3. The modules

### Outbox and PaymentQueue

`PaymentQueue` abstracts an entry to its status, retry count and `nextRetryAt`
(unset, past or future), and the queue to a function from hand-overs to entries;
the order of entries matters to no property except fairness (section 5).

* `disk`, `corrupt`: the file. `held`, `holdTimer`: the fallback when the disk
  refuses a write. `processing`: the worker's flag. For each pass `due`: the
  copies it read; `sending`: the delivery it awaits; `booked`: the receiver took
  it, unknown to the worker. `taken`, `fate` and `told` are history: how often
  the receiver took a hand-over, how it left the queue, which alerts were raised.
* `Mutate` is `mutate(fn)`: read, put held entries in if all fit, write. The
  three outcomes of touching the file (`ok`, `unread`, `unwritten`) are explicit,
  and a corrupt file is moved aside by the first read.
* A pass is several steps although only the delivery is awaited. The steps in
  between could be one; splitting them admits more interleavings than Node has,
  so what holds here holds there.
* `Crash` forgets the memory and keeps the file.

`Outbox` has one variable per hand-over: new, queued, dead, taken, dropped, aside,
lost. What it promises is the order of those, that nothing that has reached the
disk is lost with the process, and that nothing that left comes back; an offer
that was under way when its hand-over left may still be taken.

### VerifiedLedger and CallbackFlow

`ledger[k]` is `none`, `claimed`, `stale` (a claim older than `STALE_CLAIM_MS`),
`pending`, `done` or `refused`. A ledger call may find the file unreadable (then
it reads as empty, and the next write keeps only its own entry) or unwritable.

`CallbackFlow` has one action per stage between awaits. `pc` names the await a
callback is at: the ping of the receiver, the bank, the report of a cancelled
payment, the hand-over. `asked` is the session amount read *before* the bank is
asked, `charged` what the hand-over says was charged. `Accepts` models the three
banks: Zibal and Zarinpal say yes again to a verified payment, SEP does not;
Zarinpal compares the amount. These three answers are external, taken from how
the code reads them (the comment at the head of `bank-verify.service.js`;
`tests/sepCallbackReplay.test.js:2` describes SEP differently). A bank whose
answer is lost is asked again, `VerifyTries` times (`AskAgain`, the helper
`retry`), and an admin may verify a payment before its guest comes back
(`AdminVerifies`). The hand-over (`delivery`) goes on after `StopWaiting`, the
eight-second limit, and a late answer settles the ledger only as "done". With an
extension in the same process it may also go on for ever (`AwaitsHandler`).
A callback says "paid" only for a paid payment.

### CallbackParams

One callback, every combination of the fields it may carry: absent, empty, a
plain value, a string with other characters, a list. Its stages are those of
`CallbackFlow` seen from the data: which bank and reference are read, which
refusal comes first, whether the ledger answers, whether the receiver is up, what
the bank is asked, what the failure receiver is told, what is handed over, what
the guest is answered. What the ledger holds and whether the receiver is up are
left open (`AnswerReplay`, `ReceiverDown`). `FailureUrl` says whether
`PAYMENT_FAILURE_WEBHOOK_URL` is set. The banks' own callbacks are
four records of fields (`ZibalReturns` and the like, from how the code sets up the
callback URL and reads it back).

### StartPayment and IdempotencyKeys

`kept` is the file of answers, `inFlight` the running keys. A call walks the chain
of banks (`hop`, `try`); a bank may open a payment (`opened`) whose link never
arrives, after which the code tries again or goes on to the next bank. A v1 call
is a call without a key. A payment that a bank opens only after the request
timed out is not modelled apart from one that it opened before.

### RefundRefresh

SEP's state of a refund and its report are separate variables, for the report
lags. A call's steps are apart because they wait on different things: `SepCall`
on SEP, whose requests have a timeout, `StoreCall` on the store of stamps, whose
promise, where a store is plugged in (`Shared`), may never settle. `stamp` is `hot` during the cooldown of thirty minutes. `CooldownEnds`
carries the assumption of the code's comment that a cycle of SEP (twenty minutes)
is shorter than the cooldown: by then no request is on its way and the report is
up to date. `twice` records what must not happen, at SEP.

### RefundJob

`refundErrors.js` and `refreshDecision.js` are rules; the job that asks them
belongs to the receiver. `RegAction`, `ExecAction`, `ExecOwner`, `Decide`,
`Accepted` and `IsRefusal` translate them; the job is modelled as doing what the
comments on `ACTION`, `OWNER` and `DECISION` tell it, and a person as doing what
they are told: put the merchant's funds or account right (`fix`), look whether the guest
was paid and pay if not (`look`), pay by hand (`pay`). What is assumed of SEP is
external:

* a registered refund that is registered again is answered "duplicate", or with
  an error that says nothing of the refund;
* an answer that the table does not map means that nothing was registered;
* a cycle pays a started refund or fails it; 112 and 122 leave open which, 118
  says it had been paid; "fail" stands for Fail, Cancel and None;
* a bank code is compared only on rows with code 114, so only those carry one;
* the cooldown outlasts the wire and the lag of the report, as in `RefundRefresh`.

`RefundRefresh` asks whether concurrent calls can refresh one refund wrongly;
`RefundJob` whether the rules, followed for weeks by one job, pay the guest once.

### AlertQueue

`items` is the copy a pass works on, `file` the file. A fault is a lost answer, a
failed use of the file or a crash; `slips` counts them. The file is written in
place, so a write that fails and a crash leave it as it was or torn, and a torn
file reads as an empty queue (`AfterFailedWrite`); one that cannot be read while
an alert is queued is overwritten by that alert alone. `meanwhile` is history:
the alerts queued during a pass. Its definitions are called `AlertsInit`, `AlertsNext` and so
on, so that `DeliveryProofs` can extend both this module and `WebhookDelivery`.

### AdminAccess, PagedLog, AdminApi

`Check` is the check of a request's key, `Scope` the scope each route names, and
`Delete`, `AskTheBank`, `LookUp` what the routes do; a bank's answer may be lost
after it has acted. The keys are environment variables, read on every call, and
`ChangeKeys` changes them between two requests. `PagedLog` is the error log with
its bound and a client that walks it page by page, with `Limit` and `PageOf` of
`pagination.js`. `AdminApi` composes the two: each page is a request of its own.
The list of queue items is stored oldest first and nothing promises a walk over it
anything, so it has no such client.

### WebhookDelivery

One call with its addresses and attempts. `posted`, `received` and `late` record
which requests went out, arrived, or may still arrive. A ping and the failure
webhook are calls with `Retries = 1`. A request that was refused provably never
arrived; one that timed out may.

## 4. The runs

"States" are distinct states.

| Run | States | What it asks | Bounds and why they are enough |
|---|---|---|---|
| `queue_faults` | 25 k | types, accounting, told losses, held entries, refinement of `Outbox`, everything settles | two hand-overs over a cap of one, so the memory is used; one of an older queue; two attempts, so an entry can fail, back off and die; one crash or damaged file, any number of disk errors and lost answers. One pass: the flag `processing` keeps a second from starting, and liveness over two costs ten times the states |
| `queue_once` | 100 k | at most once; dead entries; the cap; retry counts, with the debug route | three hand-overs and two passes; no disk fault, crash or lost answer, under which "at most once" is promised; the file may be damaged |
| `callback_once` | 1.2 M | one hand-over, right price, honest answers | three callbacks of two payments of one order, one at SEP and one at Zarinpal, with different prices; two questions to a bank, an admin who verifies; one crash: a race needs two callbacks, the third is the one after the crash |
| `callback_liveness` | 553 k | a guest turned away leaves a payment somebody holds; a verified payment is concluded, unless an extension never answers, and never reported as failed | two callbacks of a Zibal payment, `retry=true`, an extension that may answer pending or refused or never; with `Receiver = "http"`, where the exception cannot arise, the same configuration passes; two questions to the bank, an admin who verifies; every ledger fault at every call; no crash |
| `callback_params` | 1.7 M | each bank is understood; verified is what is handed over; only plain values go out; failures are told | one callback, two references (so that two spellings can differ), one order, all combinations of nine fields; a failure receiver is set (without one, which the proofs cover too, nothing is sent) |
| `start` | 1.5 M | one answer per key, right link, right session, keys end | three calls, one key (calls without a key or with it), three bodies, two banks, two tries at the first and one at the last, one crash, one failed use of the file of answers |
| `delivery` | 2 k | once per attempt, success means received | three addresses, three attempts |
| `refresh` | 4 k | not refreshed twice, exclusive claims that end unless the store never answers | three calls for one refund: one working, one refused, one after both; claims of different refunds do not meet |
| `refund_job` | 163 k | the guest is paid once; refreshes are bounded; "final" is true; nobody is unpaid in silence | one refund, two bank codes and none, three attempts and two unanswered calls: a repeat rejection, either limit first, and both together happen. Three attempts is the code's limit; it allows five unanswered calls, and the proofs cover any number |
| `alerts` | 91 k | delivered once, lost only by what the code overwrites, every alert ends | three alerts: one sent, one waiting in the pass, one that arrives; one retry; one fault |
| `admin_api` | 204 k | only the money key acts; a walk misses nothing | two keys that may be equal, blank or swapped, one queue item; a log of three entries with four appends, so it drops entries; limits below, at and above the cap, and 0 |
| `guard_after_crash` | | a statement of the repository that does not hold: section 7 | the smallest instance that shows it |

Bounds that cap a counter are constants: `MaxMishaps`, `MaxCrashes`, `MaxSlips`,
`MaxMisses`, `MaxAttempts`, `MaxAppends`. `taken`, `delivered` and `paid` count
0, 1, "more". `CHECK_DEADLOCK FALSE` stands where the model may stop because its
finite set of callbacks, calls, requests or alerts is used up; the runs of the
retry queue do check for deadlock. Symmetry is used only in runs without liveness.

What the properties say, beyond types:

* **Queue.** `Accounted`: a hand-over counted as queued is in the file or in
  memory and not in both; one that left is in neither. `LossIsTold`: what a crash
  takes was alerted before. `HeldIsRetried`: a held entry has a timer.
  `DeadIsLeftAlone`: a dead entry was alerted and no running pass has a copy of
  it. `CapIsHard`, `RetriesOnlyGrow`, `AtMostOnce`, `Settles`, and
  `ImplementsOutbox`.
* **Callback.** `HandedOncePerRun`, `ChargedIsPaid`, `SuccessMeansTaken`,
  `DoneMeansTaken`, `TurnedAwayIsHeld`, `VerifiedIsConcluded`, `FailureIsTrue`;
  of one request `BankIsUnderstood`, `CodeIsVerified`, `PlainGoesOut`,
  `FailureIsTold`.
* **Start.** `OneAnswerPerKey`, `AnswerIsForThisCall`, `KeptWasTold`,
  `SessionIsOfAPayment`, `KeyIsOfACall`.
* **Delivery.** `OncePerAttempt`, `OkMeansTaken`.
* **Refunds.** `NeverTwice`, `ClaimIsExclusive`, `ClaimEnds`; `PaidOnce`,
  `RefreshesAreBounded`, `GaveUpFinalIsTrue`, `NeverSilent`.
* **Alerts.** `DeliveredOnce`, `OnlyMeanwhileIsLost`, `QueuedEnds`.
* **Admin.** `MoneyKeyActs`, `WalkMissesNothing`.

`NeverSilent` counts "fix" as told: what is wrong then is the merchant's funds or
account, and until somebody puts it right no refund is paid at all.

## 5. Fairness

Fairness is stated only where the code's scheduling gives it:

* `PaymentQueue`. The worker's interval and the hold timer fire for ever, and the
  receiver is one over HTTP, so that every delivery has a timeout of 15 s; an
  extension's handler has none (`services/webhook.service.js:105`), and a pass that
  awaits one that never answers never ends. Hence weak fairness of ending a pass and of a backoff. Steps
  that need a working disk get strong fairness: the disk refuses now and then,
  not for ever. Fairness of `Deliver` and `ExpireOld` is per hand-over, because a
  pass walks the file in order and every entry ahead leaves or dies. A new
  interval has to be able to start: `StartPassReading(p, "ok")` is strongly fair.
* `CallbackFlow`. Requests to a bank, and to a receiver over HTTP, have timeouts, so
  a callback goes on, a hand-over over HTTP ends, and a queued one is delivered or
  given up (`Settles` of the queue). An extension's handler is awaited without one:
  nothing is assumed of a hand-over to it, and `VerifiedIsConcluded` excepts a
  payment whose handler never answers (`AwaitsHandler`). The bank's decision is
  one of the steps of the request. Guests and admins have no fairness.
* `RefundRefresh`. Requests to SEP have a timeout (30 s) and the store in memory
  answers at once. A plugged-in store is awaited without one: nothing is assumed of
  it, and `ClaimEnds` excepts a call that waits on it for ever (`AwaitsStore`).
* `RefundJob`. The job ticks and its calls time out; SEP works through its refunds,
  reports, and answers a registration with something else than "try again" in
  the end; a person does what they are told. Nothing is assumed of a person who
  was told to put the merchant's account right.
* `AlertQueue`. The interval fires, sends have timeouts, alerts age.

The other modules state none, and no liveness is checked of them.

## 6. The proofs

All theorems hold for every value of the constants that satisfies the `ASSUME`s
of the module, unless said otherwise.

| Theorem | States | Argument |
|---|---|---|
| `PaymentQueueProofs!TypeCorrect` | `[]TypeOK` | `TypeInv /\ PassInv`. `TypeOK` is not inductive: the retry count stays within `QUEUE_MAX_ATTEMPTS` only because a pending entry that this queue wrote has attempts left (`Queue`), and a pass sends only such copies (`PassInv`) |
| `…!NeverUnaccounted` | `[]Accounted` | inductive on top of the two. The step that empties the memory writes the file and the memory put together; that an added entry is written too needs that where there is room for one more, `mutate` takes its branch with everything in it, a fact about cardinalities (`RoomForBoth`) |
| `…!HeldIsFlushed` | `[]HeldIsRetried` | `HeldStep`: entries get into memory only through `Hold`, which arms the timer, and the timer goes only with the last held entry; that a flush that works leaves none is `RoomForBoth` again |
| `…!LossesAreTold` | `[]LossIsTold` | the same lemma: what a step loses was held, and what is held was alerted |
| `…!DeadAreLeft` | `[]DeadIsLeftAlone` | one of the conjuncts of `QueueInv`, which the next three need too: `CopyInv` says that what a pass has a copy of was in the queue, and was tried as often as the copy says if it still is; `BookedInv`, that a delivery the receiver took is still awaited. Entry by entry, a step leaves the queue as it was or does one of a few things to one entry (`EntryStep`, `CopyStep`) |
| `…!RetriesAreKept` | `RetriesOnlyGrow` | by `CopyInv` the count that is written back is one more than the stored one |
| `…!TakenOnce` | `[]AtMostOnce` | `OnceInv`: what was taken is still awaited, or has left the queue and no copy is left of it. The property itself says that it is about a queue without disk faults, crashes and lost answers |
| `…!CapHolds` | `CapIsHard` | cardinalities: the entries held get in only when all of them fit (`CapOfMutate`), and every other write puts in none (`CapOfFile`), for a file that may start over the cap |
| `…!OutboxIsImplemented` | `ImplementsOutbox` | `PlaceStep` (each hand-over takes one step of `Outbox` or stays), `OfferStep` (what was taken was on offer) and `KeptStep` (what has reached the disk is not lost), put together in the steps of `Outbox`. Assumes `~TestRoutes`: the debug route can turn a dead entry into a cancelled one, which `Outbox` does not know |
| `CallbackFlowProofs!TypesHold` | `[]TypeOK` | `Base`: the types and what the await a callback is at says of it (`Stage`): no hand-over before the bank has answered, and while a callback waits there is one |
| `…!ChargedRight` | `[]ChargedIsPaid` | `Paid`: a callback with the bank's yes belongs to a verified payment and, at Zarinpal, has asked with that payment's price. A request keeps its payment (`RequestStays`), a verified payment stays verified (`BankStays`). Under every fault |
| `…!HandedOnce` | `[]HandedOncePerRun` | `Once`: an unclaimed payment was not handed over; a stale claim, and a claim that no callback waits on, have each cost a crash. Assumes the guard on, no `retry=true`, a ledger file that works and no expiry: each of them lets a payment be handed over again, as the code means it to |
| `…!DoneIsTaken` | `[]DoneMeansTaken` | `Answered`: what a hand-over brings back, the receiver said. Every way an entry changes is in `LedgerMoves`. Assumes a receiver over HTTP, for the worker settles "done" for an extension's "refused" too (section 7) |
| `…!SuccessIsTaken` | `[]SuccessMeansTaken` | on top of it: a result page is answered by the ledger or by the hand-over (`AnswerMoves`). Assumes a receiver over HTTP and `FRONT_FAILURE_URL`, without which "pending" has no page of its own |
| `…!TurnedAwayHeld` | `TurnedAwayIsHeld` | `SettledIsHeld`: a settled entry speaks of a hand-over that was answered, is on its way, or is in the queue's hands, and the three only turn into each other (`HeldStays`). Whatever the ledger's file does; assumes no crash and a queue that keeps its entries. `guard_after_crash` shows the first to be needed |
| `…!ZibalFailureIsTrue` | `FailureIsTrue` | `PaidIsNotRefused`. Assumes that all payments are Zibal's (section 7) |
| `CallbackParamsProofs!HandedCodeIsVerified`, `!OnlyPlainGoesOut` | `[]CodeIsVerified`, `[]PlainGoesOut` | `IInv` keeps, per stage, what was read from the fields and what was refused: once a callback is trusted its order id is plain and its code a string, and SEP's code is the reference it is asked about |
| `…!NobodyFailsAlone` | `[]FailureIsTold` | what was told is all that this callback had to tell, and was told in the step that answered (`ToldIsFailed`); a callback that ends otherwise is malformed, paid, or left open, with the receiver down or the session gone (`UntoldIsNone`). With a failure receiver set or not, and with an order id or without |
| `…!BanksAreUnderstood` | `[]BankIsUnderstood` | `EndsAsSent`: a callback that is whole ends as a cancel if it came as one, and otherwise with its own code asked about, unless the bank is spared: the ledger answers, the receiver is down, or Zarinpal's session is gone |
| `StartPaymentProofs!KeyHasOneAnswer` | `[]OneAnswerPerKey` | `IInv`: a key is running, or has an answer, or is free. A running key has one call at the banks and no answer (`OneRuns`, `OneKept`), and whoever was told a result was told the one kept (`ToldIsKept`). The invariant holds as long as no use of the file has failed (`misses = 0`), which is where the code's promise ends too |
| `…!LinksAreOwn`, `!KeptAnswersWereGiven`, `!SessionsAreOpened`, `!KeysAreReleased`, `!TypeCorrect` | `[]AnswerIsForThisCall`, `[]KeptWasTold`, `[]SessionIsOfAPayment`, `[]KeyIsOfACall`, `[]TypeOK` | `PInv`, which holds whatever the file does. `Told`: a kept answer is what a call that is over was told, with the body it is kept for, so a call that is given it has a link of its own order; `Running`: one call per running key. Each step of a call ends it, begins it or takes it on at a bank (`Ends`, `Begins`, `GoesOn`) |
| `RefundRefreshProofs!OneWorksOnARefund` | `[]ClaimIsExclusive` | `ClaimInv`: the claim is checked and taken without an await in between, so whoever works on a refund, a request on the wire included, holds its claim. With either store of stamps and after any restart |
| `…!TypeCorrect` | `[]TypeOK` | the same invariant |
| `…!RefundedOnce` | `[]NeverTwice` | a refund out of its cooldown has no request on its way, and a report that calls it failed is right (`OutOfCooldown`); a call past the check of the cooldown keeps it so, because it holds the claim (`PastCheck`); so a request finds its refund as it was when it was looked up (`UnderWay`). Assumes `Shared \/ "crash" \notin Faults`: stamps that survive a restart, or no restart |
| `RefundJobProofs!GuestPaidOnce` | `[]PaidOnce` | `IInv`. Once a person has been told to pay, SEP has nothing started, nothing on the wire and no payment made (`InHands`); SEP pays only a refund it has started, once (`PaidBySep`, `OnTheWire`); and the report a decision reads is right out of the cooldown (`ReportIsTrue`) |
| `…!BoundedRefreshes`, `!FinalIsTrue`, `!Typed` | `[]RefreshesAreBounded`, `[]GaveUpFinalIsTrue`, `[]TypeOK` | `Counted`: every refresh sent is counted as taken or as unanswered, or was refused, or is still awaited; and what is counted as taken, SEP took |
| `AdminApiProofs!OnlyMoneyActs`, `!OnlyKeysRead`, `!TrueRefusals` | `MoneyKeyActs`, `PagesNeedAKey`, `[]RefusalsAreTrue` | by cases of `Check`, over all routes and however the keys change. The last two are in no run |
| `…!WalkIsComplete` | `[]WalkMissesNothing` | `WalkInv`: whatever the client wants and finds nearer to the newest entry than its offset, it has seen (`SeenBefore`). An entry that is added pushes the others away from the newest, and one that is dropped was the oldest, so none slips past the offset unseen. What a page shows and what an append leaves are lemmas on sequences (`PageShows`, `AppendedIs`) |
| `…!LogIsBounded`, `!TypeCorrect` | `[]LogTypeOK`, `[]TypeOK` | the typed part of the same invariant |
| `DeliveryProofs!TypeCorrect`, `!ReceivedOncePerAttempt` | `[]TypeOK`, `[]OncePerAttempt` | an attempt goes on to the next address only when the last request never arrived and cannot any more |
| `…!OkIsTrue` | `[]OkMeansTaken` | `OkEnds`: success ends the call, and the request it is said of is the last one, which was received |
| `…!AlertsOnce` | `[]DeliveredOnce` | `AlertsInv`. While a pass runs, its copy and not the file says what is still to be sent (`Current`); as long as no fault has happened, what is pending there was not delivered. A fault is where the promise ends: an alert whose answer was lost is sent again |
| `…!OnlyLateAlertsAreLost` | `[]OnlyMeanwhileIsLost` | `KeptInv`: the file and, while a pass runs, its copy hold every alert that was neither delivered nor queued during a pass. The copy has to, for it becomes the file; and a new alert outside a pass goes into a file that is current |
| `…!AlertsAreTyped` | `[]AlertsTypeOK` | the part of `AlertsInv` that holds under every fault: a pass sends what is pending in its copy and has tries left (`PassIs`) |

Model-checked only: liveness (`Settles`, `VerifiedIsConcluded`, `ClaimEnds`,
`QueuedEnds`, `NeverSilent`) and whatever needs `ENABLED` are beyond the proof
system, as are induction over data (the library's induction theorems take
operators as parameters) and `RECURSIVE` operators, of which there are none here.
Nothing else that a passing run checks is without a theorem.

The strengthened invariants (`QueueInv`, `OnceInv`, `PInv`, `WalkInv`, `ClaimInv`,
`AlertsInv`, `KeptInv` and the earlier `IInv`s) are stated in the proof modules, which no run
loads; the runs check the properties that follow from them. The type
invariants of `AlertQueue`, `RefundRefresh`, `StartPayment`, `AdminApi`,
`CallbackFlow`, `RefundJob` and `WebhookDelivery`, and `LogTypeOK`, `PagesNeedAKey`
and `RefusalsAreTrue`, are proved and no run lists them.

## 7. Where the code and what is said of it differ

One run is expected to end in a violation.

* `guard_after_crash`. `services/verified-ledger.service.js:8-10`: the guard must
  never be the reason a paid order is not handed over. After the eight-second wait
  the entry is settled `pending` while the delivery still runs in memory. A crash
  at that moment leaves a pending entry with neither a delivery nor a queue entry,
  and every later plain callback is answered from it. Only a *claim* goes stale.

The others are shown by changing a run's constants; the definitions named are in
the modules, and no run lists them where they are not true of the code.

* Two Zarinpal callbacks of one payment can both pass the early check; the first
  clears the session (`controllers/callbackFlow.js:199`), and the other tells its
  guest that the payment was not verified. The top-level `README.md:109` says that
  the guest is sent where the first callback sent them. `OneStory`, with two
  Zarinpal callbacks and no fault.
* An alert queued while a pass awaits a send is overwritten by the pass's copy
  (`alerts/store.js:32`); `services/notification.service.js:124` calls the queue
  durable. `QueuedIsKept`, with two alerts and no fault.
* A hold taken while a refresh awaits the store or SEP does not stop it
  (`sep/refreshClaim.js:34`), although "no refresh may be sent" then (line 18).
  `HoldStopsRefresh`, with one call and no fault.
* With the memory store a restart forgets when the last refresh was sent
  (`sep/refreshClaim.js:21`), and the refund may be put back to Start while its
  outcome is unknown, which the top-level `README.md:224` warns of. `NeverTwice`
  with `Shared = FALSE` and a crash.
* SEP is asked again when its answer is lost, and a lost answer is read as a
  refusal (`services/payment-gateway.service.js:206`): a confirmed payment can be
  reported to the receiver as failed. `FailureIsTrue` with `Gateway <- AllSep` and
  lost answers. It is therefore checked and proved for Zibal. At Zarinpal a
  session that holds the price of a newer payment of the order has the same effect.
* `docs/index.html:1113` says that the admin's verify-only has no side effects. It
  settles the payment at the bank (`controllers/admin.controller.js:38`), and SEP
  then answers the guest's callback without success. `FailureIsTrue` with
  `Gateway <- AllSep` and `AdminAsks = TRUE`.
* The failure webhook is not called when a Zarinpal callback finds no session
  (`controllers/bankVerification.js:63`) nor when the receiver does not answer the
  ping (`controllers/callbackFlow.js:112-137`), although the guest is told of a
  failure and the top-level `README.md:51` has it called on a failed payment. No
  bank was asked then; `FailureIsTold` names the two as `LeftOpen`.

Seen while modelling, and left as notes on the hazards:

* `retry=true` may take over a payment the receiver refused *after* the wait: the late
  refusal is not recorded (`controllers/webhookDispatch.js:46`), although `claim`
  excludes refused payments.
* The queue's worker settles "done" for any delivery that counts as taken, also
  when an extension answered refused or pending (`controllers/webhookDispatch.js:90`).
* When the disk takes no write, a failed attempt is not counted
  (`services/payment-queue.service.js:144`) and the item is tried on every interval.
* A proxy's 502 or 503 does not move a delivery to the next address:
  `validateStatus` accepts every status (`services/webhook.service.js:48`), whereas
  `utils/reach.js:4-5` counts it as never reached.
* A plugged-in store whose promise never settles keeps the claim of its refund
  until a restart (`sep/refreshClaim.js:34`, `:36`, `:62`); `ClaimEnds` without its
  exception fails with `Shared = TRUE`.
* An extension's handler that never settles (`services/webhook.service.js:105`)
  leaves its payment pending and out of the queue, or, when the queue delivers
  it, keeps the queue's pass from ending.
* An entry that the debug route cancels while a pass holds a copy of it is still
  delivered, or set back to pending
  (`services/payment-queue.service.js:130`, `:148`). No property covers it.

## 8. Not modelled

* The callback when no webhook URL is set, and with it the ledger's `release`.
* The contents of payloads, texts, URLs and signatures; SOAP envelopes; the event
  and request logs, whose lines nothing reads.
* Alert texts and senders; de-duplication of alerts, and alerts that are not queued.
* The SEP report and the listing calls: one request passed on, no state here.
* Comparing keys in constant time (equality here), and the header a key comes in.
* Several processes on one set of files.
