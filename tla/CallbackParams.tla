--------------------------- MODULE CallbackParams ---------------------------
(***************************************************************************)
(* What one bank callback is taken for: which bank, which reference, which *)
(* order (controllers/callbackParams.js, the first stages of               *)
(* controllers/callbackFlow.js), what the bank is then asked, and what the *)
(* guest, the failure receiver and the success receiver are told.          *)
(* CallbackFlow has the same callback among others, with its state; here   *)
(* every combination of fields is read.                                    *)
(***************************************************************************)
EXTENDS Integers, Sequences

CONSTANTS
  Refs,    \* plain references of payments
  Orders,  \* plain order ids
  Absent,  \* the field is not sent
  Empty,   \* it is sent with nothing in it, or it is ''
  Odd,     \* a string with other characters than a plain id
  List,    \* not a string: qs reads Ref[]=x as a list
  FailureUrl  \* PAYMENT_FAILURE_WEBHOOK_URL is set

ASSUME ParamsAssumption ==
  /\ Absent \notin {Empty, Odd, List} /\ Empty \notin {Odd, List} /\ Odd # List
  /\ (Refs \cup Orders \cup {"zibal", "zarinpal", "sep"}) \cap {Absent, Empty, Odd, List} = {}
  /\ FailureUrl \in BOOLEAN

VARIABLES
  params,    \* body and query of the request, the query first
  stage,
  callback,  \* readCallback's result
  asked,     \* the reference the bank is asked about
  told,      \* what the failure receiver is told
  handed,    \* what the success receiver is given
  answer     \* what the guest is answered

vars == <<params, stage, callback, asked, told, handed, answer>>

Plain == Refs \cup Orders
Is(value) == value \notin {Absent, Empty}

(* a || b: of two spellings, or of a value and its fallback, the first     *)
(* that has a value.                                                       *)
Or(a, b) == IF Is(a) THEN a ELSE b

RefNumOf(p) == Or(p.RefNum, Or(p.refnum, Empty))

(***************************************************************************)
(* parseGatewayParams and readCallback.  A SEP cancel may carry a State    *)
(* and nothing else.                                                       *)
(***************************************************************************)
Read(gateway, code, orderId) == [gateway |-> gateway, code |-> code, orderId |-> orderId]

ParseSep(p) ==
  IF Is(RefNumOf(p)) \/ Is(p.ResNum) \/ Is(p.Status)
  THEN Read("sep", Or(RefNumOf(p), Or(p.ResNum, Empty)), Or(p.ResNum, Empty))
  ELSE Read(Empty, Empty, Empty)

SepFirst(p) ==  \* mutant: SEP's fields are looked at before the others'
  IF ParseSep(p).gateway = "sep" THEN ParseSep(p)
  ELSE IF Is(p.trackId) THEN Read("zibal", p.trackId, Or(p.orderId, Empty))
  ELSE IF Is(p.authority) THEN Read("zarinpal", p.authority, Or(p.orderId, Empty))
  ELSE ParseSep(p)
ParseGatewayParams(p) ==
  IF Is(p.trackId) THEN Read("zibal", p.trackId, Or(p.orderId, Empty))
  ELSE IF Is(p.authority) THEN Read("zarinpal", p.authority, Or(p.orderId, Empty))
  ELSE ParseSep(p)

IsSepSignal(p) == Is(p.Status) \/ Is(p.State) \/ Is(p.ResNum) \/ Is(RefNumOf(p))

ReadCallback(p) ==
  LET c == ParseGatewayParams(p)
  IN  IF (~Is(c.gateway) \/ ~Is(c.code)) /\ IsSepSignal(p)
      THEN Read("sep", Or(c.code, RefNumOf(p)), Or(c.orderId, Or(p.ResNum, c.orderId)))
      ELSE c

ReadParams ==
  /\ stage = "read"
  /\ callback' = ReadCallback(params)
  /\ stage' = "refuse"
  /\ UNCHANGED <<params, asked, told, handed, answer>>

(***************************************************************************)
(* sendFailure: a reference that is not a plain id is left out.            *)
(***************************************************************************)
NoAnswer == [kind |-> "none"]
SafeRef(ref) == IF ref \in Plain THEN ref ELSE Absent
Failure(reason, ref) == [kind |-> "error", reason |-> reason, ref |-> SafeRef(ref)]

(* dispatchFailureWebhook: nothing is sent where no URL is set, nor        *)
(* anything about a payment without an order id.                           *)
TellNobody(c) == UNCHANGED told  \* mutant: the failure receiver is not called
Tell(c) == told' = IF FailureUrl /\ Is(c.orderId)
                   THEN Append(told, [orderId |-> c.orderId, code |-> c.code]) ELSE told

(***************************************************************************)
(* refuseUntrusted: malformed, then incomplete, then Zarinpal's cancel.    *)
(***************************************************************************)
OnlyListCode(c) == c.code = List  \* mutant: the order id is not looked at
IsMalformed(c) == c.code = List \/ c.orderId \in {List, Odd}

IsIncomplete(c) == ~Is(c.gateway) \/ ~Is(c.code)
IsZarinpalCancel(c) == c.gateway = "zarinpal" /\ params.Status = "NOK"

RefuseMalformed ==
  /\ stage = "refuse" /\ IsMalformed(callback)
  /\ answer' = Failure("incomplete_params", Absent)
  /\ stage' = "end"
  /\ UNCHANGED <<params, callback, asked, told, handed>>

RefuseIncomplete ==
  /\ stage = "refuse" /\ ~IsMalformed(callback) /\ IsIncomplete(callback)
  /\ Tell(callback)
  /\ answer' = Failure(IF IsSepSignal(params) /\ ~Is(RefNumOf(params))
                       THEN "cancelled" ELSE "incomplete_params", Absent)
  /\ stage' = "end"
  /\ UNCHANGED <<params, callback, asked, handed>>

RefuseZarinpalCancel ==
  /\ stage = "refuse" /\ ~IsMalformed(callback) /\ ~IsIncomplete(callback)
  /\ IsZarinpalCancel(callback)
  /\ Tell(callback)
  /\ answer' = Failure("cancelled", Absent)
  /\ stage' = "end"
  /\ UNCHANGED <<params, callback, asked, handed>>

Trusted ==
  /\ stage = "refuse" /\ ~IsMalformed(callback) /\ ~IsIncomplete(callback)
  /\ ~IsZarinpalCancel(callback)

(***************************************************************************)
(* What a guest whose payment was taken may be answered.  withOrderId: the *)
(* success page is a fixed URL, or has a place for the order id and, for a *)
(* payment without one, a fallback; where no failure page is set it stands *)
(* for the other two.                                                      *)
(***************************************************************************)
SuccessPage(template, orderId) ==
  IF ~template THEN "fixed" ELSE IF orderId \in Plain THEN orderId ELSE "fallback"

PaidAnswers(orderId) ==
  {[kind |-> "success", page |-> SuccessPage(template, orderId)] : template \in BOOLEAN}
    \cup {[kind |-> "pending", ref |-> SafeRef(callback.code)],
          Failure("booking_refused", callback.code)}

(***************************************************************************)
(* replayEntry and takeForGuard: with the replay guard on, a payment that  *)
(* was taken before is answered from the ledger, with the order id of the  *)
(* callback that took it, whether that is found at once or only when the   *)
(* bank has been asked.  What the ledger holds is left open here.          *)
(***************************************************************************)
AnswerReplay ==
  /\ Trusted \/ stage = "asked"
  /\ \E orderId \in Orders \cup {Empty} : answer' \in PaidAnswers(orderId)
  /\ stage' = "end"
  /\ UNCHANGED <<params, callback, asked, told, handed>>

(***************************************************************************)
(* checkReceiverHealthy: no bank is asked while the receiver is down, and  *)
(* nobody is told; the bank returns the money.                             *)
(***************************************************************************)
Trust ==
  /\ Trusted
  /\ stage' = "ping"
  /\ UNCHANGED <<params, callback, asked, told, handed, answer>>

ReceiverDown ==
  /\ stage = "ping"
  /\ answer' = Failure("verify_retry_failed", callback.code)
  /\ stage' = "end"
  /\ UNCHANGED <<params, callback, asked, told, handed>>

ReceiverUp ==
  /\ stage = "ping"
  /\ stage' = "verify"
  /\ UNCHANGED <<params, callback, asked, told, handed, answer>>

(***************************************************************************)
(* verifyWithGateway.  SEP is asked only when it says the guest has paid;  *)
(* Zarinpal only when the order's session, with the price, is there.       *)
(***************************************************************************)
IsSepCallbackConfirmed(p) == p.State = "OK" \/ p.Status = "2"

OtherSpelling(p) == Or(p.refnum, p.RefNum)  \* mutant: another order of spellings
RefNumToVerify(p) == RefNumOf(p)

SepCallbackRejected == callback.gateway = "sep" /\ ~IsSepCallbackConfirmed(params)

AskBank ==
  /\ stage = "verify" /\ ~SepCallbackRejected
  /\ asked' = IF callback.gateway = "sep" THEN Or(RefNumToVerify(params), callback.code)
              ELSE callback.code
  /\ stage' = "asked"
  /\ UNCHANGED <<params, callback, told, handed, answer>>

ZarinpalSessionMissing ==
  /\ stage = "verify" /\ callback.gateway = "zarinpal"
  /\ answer' = Failure("verify_failed", callback.code)
  /\ stage' = "end"
  /\ UNCHANGED <<params, callback, asked, told, handed>>

(***************************************************************************)
(* reportVerifyFailure and, for a receiver that takes it, the hand-over.   *)
(***************************************************************************)
ReportCancel ==
  /\ stage = "verify" /\ SepCallbackRejected
  /\ Tell(callback)
  /\ answer' = Failure("cancelled", callback.code)
  /\ stage' = "end"
  /\ UNCHANGED <<params, callback, asked, handed>>

ReportRejected ==
  /\ stage = "asked"
  /\ Tell(callback)
  /\ answer' = Failure(IF params.retry THEN "verify_retry_failed" ELSE "verify_failed", callback.code)
  /\ stage' = "end"
  /\ UNCHANGED <<params, callback, asked, handed>>

(* zibalVerifyPayment and zarinpalVerifyPayment throw when every try of    *)
(* theirs went unanswered: the error handler of the application answers.   *)
BankUnanswered ==
  /\ stage = "asked" /\ callback.gateway # "sep"
  /\ answer' = [kind |-> "server_error"]
  /\ stage' = "end"
  /\ UNCHANGED <<params, callback, asked, told, handed>>

Complete ==
  /\ stage = "asked"
  /\ handed' = [orderId |-> callback.orderId, code |-> callback.code]
  /\ answer' \in PaidAnswers(callback.orderId)
  /\ stage' = "end"
  /\ UNCHANGED <<params, callback, asked, told>>

Init ==
  /\ params \in [trackId : {Absent, Odd, List} \cup Refs,
                 authority : {Absent, List} \cup Refs,
                 orderId : {Absent, Odd} \cup Orders,
                 RefNum : {Absent, Empty, List} \cup Refs,
                 refnum : {Absent, List} \cup Refs,
                 ResNum : {Absent, Odd, List} \cup Orders,
                 State : {Absent, "OK", "CanceledByUser"},
                 Status : {Absent, "OK", "NOK", "1", "2"},
                 retry : BOOLEAN]
  /\ stage = "read"
  /\ callback = Read(Empty, Empty, Empty)
  /\ asked = Absent
  /\ told = <<>>
  /\ handed = Absent
  /\ answer = NoAnswer

Next ==
  \/ ReadParams
  \/ RefuseMalformed \/ RefuseIncomplete \/ RefuseZarinpalCancel
  \/ AnswerReplay \/ Trust \/ ReceiverDown \/ ReceiverUp
  \/ AskBank \/ ZarinpalSessionMissing
  \/ ReportCancel \/ ReportRejected \/ BankUnanswered \/ Complete

Spec == Init /\ [][Next]_vars
-----------------------------------------------------------------------------
(***************************************************************************)
(* What the banks send, as far as the fields above go.                     *)
(***************************************************************************)
Nothing == [trackId |-> Absent, authority |-> Absent, orderId |-> Absent, RefNum |-> Absent,
            refnum |-> Absent, ResNum |-> Absent, State |-> Absent, Status |-> Absent]
Fields(p) == [f \in DOMAIN Nothing |-> p[f]]

(* The order id comes back in the query of the callback URL.               *)
ZibalReturns(ref, order) ==
  [Nothing EXCEPT !.trackId = ref, !.orderId = order, !.Status = "1"]
ZarinpalReturns(ref, order, status) ==
  [Nothing EXCEPT !.authority = ref, !.orderId = order, !.Status = status]
SepConfirms(ref, order) ==
  [Nothing EXCEPT !.RefNum = ref, !.ResNum = order, !.orderId = order, !.State = "OK", !.Status = "2"]
SepCancels(empty, order) ==
  [Nothing EXCEPT !.RefNum = empty, !.ResNum = order, !.orderId = order,
                  !.State = "CanceledByUser", !.Status = "1"]

CallbackOf(gateway, ref, order) == callback = Read(gateway, ref, order)
EndsWith(reasons) == answer.kind = "error" /\ answer.reason \in reasons
Cancelled == EndsWith({"cancelled"}) /\ asked = Absent

(* The bank is spared a callback whose payment the ledger knows, or while  *)
(* the receiver is down; Zarinpal also without the session and its price.  *)
KnownToLedger == asked = Absent /\ (answer.kind \in {"success", "pending"} \/ EndsWith({"booking_refused"}))
ReceiverWasDown == asked = Absent /\ EndsWith({"verify_retry_failed"})
SessionWasGone == asked = Absent /\ callback.gateway = "zarinpal" /\ EndsWith({"verify_failed"})
Spared == KnownToLedger \/ ReceiverWasDown

(***************************************************************************)
(* Every bank's own callback is read as that bank's, with its reference    *)
(* and the merchant's order, and the bank is asked about that reference,   *)
(* unless it is spared; a cancel is answered as one, SEP's only when the   *)
(* receiver is up, and the bank is never asked about it                    *)
(* (parseGatewayParams, readCallback, isSepCallbackConfirmed).             *)
(***************************************************************************)
BankIsUnderstood ==
  stage = "end" =>
    \A ref \in Refs, order \in Orders :
      /\ Fields(params) = ZibalReturns(ref, order) =>
           CallbackOf("zibal", ref, order) /\ (asked = ref \/ Spared)
      /\ Fields(params) = ZarinpalReturns(ref, order, "OK") =>
           CallbackOf("zarinpal", ref, order) /\ (asked = ref \/ Spared \/ SessionWasGone)
      /\ Fields(params) = ZarinpalReturns(ref, order, "NOK") => Cancelled
      /\ Fields(params) = SepConfirms(ref, order) =>
           CallbackOf("sep", ref, order) /\ (asked = ref \/ Spared)
      /\ \A empty \in {Absent, Empty} :
           Fields(params) = SepCancels(empty, order) =>
             callback.gateway = "sep" /\ (Cancelled \/ Spared)

(***************************************************************************)
(* The reference that is handed over, and that the ledger keeps, is the    *)
(* one the bank was asked about, whatever else the request carries (askSep *)
(* and readCallback; tests/sepCallbackReplay.test.js).                     *)
(***************************************************************************)
CodeIsVerified == handed # Absent => handed.code = asked

(***************************************************************************)
(* Only strings reach a bank or a receiver, only plain order ids a         *)
(* receiver, and only plain ids a URL the guest is sent to                 *)
(* (refuseMalformed, SAFE_ORDER_ID, SAFE_REF).                             *)
(***************************************************************************)
PlainGoesOut ==
  /\ asked # List
  /\ \A i \in 1..Len(told) : told[i].code # List /\ told[i].orderId \in Orders
  /\ handed # Absent => handed.orderId \in Orders \cup {Empty}
  /\ answer.kind \in {"error", "pending"} => answer.ref \in Plain \cup {Absent}

(***************************************************************************)
(* Guest and failure receiver hear the same: whoever is told that a        *)
(* payment failed or was cancelled, the receiver, where one is set and the *)
(* payment has an order id, hears of it too, once and about that payment,  *)
(* and it hears of nothing else.  It does not hear of a payment that is    *)
(* left open, because the receiver is down or the session is gone: no bank *)
(* was asked, and a retry may still find it paid; nor of a malformed       *)
(* callback, nor of a paid one (refuseUntrusted, checkReceiverHealthy,     *)
(* reportVerifyFailure, dispatchFailureWebhook).                           *)
(***************************************************************************)
LeftOpen == ReceiverWasDown \/ SessionWasGone

Failed ==
  /\ answer.kind = "error" /\ answer.reason # "booking_refused"
  /\ ~IsMalformed(callback) /\ ~LeftOpen

FailureIsTold ==
  stage = "end" =>
    told = IF Failed /\ FailureUrl /\ Is(callback.orderId)
           THEN <<[orderId |-> callback.orderId, code |-> callback.code]>> ELSE <<>>
=============================================================================
