------------------------ MODULE CallbackParamsProofs ------------------------
(***************************************************************************)
(* Proofs about CallbackParams, for any references, orders and ways to     *)
(* send them.                                                              *)
(***************************************************************************)
EXTENDS CallbackParams, TLAPS

(* What a stage may rely on.  The bank is asked about the callback's own   *)
(* code (SepCode below), and what is malformed has left before any other   *)
(* stage.                                                                  *)
Untouched == asked = Absent /\ told = <<>> /\ handed = Absent /\ answer = NoAnswer

IInv ==
  /\ params.orderId \in {Absent, Odd} \cup Orders
  /\ params.ResNum \in {Absent, Odd, List} \cup Orders
  /\ stage # "read" => callback = ReadCallback(params)
  /\ stage \in {"read", "refuse", "ping", "verify"} => Untouched
  /\ stage \in {"ping", "verify", "asked"} => ~IsMalformed(callback) /\ ~IsIncomplete(callback)
  /\ stage = "asked" => asked = callback.code /\ told = <<>> /\ handed = Absent /\ answer = NoAnswer
  /\ CodeIsVerified
  /\ PlainGoesOut

(* Whatever is read as SEP's: the RefNum, when there is one, is the code.  *)
LEMMA SepCode ==
  ASSUME NEW p, NEW c, c = ReadCallback(p), c.gateway = "sep", Is(c.code)
  PROVE  Or(RefNumToVerify(p), c.code) = c.code
<1> DEFINE r == RefNumOf(p)
<1>1. CASE Is(p.trackId)
  <2>1. ParseGatewayParams(p) = Read("zibal", p.trackId, Or(p.orderId, Empty))
    BY <1>1 DEF ParseGatewayParams
  <2>2. c.gateway = "zibal"
    BY <1>1, <2>1, ParamsAssumption DEF ReadCallback, Read, Is
  <2> QED  BY <2>2
<1>2. CASE ~Is(p.trackId) /\ Is(p.authority)
  <2>1. ParseGatewayParams(p) = Read("zarinpal", p.authority, Or(p.orderId, Empty))
    BY <1>2 DEF ParseGatewayParams
  <2>2. c.gateway = "zarinpal"
    BY <1>2, <2>1, ParamsAssumption DEF ReadCallback, Read, Is
  <2> QED  BY <2>2
<1>3. CASE ~Is(p.trackId) /\ ~Is(p.authority)
  <2>1. ParseGatewayParams(p) = ParseSep(p)
    BY <1>3 DEF ParseGatewayParams
  <2>2. ParseSep(p).code \in {Or(r, Or(p.ResNum, Empty)), Empty}
    BY DEF ParseSep, Read
  <2>3. Is(r) => ParseSep(p).code = r /\ ParseSep(p).gateway = "sep"
    BY DEF ParseSep, Read, Or
  <2>4. Is(r) => c.code = r
    BY <2>1, <2>3, ParamsAssumption DEF ReadCallback, Read, Or, Is
  <2> QED  BY <2>4 DEF RefNumToVerify, Or
<1> QED  BY <1>1, <1>2, <1>3

(* The order id of a callback is one of the fields it may stand in.        *)
LEMMA OrderRead ==
  ASSUME NEW p,
         p.orderId \in {Absent, Odd} \cup Orders,
         p.ResNum \in {Absent, Odd, List} \cup Orders
  PROVE  ReadCallback(p).orderId \in Orders \cup {Empty, Odd, List}
<1> DEFINE ids == Orders \cup {Empty, Odd, List}
<1>1. Or(p.orderId, Empty) \in ids /\ Or(p.ResNum, Empty) \in ids
  BY DEF Or, Is
<1>2. ParseGatewayParams(p).orderId \in ids
  BY <1>1 DEF ParseGatewayParams, ParseSep, Read
<1>3. Or(ParseGatewayParams(p).orderId, Or(p.ResNum, ParseGatewayParams(p).orderId)) \in ids
  BY <1>2 DEF Or, Is
<1> QED  BY <1>2, <1>3 DEF ReadCallback, Read

LEMMA Inductive == ParamsAssumption => (IInv /\ [Next]_vars => IInv')
<1> SUFFICES ASSUME IInv, [Next]_vars PROVE IInv'
  OBVIOUS
<1> USE DEF IInv, Untouched
<1>0. stage # "read" => callback.orderId \in Orders \cup {Empty, Odd, List}
  BY OrderRead
<1>a. ~IsMalformed(callback) /\ stage # "read" =>
        callback.code # List /\ callback.orderId \in Orders \cup {Empty}
  BY <1>0 DEF IsMalformed
<1>b. \A ref : SafeRef(ref) \in Plain \cup {Absent}
  BY DEF SafeRef
<1>c. \A reason, ref : Failure(reason, ref).ref \in Plain \cup {Absent}
  BY <1>b DEF Failure
<1>d. ASSUME Tell(callback), told = <<>>,
             callback.code # List, callback.orderId \in Orders \cup {Empty}
      PROVE  \A i \in 1..Len(told') : told'[i].code # List /\ told'[i].orderId \in Orders
  BY <1>d DEF Tell, Is
<1>e. \A orderId : \A a \in PaidAnswers(orderId) :
        a.kind \in {"error", "pending"} => a.ref \in Plain \cup {Absent}
  BY <1>b, <1>c DEF PaidAnswers
<1>1. CASE ReadParams
  BY <1>1 DEF ReadParams, CodeIsVerified, PlainGoesOut
<1>2. CASE RefuseMalformed
  BY <1>2, <1>c DEF RefuseMalformed, CodeIsVerified, PlainGoesOut
<1>3. CASE RefuseIncomplete
  BY <1>3, <1>a, <1>c, <1>d DEF RefuseIncomplete, CodeIsVerified, PlainGoesOut
<1>4. CASE RefuseZarinpalCancel
  BY <1>4, <1>a, <1>c, <1>d DEF RefuseZarinpalCancel, CodeIsVerified, PlainGoesOut
<1>5. CASE Trust \/ ReceiverUp
  BY <1>5 DEF Trust, Trusted, ReceiverUp, CodeIsVerified, PlainGoesOut
<1>6. CASE AskBank
  <2>1. asked' = callback.code
    BY <1>6, SepCode DEF AskBank, IsIncomplete
  <2> QED  BY <1>6, <1>a, <2>1 DEF AskBank, CodeIsVerified, PlainGoesOut
<1>7. CASE ZarinpalSessionMissing
  BY <1>7, <1>c DEF ZarinpalSessionMissing, CodeIsVerified, PlainGoesOut
<1>8. CASE ReportCancel
  BY <1>8, <1>a, <1>c, <1>d DEF ReportCancel, CodeIsVerified, PlainGoesOut
<1>9. CASE ReportRejected
  BY <1>9, <1>a, <1>c, <1>d DEF ReportRejected, CodeIsVerified, PlainGoesOut
<1>10. CASE BankUnanswered
  BY <1>10 DEF BankUnanswered, CodeIsVerified, PlainGoesOut
<1>11. CASE Complete
  BY <1>11, <1>a, <1>e DEF Complete, CodeIsVerified, PlainGoesOut
<1>12. CASE UNCHANGED vars
  BY <1>12 DEF vars, CodeIsVerified, PlainGoesOut, IsMalformed, IsIncomplete
<1>13. CASE ReceiverDown
  BY <1>13, <1>c DEF ReceiverDown, CodeIsVerified, PlainGoesOut
<1>14. CASE AnswerReplay
  BY <1>14, <1>e DEF AnswerReplay, Trusted, CodeIsVerified, PlainGoesOut
<1> QED
  BY <1>1, <1>2, <1>3, <1>4, <1>5, <1>6, <1>7, <1>8, <1>9, <1>10, <1>11, <1>12, <1>13, <1>14
  DEF Next

LEMMA Initial == Init => IInv
<1> SUFFICES ASSUME Init PROVE IInv
  OBVIOUS
<1>1. params.orderId \in {Absent, Odd} \cup Orders /\ params.ResNum \in {Absent, Odd, List} \cup Orders
  BY DEF Init
<1>2. Untouched /\ stage = "read"
  BY DEF Init, Untouched
<1>3. CodeIsVerified /\ PlainGoesOut
  BY <1>2, ParamsAssumption DEF Untouched, CodeIsVerified, PlainGoesOut, NoAnswer
<1> QED  BY <1>1, <1>2, <1>3 DEF IInv

LEMMA Invariance == Spec => []IInv
<1>1. IInv /\ [Next]_vars => IInv'
  BY Inductive, ParamsAssumption
<1> QED  BY <1>1, Initial, PTL DEF Spec

(* The reference handed over is the one the bank was asked about, for any  *)
(* combination of fields.                                                  *)
THEOREM HandedCodeIsVerified == Spec => []CodeIsVerified
<1>1. IInv => CodeIsVerified
  BY DEF IInv
<1> QED  BY <1>1, Invariance, PTL

(* Nothing but strings and plain ids goes out, for any combination.        *)
THEOREM OnlyPlainGoesOut == Spec => []PlainGoesOut
<1>1. IInv => PlainGoesOut
  BY DEF IInv
<1> QED  BY <1>1, Invariance, PTL

(***************************************************************************)
(* Guest and failure receiver hear the same, for any combination of fields *)
(* and with or without a failure receiver: a step that ends the callback   *)
(* either tells a failure to both or leaves none.                          *)
(***************************************************************************)
Tells ==
  told = IF FailureUrl /\ Is(callback.orderId)
         THEN <<[orderId |-> callback.orderId, code |-> callback.code]>> ELSE <<>>

LEMMA FailureKind ==
  \A reason, ref : Failure(reason, ref).kind = "error" /\ Failure(reason, ref).reason = reason
BY DEF Failure

(* A failure of a callback that is told to the receiver is one.            *)
LEMMA ToldIsFailed ==
  ASSUME IInv, RefuseIncomplete \/ RefuseZarinpalCancel \/ ReportCancel \/ ReportRejected
  PROVE  Tells' /\ Failed'
<1>1. told = <<>> /\ ~IsMalformed(callback) /\ UNCHANGED <<params, callback, asked>> /\ Tell(callback)
  BY DEF IInv, Untouched, RefuseIncomplete, RefuseZarinpalCancel, ReportCancel, ReportRejected
<1>2. Tells'
  BY <1>1 DEF Tell, Tells
<1>3. ~IsMalformed(callback')
  BY <1>1 DEF IsMalformed
<1>4. CASE RefuseIncomplete \/ RefuseZarinpalCancel \/ ReportCancel
  <2>1. answer'.kind = "error" /\ answer'.reason \in {"cancelled", "incomplete_params"}
    BY <1>4, FailureKind DEF RefuseIncomplete, RefuseZarinpalCancel, ReportCancel
  <2> QED
    BY <1>2, <1>3, <2>1 DEF Failed, LeftOpen, ReceiverWasDown, SessionWasGone, EndsWith
<1>5. CASE ReportRejected
  <2>1. answer'.kind = "error" /\ answer'.reason \in {"verify_failed", "verify_retry_failed"}
    BY <1>5, FailureKind DEF ReportRejected
  <2>2. asked' # Absent
    BY <1>1, <1>5 DEF ReportRejected, IInv, IsIncomplete, Is
  <2> QED
    BY <1>2, <1>3, <2>1, <2>2 DEF Failed, LeftOpen, ReceiverWasDown, SessionWasGone, EndsWith
<1> QED
  BY <1>4, <1>5

(* What is not told is no failure.                                         *)
LEMMA UntoldIsNone ==
  ASSUME IInv, \/ RefuseMalformed \/ ReceiverDown \/ ZarinpalSessionMissing
               \/ BankUnanswered \/ AnswerReplay \/ Complete
  PROVE  told' = <<>> /\ ~Failed'
<1>1. told = <<>> /\ UNCHANGED <<told, callback>>
  BY DEF IInv, Untouched, RefuseMalformed, ReceiverDown, ZarinpalSessionMissing, BankUnanswered,
         AnswerReplay, Trusted, Complete
<1>2. CASE RefuseMalformed
  BY <1>1, <1>2 DEF RefuseMalformed, Failed, IsMalformed
<1>3. CASE ReceiverDown
  <2>1. asked' = Absent /\ answer'.kind = "error" /\ answer'.reason = "verify_retry_failed"
    BY <1>3, FailureKind DEF ReceiverDown, IInv, Untouched
  <2> QED
    BY <1>1, <2>1 DEF Failed, LeftOpen, ReceiverWasDown, EndsWith
<1>4. CASE ZarinpalSessionMissing
  <2>1. /\ asked' = Absent /\ answer'.kind = "error" /\ answer'.reason = "verify_failed"
        /\ callback'.gateway = "zarinpal"
    BY <1>4, FailureKind DEF ZarinpalSessionMissing, IInv, Untouched
  <2> QED
    BY <1>1, <2>1 DEF Failed, LeftOpen, SessionWasGone, EndsWith
<1>5. CASE BankUnanswered
  BY <1>1, <1>5 DEF BankUnanswered, Failed
<1>6. CASE AnswerReplay \/ Complete
  <2>1. \E orderId : answer' \in PaidAnswers(orderId)
    BY <1>6 DEF AnswerReplay, Complete
  <2>2. answer'.kind = "error" => answer'.reason = "booking_refused"
    BY <2>1, FailureKind DEF PaidAnswers
  <2> QED
    BY <1>1, <2>2 DEF Failed
<1> QED
  BY <1>2, <1>3, <1>4, <1>5, <1>6

THEOREM NobodyFailsAlone == Spec => []FailureIsTold
<1>1. Init => FailureIsTold
  BY DEF Init, FailureIsTold
<1>2. IInv /\ FailureIsTold /\ [Next]_vars => FailureIsTold'
  <2> SUFFICES ASSUME IInv, FailureIsTold, [Next]_vars PROVE FailureIsTold'
    OBVIOUS
  <2>1. CASE ReadParams \/ Trust \/ ReceiverUp \/ AskBank
    BY <2>1 DEF ReadParams, Trust, ReceiverUp, AskBank, FailureIsTold
  <2>2. CASE RefuseIncomplete \/ RefuseZarinpalCancel \/ ReportCancel \/ ReportRejected
    BY <2>2, ToldIsFailed DEF FailureIsTold, Tells
  <2>3. CASE \/ RefuseMalformed \/ ReceiverDown \/ ZarinpalSessionMissing
             \/ BankUnanswered \/ AnswerReplay \/ Complete
    BY <2>3, UntoldIsNone DEF FailureIsTold
  <2>4. CASE UNCHANGED vars
    BY <2>4 DEF vars, FailureIsTold, Failed, IsMalformed, LeftOpen, ReceiverWasDown,
                SessionWasGone, EndsWith
  <2> QED
    BY <2>1, <2>2, <2>3, <2>4 DEF Next
<1> QED  BY <1>1, <1>2, Invariance, PTL DEF Spec

-----------------------------------------------------------------------------
(***************************************************************************)
(* The banks' own callbacks.  What a callback that is whole ends with      *)
(* follows from who sent it and with which state.                          *)
(***************************************************************************)
Whole == ~IsMalformed(callback) /\ ~IsIncomplete(callback)

EndsAsSent ==
  /\ stage \in {"ping", "verify", "asked"} => ~IsZarinpalCancel(callback)
  /\ stage = "asked" => ~SepCallbackRejected
  /\ stage = "end" /\ Whole =>
       /\ IsZarinpalCancel(callback) => Cancelled
       /\ SepCallbackRejected => Cancelled \/ Spared
       /\ ~IsZarinpalCancel(callback) /\ ~SepCallbackRejected =>
            asked = callback.code \/ Spared \/ SessionWasGone

(* Every stage leaves the callback to end as its bank sent it.             *)
LEMMA NextEndsAsSent == IInv /\ EndsAsSent /\ [Next]_vars => EndsAsSent'
<1> SUFFICES ASSUME IInv, EndsAsSent, [Next]_vars PROVE EndsAsSent'
  OBVIOUS
<1>1. /\ stage \in {"read", "refuse", "ping", "verify"} => asked = Absent
      /\ stage = "asked" => asked = callback.code
  BY DEF IInv, Untouched
<1>2. ASSUME UNCHANGED <<params, callback>>
      PROVE  /\ Whole' <=> Whole
             /\ IsZarinpalCancel(callback)' <=> IsZarinpalCancel(callback)
             /\ SepCallbackRejected' <=> SepCallbackRejected
  BY <1>2 DEF Whole, IsMalformed, IsIncomplete, IsZarinpalCancel, SepCallbackRejected
<1>3. IsZarinpalCancel(callback) => ~SepCallbackRejected
  BY DEF IsZarinpalCancel, SepCallbackRejected
<1>4. CASE ReadParams
  BY <1>4 DEF ReadParams, EndsAsSent
<1>5. CASE RefuseMalformed \/ RefuseIncomplete
  <2>1. ~Whole' /\ stage' = "end"
    BY <1>2, <1>5 DEF RefuseMalformed, RefuseIncomplete, Whole
  <2> QED
    BY <2>1 DEF EndsAsSent
<1>6. CASE RefuseZarinpalCancel
  <2>1. stage' = "end" /\ Cancelled' /\ IsZarinpalCancel(callback)'
    BY <1>1, <1>2, <1>6, FailureKind DEF RefuseZarinpalCancel, Cancelled, EndsWith
  <2> QED
    BY <2>1 DEF EndsAsSent
<1>7. CASE Trust \/ ReceiverUp
  <2>1. stage' \in {"ping", "verify"} /\ ~IsZarinpalCancel(callback)'
    BY <1>2, <1>7 DEF Trust, Trusted, ReceiverUp, EndsAsSent
  <2> QED
    BY <2>1 DEF EndsAsSent
<1>8. CASE AskBank
  <2>1. stage' = "asked" /\ ~IsZarinpalCancel(callback)' /\ ~SepCallbackRejected'
    BY <1>2, <1>8 DEF AskBank, EndsAsSent
  <2> QED
    BY <2>1 DEF EndsAsSent
<1>9. CASE AnswerReplay /\ stage # "asked"
  <2>1. stage' = "end" /\ ~IsZarinpalCancel(callback)' /\ asked' = Absent
    BY <1>1, <1>2, <1>9 DEF AnswerReplay, Trusted
  <2>2. \E orderId : answer' \in PaidAnswers(orderId)
    BY <1>9 DEF AnswerReplay
  <2>3. answer'.kind \in {"success", "pending"} \/ EndsWith({"booking_refused"})'
    BY <2>2, FailureKind DEF PaidAnswers, EndsWith
  <2>4. Spared'
    BY <2>1, <2>3 DEF Spared, KnownToLedger
  <2> QED
    BY <2>1, <2>4 DEF EndsAsSent
<1>10. CASE ReceiverDown
  <2>1. stage' = "end" /\ ~IsZarinpalCancel(callback)'
    BY <1>2, <1>10 DEF ReceiverDown, EndsAsSent
  <2>2. Spared'
    BY <1>1, <1>10, FailureKind DEF ReceiverDown, Spared, ReceiverWasDown, EndsWith
  <2> QED
    BY <2>1, <2>2 DEF EndsAsSent
<1>11. CASE ZarinpalSessionMissing
  <2>1. stage' = "end" /\ ~IsZarinpalCancel(callback)' /\ ~SepCallbackRejected'
    BY <1>2, <1>11 DEF ZarinpalSessionMissing, EndsAsSent, SepCallbackRejected
  <2>2. SessionWasGone'
    BY <1>1, <1>11, FailureKind DEF ZarinpalSessionMissing, SessionWasGone, EndsWith
  <2> QED
    BY <2>1, <2>2 DEF EndsAsSent
<1>12. CASE ReportCancel
  <2>1. stage' = "end" /\ Cancelled' /\ ~IsZarinpalCancel(callback)' /\ SepCallbackRejected'
    BY <1>1, <1>2, <1>3, <1>12, FailureKind DEF ReportCancel, Cancelled, EndsWith
  <2> QED
    BY <2>1 DEF EndsAsSent
<1>13. CASE ReportRejected \/ BankUnanswered \/ Complete \/ (AnswerReplay /\ stage = "asked")
  <2>1. stage = "asked" /\ stage' = "end" /\ UNCHANGED <<params, callback, asked>>
    BY <1>13 DEF ReportRejected, BankUnanswered, Complete, AnswerReplay
  <2>2. asked' = callback'.code /\ ~IsZarinpalCancel(callback)' /\ ~SepCallbackRejected'
    BY <1>1, <1>2, <2>1 DEF EndsAsSent
  <2> QED
    BY <2>1, <2>2 DEF EndsAsSent
<1>14. CASE UNCHANGED vars
  <2>1. UNCHANGED <<stage, asked, callback>> /\ (Cancelled' <=> Cancelled) /\ (Spared' <=> Spared)
        /\ (SessionWasGone' <=> SessionWasGone)
    BY <1>14 DEF vars, Cancelled, Spared, KnownToLedger, ReceiverWasDown, SessionWasGone, EndsWith
  <2> QED
    BY <1>2, <1>14, <2>1 DEF vars, EndsAsSent
<1> QED
  BY <1>4, <1>5, <1>6, <1>7, <1>8, <1>9, <1>10, <1>11, <1>12, <1>13, <1>14 DEF Next

(* What is read of a callback of Zibal's.                                  *)
LEMMA ZibalRead ==
  ASSUME NEW p, NEW ref \in Refs, NEW order \in Orders, Fields(p) = ZibalReturns(ref, order)
  PROVE  ReadCallback(p) = Read("zibal", ref, order)
<1>1. p.trackId = ref /\ p.orderId = order
  BY DEF Fields, ZibalReturns, Nothing
<1>2. Is(ref) /\ Is(order) /\ Is("zibal")
  BY ParamsAssumption DEF Is
<1>3. ParseGatewayParams(p) = Read("zibal", ref, order)
  BY <1>1, <1>2 DEF ParseGatewayParams, Or
<1> QED
  BY <1>2, <1>3 DEF ReadCallback, Read

(* ... of Zarinpal's, paid or cancelled.                                   *)
LEMMA ZarinpalRead ==
  ASSUME NEW p, NEW ref \in Refs, NEW order \in Orders, NEW status \in {"OK", "NOK"},
         Fields(p) = ZarinpalReturns(ref, order, status)
  PROVE  ReadCallback(p) = Read("zarinpal", ref, order) /\ p.Status = status
<1>1. p.trackId = Absent /\ p.authority = ref /\ p.orderId = order /\ p.Status = status
  BY DEF Fields, ZarinpalReturns, Nothing
<1>2. Is(ref) /\ Is(order) /\ Is("zarinpal") /\ ~Is(Absent)
  BY ParamsAssumption DEF Is
<1>3. ParseGatewayParams(p) = Read("zarinpal", ref, order)
  BY <1>1, <1>2 DEF ParseGatewayParams, Or
<1> QED
  BY <1>1, <1>2, <1>3 DEF ReadCallback, Read

(* ... of SEP's for a payment.                                             *)
LEMMA SepReads ==
  ASSUME NEW p, NEW ref \in Refs, NEW order \in Orders, Fields(p) = SepConfirms(ref, order)
  PROVE  ReadCallback(p) = Read("sep", ref, order) /\ IsSepCallbackConfirmed(p)
<1>1. /\ p.trackId = Absent /\ p.authority = Absent /\ p.RefNum = ref /\ p.ResNum = order
      /\ p.State = "OK"
  BY DEF Fields, SepConfirms, Nothing
<1>2. Is(ref) /\ Is(order) /\ Is("sep") /\ ~Is(Absent)
  BY ParamsAssumption DEF Is
<1>3. ParseGatewayParams(p) = Read("sep", ref, order)
  BY <1>1, <1>2 DEF ParseGatewayParams, ParseSep, RefNumOf, Or
<1> QED
  BY <1>1, <1>2, <1>3 DEF ReadCallback, Read, IsSepCallbackConfirmed

(* ... and of SEP's for a cancel, whose RefNum is empty or missing.        *)
LEMMA SepReadsCancel ==
  ASSUME NEW p, NEW empty \in {Absent, Empty}, NEW order \in Orders,
         Fields(p) = SepCancels(empty, order)
  PROVE  ReadCallback(p) = Read("sep", order, order) /\ ~IsSepCallbackConfirmed(p)
<1>1. /\ p.trackId = Absent /\ p.authority = Absent /\ p.RefNum = empty /\ p.refnum = Absent
      /\ p.ResNum = order /\ p.State = "CanceledByUser" /\ p.Status = "1"
  BY DEF Fields, SepCancels, Nothing
<1>2. Is(order) /\ Is("sep") /\ ~Is(Absent) /\ ~Is(empty) /\ ~Is(Empty)
  BY ParamsAssumption DEF Is
<1>3. ParseGatewayParams(p) = Read("sep", order, order)
  BY <1>1, <1>2 DEF ParseGatewayParams, ParseSep, RefNumOf, Or
<1> QED
  BY <1>1, <1>2, <1>3 DEF ReadCallback, Read, IsSepCallbackConfirmed

(* A callback read with a plain code and order is whole.                   *)
LEMMA ReadWhole ==
  ASSUME NEW gateway \in {"zibal", "zarinpal", "sep"}, NEW code \in Plain, NEW order \in Orders,
         callback = Read(gateway, code, order)
  PROVE  /\ Whole /\ callback.gateway = gateway /\ callback.code = code
BY ParamsAssumption DEF Read, Whole, IsMalformed, IsIncomplete, Is, Plain

(***************************************************************************)
(* Each bank's own callback is taken for what it is, for any references    *)
(* and order ids: read as that bank's with its reference and order, the    *)
(* bank asked about that reference unless it is spared, a cancel answered  *)
(* as one, unasked.                                                        *)
(***************************************************************************)
THEOREM BanksAreUnderstood == Spec => []BankIsUnderstood
<1>1. Init => EndsAsSent
  BY DEF Init, EndsAsSent
<1>2. IInv /\ EndsAsSent => BankIsUnderstood
  <2> SUFFICES ASSUME IInv, EndsAsSent, stage = "end", NEW ref \in Refs, NEW order \in Orders
               PROVE  /\ Fields(params) = ZibalReturns(ref, order) =>
                           CallbackOf("zibal", ref, order) /\ (asked = ref \/ Spared)
                      /\ Fields(params) = ZarinpalReturns(ref, order, "OK") =>
                           /\ CallbackOf("zarinpal", ref, order)
                           /\ asked = ref \/ Spared \/ SessionWasGone
                      /\ Fields(params) = ZarinpalReturns(ref, order, "NOK") => Cancelled
                      /\ Fields(params) = SepConfirms(ref, order) =>
                           CallbackOf("sep", ref, order) /\ (asked = ref \/ Spared)
                      /\ \A empty \in {Absent, Empty} :
                           Fields(params) = SepCancels(empty, order) =>
                             callback.gateway = "sep" /\ (Cancelled \/ Spared)
    BY DEF BankIsUnderstood
  <2>1. /\ callback = ReadCallback(params)
        /\ Whole => /\ IsZarinpalCancel(callback) => Cancelled
                    /\ SepCallbackRejected => Cancelled \/ Spared
                    /\ ~IsZarinpalCancel(callback) /\ ~SepCallbackRejected =>
                         asked = callback.code \/ Spared \/ SessionWasGone
        /\ SessionWasGone => callback.gateway = "zarinpal"
        /\ ref \in Plain /\ order \in Plain
    BY DEF IInv, EndsAsSent, Plain, SessionWasGone
  <2> USE DEF CallbackOf, IsZarinpalCancel, SepCallbackRejected
  <2>2. ASSUME Fields(params) = ZibalReturns(ref, order)
        PROVE  CallbackOf("zibal", ref, order) /\ (asked = ref \/ Spared)
    BY <2>1, <2>2, ZibalRead, ReadWhole
  <2>3. ASSUME Fields(params) = ZarinpalReturns(ref, order, "OK")
        PROVE  CallbackOf("zarinpal", ref, order) /\ (asked = ref \/ Spared \/ SessionWasGone)
    BY <2>1, <2>3, ZarinpalRead, ReadWhole
  <2>4. ASSUME Fields(params) = ZarinpalReturns(ref, order, "NOK") PROVE Cancelled
    BY <2>1, <2>4, ZarinpalRead, ReadWhole
  <2>5. ASSUME Fields(params) = SepConfirms(ref, order)
        PROVE  CallbackOf("sep", ref, order) /\ (asked = ref \/ Spared)
    BY <2>1, <2>5, SepReads, ReadWhole
  <2>6. ASSUME NEW empty \in {Absent, Empty}, Fields(params) = SepCancels(empty, order)
        PROVE  callback.gateway = "sep" /\ (Cancelled \/ Spared)
    BY <2>1, <2>6, SepReadsCancel, ReadWhole
  <2> QED
    BY <2>2, <2>3, <2>4, <2>5, <2>6
<1> QED
  BY <1>1, <1>2, NextEndsAsSent, Invariance, PTL DEF Spec
=============================================================================
