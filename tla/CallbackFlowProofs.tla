------------------------- MODULE CallbackFlowProofs -------------------------
(***************************************************************************)
(* Proofs about CallbackFlow, for any number of callbacks, payments and    *)
(* orders.                                                                 *)
(***************************************************************************)
EXTENDS CallbackFlow, TLAPS

(* What the await a callback is at says of it.                             *)
Stage(c) ==
  /\ IF pc[c] = "idle" THEN req[c] = NoRequest ELSE req[c] \in Requests
  /\ pc[c] \in {"idle", "ping"} => verdict[c] = "none"
  /\ pc[c] \in {"idle", "ping", "bank", "report"} =>
       charged[c] = 0 /\ delivery[c] = "none" /\ place[c] = "new" /\ c \notin retrying
  /\ pc[c] \in {"idle", "ping", "bank", "report", "handoff"} => answer[c] = "none"
  /\ pc[c] = "handoff" => delivery[c] \in {"sent", "done", "pending", "refused"}

Base == TypeOK /\ \A c \in Callbacks : Stage(c)

LEMMA PageType == \A outcome : Page(outcome) \in {"success", "pending", "refused"}
BY DEF Page

LEMMA LedgerTypes ==
  ASSUME ledger \in [Payments -> Outcome], NEW io \in LedgerIO, NEW k
  PROVE  /\ Loaded(io) \in [Payments -> Outcome]
         /\ Claim(k, io) => ledger' \in [Payments -> Outcome]
         /\ \A outcome \in Outcome : Settle(k, outcome, io) => ledger' \in [Payments -> Outcome]
<1>1. Loaded(io) \in [Payments -> Outcome]
  BY DEF Loaded, Outcome
<1>2. Claim(k, io) => ledger' \in [Payments -> Outcome]
  BY <1>1 DEF Claim, Stored, Outcome
<1>3. ASSUME NEW outcome \in Outcome, Settle(k, outcome, io)
      PROVE  ledger' \in [Payments -> Outcome]
  BY <1>1, <1>3 DEF Settle, Stored
<1> QED  BY <1>1, <1>2, <1>3

LEMMA TookType ==
  ASSUME took \in [Payments -> SUBSET {"done", "pending", "refused"}], NEW k, NEW o \in Verdicts
  PROVE  [took EXCEPT ![k] = @ \cup {o}] \in [Payments -> SUBSET {"done", "pending", "refused"}]
<1>1. o \in {"done", "pending", "refused"}
  BY DEF Verdicts
<1>2. \A j \in Payments : took[j] \cup {o} \in SUBSET {"done", "pending", "refused"}
  BY <1>1
<1> QED  BY <1>2

LEMMA TypeStep == Base /\ [Next]_vars => TypeOK'
<1> SUFFICES ASSUME Base, [Next]_vars PROVE TypeOK'
  OBVIOUS
<1> USE FlowAssumption, PageType DEF TypeOK, cbVars, handVars
<1>p. TypeOK /\ \A c \in Callbacks : pc[c] # "idle" => Pay(c) \in Payments
  BY DEF Base, Stage, Requests, Pay
<1>1. ASSUME NEW k \in Payments, CreatePayment(k) PROVE TypeOK'
  BY <1>p, <1>1 DEF CreatePayment
<1>2. ASSUME NEW k \in Payments, GuestPays(k) PROVE TypeOK'
  BY <1>p, <1>2 DEF GuestPays
<1>3. ASSUME NEW k \in Payments, AdminVerifies(k) PROVE TypeOK'
  BY <1>p, <1>3 DEF AdminVerifies
<1>4. ASSUME NEW k \in Payments, ClaimGoesStale(k) PROVE TypeOK'
  BY <1>p, <1>4 DEF ClaimGoesStale, GoStale, Outcome
<1>5. ASSUME NEW k \in Payments, EntryExpires(k) PROVE TypeOK'
  BY <1>p, <1>5 DEF EntryExpires, Expire, Outcome
<1>6. ASSUME NEW o \in Orders, SessionLapses(o) PROVE TypeOK'
  BY <1>p, <1>6 DEF SessionLapses
<1>7. ASSUME NEW c \in Callbacks, Arrive(c) PROVE TypeOK'
  BY <1>p, <1>7, LedgerTypes DEF Arrive, Answer, Await, Requests
<1>8. ASSUME NEW c \in Callbacks, PingFails(c) PROVE TypeOK'
  BY <1>p, <1>8 DEF PingFails, Answer
<1>9. ASSUME NEW c \in Callbacks, AskBank(c) PROVE TypeOK'
  BY <1>p, <1>9 DEF AskBank, Answer, Await
<1>10. ASSUME NEW c \in Callbacks, BankDecides(c) PROVE TypeOK'
  BY <1>p, <1>10 DEF BankDecides
<1>11. ASSUME NEW c \in Callbacks, AskAgain(c) PROVE TypeOK'
  BY <1>p, <1>11 DEF AskAgain
<1>12. ASSUME NEW c \in Callbacks, Refused(c) PROVE TypeOK'
  BY <1>p, <1>12 DEF Refused, Answer, SendFailure
<1>13. ASSUME NEW c \in Callbacks, Unanswered(c) PROVE TypeOK'
  BY <1>p, <1>13 DEF Unanswered, Answer, SendFailure
<1>14. ASSUME NEW c \in Callbacks, ReportCancel(c) PROVE TypeOK'
  BY <1>p, <1>14 DEF ReportCancel, Answer, SendFailure
<1>15. ASSUME NEW c \in Callbacks, Complete(c) PROVE TypeOK'
  BY <1>p, <1>15, LedgerTypes DEF Complete, TakeForGuard, StartHandOver, ChargedRial, Await
<1>16. ASSUME NEW c \in Callbacks, AnswerReplay(c) PROVE TypeOK'
  BY <1>p, <1>16 DEF AnswerReplay, Answer
<1>17. ASSUME NEW c \in Callbacks, StopWaiting(c) PROVE TypeOK'
  BY <1>p, <1>17, LedgerTypes DEF StopWaiting, SettleAs, Unfinished, Outcome, Answer
<1>18. ASSUME NEW c \in Callbacks, ReceiverAnswers(c) PROVE TypeOK'
  <2>1. PICK o \in Verdicts : /\ took' = [took EXCEPT ![Pay(c)] = @ \cup {o}]
                             /\ delivery' = [delivery EXCEPT ![c] = o]
    BY <1>18 DEF ReceiverAnswers
  <2>2. took' \in [Payments -> SUBSET {"done", "pending", "refused"}]
    BY <1>p, <2>1, TookType
  <2>3. o \in {"done", "pending", "refused"}
    BY DEF Verdicts
  <2> QED  BY <1>p, <1>18, <2>1, <2>2, <2>3 DEF ReceiverAnswers
<1>19. ASSUME NEW c \in Callbacks, Delivered(c) PROVE TypeOK'
  BY <1>p, <1>19, LedgerTypes DEF Delivered, SettleAs, AnswerIfWaiting, Outcome, Answer
<1>20. ASSUME NEW c \in Callbacks, NotDelivered(c) PROVE TypeOK'
  BY <1>p, <1>20, LedgerTypes DEF NotDelivered, SettleAs, AnswerIfWaiting, Unfinished, Enqueue, Outcome, Answer
<1>21. ASSUME NEW c \in Callbacks, QueueDelivers(c) PROVE TypeOK'
  <2>1. PICK o \in Verdicts : took' = [took EXCEPT ![Pay(c)] = @ \cup {o}]
    BY <1>21 DEF QueueDelivers
  <2>2. took' \in [Payments -> SUBSET {"done", "pending", "refused"}]
    BY <1>p, <2>1, TookType
  <2>3. o \in {"done", "pending", "refused"}
    BY DEF Verdicts
  <2> QED  BY <1>p, <1>21, <2>1, <2>2, <2>3 DEF QueueDelivers
<1>22. ASSUME NEW c \in Callbacks, QueueSettles(c) PROVE TypeOK'
  BY <1>p, <1>22, LedgerTypes DEF QueueSettles, Moved, Outcome
<1>23. ASSUME NEW c \in Callbacks, QueueMissesAnswer(c) PROVE TypeOK'
  BY <1>p, <1>23 DEF QueueMissesAnswer
<1>24. ASSUME NEW c \in Callbacks, QueueGivesUp(c) PROVE TypeOK'
  BY <1>p, <1>24 DEF QueueGivesUp, QueueParts
<1>25. ASSUME NEW c \in Callbacks, AdminDeletes(c) PROVE TypeOK'
  BY <1>p, <1>25 DEF AdminDeletes, QueueParts
<1>26. ASSUME NEW c \in Callbacks, QueueLoses(c) PROVE TypeOK'
  BY <1>p, <1>26 DEF QueueLoses, QueueParts
<1>27. CASE Crash
  BY <1>p, <1>27 DEF Crash, InFlight
<1>28. CASE UNCHANGED vars
  BY <1>p, <1>28 DEF vars
<1> QED
  BY <1>1, <1>2, <1>3, <1>4, <1>5, <1>6, <1>7, <1>8, <1>9, <1>10, <1>11, <1>12, <1>13,
     <1>14, <1>15, <1>16, <1>17, <1>18, <1>19, <1>20, <1>21, <1>22, <1>23, <1>24, <1>25,
     <1>26, <1>27, <1>28
  DEF Next, Request, HandOver

LEMMA StageStep ==
  ASSUME Base, [Next]_vars, NEW d \in Callbacks
  PROVE  Stage(d)'
<1>t. TypeOK /\ Stage(d)
  BY DEF Base
<1> USE <1>t DEF TypeOK, Stage, cbVars, handVars
<1>1. ASSUME NEW k \in Payments,
             \/ CreatePayment(k) \/ GuestPays(k) \/ AdminVerifies(k)
             \/ ClaimGoesStale(k) \/ EntryExpires(k)
      PROVE  Stage(d)'
  BY <1>1 DEF CreatePayment, GuestPays, AdminVerifies, ClaimGoesStale, EntryExpires
<1>2. ASSUME NEW o \in Orders, SessionLapses(o) PROVE Stage(d)'
  BY <1>2 DEF SessionLapses
<1>3. ASSUME NEW c \in Callbacks, Arrive(c) PROVE Stage(d)'
  BY <1>3 DEF Arrive, Answer, Await
<1>4. ASSUME NEW c \in Callbacks, PingFails(c) PROVE Stage(d)'
  BY <1>4 DEF PingFails, Answer
<1>5. ASSUME NEW c \in Callbacks, AskBank(c) PROVE Stage(d)'
  BY <1>5 DEF AskBank, Answer, Await
<1>6. ASSUME NEW c \in Callbacks, BankDecides(c) PROVE Stage(d)'
  BY <1>6 DEF BankDecides
<1>7. ASSUME NEW c \in Callbacks, AskAgain(c) PROVE Stage(d)'
  BY <1>7 DEF AskAgain
<1>8. ASSUME NEW c \in Callbacks, Refused(c) PROVE Stage(d)'
  BY <1>8 DEF Refused, Answer
<1>9. ASSUME NEW c \in Callbacks, Unanswered(c) PROVE Stage(d)'
  BY <1>9 DEF Unanswered, Answer
<1>10. ASSUME NEW c \in Callbacks, ReportCancel(c) PROVE Stage(d)'
  BY <1>10 DEF ReportCancel, Answer
<1>11. ASSUME NEW c \in Callbacks, Complete(c) PROVE Stage(d)'
  BY <1>11 DEF Complete, StartHandOver, Await
<1>12. ASSUME NEW c \in Callbacks, AnswerReplay(c) PROVE Stage(d)'
  BY <1>12 DEF AnswerReplay, Answer
<1>13. ASSUME NEW c \in Callbacks, StopWaiting(c) PROVE Stage(d)'
  BY <1>13 DEF StopWaiting, Unfinished, Answer
<1>14. ASSUME NEW c \in Callbacks, ReceiverAnswers(c) PROVE Stage(d)'
  BY <1>14 DEF ReceiverAnswers, Verdicts
<1>15. ASSUME NEW c \in Callbacks, Delivered(c) PROVE Stage(d)'
  BY <1>15 DEF Delivered, AnswerIfWaiting, Answer
<1>16. ASSUME NEW c \in Callbacks, NotDelivered(c) PROVE Stage(d)'
  BY <1>16 DEF NotDelivered, AnswerIfWaiting, Unfinished, Enqueue, Answer
<1>17. ASSUME NEW c \in Callbacks, QueueDelivers(c) PROVE Stage(d)'
  BY <1>17 DEF QueueDelivers
<1>18. ASSUME NEW c \in Callbacks, QueueSettles(c) PROVE Stage(d)'
  BY <1>18 DEF QueueSettles, Moved
<1>19. ASSUME NEW c \in Callbacks, QueueMissesAnswer(c) PROVE Stage(d)'
  BY <1>19 DEF QueueMissesAnswer
<1>20. ASSUME NEW c \in Callbacks, QueueGivesUp(c) PROVE Stage(d)'
  BY <1>20 DEF QueueGivesUp, QueueParts
<1>21. ASSUME NEW c \in Callbacks, AdminDeletes(c) PROVE Stage(d)'
  BY <1>21 DEF AdminDeletes, QueueParts
<1>22. ASSUME NEW c \in Callbacks, QueueLoses(c) PROVE Stage(d)'
  BY <1>22 DEF QueueLoses, QueueParts
<1>23. CASE Crash
  BY <1>23 DEF Crash, InFlight
<1>24. CASE UNCHANGED vars
  BY <1>24 DEF vars
<1> QED
  BY <1>1, <1>2, <1>3, <1>4, <1>5, <1>6, <1>7, <1>8, <1>9, <1>10, <1>11, <1>12, <1>13,
     <1>14, <1>15, <1>16, <1>17, <1>18, <1>19, <1>20, <1>21, <1>22, <1>23, <1>24
  DEF Next, Request, HandOver

LEMMA BaseInv == Spec => []Base
<1>1. Init => Base
  <2> SUFFICES ASSUME Init PROVE Base
    OBVIOUS
  <2>1. TypeOK
    BY FlowAssumption DEF Init, LedgerInit, TypeOK, Outcome
  <2>2. ASSUME NEW c \in Callbacks PROVE Stage(c)
    BY DEF Init, Stage
  <2> QED  BY <2>1, <2>2 DEF Base
<1>2. Base /\ [Next]_vars => Base'
  BY TypeStep, StageStep DEF Base
<1> QED  BY <1>1, <1>2, PTL DEF Spec

(***************************************************************************)
(* What no step undoes: a request stays, a verified payment stays so, and  *)
(* what the receiver answered stays answered.                              *)
(***************************************************************************)
LEMMA RequestMoves ==
  ASSUME Base, [Next]_vars, NEW d \in Callbacks
  PROVE  \/ req'[d] = req[d]
         \/ Arrive(d) /\ \E r \in Requests : req'[d] = r /\ (r.retry => Retry)
<1>1. req \in [Callbacks -> Requests \cup {NoRequest}]
  BY DEF Base, TypeOK
<1>2. ASSUME NEW c \in Callbacks, Arrive(c)
      PROVE  \/ req'[d] = req[d]
             \/ Arrive(d) /\ \E r \in Requests : req'[d] = r /\ (r.retry => Retry)
  <2>1. PICK r \in Requests : (r.retry => Retry) /\ req' = [req EXCEPT ![c] = r]
    BY <1>2 DEF Arrive
  <2>2. CASE c = d
    <3>1. req'[d] = r
      BY <1>1, <2>1, <2>2
    <3> QED  BY <1>2, <2>1, <2>2, <3>1
  <2>3. CASE c # d
    BY <1>1, <2>1, <2>3
  <2> QED  BY <2>2, <2>3
<1>3. ASSUME NEW c \in Callbacks, Request(c)
      PROVE  req' = req
  BY <1>3 DEF Request, PingFails, AskBank, BankDecides, AskAgain, Refused, Unanswered,
              ReportCancel, Complete, AnswerReplay, StopWaiting
<1>4. ASSUME NEW c \in Callbacks, HandOver(c)
      PROVE  req' = req
  BY <1>4 DEF HandOver, ReceiverAnswers, Delivered, NotDelivered, QueueDelivers, QueueSettles,
              QueueMissesAnswer, QueueGivesUp, AdminDeletes, QueueLoses, QueueParts, cbVars
<1>5. ASSUME NEW k \in Payments,
             \/ CreatePayment(k) \/ GuestPays(k) \/ AdminVerifies(k)
             \/ ClaimGoesStale(k) \/ EntryExpires(k)
      PROVE  req' = req
  BY <1>5 DEF CreatePayment, GuestPays, AdminVerifies, ClaimGoesStale, EntryExpires, cbVars
<1>6. ASSUME NEW o \in Orders, SessionLapses(o) PROVE req' = req
  BY <1>6 DEF SessionLapses, cbVars
<1>7. ASSUME Crash PROVE req' = req
  BY <1>7 DEF Crash
<1>8. ASSUME UNCHANGED vars PROVE req' = req
  BY <1>8 DEF vars, cbVars
<1> QED
  BY <1>2, <1>3, <1>4, <1>5, <1>6, <1>7, <1>8 DEF Next

LEMMA RequestStays ==
  ASSUME Base, [Next]_vars, NEW d \in Callbacks, pc[d] # "idle"
  PROVE  req'[d] = req[d] /\ Pay(d) \in Payments /\ Pay(d)' = Pay(d)
<1>1. Pay(d) \in Payments
  BY DEF Base, Stage, Requests, Pay
<1>2. req'[d] = req[d]
  BY RequestMoves DEF Arrive
<1> QED  BY <1>1, <1>2 DEF Pay

LEMMA BankStays ==
  ASSUME Base, [Next]_vars, NEW j \in Payments
  PROVE  /\ bank[j] = "verified" => bank'[j] = "verified"
         /\ bank[j] \in {"paid", "verified"} => bank'[j] \in {"paid", "verified"}
<1> USE DEF Base, TypeOK
<1>1. ASSUME NEW k \in Payments, CreatePayment(k) \/ GuestPays(k) \/ AdminVerifies(k)
      PROVE  /\ bank[j] = "verified" => bank'[j] = "verified"
             /\ bank[j] \in {"paid", "verified"} => bank'[j] \in {"paid", "verified"}
  BY <1>1 DEF CreatePayment, GuestPays, AdminVerifies
<1>2. ASSUME NEW k \in Payments, ClaimGoesStale(k) \/ EntryExpires(k)
      PROVE  bank' = bank
  BY <1>2 DEF ClaimGoesStale, EntryExpires
<1>3. ASSUME NEW c \in Callbacks, Arrive(c) \/ Request(c)
      PROVE  \/ bank' = bank
             \/ bank' = [bank EXCEPT ![Pay(c)] = "verified"]
  BY <1>3 DEF Arrive, Request, PingFails, AskBank, BankDecides, AskAgain, Refused, Unanswered,
              ReportCancel, Complete, AnswerReplay, StopWaiting
<1>4. ASSUME NEW c \in Callbacks, HandOver(c)
      PROVE  bank' = bank
  BY <1>4 DEF HandOver, ReceiverAnswers, Delivered, NotDelivered, QueueDelivers, QueueSettles,
              QueueMissesAnswer, QueueGivesUp, AdminDeletes, QueueLoses, QueueParts
<1>5. ASSUME NEW o \in Orders, SessionLapses(o) PROVE bank' = bank
  BY <1>5 DEF SessionLapses
<1>6. CASE Crash
  BY <1>6 DEF Crash
<1>7. CASE UNCHANGED vars
  BY <1>7 DEF vars
<1> QED
  BY <1>1, <1>2, <1>3, <1>4, <1>5, <1>6, <1>7 DEF Next

LEMMA TookStays ==
  ASSUME Base, [Next]_vars, NEW j \in Payments
  PROVE  took[j] \subseteq took'[j]
<1> USE DEF Base, TypeOK
<1>1. ASSUME NEW k \in Payments,
             \/ CreatePayment(k) \/ GuestPays(k) \/ AdminVerifies(k)
             \/ ClaimGoesStale(k) \/ EntryExpires(k)
      PROVE  took' = took
  BY <1>1 DEF CreatePayment, GuestPays, AdminVerifies, ClaimGoesStale, EntryExpires, handVars
<1>2. ASSUME NEW c \in Callbacks, Arrive(c) \/ Request(c)
      PROVE  took' = took
  BY <1>2 DEF Arrive, Request, PingFails, AskBank, BankDecides, AskAgain, Refused, Unanswered,
              ReportCancel, Complete, AnswerReplay, StopWaiting, handVars
<1>3. ASSUME NEW c \in Callbacks, HandOver(c)
      PROVE  took' = took \/ \E o \in Verdicts : took' = [took EXCEPT ![Pay(c)] = @ \cup {o}]
  BY <1>3 DEF HandOver, ReceiverAnswers, Delivered, NotDelivered, QueueDelivers, QueueSettles,
              QueueMissesAnswer, QueueGivesUp, AdminDeletes, QueueLoses, QueueParts
<1>4. ASSUME NEW o \in Orders, SessionLapses(o) PROVE took' = took
  BY <1>4 DEF SessionLapses, handVars
<1>5. CASE Crash
  BY <1>5 DEF Crash
<1>6. CASE UNCHANGED vars
  BY <1>6 DEF vars, handVars
<1> QED
  BY <1>1, <1>2, <1>3, <1>4, <1>5, <1>6 DEF Next
-----------------------------------------------------------------------------
(***************************************************************************)
(* What is handed over was paid.                                           *)
(***************************************************************************)
Paid(c) ==
  /\ verdict[c] = "yes" =>
       /\ bank[Pay(c)] = "verified"
       /\ Gateway[Pay(c)] = "zarinpal" => asked[c] = Amount[Pay(c)]
  /\ charged[c] # 0 => bank[Pay(c)] = "verified" /\ charged[c] = Amount[Pay(c)]

(* The steps that touch what Paid speaks of.                               *)
LEMMA Charges ==
  ASSUME Base, [Next]_vars, NEW d \in Callbacks
  PROVE  \/ AskBank(d) \/ BankDecides(d) \/ AskAgain(d) \/ Complete(d)
         \/ verdict'[d] = verdict[d] /\ asked'[d] = asked[d] /\ charged'[d] = charged[d]
<1> DEFINE same == verdict'[d] = verdict[d] /\ asked'[d] = asked[d] /\ charged'[d] = charged[d]
<1> USE DEF Base, TypeOK
<1>1. ASSUME NEW k \in Payments,
             \/ CreatePayment(k) \/ GuestPays(k) \/ AdminVerifies(k)
             \/ ClaimGoesStale(k) \/ EntryExpires(k)
      PROVE  same
  BY <1>1 DEF CreatePayment, GuestPays, AdminVerifies, ClaimGoesStale, EntryExpires, handVars, cbVars
<1>2. ASSUME NEW c \in Callbacks,
             AskBank(c) \/ BankDecides(c) \/ AskAgain(c) \/ Complete(c), c # d
      PROVE  same
  BY <1>2 DEF AskBank, BankDecides, AskAgain, Complete, StartHandOver, handVars
<1>3. ASSUME NEW c \in Callbacks,
             Arrive(c) \/ PingFails(c) \/ Refused(c) \/ Unanswered(c) \/ ReportCancel(c)
               \/ AnswerReplay(c) \/ StopWaiting(c)
      PROVE  same
  BY <1>3 DEF Arrive, PingFails, Refused, Unanswered, ReportCancel, AnswerReplay, StopWaiting, handVars
<1>4. ASSUME NEW c \in Callbacks, HandOver(c)
      PROVE  same
  BY <1>4 DEF HandOver, ReceiverAnswers, Delivered, NotDelivered, QueueDelivers, QueueSettles,
              QueueMissesAnswer, QueueGivesUp, AdminDeletes, QueueLoses, QueueParts, cbVars
<1>5. ASSUME NEW o \in Orders, SessionLapses(o) PROVE same
  BY <1>5 DEF SessionLapses, handVars, cbVars
<1>6. ASSUME Crash PROVE same
  BY <1>6 DEF Crash
<1>7. ASSUME UNCHANGED vars PROVE same
  BY <1>7 DEF vars, handVars, cbVars
<1> QED
  BY <1>1, <1>2, <1>3, <1>4, <1>5, <1>6, <1>7 DEF Next, Request

LEMMA PaidStep ==
  ASSUME Base, [Next]_vars, NEW d \in Callbacks, Paid(d)
  PROVE  Paid(d)'
<1>s. TypeOK /\ Stage(d)
  BY DEF Base
<1>1. pc[d] # "idle" => /\ Pay(d) \in Payments /\ Pay(d)' = Pay(d)
                        /\ bank[Pay(d)] = "verified" => bank'[Pay(d)] = "verified"
  BY RequestStays, BankStays
<1>2. CASE AskBank(d)
  <2>1. verdict'[d] = "none" /\ charged'[d] = 0
    BY <1>2, <1>s DEF AskBank, Stage, handVars
  <2> QED  BY <2>1 DEF Paid
<1>3. CASE BankDecides(d)
  <2>1. charged'[d] = 0 /\ asked'[d] = asked[d]
    BY <1>3, <1>s DEF BankDecides, Stage, handVars
  <2>2. CASE Accepts(d)
    <3>1. bank'[Pay(d)] = "verified"
      BY <1>1, <1>3, <1>s, <2>2 DEF BankDecides, TypeOK
    <3>2. Gateway[Pay(d)] = "zarinpal" => asked[d] = Amount[Pay(d)]
      BY <2>2 DEF Accepts
    <3> QED  BY <1>1, <1>3, <2>1, <3>1, <3>2 DEF BankDecides, Paid
  <2>3. CASE ~Accepts(d)
    <3>1. verdict'[d] = "no"
      BY <1>3, <1>s, <2>3 DEF BankDecides, TypeOK
    <3> QED  BY <2>1, <3>1 DEF Paid
  <2> QED  BY <2>2, <2>3
<1>4. CASE AskAgain(d)
  <2>1. verdict'[d] = "none" /\ charged'[d] = 0
    BY <1>4, <1>s DEF AskAgain, Stage, TypeOK, handVars
  <2> QED  BY <2>1 DEF Paid
<1>5. CASE Complete(d)
  <2>1. /\ charged'[d] = ChargedRial(d) /\ verdict' = verdict /\ asked' = asked
        /\ verdict[d] = "yes" /\ pc[d] = "bank"
    BY <1>5, <1>s DEF Complete, StartHandOver, TypeOK
  <2>2. ChargedRial(d) = Amount[Pay(d)]
    BY <2>1 DEF ChargedRial, Paid
  <2> QED  BY <1>1, <2>1, <2>2 DEF Paid
<1>6. CASE verdict'[d] = verdict[d] /\ asked'[d] = asked[d] /\ charged'[d] = charged[d]
  <2>1. pc[d] = "idle" => verdict[d] = "none" /\ charged[d] = 0
    BY <1>s DEF Stage
  <2> QED  BY <1>1, <1>6, <2>1 DEF Paid
<1> QED  BY <1>2, <1>3, <1>4, <1>5, <1>6, Charges

(* Every hand-over is of a verified payment and at its own price.          *)
THEOREM ChargedRight == Spec => []ChargedIsPaid
<1> DEFINE inv == \A c \in Callbacks : Paid(c)
<1>1. Init => inv
  BY DEF Init, Paid
<1>2. Base /\ inv /\ [Next]_vars => inv'
  BY PaidStep
<1>3. inv => ChargedIsPaid
  BY DEF Paid, ChargedIsPaid
<1> QED  BY <1>1, <1>2, <1>3, BaseInv, PTL DEF Spec
-----------------------------------------------------------------------------
(***************************************************************************)
(* What the receiver answered.                                             *)
(***************************************************************************)
Answered(c) ==
  /\ delivery[c] \in {"done", "pending", "refused"} => delivery[c] \in took[Pay(c)]
  /\ c \in retrying => \E o \in Verdicts : o \in took[Pay(c)]

LEMMA Deliveries ==
  ASSUME Base, [Next]_vars, NEW d \in Callbacks
  PROVE  \/ ReceiverAnswers(d) \/ QueueDelivers(d)
         \/ /\ delivery'[d] \in {delivery[d], "sent", "over"}
            /\ d \in retrying' => d \in retrying
<1> DEFINE same == delivery'[d] = delivery[d] /\ (d \in retrying' => d \in retrying)
<1> USE DEF Base, TypeOK
<1>1. ASSUME NEW k \in Payments,
             \/ CreatePayment(k) \/ GuestPays(k) \/ AdminVerifies(k)
             \/ ClaimGoesStale(k) \/ EntryExpires(k)
      PROVE  same
  BY <1>1 DEF CreatePayment, GuestPays, AdminVerifies, ClaimGoesStale, EntryExpires, handVars
<1>2. ASSUME NEW c \in Callbacks, ReceiverAnswers(c) \/ QueueDelivers(c), c # d
      PROVE  same
  BY <1>2 DEF ReceiverAnswers, QueueDelivers
<1>3. ASSUME NEW c \in Callbacks, Complete(c) \/ Delivered(c) \/ NotDelivered(c)
      PROVE  delivery'[d] \in {delivery[d], "sent", "over"} /\ retrying' = retrying
  BY <1>3 DEF Complete, StartHandOver, Delivered, NotDelivered
<1>4. ASSUME NEW c \in Callbacks,
             Arrive(c) \/ PingFails(c) \/ AskBank(c) \/ BankDecides(c) \/ AskAgain(c) \/ Refused(c)
               \/ Unanswered(c) \/ ReportCancel(c) \/ AnswerReplay(c) \/ StopWaiting(c)
      PROVE  same
  BY <1>4 DEF Arrive, PingFails, AskBank, BankDecides, AskAgain, Refused, Unanswered,
              ReportCancel, AnswerReplay, StopWaiting, handVars
<1>5. ASSUME NEW c \in Callbacks,
             QueueSettles(c) \/ QueueMissesAnswer(c) \/ QueueGivesUp(c) \/ AdminDeletes(c) \/ QueueLoses(c)
      PROVE  same
  BY <1>5 DEF QueueSettles, QueueMissesAnswer, QueueGivesUp, AdminDeletes, QueueLoses, QueueParts
<1>6. ASSUME NEW o \in Orders, SessionLapses(o) PROVE same
  BY <1>6 DEF SessionLapses, handVars
<1>7. ASSUME Crash PROVE delivery'[d] \in {delivery[d], "over"} /\ retrying' = {}
  BY <1>7 DEF Crash
<1>8. ASSUME UNCHANGED vars PROVE same
  BY <1>8 DEF vars, handVars
<1> QED
  BY <1>1, <1>2, <1>3, <1>4, <1>5, <1>6, <1>7, <1>8 DEF Next, Request, HandOver

LEMMA AnsweredStep ==
  ASSUME Base, [Next]_vars, NEW d \in Callbacks, Answered(d)
  PROVE  Answered(d)'
<1>s. TypeOK /\ Stage(d)
  BY DEF Base
<1>1. pc[d] # "idle" => /\ Pay(d) \in Payments /\ Pay(d)' = Pay(d)
                        /\ took[Pay(d)] \subseteq took'[Pay(d)]
  BY RequestStays, TookStays
<1>2. delivery[d] # "none" \/ d \in retrying \/ place[d] # "new" => pc[d] # "idle"
  BY <1>s DEF Stage
<1>3. CASE ReceiverAnswers(d)
  <2>1. PICK o \in Verdicts : /\ delivery' = [delivery EXCEPT ![d] = o]
                             /\ took' = [took EXCEPT ![Pay(d)] = @ \cup {o}]
    BY <1>3 DEF ReceiverAnswers
  <2>2. delivery'[d] = o /\ o \in took'[Pay(d)] /\ retrying' = retrying /\ pc[d] # "idle"
    BY <1>1, <1>2, <1>3, <1>s, <2>1 DEF ReceiverAnswers, TypeOK
  <2> QED  BY <1>1, <2>2 DEF Answered
<1>4. CASE QueueDelivers(d)
  <2>1. PICK o \in Verdicts : took' = [took EXCEPT ![Pay(d)] = @ \cup {o}]
    BY <1>4 DEF QueueDelivers
  <2>2. o \in took'[Pay(d)] /\ delivery' = delivery /\ pc[d] # "idle"
    BY <1>1, <1>2, <1>4, <1>s, <2>1 DEF QueueDelivers, TypeOK
  <2> QED  BY <1>1, <2>2 DEF Answered, Verdicts
<1>5. CASE /\ delivery'[d] \in {delivery[d], "sent", "over"}
           /\ d \in retrying' => d \in retrying
  BY <1>1, <1>2, <1>5 DEF Answered, Verdicts
<1> QED  BY <1>3, <1>4, <1>5, Deliveries

LEMMA AnsweredInv == Spec => [](\A c \in Callbacks : Answered(c))
<1> DEFINE inv == \A c \in Callbacks : Answered(c)
<1>1. Init => inv
  BY DEF Init, Answered
<1>2. Base /\ inv /\ [Next]_vars => inv'
  BY AnsweredStep
<1> QED  BY <1>1, <1>2, BaseInv, PTL DEF Spec

(***************************************************************************)
(* How an entry of the ledger changes, whatever the file does.             *)
(***************************************************************************)
LEMMA LedgerCalls ==
  ASSUME ledger \in [Payments -> Outcome], NEW io \in LedgerIO, NEW k, NEW j \in Payments
  PROVE  /\ Claim(k, io) => ledger'[j] \in {ledger[j], "none", "claimed"}
         /\ \A outcome : Settle(k, outcome, io) =>
              ledger'[j] \in {ledger[j], "none"} \/ (j = k /\ ledger'[j] = outcome)
  BY DEF Claim, Settle, Stored, Loaded

Settles(c, j, outcome) ==
  /\ Pay(c) = j
  /\ \/ Delivered(c) /\ outcome = delivery[c]
     \/ (NotDelivered(c) \/ StopWaiting(c)) /\ outcome = Unfinished
     \/ QueueSettles(c) /\ outcome = "done"

LEMMA LedgerMoves ==
  ASSUME Base, [Next]_vars, NEW j \in Payments
  PROVE  \/ ledger'[j] \in {ledger[j], "none", "claimed", "stale"}
         \/ \E c \in Callbacks : Settles(c, j, ledger'[j])
<1> USE DEF Base, TypeOK
<1>1. ASSUME NEW k \in Payments, CreatePayment(k) \/ GuestPays(k) \/ AdminVerifies(k)
      PROVE  ledger' = ledger
  BY <1>1 DEF CreatePayment, GuestPays, AdminVerifies
<1>2. ASSUME NEW k \in Payments, ClaimGoesStale(k) \/ EntryExpires(k)
      PROVE  ledger'[j] \in {ledger[j], "none", "stale"}
  BY <1>2 DEF ClaimGoesStale, EntryExpires, GoStale, Expire
<1>3. ASSUME NEW c \in Callbacks, Complete(c)
      PROVE  ledger'[j] \in {ledger[j], "none", "claimed"}
  BY <1>3, LedgerCalls DEF Complete, TakeForGuard
<1>4. ASSUME NEW c \in Callbacks, StopWaiting(c) \/ NotDelivered(c)
      PROVE  ledger'[j] \in {ledger[j], "none"} \/ (j = Pay(c) /\ ledger'[j] = Unfinished)
  BY <1>4, LedgerCalls DEF StopWaiting, NotDelivered, SettleAs
<1>5. ASSUME NEW c \in Callbacks, Delivered(c)
      PROVE  ledger'[j] \in {ledger[j], "none"} \/ (j = Pay(c) /\ ledger'[j] = delivery[c])
  BY <1>5, LedgerCalls DEF Delivered, SettleAs
<1>6. ASSUME NEW c \in Callbacks, QueueSettles(c)
      PROVE  ledger'[j] \in {ledger[j], "none"} \/ (j = Pay(c) /\ ledger'[j] = "done")
  BY <1>6, LedgerCalls DEF QueueSettles
<1>7. ASSUME NEW c \in Callbacks,
             Arrive(c) \/ PingFails(c) \/ AskBank(c) \/ BankDecides(c) \/ AskAgain(c) \/ Refused(c)
               \/ Unanswered(c) \/ ReportCancel(c) \/ AnswerReplay(c)
      PROVE  ledger' = ledger
  BY <1>7 DEF Arrive, PingFails, AskBank, BankDecides, AskAgain, Refused, Unanswered,
              ReportCancel, AnswerReplay
<1>8. ASSUME NEW c \in Callbacks,
             ReceiverAnswers(c) \/ QueueDelivers(c) \/ QueueMissesAnswer(c)
               \/ QueueGivesUp(c) \/ AdminDeletes(c) \/ QueueLoses(c)
      PROVE  ledger' = ledger
  BY <1>8 DEF ReceiverAnswers, QueueDelivers, QueueMissesAnswer, QueueGivesUp, AdminDeletes,
              QueueLoses, QueueParts
<1>9. ASSUME NEW o \in Orders, SessionLapses(o) PROVE ledger' = ledger
  BY <1>9 DEF SessionLapses
<1>10. ASSUME Crash \/ UNCHANGED vars PROVE ledger' = ledger
  BY <1>10 DEF Crash, vars
<1> QED
  BY <1>1, <1>2, <1>3, <1>4, <1>5, <1>6, <1>7, <1>8, <1>9, <1>10 DEF Next, Request, HandOver, Settles

(* A receiver over HTTP takes a payment or does not: the ledger says       *)
(* "done" of what it took.                                                 *)
THEOREM DoneIsTaken == ASSUME Receiver = "http" PROVE Spec => []DoneMeansTaken
<1> DEFINE inv == \A c \in Callbacks : Answered(c)
<1>1. Init => DoneMeansTaken
  BY DEF Init, LedgerInit, DoneMeansTaken
<1>2. Base /\ inv /\ DoneMeansTaken /\ [Next]_vars => DoneMeansTaken'
  <2> SUFFICES ASSUME Base, inv, DoneMeansTaken, [Next]_vars, NEW j \in Payments, ledger'[j] = "done"
               PROVE  "done" \in took'[j]
    BY DEF DoneMeansTaken
  <2>1. took[j] \subseteq took'[j]
    BY TookStays
  <2>2. CASE ledger'[j] \in {ledger[j], "none", "claimed", "stale"}
    BY <2>1, <2>2 DEF DoneMeansTaken
  <2>3. ASSUME NEW c \in Callbacks, Settles(c, j, "done")
        PROVE  "done" \in took[j]
    <3>1. delivery[c] = "done" \/ c \in retrying
      BY <2>3 DEF Settles, Unfinished, QueueSettles
    <3> QED  BY <2>3, <3>1 DEF Settles, Answered, Verdicts
  <2> QED  BY <2>1, <2>2, <2>3, LedgerMoves
<1> QED  BY <1>1, <1>2, BaseInv, AnsweredInv, PTL DEF Spec

(* Every variable has its type in every reachable state.                   *)
THEOREM TypesHold == Spec => []TypeOK
<1>1. Base => TypeOK
  BY DEF Base
<1> QED  BY <1>1, BaseInv, PTL
-----------------------------------------------------------------------------
(***************************************************************************)
(* Who is sent to a result page: a callback the ledger answers, or one     *)
(* that waits for its hand-over.                                           *)
(***************************************************************************)
LEMMA AnswerMoves ==
  ASSUME Base, [Next]_vars, NEW d \in Callbacks,
         answer'[d] # answer[d], answer'[d] \in {"success", "pending", "refused"}
  PROVE  \/ LET k == req'[d].pay IN
              /\ k \in Payments /\ ledger[k] \in {"claimed", "pending", "done", "refused"}
              /\ answer'[d] = Page(ledger[k])
         \/ pc[d] = "handoff" /\ Delivered(d) /\ answer'[d] = Page(delivery[d])
         \/ pc[d] = "handoff" /\ answer'[d] = Page("pending")
<1> DEFINE fromLedger == LET k == req'[d].pay IN
                           /\ k \in Payments /\ ledger[k] \in {"claimed", "pending", "done", "refused"}
                           /\ answer'[d] = Page(ledger[k])
           goal == \/ fromLedger
                   \/ pc[d] = "handoff" /\ Delivered(d) /\ answer'[d] = Page(delivery[d])
                   \/ pc[d] = "handoff" /\ answer'[d] = Page("pending")
<1> USE DEF Base, TypeOK
<1>o. \A k \in Payments : \A io : ledger[k] \in Outcome /\ Seen(k, io) \in {"none", ledger[k]}
  BY DEF Seen, Loaded
<1>1. ASSUME NEW c \in Callbacks, Arrive(c) PROVE goal
  <2>1. PICK r \in Requests, io \in LedgerIO :
             /\ req' = [req EXCEPT ![c] = r]
             /\ \/ Answer(c, "cancelled")
                \/ IsReplay(r, io) /\ Answer(c, Page(Seen(r.pay, io)))
                \/ Await(c, "ping")
    BY <1>1 DEF Arrive
  <2>2. d = c /\ IsReplay(r, io) /\ answer'[d] = Page(Seen(r.pay, io))
    BY <2>1 DEF Answer, Await
  <2>3. r.pay \in Payments /\ req'[d] = r
    BY <2>1, <2>2 DEF Requests
  <2>4. Seen(r.pay, io) # "none" /\ Seen(r.pay, io) # "stale"
    BY <2>2 DEF IsReplay, Seen
  <2> QED  BY <1>o, <2>2, <2>3, <2>4 DEF Outcome
<1>2. ASSUME NEW c \in Callbacks, AnswerReplay(c) PROVE goal
  <2>1. PICK io \in LedgerIO : ~MayClaim(Pay(c), req[c].retry, io) /\ Answer(c, Page(Seen(Pay(c), io)))
    BY <1>2 DEF AnswerReplay
  <2>2. d = c /\ answer'[d] = Page(Seen(Pay(c), io)) /\ req' = req /\ pc[d] # "idle"
    BY <1>2, <2>1 DEF Answer, AnswerReplay
  <2>3. Seen(Pay(c), io) # "none" /\ Seen(Pay(c), io) # "stale"
    BY <2>1 DEF MayClaim, Seen
  <2>4. Pay(c) \in Payments /\ req'[d].pay = Pay(c)
    BY <2>2, RequestStays DEF Pay
  <2> QED  BY <1>o, <2>2, <2>3, <2>4 DEF Outcome
<1>3. ASSUME NEW c \in Callbacks, Delivered(c) PROVE goal
  <2>1. answer' = answer \/ (pc[c] = "handoff" /\ Answer(c, Page(delivery[c])))
    BY <1>3 DEF Delivered, AnswerIfWaiting
  <2>2. d = c /\ pc[d] = "handoff" /\ answer'[d] = Page(delivery[d])
    BY <2>1 DEF Answer
  <2> QED  BY <1>3, <2>2
<1>4. ASSUME NEW c \in Callbacks, NotDelivered(c) \/ StopWaiting(c) PROVE goal
  <2>1. answer' = answer \/ (pc[c] = "handoff" /\ Answer(c, Page("pending")))
    BY <1>4 DEF NotDelivered, StopWaiting, AnswerIfWaiting, Unfinished
  <2> QED  BY <2>1 DEF Answer
<1>5. ASSUME NEW c \in Callbacks,
             PingFails(c) \/ AskBank(c) \/ BankDecides(c) \/ AskAgain(c) \/ Refused(c)
               \/ Unanswered(c) \/ ReportCancel(c) \/ Complete(c)
      PROVE  FALSE
  BY <1>5 DEF PingFails, AskBank, BankDecides, AskAgain, Refused, Unanswered, ReportCancel,
              Complete, StartHandOver, Answer, Await
<1>6. ASSUME NEW c \in Callbacks,
             ReceiverAnswers(c) \/ QueueDelivers(c) \/ QueueSettles(c) \/ QueueMissesAnswer(c)
               \/ QueueGivesUp(c) \/ AdminDeletes(c) \/ QueueLoses(c)
      PROVE  FALSE
  BY <1>6 DEF ReceiverAnswers, QueueDelivers, QueueSettles, QueueMissesAnswer, QueueGivesUp,
              AdminDeletes, QueueLoses, QueueParts, cbVars
<1>7. ASSUME NEW k \in Payments,
             \/ CreatePayment(k) \/ GuestPays(k) \/ AdminVerifies(k)
             \/ ClaimGoesStale(k) \/ EntryExpires(k)
      PROVE  FALSE
  BY <1>7 DEF CreatePayment, GuestPays, AdminVerifies, ClaimGoesStale, EntryExpires, cbVars
<1>8. ASSUME NEW o \in Orders, SessionLapses(o) PROVE FALSE
  BY <1>8 DEF SessionLapses, cbVars
<1>9. ASSUME Crash PROVE FALSE
  BY <1>9 DEF Crash
<1>10. ASSUME UNCHANGED vars PROVE FALSE
  BY <1>10 DEF vars, cbVars
<1> QED
  BY <1>1, <1>2, <1>3, <1>4, <1>5, <1>6, <1>7, <1>8, <1>9, <1>10 DEF Next, Request, HandOver

(* With a receiver over HTTP and a failure page, a guest is shown success  *)
(* only for a payment the receiver took.                                   *)
THEOREM SuccessIsTaken ==
  ASSUME Receiver = "http", FrontFailure = TRUE PROVE Spec => []SuccessMeansTaken
<1> DEFINE inv == \A c \in Callbacks : Answered(c)
<1>1. Init => SuccessMeansTaken
  BY DEF Init, SuccessMeansTaken
<1>2. Base /\ inv /\ DoneMeansTaken /\ SuccessMeansTaken /\ [Next]_vars => SuccessMeansTaken'
  <2> SUFFICES ASSUME Base, inv, DoneMeansTaken, SuccessMeansTaken, [Next]_vars,
                      NEW d \in Callbacks, answer'[d] = "success"
               PROVE  "done" \in took'[Pay(d)']
    BY DEF SuccessMeansTaken
  <2>1. CASE answer[d] = "success"
    <3>1. pc[d] # "idle"
      BY <2>1 DEF Base, Stage
    <3>2. Pay(d) \in Payments /\ Pay(d)' = Pay(d)
      BY <3>1, RequestStays
    <3> QED  BY <2>1, <3>2, TookStays DEF SuccessMeansTaken
  <2>p. \A o : Page(o) = "success" => o \notin {"refused", "pending", "claimed"}
    BY DEF Page
  <2>2. CASE req'[d].pay \in Payments /\ ledger[req'[d].pay] = "done"
    BY <2>2, TookStays DEF DoneMeansTaken, Pay
  <2>3. CASE delivery[d] = "done" /\ pc[d] # "idle"
    <3>1. Pay(d) \in Payments /\ Pay(d)' = Pay(d)
      BY <2>3, RequestStays
    <3> QED  BY <2>3, <3>1, TookStays DEF Answered
  <2>4. CASE answer[d] # "success"
    <3> DEFINE k == req'[d].pay
    <3>1. \/ /\ k \in Payments /\ ledger[k] \in {"claimed", "pending", "done", "refused"}
             /\ Page(ledger[k]) = "success"
          \/ pc[d] = "handoff" /\ Delivered(d) /\ Page(delivery[d]) = "success"
      BY <2>4, <2>p, AnswerMoves
    <3> QED  BY <2>p, <2>2, <2>3, <3>1 DEF Delivered
  <2> QED  BY <2>1, <2>4
<1> QED  BY <1>1, <1>2, BaseInv, AnsweredInv, DoneIsTaken, PTL DEF Spec
-----------------------------------------------------------------------------
(***************************************************************************)
(* One callback takes a payment.  Between a claim and its settlement a     *)
(* callback waits on the hand-over, unless the process died meanwhile: an  *)
(* abandoned claim has cost one crash, and so has a stale one.             *)
(***************************************************************************)
Waits(k) == \E c \in Callbacks : pc[c] = "handoff" /\ Pay(c) = k

Once(k) ==
  /\ handed[k] <= 1 + crashes
  /\ ledger[k] = "none" => handed[k] = 0
  /\ ledger[k] = "stale" => handed[k] <= crashes
  /\ ledger[k] = "claimed" /\ ~Waits(k) => handed[k] <= crashes

NoRetries == \A c \in Callbacks : ~req[c].retry

LEMMA NoRetriesInv == ASSUME Retry = FALSE PROVE Spec => []NoRetries
<1>1. Init => NoRetries
  BY DEF Init, NoRetries, NoRequest
<1>2. Base /\ NoRetries /\ [Next]_vars => NoRetries'
  <2> SUFFICES ASSUME Base, NoRetries, [Next]_vars, NEW d \in Callbacks PROVE ~req'[d].retry
    BY DEF NoRetries
  <2>1. ~req[d].retry
    BY DEF NoRetries
  <2> QED  BY <2>1, RequestMoves
<1> QED  BY <1>1, <1>2, BaseInv, PTL DEF Spec

(* The steps that touch what Once speaks of.                               *)
LEMMA OnceMoves ==
  ASSUME Base, [Next]_vars
  PROVE  \/ \E c \in Callbacks : \/ Complete(c) \/ StopWaiting(c) \/ Delivered(c)
                                 \/ NotDelivered(c) \/ QueueSettles(c)
         \/ \E k \in Payments : ClaimGoesStale(k) \/ EntryExpires(k)
         \/ Crash
         \/ /\ ledger' = ledger /\ handed' = handed /\ crashes' = crashes
            /\ \A d \in Callbacks : pc[d] = "handoff" => pc'[d] = "handoff"
<1> DEFINE same == /\ ledger' = ledger /\ handed' = handed /\ crashes' = crashes
                   /\ \A d \in Callbacks : pc[d] = "handoff" => pc'[d] = "handoff"
<1> USE DEF Base, TypeOK
<1>1. ASSUME NEW k \in Payments, CreatePayment(k) \/ GuestPays(k) \/ AdminVerifies(k)
      PROVE  same
  BY <1>1 DEF CreatePayment, GuestPays, AdminVerifies, cbVars, handVars
<1>2. ASSUME NEW c \in Callbacks,
             Arrive(c) \/ PingFails(c) \/ AskBank(c) \/ BankDecides(c) \/ AskAgain(c) \/ Refused(c)
               \/ Unanswered(c) \/ ReportCancel(c) \/ AnswerReplay(c)
      PROVE  same
  BY <1>2 DEF Arrive, PingFails, AskBank, BankDecides, AskAgain, Refused, Unanswered,
              ReportCancel, AnswerReplay, Answer, Await, handVars
<1>3. ASSUME NEW c \in Callbacks,
             ReceiverAnswers(c) \/ QueueDelivers(c) \/ QueueMissesAnswer(c)
               \/ QueueGivesUp(c) \/ AdminDeletes(c) \/ QueueLoses(c)
      PROVE  same
  BY <1>3 DEF ReceiverAnswers, QueueDelivers, QueueMissesAnswer, QueueGivesUp, AdminDeletes,
              QueueLoses, QueueParts, cbVars
<1>4. ASSUME NEW o \in Orders, SessionLapses(o) PROVE same
  BY <1>4 DEF SessionLapses, cbVars, handVars
<1>5. ASSUME UNCHANGED vars PROVE same
  BY <1>5 DEF vars, cbVars, handVars
<1> QED
  BY <1>1, <1>2, <1>3, <1>4, <1>5 DEF Next, Request, HandOver

LEMMA OnceStep ==
  ASSUME ReplayGuard = TRUE, LedgerIO = {"ok"}, "ttl" \notin Faults,
         Base, NoRetries, [Next]_vars, NEW k \in Payments, Once(k)
  PROVE  Once(k)'
<1>t. /\ ledger \in [Payments -> Outcome] /\ handed \in [Payments -> Nat] /\ crashes \in Nat
      /\ pc \in [Callbacks -> {"idle", "ping", "bank", "report", "handoff", "answered", "gone"}]
  BY FlowAssumption DEF Base, TypeOK
<1>w. \A d \in Callbacks : pc[d] = "handoff" => Pay(d) \in Payments /\ Pay(d)' = Pay(d)
  BY RequestStays
<1>l. Loaded("ok") = ledger /\ \A entries : Stored(entries, "ok") <=> ledger' = entries
  BY DEF Loaded, Stored
<1>s. ASSUME NEW c \in Callbacks, NEW outcome \in {"done", "pending", "refused"},
             Settle(Pay(c), outcome, "ok"), crashes' = crashes, handed' = handed,
             \A d \in Callbacks \ {c} : pc'[d] = pc[d],
             pc[c] = "handoff" => Pay(c) \in Payments
      PROVE  Once(k)'
  <2>1. CASE ledger' = ledger /\ ledger[Pay(c)] = "none"
    <3>1. ledger[k] = "claimed" /\ Waits(k) => Waits(k)'
      <4> SUFFICES ASSUME ledger[k] = "claimed", NEW d \in Callbacks, pc[d] = "handoff", Pay(d) = k
                   PROVE  Waits(k)'
        BY DEF Waits
      <4>1. d # c
        BY <2>1
      <4> QED  BY <1>s, <1>w, <4>1 DEF Waits
    <3> QED  BY <1>s, <2>1, <3>1 DEF Once
  <2>2. CASE ledger' = [ledger EXCEPT ![Pay(c)] = outcome]
    <3>1. CASE k = Pay(c)
      <4>1. ledger'[k] = outcome
        BY <1>t, <2>2, <3>1
      <4> QED  BY <1>s, <4>1 DEF Once
    <3>2. CASE k # Pay(c)
      <4>1. ledger'[k] = ledger[k]
        BY <1>t, <2>2, <3>2
      <4>2. Waits(k) => Waits(k)'
        BY <1>s, <1>w, <3>2 DEF Waits
      <4> QED  BY <1>s, <4>1, <4>2 DEF Once
    <3> QED  BY <3>1, <3>2
  <2> QED  BY <1>l, <1>s, <2>1, <2>2 DEF Settle
<1>1. ASSUME NEW c \in Callbacks, Complete(c)
      PROVE  Once(k)'
  <2>1. /\ Pay(c) \in Payments /\ crashes' = crashes
        /\ pc' = [pc EXCEPT ![c] = "handoff"] /\ handed' = [handed EXCEPT ![Pay(c)] = @ + 1]
        /\ ledger[Pay(c)] \in {"none", "stale"} /\ ledger' = [ledger EXCEPT ![Pay(c)] = "claimed"]
    BY <1>1, <1>l, RequestStays
    DEF Complete, StartHandOver, Await, TakeForGuard, MayClaim, Claim, NoRetries
  <2>2. Pay(c)' = Pay(c) /\ pc'[c] = "handoff"
    BY <1>1, <1>t, <2>1, RequestStays DEF Complete
  <2>3. CASE k = Pay(c)
    <3>1. Waits(k)' /\ ledger'[k] = "claimed" /\ handed'[k] = handed[k] + 1
      BY <1>t, <2>1, <2>2, <2>3 DEF Waits
    <3>2. handed[k] <= crashes
      BY <1>t, <2>1, <2>3 DEF Once
    <3> QED  BY <1>t, <2>1, <3>1, <3>2 DEF Once
  <2>4. CASE k # Pay(c)
    <3>1. ledger'[k] = ledger[k] /\ handed'[k] = handed[k]
      BY <1>t, <2>1, <2>4
    <3>2. Waits(k) => Waits(k)'
      BY <1>t, <1>w, <2>1, <2>2 DEF Waits
    <3> QED  BY <2>1, <3>1, <3>2 DEF Once
  <2> QED  BY <2>3, <2>4
<1>2. ASSUME NEW c \in Callbacks, StopWaiting(c) \/ NotDelivered(c)
      PROVE  Once(k)'
  <2>1. Settle(Pay(c), "pending", "ok") \/ (pc[c] # "handoff" /\ ledger' = ledger /\ pc' = pc)
    BY <1>2 DEF StopWaiting, NotDelivered, SettleAs, Records, Unfinished, AnswerIfWaiting
  <2>2. /\ crashes' = crashes /\ handed' = handed
        /\ \A d \in Callbacks \ {c} : pc'[d] = pc[d]
    BY <1>2, <1>t DEF StopWaiting, NotDelivered, AnswerIfWaiting, Answer, handVars
  <2> QED  BY <1>s, <1>w, <2>1, <2>2 DEF Once, Waits
<1>3. ASSUME NEW c \in Callbacks, Delivered(c)
      PROVE  Once(k)'
  <2>1. Settle(Pay(c), delivery[c], "ok") \/ (pc[c] # "handoff" /\ ledger' = ledger /\ pc' = pc)
    BY <1>3 DEF Delivered, SettleAs, Records, AnswerIfWaiting
  <2>2. /\ crashes' = crashes /\ handed' = handed
        /\ delivery[c] \in {"done", "pending", "refused"}
        /\ \A d \in Callbacks \ {c} : pc'[d] = pc[d]
    BY <1>3, <1>t DEF Delivered, AnswerIfWaiting, Answer
  <2> QED  BY <1>s, <1>w, <2>1, <2>2 DEF Once, Waits
<1>4. ASSUME NEW c \in Callbacks, QueueSettles(c)
      PROVE  Once(k)'
  <2>1. /\ Settle(Pay(c), "done", "ok") /\ crashes' = crashes /\ handed' = handed /\ pc' = pc
    BY <1>4 DEF QueueSettles, cbVars
  <2> QED  BY <1>s, <1>w, <2>1
<1>5. ASSUME NEW j \in Payments, ClaimGoesStale(j) \/ EntryExpires(j)
      PROVE  Once(k)'
  <2>1. /\ ~Waits(j) /\ ledger[j] = "claimed" /\ ledger' = [ledger EXCEPT ![j] = "stale"]
        /\ crashes' = crashes /\ handed' = handed /\ pc' = pc
    BY <1>5 DEF ClaimGoesStale, GoStale, EntryExpires, Waits, cbVars, handVars
  <2>2. Waits(k) => Waits(k)'
    BY <1>w, <2>1 DEF Waits
  <2> QED  BY <1>t, <2>1, <2>2 DEF Once
<1>6. ASSUME Crash PROVE Once(k)'
  <2>1. crashes' = crashes + 1 /\ ledger' = ledger /\ handed' = handed
    BY <1>6 DEF Crash
  <2> QED  BY <1>t, <2>1 DEF Once
<1>7. ASSUME ledger' = ledger, handed' = handed, crashes' = crashes,
             \A d \in Callbacks : pc[d] = "handoff" => pc'[d] = "handoff"
      PROVE  Once(k)'
  BY <1>7, <1>w DEF Once, Waits
<1> QED
  BY <1>1, <1>2, <1>3, <1>4, <1>5, <1>6, <1>7, OnceMoves

(* However many callbacks race, a payment is handed over once, and once    *)
(* more only for each crash.                                               *)
THEOREM HandedOnce ==
  ASSUME ReplayGuard = TRUE, Retry = FALSE, LedgerIO = {"ok"}, "ttl" \notin Faults
  PROVE  Spec => []HandedOncePerRun
<1> DEFINE inv == \A k \in Payments : Once(k)
<1>1. Init => inv
  <2> SUFFICES ASSUME Init, NEW k \in Payments PROVE Once(k)
    OBVIOUS
  <2>1. handed[k] = 0 /\ crashes = 0 /\ ledger[k] = "none"
    BY DEF Init, LedgerInit
  <2> QED  BY <2>1 DEF Once
<1>2. Base /\ NoRetries /\ inv /\ [Next]_vars => inv'
  BY OnceStep
<1>3. inv => HandedOncePerRun
  BY DEF Once, HandedOncePerRun
<1> QED  BY <1>1, <1>2, <1>3, BaseInv, NoRetriesInv, PTL DEF Spec
-----------------------------------------------------------------------------
(***************************************************************************)
(* The guard and the paid order.  Unless the process dies or the queue     *)
(* loses entries, a settled entry of the ledger speaks of a hand-over that *)
(* was answered, is on its way, or is in the queue's hands.                *)
(***************************************************************************)
SettledIsHeld == \A k \in Payments : ledger[k] \in {"done", "pending", "refused"} => Held(k)

(* The steps that touch a hand-over on its way or in the queue.            *)
LEMMA PlaceMoves ==
  ASSUME {"crash", "queue"} \cap Faults = {}, Base, [Next]_vars, NEW c \in Callbacks
  PROVE  \/ delivery'[c] = delivery[c] /\ place'[c] = place[c]
         \/ place'[c] \in {"queued", "dead", "dropped"}
         \/ ReceiverAnswers(c) \/ QueueSettles(c)
         \/ delivery[c] # "sent" /\ place'[c] = place[c]
<1> DEFINE same == delivery'[c] = delivery[c] /\ place'[c] = place[c]
<1> USE DEF Base, TypeOK
<1>1. ASSUME NEW k \in Payments,
             \/ CreatePayment(k) \/ GuestPays(k) \/ AdminVerifies(k)
             \/ ClaimGoesStale(k) \/ EntryExpires(k)
      PROVE  same
  BY <1>1 DEF CreatePayment, GuestPays, AdminVerifies, ClaimGoesStale, EntryExpires, handVars
<1>2. ASSUME NEW b \in Callbacks, ReceiverAnswers(b) \/ QueueSettles(b), b # c
      PROVE  same
  BY <1>2 DEF ReceiverAnswers, QueueSettles, Moved
<1>3. ASSUME NEW b \in Callbacks,
             Arrive(b) \/ PingFails(b) \/ AskBank(b) \/ BankDecides(b) \/ AskAgain(b) \/ Refused(b)
               \/ Unanswered(b) \/ ReportCancel(b) \/ AnswerReplay(b) \/ StopWaiting(b)
      PROVE  same
  BY <1>3 DEF Arrive, PingFails, AskBank, BankDecides, AskAgain, Refused, Unanswered,
              ReportCancel, AnswerReplay, StopWaiting, handVars
<1>4. ASSUME NEW b \in Callbacks, Complete(b)
      PROVE  same \/ (delivery[c] # "sent" /\ place'[c] = place[c])
  BY <1>4 DEF Complete, StartHandOver, Stage
<1>5. ASSUME NEW b \in Callbacks, Delivered(b)
      PROVE  same \/ (delivery[c] # "sent" /\ place'[c] = place[c])
  BY <1>5 DEF Delivered
<1>6. ASSUME NEW b \in Callbacks, NotDelivered(b)
      PROVE  same \/ place'[c] = "queued"
  BY <1>6 DEF NotDelivered, Enqueue
<1>7. ASSUME NEW b \in Callbacks,
             QueueDelivers(b) \/ QueueMissesAnswer(b) \/ QueueGivesUp(b) \/ AdminDeletes(b)
               \/ QueueLoses(b)
      PROVE  same \/ place'[c] \in {"queued", "dead", "dropped"}
  BY <1>7 DEF QueueDelivers, QueueMissesAnswer, QueueGivesUp, AdminDeletes, QueueLoses, QueueParts
<1>8. ASSUME NEW o \in Orders, SessionLapses(o) PROVE same
  BY <1>8 DEF SessionLapses, handVars
<1>9. ASSUME Crash PROVE FALSE
  BY <1>9 DEF Crash
<1>10. ASSUME UNCHANGED vars PROVE same
  BY <1>10 DEF vars, handVars
<1> QED
  BY <1>1, <1>2, <1>3, <1>4, <1>5, <1>6, <1>7, <1>8, <1>9, <1>10 DEF Next, Request, HandOver

LEMMA HeldStays ==
  ASSUME {"crash", "queue"} \cap Faults = {}, Base, [Next]_vars,
         \A c \in Callbacks : Answered(c) /\ Answered(c)', NEW k \in Payments, Held(k)
  PROVE  Held(k)'
<1>1. CASE took[k] # {}
  BY <1>1, TookStays DEF Held
<1>2. ASSUME NEW c \in Callbacks, Pay(c) = k,
             delivery[c] = "sent" \/ place[c] \in {"queued", "dead", "dropped"}
      PROVE  Held(k)'
  <2>1. Pay(c)' = k
    <3>1. pc[c] # "idle"
      BY <1>2 DEF Base, Stage
    <3> QED  BY <1>2, <3>1, RequestStays
  <2>2. CASE delivery'[c] = delivery[c] /\ place'[c] = place[c]
    BY <1>2, <2>1, <2>2 DEF Held
  <2>3. CASE place'[c] \in {"queued", "dead", "dropped"}
    BY <2>1, <2>3 DEF Held
  <2>4. CASE ReceiverAnswers(c)
    <3>1. delivery'[c] \in {"done", "pending", "refused"}
      BY <2>4 DEF ReceiverAnswers, Verdicts, Base, TypeOK
    <3>2. took'[k] # {}
      BY <2>1, <3>1 DEF Answered
    <3> QED  BY <3>2 DEF Held
  <2>5. CASE QueueSettles(c)
    <3>1. took[k] # {}
      BY <1>2, <2>5 DEF QueueSettles, Answered
    <3> QED  BY <3>1, TookStays DEF Held
  <2>6. CASE delivery[c] # "sent" /\ place'[c] = place[c]
    BY <1>2, <2>1, <2>6 DEF Held
  <2> QED  BY <2>2, <2>3, <2>4, <2>5, <2>6, PlaceMoves
<1> QED  BY <1>1, <1>2 DEF Held

LEMMA SettledStep ==
  ASSUME {"crash", "queue"} \cap Faults = {}, Base, [Next]_vars,
         \A c \in Callbacks : Answered(c) /\ Answered(c)', SettledIsHeld
  PROVE  SettledIsHeld'
<1> SUFFICES ASSUME NEW k \in Payments, ledger'[k] \in {"done", "pending", "refused"}
             PROVE  Held(k)'
  BY DEF SettledIsHeld
<1>1. CASE ledger'[k] \in {ledger[k], "none", "claimed", "stale"}
  BY <1>1, HeldStays DEF SettledIsHeld
<1>2. ASSUME NEW c \in Callbacks, Settles(c, k, ledger'[k])
      PROVE  Held(k)'
  <2>1. CASE Delivered(c) \/ QueueSettles(c)
    <3>1. took[k] # {}
      BY <1>2, <2>1 DEF Settles, Delivered, QueueSettles, Answered
    <3> QED  BY <3>1, HeldStays DEF Held
  <2>2. CASE NotDelivered(c)
    <3>1. pc[c] # "idle" /\ place'[c] = "queued"
      BY <2>2 DEF NotDelivered, Enqueue, Base, TypeOK, Stage
    <3>2. Pay(c)' = k
      BY <1>2, <3>1, RequestStays DEF Settles
    <3> QED  BY <3>1, <3>2 DEF Held
  <2>3. CASE StopWaiting(c)
    <3>1. delivery[c] \in {"sent", "done", "pending", "refused"}
      BY <2>3 DEF StopWaiting, Base, Stage
    <3>2. Held(k)
      BY <1>2, <3>1 DEF Settles, Held, Answered
    <3> QED  BY <3>2, HeldStays
  <2> QED  BY <1>2, <2>1, <2>2, <2>3 DEF Settles
<1> QED  BY <1>1, <1>2, LedgerMoves

(* While the process stays up and the queue keeps its entries, a callback  *)
(* is turned away only from a payment that is in good hands, whatever the  *)
(* ledger's file does.                                                     *)
THEOREM TurnedAwayHeld ==
  ASSUME {"crash", "queue"} \cap Faults = {} PROVE Spec => TurnedAwayIsHeld
<1> DEFINE inv == \A c \in Callbacks : Answered(c)
<1>1. Init => SettledIsHeld
  BY DEF Init, LedgerInit, SettledIsHeld
<1>2. Base /\ inv /\ inv' /\ SettledIsHeld /\ [Next]_vars => SettledIsHeld'
  BY SettledStep
<1>3. Base /\ SettledIsHeld /\ [Next]_vars =>
        [\A c \in Callbacks : TurnedAway(c) => Held(req'[c].pay)]_vars
  <2> SUFFICES ASSUME Base, SettledIsHeld, [Next]_vars, NEW d \in Callbacks, TurnedAway(d)
               PROVE  Held(req'[d].pay)
    OBVIOUS
  <2>1. answer[d] = "none"
    BY DEF TurnedAway, Base, Stage
  <2>2. req'[d].pay \in Payments /\ ledger[req'[d].pay] \in {"pending", "done", "refused"}
    BY <2>1, AnswerMoves DEF TurnedAway
  <2> QED  BY <2>2 DEF SettledIsHeld
<1> QED  BY <1>1, <1>2, <1>3, BaseInv, AnsweredInv, PTL DEF Spec, TurnedAwayIsHeld
-----------------------------------------------------------------------------
(***************************************************************************)
(* Zibal says yes to whatever was paid, as often as it is asked.           *)
(***************************************************************************)
PaidIsNotRefused(c) ==
  req[c].says = "paid" =>
    bank[Pay(c)] \in {"paid", "verified"} /\ verdict[c] # "no"

LEMMA FailedMoves ==
  ASSUME \A k \in Payments : Gateway[k] = "zibal", Base, [Next]_vars, NEW d \in Callbacks,
         answer[d] = "none", answer'[d] = "failed"
  PROVE  verdict[d] = "no"
<1> USE DEF Base, TypeOK
<1>p. "failed" \notin {"success", "pending", "refused"} /\ \A o : Page(o) # "failed"
  BY PageType
<1>1. ASSUME NEW c \in Callbacks, Refused(c) PROVE verdict[d] = "no"
  BY <1>1 DEF Refused, Answer
<1>2. ASSUME NEW c \in Callbacks, AskBank(c) \/ Unanswered(c) PROVE FALSE
  <2>1. Gateway[Pay(c)] = "zibal"
    BY <1>2, RequestStays DEF AskBank, Unanswered
  <2> QED  BY <1>2, <2>1 DEF AskBank, Unanswered, Answer, Await
<1>3. ASSUME NEW c \in Callbacks, Arrive(c) PROVE FALSE
  <2>1. PICK r \in Requests, io \in LedgerIO :
             Answer(c, "cancelled") \/ Answer(c, Page(Seen(r.pay, io))) \/ Await(c, "ping")
    BY <1>3 DEF Arrive
  <2> QED  BY <1>p, <2>1 DEF Answer, Await
<1>4. ASSUME NEW c \in Callbacks, AnswerReplay(c) PROVE FALSE
  <2>1. PICK io \in LedgerIO : Answer(c, Page(Seen(Pay(c), io)))
    BY <1>4 DEF AnswerReplay
  <2> QED  BY <1>p, <2>1 DEF Answer
<1>5. ASSUME NEW c \in Callbacks, Delivered(c) \/ NotDelivered(c) \/ StopWaiting(c) PROVE FALSE
  <2>1. answer' = answer \/ \E o : Answer(c, Page(o))
    BY <1>5 DEF Delivered, NotDelivered, StopWaiting, AnswerIfWaiting
  <2> QED  BY <1>p, <2>1 DEF Answer
<1>6. ASSUME NEW c \in Callbacks,
             PingFails(c) \/ BankDecides(c) \/ AskAgain(c) \/ ReportCancel(c) \/ Complete(c)
      PROVE  FALSE
  BY <1>6 DEF PingFails, BankDecides, AskAgain, ReportCancel, Complete, StartHandOver, Answer, Await
<1>7. ASSUME NEW c \in Callbacks,
             ReceiverAnswers(c) \/ QueueDelivers(c) \/ QueueSettles(c) \/ QueueMissesAnswer(c)
               \/ QueueGivesUp(c) \/ AdminDeletes(c) \/ QueueLoses(c)
      PROVE  FALSE
  BY <1>7 DEF ReceiverAnswers, QueueDelivers, QueueSettles, QueueMissesAnswer, QueueGivesUp,
              AdminDeletes, QueueLoses, QueueParts, cbVars
<1>8. ASSUME NEW k \in Payments,
             \/ CreatePayment(k) \/ GuestPays(k) \/ AdminVerifies(k)
             \/ ClaimGoesStale(k) \/ EntryExpires(k)
      PROVE  FALSE
  BY <1>8 DEF CreatePayment, GuestPays, AdminVerifies, ClaimGoesStale, EntryExpires, cbVars
<1>9. ASSUME NEW o \in Orders, SessionLapses(o) PROVE FALSE
  BY <1>9 DEF SessionLapses, cbVars
<1>10. ASSUME Crash \/ UNCHANGED vars PROVE FALSE
  BY <1>10 DEF Crash, vars, cbVars
<1> QED
  BY <1>1, <1>2, <1>3, <1>4, <1>5, <1>6, <1>7, <1>8, <1>9, <1>10 DEF Next, Request, HandOver

LEMMA PaidIsNotRefusedStep ==
  ASSUME \A k \in Payments : Gateway[k] = "zibal", Base, [Next]_vars, NEW d \in Callbacks,
         PaidIsNotRefused(d)
  PROVE  PaidIsNotRefused(d)'
<1>s. TypeOK /\ Stage(d)
  BY DEF Base
<1>1. CASE Arrive(d)
  <2>1. PICK r \in Requests : /\ bank[r.pay] # "none" /\ (r.says = "paid" => bank[r.pay] # "open")
                             /\ req' = [req EXCEPT ![d] = r]
    BY <1>1 DEF Arrive
  <2>2. req'[d] = r /\ r.pay \in Payments /\ bank' = bank /\ verdict' = verdict /\ verdict[d] = "none"
    BY <1>1, <1>s, <2>1 DEF Arrive, Requests, Stage, TypeOK
  <2> QED  BY <1>s, <2>1, <2>2 DEF PaidIsNotRefused, Pay, TypeOK
<1>2. CASE req'[d] = req[d] /\ pc[d] # "idle"
  <2>1. Pay(d) \in Payments /\ Pay(d)' = Pay(d)
    BY <1>2, RequestStays
  <2> SUFFICES ASSUME req[d].says = "paid"
               PROVE  bank'[Pay(d)] \in {"paid", "verified"} /\ verdict'[d] # "no"
    BY <1>2, <2>1 DEF PaidIsNotRefused
  <2>2. bank[Pay(d)] \in {"paid", "verified"} /\ verdict[d] # "no"
    BY DEF PaidIsNotRefused
  <2>3. bank'[Pay(d)] \in {"paid", "verified"}
    BY <2>1, <2>2, BankStays
  <2>4. CASE BankDecides(d)
    <3>1. Accepts(d)
      BY <2>1, <2>2 DEF Accepts
    <3> QED  BY <1>s, <2>3, <2>4, <3>1 DEF BankDecides, TypeOK
  <2>5. CASE AskBank(d) \/ Complete(d)
    BY <2>2, <2>3, <2>5 DEF AskBank, Complete
  <2>6. CASE AskAgain(d)
    BY <1>s, <2>3, <2>6 DEF AskAgain, TypeOK
  <2> QED  BY <2>2, <2>3, <2>4, <2>5, <2>6, Charges
<1>3. CASE req'[d] = req[d] /\ pc[d] = "idle"
  BY <1>3, <1>s DEF PaidIsNotRefused, Stage, NoRequest
<1> QED  BY <1>1, <1>2, <1>3, RequestMoves

(* Where all payments are Zibal's, no failure is reported of a payment the *)
(* bank has confirmed.                                                     *)
THEOREM ZibalFailureIsTrue ==
  ASSUME \A k \in Payments : Gateway[k] = "zibal" PROVE Spec => FailureIsTrue
<1> DEFINE inv == \A c \in Callbacks : PaidIsNotRefused(c)
<1>1. Init => inv
  <2> SUFFICES ASSUME Init, NEW c \in Callbacks PROVE req[c].says # "paid"
    BY DEF PaidIsNotRefused
  <2> QED  BY DEF Init, NoRequest
<1>2. Base /\ inv /\ [Next]_vars => inv'
  BY PaidIsNotRefusedStep
<1>3. Base /\ inv /\ [Next]_vars =>
        [\A c \in Callbacks :
           ReportsFailure(c) /\ req[c].says = "paid" => bank[Pay(c)] # "verified"]_vars
  BY FailedMoves DEF ReportsFailure, PaidIsNotRefused
<1> QED  BY <1>1, <1>2, <1>3, BaseInv, PTL DEF Spec, FailureIsTrue
=============================================================================
