--------------------------- MODULE RefundJobProofs ---------------------------
(* Why the guest is paid once and SEP asked a bounded number of times,     *)
(* for any bounds on the attempts and any bank codes.                      *)
EXTENDS RefundJob, TLAPS

(***************************************************************************)
(* The inductive invariant.  Somebody pays by hand only a refund that SEP  *)
(* will not touch again; a payment leaves SEP's row in a state from which  *)
(* it is not refreshed; a refresh under way finds the row as it was read;  *)
(* and a failed row that the job would act on is SEP's present one.        *)
(***************************************************************************)
MayHidePayment == {"112", "118", "122"}

InHands ==
  /\ phase = "human" <=> told \in {"look", "pay", "paid"}
  /\ phase = "human" => sep.status \in {"none", "fail"} /\ wire # "sent"
  /\ told = "pay" => paid = 0

PaidBySep ==
  paid # 0 /\ told # "paid" =>
    sep.status = "ok" \/ (sep.status = "fail" /\ sep.code \in MayHidePayment)

OnTheWire ==
  /\ wire = "sent" => hot /\ report = sep /\ phase \in {"sent", "waiting"}
  /\ wire \in {"sent", "refused"} => sep.status = "fail" /\ ExecAction(sep.code) = "refresh"
  /\ wire = "refused" => phase = "sent"

ReportIsTrue ==
  /\ report.status = "fail"
  /\ ExecAction(report.code) # "merchant_funds"
  /\ ExecAction(report.code) # "refresh" \/ ~hot
  => report = sep

(* Every refresh sent is counted, and a counted one was taken by SEP.      *)
Counted ==
  /\ phase = "sent" =>
       attempts < MaxRefreshAttempts /\ callFailures < MaxRefreshCallFailures
  /\ phase = "sent" => sends = attempts + callFailures + 1
  /\ phase \in {"new", "waiting"} => sends = attempts + callFailures
  /\ restarts >= attempts
  /\ wire = "taken" => restarts > attempts

IInv ==
  /\ TypeOK /\ PaidOnce /\ InHands /\ PaidBySep /\ OnTheWire /\ ReportIsTrue
  /\ Counted /\ RefreshesAreBounded /\ GaveUpFinalIsTrue

USE JobAssumption DEF JobAssumption

(* What is known of a row's fields.                                        *)
LEMMA RowFields ==
  ASSUME NEW row \in Rows
  PROVE  /\ row.status \in {"none", "start", "ok", "fail"}
         /\ row.code \in ExecCodes
         /\ row.bank \in BankCodes
BY DEF Rows

(* What SEP makes of a row is one.                                         *)
LEMMA RowType ==
  ASSUME NEW status \in {"none", "start", "ok", "fail"}, NEW code \in ExecCodes,
         NEW bank \in BankCodes
  PROVE  /\ Row(status, code, bank) \in Rows
         /\ Row(status, code, bank).status = status
         /\ Row(status, code, bank).code = code
         /\ Row(status, code, bank).bank = bank
BY DEF Row, Rows

(* The invariant holds at the start.                                       *)
LEMMA InitInv == Init => IInv
<1> SUFFICES ASSUME Init PROVE IInv
  OBVIOUS
<1>1. sep \in Rows /\ report \in Rows /\ sep.status = "none" /\ report.status = "none"
  <2>1. "101" \in ExecCodes /\ NoRow = Row("none", "101", NoCode)
    BY DEF ExecCodes, NoRow, Row
  <2> QED
    BY <2>1, RowType DEF Init
<1>2. TypeOK
  <2>1. 0 \in 0..MaxRefreshAttempts /\ 0 \in 0..MaxRefreshCallFailures /\ 0 \in 0..2
    OBVIOUS
  <2> QED
    BY <1>1, <2>1 DEF Init, TypeOK
<1>3. PaidOnce /\ InHands /\ PaidBySep /\ OnTheWire /\ ReportIsTrue
  BY <1>1, SMTT(30) DEF Init, PaidOnce, InHands, PaidBySep, OnTheWire, ReportIsTrue
<1>4. Counted /\ RefreshesAreBounded /\ GaveUpFinalIsTrue
  BY DEF Init, Counted, RefreshesAreBounded, GaveUpFinalIsTrue
<1> QED
  BY <1>2, <1>3, <1>4 DEF IInv

(* Registering pays nobody; a person is asked to pay only when SEP refused *)
(* a refund it does not know.                                              *)
LEMMA RegisterInv ==
  ASSUME IInv, RegisterUnanswered \/ \E code \in RegCodes : Register(code) PROVE IInv'
<1>1. /\ sep' \in Rows /\ phase = "new" /\ UNCHANGED <<report, closed, restarts, wire, sends>>
      /\ UNCHANGED <<attempts, callFailures, lastBankCode, hot, paid>>
      /\ \/ UNCHANGED sep
         \/ sep.status = "none" /\ sep'.status = "start" /\ sep'.code = "101"
  BY RowType DEF Register, RegisterUnanswered, Registers, IsRegistered, ExecCodes, job, person,
                 IInv, TypeOK
<1>2. \/ phase' \in {"new", "waiting"} /\ told' \in {told, "fix"} /\ why' \in {why, "system"}
      \/ /\ phase' = "human" /\ told' = "pay" /\ why' = "manual"
         /\ sep.status = "none" /\ UNCHANGED sep
  <2>1. CASE RegisterUnanswered
    BY <1>1, <2>1 DEF RegisterUnanswered, job, person
  <2>2. CASE \E code \in RegCodes : Register(code)
    <3> PICK code \in RegCodes : Register(code)
      BY <2>2
    <3>1. RegAction(code) \in {"done", "wait_for_sep", "retry", "system"} \/ RegAction(code) = "manual"
      BY DEF RegAction
    <3>2. CASE RegAction(code) = "manual"
      <4>1. code \in {"OriginalAmountIncorrect", "NonDepositableDestinationPanCard", "unmapped"}
        BY <3>2 DEF RegAction, RegCodes
      <4> QED
        BY <3>2, <4>1 DEF Register, MaySay, IsRegistered, Registers, Obey, Tell
    <3>3. CASE RegAction(code) # "manual"
      BY <1>1, <3>1, <3>3 DEF Register, Obey, Tell, TellsNobody
    <3> QED
      BY <3>2, <3>3
  <2> QED
    BY <2>1, <2>2
<1>3. TypeOK'
  BY <1>1, <1>2 DEF IInv, TypeOK
<1>4. PaidOnce' /\ InHands' /\ PaidBySep' /\ OnTheWire'
  BY <1>1, <1>2 DEF IInv, TypeOK, PaidOnce, InHands, OnTheWire, PaidBySep
<1>5. ReportIsTrue'
  BY <1>1, <1>2 DEF IInv, ReportIsTrue
<1>6. Counted' /\ RefreshesAreBounded' /\ GaveUpFinalIsTrue'
  BY <1>1, <1>2 DEF IInv, Counted, RefreshesAreBounded, GaveUpFinalIsTrue
<1> QED
  BY <1>3, <1>4, <1>5, <1>6 DEF IInv
(* Facts of the tables that the steps below rest on.                       *)
LEMMA Tables ==
  ASSUME NEW row \in Rows
  PROVE  /\ ExecAction(row.code) \in {"done", "merchant_funds", "needs_breakable", "refresh", "manual"}
         /\ Instruct(row) \in {"fix", "look", "pay"}
         /\ Instruct(row) = "fix" <=> ExecAction(row.code) = "merchant_funds"
         /\ ExecAction(row.code) = "refresh" => row.code = "114"
         /\ row.code \in {"112", "122"} => ExecAction(row.code) = "manual" /\ Instruct(row) = "look"
         /\ row.code = "118" => ExecAction(row.code) = "done"
<1>1. row.code \in ExecCodes
  BY RowFields
<1>2. ExecAction(row.code) \in {"done", "merchant_funds", "needs_breakable", "refresh", "manual"}
  BY <1>1 DEF ExecAction, ExecCodes
<1>3. /\ ExecAction(row.code) = "refresh" => row.code = "114"
      /\ row.code \in {"112", "122"} => ExecAction(row.code) = "manual"
      /\ row.code = "118" => ExecAction(row.code) = "done"
  BY <1>1 DEF ExecAction, ExecCodes
<1>4. row.code \in {"112", "122"} => ExecOwner(row.code) = "sep_support"
  BY DEF ExecOwner
<1> QED
  BY <1>2, <1>3, <1>4 DEF Instruct

(* The job reads a row: it acts only on a row that is SEP's present one,   *)
(* and hands nothing to a person that a refresh may still move.            *)
LEMMA FollowInv == ASSUME IInv, Follow PROVE IInv'
<1>1. /\ report \in Rows /\ phase = "waiting" /\ UNCHANGED <<sep, report, closed, restarts>>
      /\ UNCHANGED <<attempts, callFailures, paid>>
  BY DEF Follow, sepVars, IInv, TypeOK
<1>2. CASE /\ phase' = "closed"
           /\ UNCHANGED <<lastBankCode, hot, wire, told, why, sends>>
           /\ ~(report.status = "fail" /\ ExecAction(report.code) = "refresh")
  <2>1. wire # "sent"
    BY <1>1, <1>2 DEF IInv, OnTheWire
  <2>2. TypeOK'
    BY <1>1, <1>2 DEF IInv, TypeOK
  <2>3. PaidOnce' /\ InHands' /\ PaidBySep' /\ OnTheWire' /\ ReportIsTrue'
    BY <1>1, <1>2, <2>1 DEF IInv, PaidOnce, InHands, PaidBySep, OnTheWire, ReportIsTrue
  <2>4. Counted' /\ RefreshesAreBounded' /\ GaveUpFinalIsTrue'
    BY <1>1, <1>2 DEF IInv, Counted, RefreshesAreBounded, GaveUpFinalIsTrue
  <2> QED
    BY <2>2, <2>3, <2>4 DEF IInv
<1>3. CASE /\ report.status = "fail"
           /\ ExecAction(report.code) \in {"manual", "needs_breakable", "merchant_funds"}
           /\ phase' = IF ExecAction(report.code) = "merchant_funds" THEN phase ELSE "human"
           /\ Tell(Instruct(report), ExecAction(report.code))
           /\ UNCHANGED <<lastBankCode, hot, wire, sends>>
  <2>1. wire # "sent"
    BY <1>1, <1>3 DEF IInv, OnTheWire
  <2>2. ExecAction(report.code) # "merchant_funds" =>
          /\ sep.status = "fail"
          /\ Instruct(report) \in {"look", "pay"}
          /\ Instruct(report) = "pay" => paid = 0
    <3> SUFFICES ASSUME ExecAction(report.code) # "merchant_funds"
                 PROVE  /\ sep.status = "fail"
                        /\ Instruct(report) \in {"look", "pay"}
                        /\ Instruct(report) = "pay" => paid = 0
      OBVIOUS
    <3>1. report = sep
      BY <1>3 DEF IInv, ReportIsTrue
    <3>2. paid # 0 => sep.code \in MayHidePayment
      BY <1>1, <1>3, <3>1 DEF IInv, PaidBySep, InHands
    <3> QED
      BY <1>1, <1>3, <3>1, <3>2, Tables DEF MayHidePayment
  <2>3. phase' \in {"waiting", "human"} /\ told' = Instruct(report) /\ why' = ExecAction(report.code)
    BY <1>1, <1>3 DEF Tell
  <2>4. TypeOK'
    BY <1>1, <1>3, <2>3, Tables DEF IInv, TypeOK
  <2>5. InHands'
    BY <1>1, <1>3, <2>1, <2>2, <2>3, Tables DEF InHands
  <2>6. PaidOnce' /\ PaidBySep' /\ OnTheWire' /\ ReportIsTrue'
    BY <1>1, <1>3, <2>1, <2>3, Tables DEF IInv, InHands, PaidOnce, PaidBySep, OnTheWire, ReportIsTrue
  <2>7. Counted' /\ RefreshesAreBounded' /\ GaveUpFinalIsTrue'
    BY <1>1, <1>3, <2>3 DEF IInv, Counted, RefreshesAreBounded, GaveUpFinalIsTrue
  <2> QED
    BY <2>4, <2>5, <2>6, <2>7 DEF IInv
<1>4. CASE /\ report.status = "fail" /\ ExecAction(report.code) = "refresh"
           /\ ~hot
  <2>1. report = sep /\ wire \notin {"sent", "refused"} /\ paid = 0
    BY <1>1, <1>4, Tables DEF IInv, InHands, PaidBySep, ReportIsTrue, OnTheWire, MayHidePayment
  <2>2. CASE GiveUp(report, Decide(report))
    <3>1. /\ phase' = "human" /\ told' \in {"look", "pay"} /\ why' = Decide(report)
          /\ UNCHANGED <<lastBankCode, hot, wire, sends>>
          /\ why' \in {"repeat_rejection", "gave_up_unknown", "gave_up_final"}
      BY <2>2 DEF GiveUp, Tell
    <3>2. why' = "gave_up_final" => attempts >= MaxRefreshAttempts
      BY <3>1 DEF Decide, MayRefresh, Exhausted, IInv, TypeOK
    <3>3. TypeOK'
      BY <1>1, <3>1 DEF IInv, TypeOK
    <3>4. PaidOnce' /\ InHands' /\ PaidBySep' /\ OnTheWire' /\ ReportIsTrue'
      BY <1>1, <1>4, <2>1, <3>1 DEF IInv, PaidOnce, InHands, PaidBySep, OnTheWire, ReportIsTrue
    <3>5. Counted' /\ RefreshesAreBounded' /\ GaveUpFinalIsTrue'
      BY <1>1, <3>1, <3>2 DEF IInv, TypeOK, Counted, RefreshesAreBounded, GaveUpFinalIsTrue
    <3> QED
      BY <3>3, <3>4, <3>5 DEF IInv
  <2>3. CASE SendRefresh(report, Decide(report))
    <3>1. /\ phase' = "sent" /\ hot' = TRUE /\ lastBankCode' \in BankCodes /\ wire' = "sent"
          /\ sends' = sends + 1 /\ UNCHANGED <<told, why>>
          /\ attempts < MaxRefreshAttempts /\ callFailures < MaxRefreshCallFailures
      BY <1>1, <2>3, RowFields DEF SendRefresh, TellsNobody, Decide, MayRefresh, Exhausted
    <3>2. TypeOK'
      BY <1>1, <3>1 DEF IInv, TypeOK
    <3>3. PaidOnce' /\ InHands' /\ PaidBySep' /\ OnTheWire' /\ ReportIsTrue'
      BY <1>1, <1>4, <2>1, <3>1 DEF IInv, PaidOnce, InHands, PaidBySep, OnTheWire, ReportIsTrue
    <3>4. Counted' /\ RefreshesAreBounded' /\ GaveUpFinalIsTrue'
      BY <1>1, <3>1 DEF IInv, TypeOK, Counted, RefreshesAreBounded, GaveUpFinalIsTrue
    <3> QED
      BY <3>2, <3>3, <3>4 DEF IInv
  <2>4. GiveUp(report, Decide(report)) \/ SendRefresh(report, Decide(report))
    BY <1>4 DEF Follow, ActOnFailure
  <2> QED
    BY <2>2, <2>3, <2>4
<1>5. CASE /\ report.status = "fail" /\ ExecAction(report.code) = "refresh"
           /\ hot
  BY <1>5 DEF Follow, ActOnFailure, Decide, GiveUp, SendRefresh
<1>6. CASE report.status = "ok"
  BY <1>2, <1>6 DEF Follow
<1>7. CASE report.status = "fail" /\ ActOnFailure(report)
  <2>1. CASE ExecAction(report.code) = "done"
    BY <1>2, <1>7, <2>1 DEF ActOnFailure, TellsNobody
  <2>2. CASE ExecAction(report.code) \in {"manual", "needs_breakable", "merchant_funds"}
    BY <1>3, <1>7, <2>2 DEF ActOnFailure
  <2>3. CASE ExecAction(report.code) = "refresh"
    BY <1>4, <1>5, <1>7, <2>3 DEF IInv, TypeOK
  <2> QED
    BY <1>1, <2>1, <2>2, <2>3, Tables
<1> QED
  BY <1>6, <1>7 DEF Follow

(* An answer is counted as a refresh only when SEP has taken one.          *)
LEMMA AnswerInv ==
  ASSUME IInv, RefreshUnanswered \/ \E items \in Answers : RefreshAnswered(items) PROVE IInv'
<1>1. /\ phase = "sent" /\ wire' \in {"sent", "none"} /\ (wire' = "sent" => wire = "sent")
      /\ UNCHANGED <<sep, report, closed, restarts, lastBankCode, hot, paid, sends>>
  BY DEF RefreshUnanswered, RefreshAnswered, sepVars, person
<1>2. \/ /\ phase' = "waiting" /\ UNCHANGED <<told, why>>
         /\ \/ attempts' = attempts + 1 /\ UNCHANGED callFailures /\ wire = "taken"
            \/ callFailures' = callFailures + 1 /\ UNCHANGED attempts
      \/ /\ phase' = "human" /\ told' = "pay" /\ why' = "refused" /\ wire = "refused"
         /\ wire' = "none" /\ UNCHANGED <<attempts, callFailures>>
  <2>1. CASE RefreshUnanswered
    BY <2>1 DEF RefreshUnanswered, person
  <2>2. CASE \E items \in Answers : RefreshAnswered(items)
    <3> PICK items \in Answers : RefreshAnswered(items)
      BY <2>2
    <3>1. /\ Accepted(items) => wire = "taken"
          /\ IsRefusal(items) => wire = "refused" /\ ~Accepted(items)
      BY DEF RefreshAnswered, Accepted, IsRefusal
    <3> QED
      BY <3>1 DEF RefreshAnswered, Tell, TellsNobody
  <2> QED
    BY <2>1, <2>2
<1>3. TypeOK'
  BY <1>1, <1>2 DEF IInv, TypeOK, Counted
<1>4. wire = "refused" => paid = 0 /\ sep.status = "fail"
  BY <1>1, Tables DEF IInv, TypeOK, InHands, PaidBySep, OnTheWire, MayHidePayment
<1>5. PaidOnce' /\ InHands' /\ PaidBySep' /\ OnTheWire' /\ ReportIsTrue'
  BY <1>1, <1>2, <1>4 DEF IInv, PaidOnce, InHands, PaidBySep, OnTheWire, ReportIsTrue
<1>6. Counted' /\ RefreshesAreBounded' /\ GaveUpFinalIsTrue'
  BY <1>1, <1>2 DEF IInv, TypeOK, Counted, RefreshesAreBounded, GaveUpFinalIsTrue
<1> QED
  BY <1>3, <1>5, <1>6 DEF IInv

(* SEP's side: it takes up only a row nobody was told to pay, and pays     *)
(* only a row it has taken up.                                             *)
LEMMA SepInv ==
  ASSUME IInv, SepTakes \/ SepMisses \/ SepCycle \/ SepCloses \/ SepResumes PROVE IInv'
<1> USE DEF Row
<1>1. CASE SepTakes
  <2>1. /\ wire = "sent" /\ wire' \in {"none", "taken", "refused"}
        /\ wire' = "taken" => restarts' = restarts + 1
        /\ wire' = "refused" => phase = "sent" /\ UNCHANGED sep
        /\ \/ UNCHANGED <<sep, restarts>>
           \/ sep' = Row("start", sep.code, sep.bank) /\ restarts' = restarts + 1
        /\ UNCHANGED <<report, closed, job, person, sends>>
    BY <1>1 DEF SepTakes, Unread
  <2>2. sep' \in Rows
    BY <2>1, RowFields, RowType DEF IInv, TypeOK
  <2>3. TypeOK'
    BY <2>1, <2>2 DEF IInv, TypeOK, job, person
  <2>4. paid = 0 /\ hot /\ phase # "human" /\ ExecAction(report.code) = "refresh"
    BY <2>1, Tables DEF IInv, TypeOK, InHands, PaidBySep, OnTheWire, MayHidePayment
  <2>5. PaidOnce' /\ InHands' /\ PaidBySep' /\ OnTheWire' /\ ReportIsTrue'
    BY <2>1, <2>4 DEF IInv, PaidOnce, InHands, PaidBySep, OnTheWire, ReportIsTrue, job, person
  <2>6. Counted' /\ RefreshesAreBounded' /\ GaveUpFinalIsTrue'
    BY <2>1 DEF IInv, TypeOK, Counted, RefreshesAreBounded, GaveUpFinalIsTrue, job, person
  <2> QED
    BY <2>3, <2>5, <2>6 DEF IInv
<1>2. CASE SepMisses
  <2>1. /\ wire = "sent" /\ wire' \in {"none", "lost"}
        /\ UNCHANGED <<sep, report, closed, restarts, job, person, sends>>
    BY <1>2 DEF SepMisses, Unread, sepVars
  <2>2. TypeOK' /\ PaidOnce' /\ InHands' /\ PaidBySep' /\ OnTheWire' /\ ReportIsTrue'
    BY <2>1 DEF IInv, TypeOK, PaidOnce, InHands, PaidBySep, OnTheWire, ReportIsTrue, job, person
  <2>3. Counted' /\ RefreshesAreBounded' /\ GaveUpFinalIsTrue'
    BY <2>1 DEF IInv, Counted, RefreshesAreBounded, GaveUpFinalIsTrue, job, person
  <2> QED
    BY <2>2, <2>3 DEF IInv
<1>3. CASE SepCycle
  <2>1. /\ sep.status = "start" /\ sep' \in Rows /\ sep'.status \in {"ok", "fail"}
        /\ \/ UNCHANGED paid
           \/ paid' = Bump(paid) /\ (sep'.status = "ok" \/ sep'.code \in MayHidePayment)
        /\ UNCHANGED <<report, closed, restarts, job, wire, told, why, sends>>
    BY <1>3, RowType DEF SepCycle, MayHidePayment
  <2>2. paid = 0 /\ phase # "human" /\ told # "pay" /\ wire \notin {"sent", "refused"}
    BY <2>1 DEF IInv, InHands, PaidBySep, OnTheWire
  <2>3. paid' \in {0, 1}
    BY <2>1, <2>2 DEF Bump
  <2>4. TypeOK'
    BY <2>1, <2>3 DEF IInv, TypeOK, job
  <2>5. PaidOnce' /\ InHands' /\ PaidBySep' /\ OnTheWire' /\ ReportIsTrue'
    BY <2>1, <2>2, <2>3 DEF IInv, PaidOnce, InHands, PaidBySep, OnTheWire, ReportIsTrue, job
  <2>6. Counted' /\ RefreshesAreBounded' /\ GaveUpFinalIsTrue'
    BY <2>1 DEF IInv, Counted, RefreshesAreBounded, GaveUpFinalIsTrue, job
  <2> QED
    BY <2>4, <2>5, <2>6 DEF IInv
<1>4. CASE SepCloses
  BY <1>4 DEF SepCloses, job, person, IInv, TypeOK, PaidOnce, InHands, PaidBySep, OnTheWire,
              ReportIsTrue, Counted, RefreshesAreBounded, GaveUpFinalIsTrue
<1>5. CASE SepResumes
  <2>1. /\ told = "fix" /\ sep.status = "fail" /\ ExecAction(sep.code) = "merchant_funds"
        /\ sep' = Row("start", sep.code, sep.bank)
        /\ UNCHANGED <<report, closed, restarts, job, wire, person, sends>>
    BY <1>5 DEF SepResumes
  <2>2. sep' \in Rows /\ paid = 0 /\ phase # "human" /\ wire \notin {"sent", "refused"}
    BY <2>1, RowFields, RowType, Tables
       DEF IInv, TypeOK, InHands, PaidBySep, OnTheWire, MayHidePayment
  <2>3. TypeOK'
    BY <2>1, <2>2 DEF IInv, TypeOK, job, person
  <2>4. PaidOnce' /\ InHands' /\ PaidBySep' /\ OnTheWire' /\ ReportIsTrue'
    BY <2>1, <2>2 DEF IInv, PaidOnce, InHands, PaidBySep, OnTheWire, ReportIsTrue, job, person
  <2>5. Counted' /\ RefreshesAreBounded' /\ GaveUpFinalIsTrue'
    BY <2>1 DEF IInv, Counted, RefreshesAreBounded, GaveUpFinalIsTrue, job, person
  <2> QED
    BY <2>3, <2>4, <2>5 DEF IInv
<1> QED
  BY <1>1, <1>2, <1>3, <1>4, <1>5

(* Time passes, and a person pays.                                         *)
LEMMA OthersInv == ASSUME IInv, ReportFollows \/ CooldownEnds \/ PayByHand PROVE IInv'
<1>1. CASE ReportFollows
  <2>1. report' = sep /\ UNCHANGED <<sep, closed, restarts, job, wire, person, sends>>
    BY <1>1 DEF ReportFollows
  <2>2. TypeOK' /\ PaidOnce' /\ InHands' /\ PaidBySep' /\ OnTheWire' /\ ReportIsTrue'
    BY <2>1 DEF IInv, TypeOK, PaidOnce, InHands, PaidBySep, OnTheWire, ReportIsTrue, job, person
  <2>3. Counted' /\ RefreshesAreBounded' /\ GaveUpFinalIsTrue'
    BY <2>1 DEF IInv, Counted, RefreshesAreBounded, GaveUpFinalIsTrue, job, person
  <2> QED
    BY <2>2, <2>3 DEF IInv
<1>2. CASE CooldownEnds
  <2>1. /\ wire = "none" /\ report = sep /\ hot' = FALSE
        /\ UNCHANGED <<sepVars, phase, attempts, callFailures, lastBankCode, wire, person, sends>>
    BY <1>2 DEF CooldownEnds
  <2>2. TypeOK' /\ PaidOnce' /\ InHands' /\ PaidBySep' /\ OnTheWire' /\ ReportIsTrue'
    BY <2>1 DEF IInv, TypeOK, PaidOnce, InHands, PaidBySep, OnTheWire, ReportIsTrue, sepVars, person
  <2>3. Counted' /\ RefreshesAreBounded' /\ GaveUpFinalIsTrue'
    BY <2>1 DEF IInv, Counted, RefreshesAreBounded, GaveUpFinalIsTrue, sepVars, person
  <2> QED
    BY <2>2, <2>3 DEF IInv
<1>3. CASE PayByHand
  <2>1. /\ told \in {"pay", "look"} /\ paid = 0 /\ paid' = 1 /\ told' = "paid"
        /\ UNCHANGED <<sepVars, job, why, wire, sends>>
    BY <1>3 DEF PayByHand, Bump, IInv, InHands
  <2>2. TypeOK' /\ PaidOnce' /\ InHands' /\ PaidBySep' /\ OnTheWire' /\ ReportIsTrue'
    BY <2>1 DEF IInv, TypeOK, PaidOnce, InHands, PaidBySep, OnTheWire, ReportIsTrue, sepVars, job
  <2>3. Counted' /\ RefreshesAreBounded' /\ GaveUpFinalIsTrue'
    BY <2>1 DEF IInv, Counted, RefreshesAreBounded, GaveUpFinalIsTrue, sepVars, job
  <2> QED
    BY <2>2, <2>3 DEF IInv
<1> QED
  BY <1>1, <1>2, <1>3

(* The invariant is inductive.                                             *)
LEMMA NextInv == IInv /\ [Next]_vars => IInv'
<1>1. ASSUME IInv, UNCHANGED vars PROVE IInv'
  BY <1>1 DEF vars, sepVars, job, person, IInv, TypeOK, PaidOnce, InHands, PaidBySep, OnTheWire,
              ReportIsTrue, Counted, RefreshesAreBounded, GaveUpFinalIsTrue
<1> QED
  BY <1>1, RegisterInv, FollowInv, AnswerInv, SepInv, OthersInv DEF Next

LEMMA Invariance == Spec => []IInv
BY InitInv, NextInv, PTL DEF Spec

(***************************************************************************)
(* The guest is paid at most once, whatever is lost, late or answered,     *)
(* when the job and the people follow the tables and decideRefresh.        *)
(***************************************************************************)
THEOREM GuestPaidOnce == Spec => []PaidOnce
BY Invariance, PTL DEF IInv

(***************************************************************************)
(* The number of refreshes sent stays below the sum of the two limits of   *)
(* decideRefresh.                                                          *)
(***************************************************************************)
THEOREM BoundedRefreshes == Spec => []RefreshesAreBounded
BY Invariance, PTL DEF IInv

(***************************************************************************)
(* "Gave up, final" is said only of a refund SEP has taken up again as     *)
(* often as decideRefresh allows.                                          *)
(***************************************************************************)
THEOREM FinalIsTrue == Spec => []GaveUpFinalIsTrue
BY Invariance, PTL DEF IInv

(* Every variable keeps its type.                                          *)
THEOREM Typed == Spec => []TypeOK
BY Invariance, PTL DEF IInv
=============================================================================
