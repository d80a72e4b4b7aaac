------------------------------ MODULE RefundJob ------------------------------
(***************************************************************************)
(* The rules for paying a guest back through SEP: the two error tables of  *)
(* sep/refundErrors.js, the decision of sep/refreshDecision.js and the     *)
(* reading of SEP's answer in sep/refundResponse.js.  The job that asks    *)
(* them belongs to the receiver; it is modelled by what the tables tell it *)
(* to do (the comments of ACTION, OWNER and DECISION).  One refund, SEP's  *)
(* report behind its state, lost calls, and a person who pays by hand.     *)
(***************************************************************************)
EXTENDS Naturals

CONSTANTS
  BankCodes,               \* attemptTrackingCode: what the bank itself said
  NoCode,                  \* it said nothing
  MaxRefreshAttempts,
  MaxRefreshCallFailures

ASSUME JobAssumption ==
  /\ NoCode \in BankCodes
  /\ MaxRefreshAttempts \in Nat \ {0}
  /\ MaxRefreshCallFailures \in Nat \ {0}

VARIABLES
  sep,           \* SEP's row of the refund: [status, code, bank]
  report,        \* the row SEP's report shows
  closed,        \* SEP takes no refresh of it any more
  phase,         \* the job: "new", "waiting", "sent" (a refresh), "closed", "human"
  attempts,      \* refreshes the job counts as taken
  callFailures,  \* refreshes it has no answer for
  lastBankCode,
  hot,           \* the cooldown of the last refresh runs
  wire,          \* that refresh: "none", "sent", "taken", "refused", "lost"
  told,          \* what a person was told: "no", "fix", "look", "pay"; "paid": did so
  why,           \* the decision it was told for
  paid,          \* how often the guest got the money, at most 2
  sends,         \* refreshes sent
  restarts       \* refreshes SEP took

sepVars == <<sep, report, closed, restarts>>
job     == <<phase, attempts, callFailures, lastBankCode, hot>>
person  == <<told, why, paid>>
vars    == <<sepVars, job, wire, person, sends>>

(***************************************************************************)
(* classifyRegError: what Refund_Reg answered.                             *)
(***************************************************************************)
RegCodes == {"Success", "Unknown", "ObjectNotFound", "TxnIsProcessing", "DuplicateRequest",
             "TransactionStateisFinal", "InvalidParameter", "AuthenticateUserFail",
             "PermissionDenied", "ClientIPIsNotValid", "OriginalAmountIncorrect",
             "NonDepositableDestinationPanCard", "unmapped"}

DuplicateIsManual(code) == IF code = "DuplicateRequest" THEN "manual" ELSE "retry"  \* mutant
RegAction(code) ==
  CASE code = "Success"                                              -> "done"
    [] code \in {"Unknown", "ObjectNotFound", "TxnIsProcessing"}     -> "retry"
    [] code \in {"DuplicateRequest", "TransactionStateisFinal"}      -> "wait_for_sep"
    [] code \in {"InvalidParameter", "AuthenticateUserFail",
                 "PermissionDenied", "ClientIPIsNotValid"}           -> "system"
    [] OTHER                                                         -> "manual"

(***************************************************************************)
(* classifyExecFailure: why a registered refund failed, and who acts.      *)
(***************************************************************************)
ExecCodes == {"101", "102", "105", "106", "112", "113", "114", "115", "116", "117", "118",
              "119", "120", "121", "122", "unmapped"}

FailedWaits(code) == "wait_for_sep"  \* mutant: SEP is expected to try again
ExecAction(code) ==
  CASE code \in {"101", "118"}                      -> "done"
    [] code \in {"102", "105", "117", "119", "121"} -> "merchant_funds"
    [] code = "120"                                 -> "needs_breakable"
    [] code = "114"                                 -> "refresh"
    [] OTHER                                        -> "manual"

ExecOwner(code) ==
  CASE code \in {"101", "118"}                             -> "nobody"
    [] code \in {"102", "105", "119", "121", "113"}        -> "ops"
    [] code \in {"112", "114", "115", "116", "117", "122"} -> "sep_support"
    [] code = "106"                                        -> "customer"
    [] OTHER                                               -> "dev"

(***************************************************************************)
(* decideRefresh.                                                          *)
(***************************************************************************)
IsRepeatBankRejection(row) == attempts >= 1 /\ row.bank # NoCode /\ row.bank = lastBankCode

MayRefresh == attempts < MaxRefreshAttempts /\ callFailures < MaxRefreshCallFailures
Exhausted  == IF callFailures >= MaxRefreshCallFailures THEN "gave_up_unknown" ELSE "gave_up_final"

OnlyAttempts(row) ==  \* mutant: unanswered calls are not counted
  IF hot THEN "wait" ELSE IF attempts < MaxRefreshAttempts THEN "refresh" ELSE "gave_up_final"
Decide(row) ==
  IF hot THEN "wait"
  ELSE IF IsRepeatBankRejection(row) THEN "repeat_rejection"
  ELSE IF MayRefresh THEN "refresh"
  ELSE Exhausted

(***************************************************************************)
(* parseRefreshResponse: SEP answers with items, of which one at most is   *)
(* ours; without it the answer says nothing.                               *)
(***************************************************************************)
Items == [ours : BOOLEAN, ok : BOOLEAN]
Answers == {a \in SUBSET Items : \A i, j \in a : i.ours /\ j.ours => i = j}

AnyItem(items) == \E i \in items : i.ok  \* mutant: whichever item says Ok
Accepted(items) ==
  LET matched == {i \in items : i.ours}
  IN  matched # {} /\ \A i \in matched : i.ok
IsRefusal(items) == \E i \in items : i.ours /\ ~i.ok
-----------------------------------------------------------------------------
NoRow == [status |-> "none", code |-> "101", bank |-> NoCode]
Row(status, code, bank) == [status |-> status, code |-> code, bank |-> bank]
IsRegistered == sep.status # "none"

Init ==
  /\ sep = NoRow
  /\ report = NoRow
  /\ closed = FALSE
  /\ phase = "new"
  /\ attempts = 0
  /\ callFailures = 0
  /\ lastBankCode = NoCode
  /\ hot = FALSE
  /\ wire = "none"
  /\ told = "no"
  /\ why = "none"
  /\ paid = 0
  /\ sends = 0
  /\ restarts = 0

Tell(what, reason) == told' = what /\ why' = reason
TellsNobody == UNCHANGED <<told, why>>

(***************************************************************************)
(* The job registers the refund.  An answer may be lost, and SEP's         *)
(* "Unknown" may hide a registration; asked again, SEP says "duplicate".   *)
(***************************************************************************)
MaySay(code) ==
  IF IsRegistered
  THEN code \notin {"Success", "ObjectNotFound", "OriginalAmountIncorrect",
                    "NonDepositableDestinationPanCard", "unmapped"}
  ELSE code \notin {"DuplicateRequest", "TransactionStateisFinal"}

Registers(code) ==
  \/ /\ code \in {"Success", "Unknown"}
     /\ ~IsRegistered
     /\ sep' = Row("start", "101", NoCode)
  \/ code # "Success" /\ UNCHANGED sep

Obey(action) ==
  CASE action \in {"done", "wait_for_sep"} -> phase' = "waiting" /\ TellsNobody
    [] action = "retry"                    -> UNCHANGED phase /\ TellsNobody
    [] action = "system"                   -> UNCHANGED phase /\ Tell("fix", action)
    [] action = "manual"                   -> phase' = "human" /\ Tell("pay", action)

Register(code) ==
  /\ phase = "new"
  /\ MaySay(code)
  /\ Registers(code)
  /\ Obey(RegAction(code))
  /\ UNCHANGED <<report, closed, restarts, attempts, callFailures, lastBankCode, hot, wire,
                 paid, sends>>

RegisterUnanswered ==
  /\ phase = "new"
  /\ ~IsRegistered
  /\ sep' = Row("start", "101", NoCode)
  /\ UNCHANGED <<report, closed, restarts, job, wire, person, sends>>

(***************************************************************************)
(* The job reads the report; a failed row it acts on as the tables say.    *)
(* "fail" stands for Fail, Cancel and None.                                *)
(***************************************************************************)
Instruct(row) ==
  IF ExecAction(row.code) = "merchant_funds" THEN "fix"
  ELSE IF ExecOwner(row.code) = "sep_support" THEN "look"
  ELSE "pay"

GiveUp(row, decision) ==
  /\ decision \in {"repeat_rejection", "gave_up_unknown", "gave_up_final"}
  /\ phase' = "human"
  /\ Tell(IF decision = "gave_up_unknown" THEN "look" ELSE "pay", decision)
  /\ UNCHANGED <<lastBankCode, hot, wire, sends>>

SendRefresh(row, decision) ==
  /\ decision = "refresh"
  /\ phase' = "sent"
  /\ hot' = TRUE
  /\ lastBankCode' = row.bank
  /\ wire' = "sent"
  /\ sends' = sends + 1
  /\ TellsNobody

ActOnFailure(row) ==
  LET action == ExecAction(row.code) IN
    \/ /\ action = "done"
       /\ phase' = "closed"
       /\ TellsNobody
       /\ UNCHANGED <<lastBankCode, hot, wire, sends>>
    \/ /\ action \in {"manual", "needs_breakable", "merchant_funds"}
       /\ phase' = IF action = "merchant_funds" THEN phase ELSE "human"
       /\ Tell(Instruct(row), action)
       /\ UNCHANGED <<lastBankCode, hot, wire, sends>>
    \/ action = "refresh" /\ (GiveUp(row, Decide(row)) \/ SendRefresh(row, Decide(row)))

Follow ==
  /\ phase = "waiting"
  /\ \/ /\ report.status = "ok"
        /\ phase' = "closed"
        /\ UNCHANGED <<lastBankCode, hot, wire, told, why, sends>>
     \/ report.status = "fail" /\ ActOnFailure(report)
  /\ UNCHANGED <<sepVars, attempts, callFailures, paid>>

RefreshAnswered(items) ==
  /\ phase = "sent"
  /\ wire \in {"taken", "refused"}
  /\ \A i \in items : i.ours => i.ok = (wire = "taken")
  /\ IF Accepted(items) THEN attempts' = attempts + 1 ELSE UNCHANGED attempts
  /\ IF Accepted(items) \/ IsRefusal(items) THEN UNCHANGED callFailures
                                            ELSE callFailures' = callFailures + 1
  /\ IF IsRefusal(items) /\ ~Accepted(items)
     THEN phase' = "human" /\ Tell("pay", "refused")
     ELSE phase' = "waiting" /\ TellsNobody
  /\ wire' = "none"
  /\ UNCHANGED <<sepVars, lastBankCode, hot, paid, sends>>

RefreshUnanswered ==
  /\ phase = "sent"
  /\ phase' = "waiting"
  /\ callFailures' = callFailures + 1
  /\ wire' = IF wire = "sent" THEN "sent" ELSE "none"  \* SEP may still take it
  /\ UNCHANGED <<sepVars, attempts, lastBankCode, hot, person, sends>>

(***************************************************************************)
(* SEP.  A refresh puts the refund back to Start, whatever its state.  A   *)
(* cycle pays it or fails it; after 112 and 122 nobody knows which, and    *)
(* 118 says that it had been paid.  The cooldown outlasts the wire and the *)
(* report's lag.                                                           *)
(***************************************************************************)
Unread(outcome) == IF phase = "sent" THEN outcome ELSE "none"
Bump(n) == IF n = 0 THEN 1 ELSE 2

SepTakes ==
  /\ wire = "sent"
  /\ IF closed
     THEN wire' = Unread("refused") /\ UNCHANGED <<sep, restarts>>
     ELSE /\ wire' = Unread("taken")
          /\ sep' = Row("start", sep.code, sep.bank)
          /\ restarts' = restarts + 1
  /\ UNCHANGED <<report, closed, job, person, sends>>

SepMisses ==
  /\ wire = "sent"
  /\ wire' = Unread("lost")
  /\ UNCHANGED <<sepVars, job, person, sends>>

SepCycle ==
  /\ sep.status = "start"
  /\ \E code \in ExecCodes, bank \in BankCodes :
       /\ code = "118" => paid > 0
       /\ bank = NoCode \/ ExecAction(code) = "refresh"  \* no other row's is ever compared
       /\ sep' = Row(IF code = "101" THEN "ok" ELSE "fail", code, bank)
       /\ \/ code \in {"101", "112", "122"} /\ paid' = Bump(paid)
          \/ code # "101" /\ UNCHANGED paid
  /\ UNCHANGED <<report, closed, restarts, job, wire, told, why, sends>>

SepCloses ==
  /\ sep.status = "fail"
  /\ ~closed
  /\ closed' = TRUE
  /\ UNCHANGED <<sep, report, restarts, job, wire, person, sends>>

SepResumes ==  \* the person who was told has charged the merchant's card
  /\ told = "fix"
  /\ sep.status = "fail"
  /\ ExecAction(sep.code) = "merchant_funds"
  /\ sep' = Row("start", sep.code, sep.bank)
  /\ UNCHANGED <<report, closed, restarts, job, wire, person, sends>>

ReportFollows ==
  /\ report # sep
  /\ report' = sep
  /\ UNCHANGED <<sep, closed, restarts, job, wire, person, sends>>

CooldownEnds ==
  /\ hot
  /\ phase # "sent" /\ wire = "none" /\ report = sep
  /\ hot' = FALSE
  /\ UNCHANGED <<sepVars, phase, attempts, callFailures, lastBankCode, wire, person, sends>>

(* A person who was told to look pays only what SEP has not and will not.  *)
PayByHand ==
  /\ told = "pay" \/ (told = "look" /\ paid = 0 /\ sep.status # "start")
  /\ paid' = Bump(paid)
  /\ told' = "paid"
  /\ UNCHANGED <<sepVars, job, why, wire, sends>>

Next ==
  \/ \E code \in RegCodes : Register(code)
  \/ RegisterUnanswered \/ Follow \/ RefreshUnanswered
  \/ \E items \in Answers : RefreshAnswered(items)
  \/ SepTakes \/ SepMisses \/ SepCycle \/ SepCloses \/ SepResumes
  \/ ReportFollows \/ CooldownEnds \/ PayByHand

(***************************************************************************)
(* Fairness.  The job ticks, its calls time out, SEP works and reports and *)
(* answers a registration with something else than "try again" at last; a  *)
(* person does what they were told.                                        *)
(***************************************************************************)
Fairness ==
  /\ WF_vars(\E code \in RegCodes : RegAction(code) # "retry" /\ Register(code))
  /\ WF_vars(Follow)
  /\ WF_vars(RefreshUnanswered \/ \E items \in Answers : RefreshAnswered(items))
  /\ WF_vars(SepTakes \/ SepMisses)
  /\ WF_vars(SepCycle)
  /\ WF_vars(ReportFollows)
  /\ WF_vars(CooldownEnds)
  /\ WF_vars(PayByHand)

Spec == Init /\ [][Next]_vars
FairSpec == Spec /\ Fairness
-----------------------------------------------------------------------------
(* Every variable has its type.                                            *)
Rows == [status : {"none", "start", "ok", "fail"}, code : ExecCodes, bank : BankCodes]

TypeOK ==
  /\ sep \in Rows /\ report \in Rows
  /\ closed \in BOOLEAN /\ hot \in BOOLEAN
  /\ phase \in {"new", "waiting", "sent", "closed", "human"}
  /\ attempts \in 0..MaxRefreshAttempts
  /\ callFailures \in 0..MaxRefreshCallFailures
  /\ lastBankCode \in BankCodes
  /\ wire \in {"none", "sent", "taken", "refused", "lost"}
  /\ told \in {"no", "fix", "look", "pay", "paid"}
  /\ why \in {"none", "system", "manual", "merchant_funds", "needs_breakable", "refused",
              "repeat_rejection", "gave_up_unknown", "gave_up_final"}
  /\ paid \in 0..2
  /\ sends \in Nat /\ restarts \in Nat

(***************************************************************************)
(* The guest is not paid twice, by SEP and by a person or by SEP alone,    *)
(* though calls are lost, the report lags, and a failed row may hide a     *)
(* payment (classifyRegError, classifyExecFailure, decideRefresh).         *)
(***************************************************************************)
PaidOnce == paid <= 1

(***************************************************************************)
(* SEP is asked to refresh a refund a bounded number of times, answers or  *)
(* not (MAX_REFRESH_ATTEMPTS, MAX_REFRESH_CALL_FAILURES).                  *)
(***************************************************************************)
RefreshesAreBounded == sends < MaxRefreshAttempts + MaxRefreshCallFailures

(***************************************************************************)
(* "Refreshed enough times, each came back Fail" is told only of a refund  *)
(* SEP has really taken up again that often (parseRefreshResponse counts   *)
(* neither a refusal nor an answer about another refund).                  *)
(***************************************************************************)
GaveUpFinalIsTrue == why = "gave_up_final" => restarts >= MaxRefreshAttempts

(***************************************************************************)
(* No refund is silently stuck: the guest gets the money, or somebody is   *)
(* told what keeps every refund from being paid (the note on code 114 in   *)
(* refundErrors.js tells of one that was left alone for twelve days).      *)
(***************************************************************************)
NeverSilent == <>(paid > 0 \/ told = "fix")
=============================================================================
