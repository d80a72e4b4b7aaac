---------------------------- MODULE RefundRefresh ----------------------------
(***************************************************************************)
(* Refreshing a failed SEP refund: sep/refreshClaim.js, refreshGuard.js    *)
(* and the admin route.  A refresh puts a refund back to Start, so a second *)
(* one before the first shows in SEP's report can pay the customer twice.  *)
(* Calls, of the admin route or of the receiver's job, run side by side    *)
(* and stop at every await; SEP works on its own.                          *)
(***************************************************************************)
EXTENDS Naturals

CONSTANTS
  Calls,       \* each asks for one refresh
  Refunds,
  None,
  Shared,      \* the stamps are in a store the receiver plugged in
  Faults,      \* "crash", "store" (it throws), "sep" (a call fails), "answer"
  MaxCrashes

ASSUME RefreshAssumption ==
  /\ None \notin Refunds
  /\ Shared \in BOOLEAN
  /\ Faults \subseteq {"crash", "store", "sep", "answer"}
  /\ MaxCrashes \in Nat

VARIABLES
  refund,      \* SEP's state of each refund; "fail114" is safe to refresh
  report,      \* what SEP's report still says of it
  byHand,      \* refunds the receiver holds: a person pays them
  stamp,       \* when the last refresh was sent: "none", "hot" (cooldown), "old"
  inFlight,    \* claimed refunds
  pc,          \* per call, the await it is at
  of,          \* per call, its refund
  wire,        \* calls whose refresh is on its way to SEP
  twice,       \* refunds SEP put back to Start though they had not failed
  crashes

vars == <<refund, report, byHand, stamp, inFlight, pc, of, wire, twice, crashes>>
sep  == <<refund, report, twice>>

SepState == {"start", "ok", "fail114", "failed"}

Init ==
  /\ refund \in [Refunds -> {"fail114", "start"}]
  /\ report = refund
  /\ byHand = {}
  /\ stamp = [r \in Refunds |-> "none"]
  /\ inFlight = {}
  /\ pc = [c \in Calls |-> "idle"]
  /\ of = [c \in Calls |-> None]
  /\ wire = {}
  /\ twice = {}
  /\ crashes = 0

Goto(c, await) == pc' = [pc EXCEPT ![c] = await] /\ UNCHANGED inFlight

KeepsClaim(c) == inFlight  \* mutant: the claim is not released
Released(c) == inFlight \ {of[c]}

(* The call ends, refused or done; its claim is released on every path.    *)
End(c) == pc' = [pc EXCEPT ![c] = "over"] /\ inFlight' = Released(c)

(***************************************************************************)
(* claimRefresh: no await between the check of the claim and taking it;    *)
(* then the receiver's hold and the last stamp are read, one after the     *)
(* other.  The memory store has no holds.                                  *)
(***************************************************************************)
Unclaimed(r) == TRUE  \* mutant: a claimed refund may be claimed
Claimable(r) == r \notin inFlight

ClaimRefresh(c) ==
  /\ pc[c] = "idle"
  /\ \E r \in Refunds :
       /\ of' = [of EXCEPT ![c] = r]
       /\ IF Claimable(r)
          THEN pc' = [pc EXCEPT ![c] = "hold"] /\ inFlight' = inFlight \cup {r}
          ELSE pc' = [pc EXCEPT ![c] = "over"] /\ UNCHANGED inFlight
  /\ UNCHANGED <<sep, byHand, stamp, wire, crashes>>

AskHold(c) ==
  /\ pc[c] = "hold"
  /\ IF Shared /\ of[c] \in byHand THEN End(c) ELSE Goto(c, "last")
  /\ UNCHANGED <<sep, byHand, stamp, of, wire, crashes>>

NoCooldown(r) == FALSE  \* mutant: the last refresh is not looked at
InCooldown(r) == stamp[r] = "hot"

AskLast(c) ==
  /\ pc[c] = "last"
  /\ IF InCooldown(of[c]) THEN End(c) ELSE Goto(c, "lookup")
  /\ UNCHANGED <<sep, byHand, stamp, of, wire, crashes>>

StoreThrows(c) ==
  /\ "store" \in Faults
  /\ Shared
  /\ pc[c] \in {"hold", "last", "stamp"}
  /\ End(c)
  /\ UNCHANGED <<sep, byHand, stamp, of, wire, crashes>>

(***************************************************************************)
(* refreshWhenSafe: SEP's report must say "Fail" with exec code 114; the   *)
(* stamp is stored before the request goes out.                            *)
(***************************************************************************)
IsRefreshable(state) == state = "fail114"

LookUp(c) ==
  /\ pc[c] = "lookup"
  /\ IF IsRefreshable(report[of[c]]) THEN Goto(c, "stamp") ELSE End(c)
  /\ UNCHANGED <<sep, byHand, stamp, of, wire, crashes>>

LookUpFails(c) ==
  /\ "sep" \in Faults
  /\ pc[c] = "lookup"
  /\ End(c)
  /\ UNCHANGED <<sep, byHand, stamp, of, wire, crashes>>

Stamped(r) == [stamp EXCEPT ![r] = "hot"]

StampAndSend(c) ==
  /\ pc[c] = "stamp"
  /\ stamp' = Stamped(of[c])
  /\ wire' = wire \cup {c}
  /\ Goto(c, "sent")
  /\ UNCHANGED <<sep, byHand, of, crashes>>

SendEnds(c) ==
  /\ pc[c] = "sent"
  /\ c \notin wire \/ "answer" \in Faults  \* a timeout: SEP may still take it
  /\ End(c)
  /\ UNCHANGED <<sep, byHand, stamp, of, wire, crashes>>

(***************************************************************************)
(* SEP.  A refresh puts the refund back to Start, whatever its state; a    *)
(* cycle then pays it or fails it; the report follows.  The cooldown of    *)
(* thirty minutes is longer than a cycle, so when it ends no request is on *)
(* its way and the report is up to date.                                   *)
(***************************************************************************)
SepTakes(c) ==
  /\ c \in wire
  /\ wire' = wire \ {c}
  /\ refund' = [refund EXCEPT ![of[c]] = "start"]
  /\ twice' = IF refund[of[c]] = "fail114" THEN twice ELSE twice \cup {of[c]}
  /\ UNCHANGED <<report, byHand, stamp, inFlight, pc, of, crashes>>

SepMisses(c) ==
  /\ "sep" \in Faults
  /\ c \in wire
  /\ wire' = wire \ {c}
  /\ UNCHANGED <<sep, byHand, stamp, inFlight, pc, of, crashes>>

SepCycle(r) ==
  /\ refund[r] = "start"
  /\ \E state \in {"ok", "fail114", "failed"} : refund' = [refund EXCEPT ![r] = state]
  /\ UNCHANGED <<report, twice, byHand, stamp, inFlight, pc, of, wire, crashes>>

ReportFollows(r) ==
  /\ report[r] # refund[r]
  /\ report' = [report EXCEPT ![r] = refund[r]]
  /\ UNCHANGED <<refund, twice, byHand, stamp, inFlight, pc, of, wire, crashes>>

CooldownEnds(r) ==
  /\ stamp[r] = "hot"
  /\ report[r] = refund[r]
  /\ \A c \in wire : of[c] # r
  /\ stamp' = [stamp EXCEPT ![r] = "old"]
  /\ UNCHANGED <<sep, byHand, inFlight, pc, of, wire, crashes>>

TakenByHand(r) ==
  /\ Shared
  /\ r \notin byHand
  /\ byHand' = byHand \cup {r}
  /\ UNCHANGED <<sep, stamp, inFlight, pc, of, wire, crashes>>

(* The process dies: claims and calls are gone, a request sent is not.     *)
Crash ==
  /\ "crash" \in Faults
  /\ crashes < MaxCrashes
  /\ crashes' = crashes + 1
  /\ inFlight' = {}
  /\ pc' = [c \in Calls |-> IF pc[c] = "idle" THEN "idle" ELSE "over"]
  /\ stamp' = IF Shared THEN stamp ELSE [r \in Refunds |-> "none"]
  /\ UNCHANGED <<sep, byHand, of, wire>>

SepCall(c) == LookUp(c) \/ LookUpFails(c) \/ SendEnds(c)
StoreCall(c) == AskHold(c) \/ AskLast(c) \/ StampAndSend(c) \/ StoreThrows(c)
Call(c) == SepCall(c) \/ StoreCall(c)

Next ==
  \/ \E c \in Calls : ClaimRefresh(c) \/ Call(c) \/ SepTakes(c) \/ SepMisses(c)
  \/ \E r \in Refunds : SepCycle(r) \/ ReportFollows(r) \/ CooldownEnds(r) \/ TakenByHand(r)
  \/ Crash

Spec == Init /\ [][Next]_vars

(***************************************************************************)
(* Every call to SEP ends within thirty seconds.  The memory store answers *)
(* at once; a store the receiver plugged in is awaited without a timeout,  *)
(* so nothing says that its answer ever comes.                             *)
(***************************************************************************)
Fairness ==
  \A c \in Calls :
    /\ WF_vars(SepCall(c))
    /\ WF_vars(SepTakes(c) \/ SepMisses(c))
    /\ ~Shared => WF_vars(StoreCall(c))

FairSpec == Spec /\ Fairness
-----------------------------------------------------------------------------
Holds(c) == pc[c] \in {"hold", "last", "lookup", "stamp", "sent"}

(* Every variable has its type.                                            *)
TypeOK ==
  /\ refund \in [Refunds -> SepState]
  /\ report \in [Refunds -> SepState]
  /\ byHand \subseteq Refunds
  /\ stamp \in [Refunds -> {"none", "hot", "old"}]
  /\ inFlight \subseteq Refunds
  /\ pc \in [Calls -> {"idle", "hold", "last", "lookup", "stamp", "sent", "over"}]
  /\ of \in [Calls -> Refunds \cup {None}]
  /\ \A c \in Calls : Holds(c) => of[c] \in Refunds
  /\ wire \subseteq Calls
  /\ twice \subseteq Refunds
  /\ crashes \in 0..MaxCrashes

(***************************************************************************)
(* No refund is put back to Start unless it had failed: not while another  *)
(* refresh works on it, and not after it was paid, though calls race, SEP's *)
(* report lags and answers are lost (claimRefresh, refreshWhenSafe).       *)
(***************************************************************************)
NeverTwice == twice = {}

(***************************************************************************)
(* No refresh is sent for a refund the receiver already holds, because a   *)
(* person pays it by hand (the comment on hold in refreshClaim.js).  Not   *)
(* true of the code, and in no run: README, section 7.                     *)
(***************************************************************************)
HoldStopsRefresh == [][\A c \in wire' \ wire : of[c] \notin byHand]_vars

(* One call at a time works on a refund, and it holds the claim.           *)
ClaimIsExclusive ==
  /\ \A c \in Calls : Holds(c) => of[c] \in inFlight
  /\ \A c, d \in Calls : c # d /\ Holds(c) /\ Holds(d) => of[c] # of[d]

(***************************************************************************)
(* A claim ends, whatever throws, unless a plugged-in store never answers  *)
(* the call that holds it: that await has no timeout (refreshClaim.js), and *)
(* the refund is then locked until the process starts again.               *)
(***************************************************************************)
AwaitsStore(r) == Shared /\ \E c \in Calls : of[c] = r /\ pc[c] \in {"hold", "last", "stamp"}

ClaimEnds == \A r \in Refunds : r \in inFlight ~> (r \notin inFlight \/ []AwaitsStore(r))
=============================================================================
