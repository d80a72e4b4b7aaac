------------------------- MODULE RefundRefreshProofs -------------------------
(* Why no refund is refreshed twice, for any number of calls and refunds.  *)
EXTENDS RefundRefresh, TLAPS

(* Stamps survive a restart, or there is none: the memory store loses them. *)
StampsLast == Shared \/ "crash" \notin Faults

(***************************************************************************)
(* The inductive invariant.  A refund out of its cooldown has no request   *)
(* under way, and what SEP's report says of it may be relied on; a call    *)
(* past the cooldown's check keeps it out of the cooldown, because it      *)
(* holds the claim; a request under way finds its refund as it was.        *)
(***************************************************************************)
OutOfCooldown ==
  \A r \in Refunds : stamp[r] # "hot" =>
    /\ report[r] = "fail114" => refund[r] = "fail114"
    /\ \A c \in wire : of[c] # r

PastCheck ==
  \A c \in Calls :
    /\ pc[c] \in {"lookup", "stamp"} => stamp[of[c]] # "hot"
    /\ pc[c] = "stamp" => refund[of[c]] = "fail114"

UnderWay ==
  /\ \A c \in wire :
       pc[c] \in {"sent", "over"} /\ of[c] \in Refunds /\ refund[of[c]] = "fail114"
  /\ \A c, d \in wire : of[c] = of[d] => c = d

IInv == TypeOK /\ ClaimIsExclusive /\ OutOfCooldown /\ PastCheck /\ UnderWay /\ NeverTwice

USE RefreshAssumption
USE DEF SepState, Released, Claimable, InCooldown, IsRefreshable, Stamped, Holds, sep

(* The invariant holds at the start.                                       *)
LEMMA InitInv == Init => IInv
BY DEF Init, IInv, TypeOK, ClaimIsExclusive, OutOfCooldown, PastCheck, UnderWay, NeverTwice

(* Types and claims.                                                       *)
LEMMA ClaimRefreshInv == ASSUME NEW c \in Calls, IInv, ClaimRefresh(c) PROVE IInv'
<1>1. TypeOK' /\ ClaimIsExclusive'
  BY DEF ClaimRefresh, IInv, TypeOK, ClaimIsExclusive
<1>2. OutOfCooldown' /\ PastCheck' /\ UnderWay' /\ NeverTwice'
  BY DEF ClaimRefresh, IInv, TypeOK, OutOfCooldown, PastCheck, UnderWay, NeverTwice
<1> QED
  BY <1>1, <1>2 DEF IInv

(* A call that stops gives back its claim and nothing else.                *)
LEMMA EndInv ==
  ASSUME NEW c \in Calls, IInv, Holds(c), End(c),
         UNCHANGED <<sep, byHand, stamp, of, wire, crashes>>
  PROVE  IInv'
<1>1. TypeOK' /\ ClaimIsExclusive'
  BY DEF End, IInv, TypeOK, ClaimIsExclusive
<1>2. OutOfCooldown' /\ PastCheck' /\ UnderWay' /\ NeverTwice'
  BY DEF End, IInv, TypeOK, OutOfCooldown, PastCheck, UnderWay, NeverTwice
<1> QED
  BY <1>1, <1>2 DEF IInv

(* A call that goes on to its next await before anything is sent.          *)
LEMMA GotoInv ==
  ASSUME NEW c \in Calls, IInv, Holds(c),
         NEW await \in {"last", "lookup", "stamp"}, Goto(c, await), c \notin wire,
         await \in {"lookup", "stamp"} => stamp[of[c]] # "hot",
         await = "stamp" => refund[of[c]] = "fail114",
         UNCHANGED <<sep, byHand, stamp, of, wire, crashes>>
  PROVE  IInv'
<1>1. TypeOK' /\ ClaimIsExclusive'
  BY DEF Goto, IInv, TypeOK, ClaimIsExclusive
<1>2. OutOfCooldown' /\ PastCheck' /\ UnderWay' /\ NeverTwice'
  BY DEF Goto, IInv, TypeOK, OutOfCooldown, PastCheck, UnderWay, NeverTwice
<1> QED
  BY <1>1, <1>2 DEF IInv

(* The claim kept every other call of the refund away since its last stamp *)
(* was read, so the lookup's answer still holds when the request goes out. *)
LEMMA StampAndSendInv == ASSUME NEW c \in Calls, IInv, StampAndSend(c) PROVE IInv'
<1> DEFINE r == of[c]
<1>1. /\ pc[c] = "stamp" /\ r \in Refunds /\ stamp[r] # "hot" /\ refund[r] = "fail114"
      /\ \A d \in wire : of[d] # r
  BY DEF StampAndSend, IInv, TypeOK, OutOfCooldown, PastCheck
<1>2. \A d \in Calls : d # c /\ Holds(d) => of[d] # r
  BY <1>1 DEF IInv, ClaimIsExclusive
<1>3. TypeOK' /\ ClaimIsExclusive'
  BY <1>1 DEF StampAndSend, Goto, IInv, TypeOK, ClaimIsExclusive
<1>4. OutOfCooldown' /\ PastCheck'
  BY <1>1, <1>2 DEF StampAndSend, Goto, IInv, TypeOK, OutOfCooldown, PastCheck
<1>5. UnderWay' /\ NeverTwice'
  BY <1>1 DEF StampAndSend, Goto, IInv, TypeOK, UnderWay, NeverTwice
<1> QED
  BY <1>3, <1>4, <1>5 DEF IInv

(* Every step of a call.                                                   *)
LEMMA CallInv == ASSUME NEW c \in Calls, IInv, Call(c) PROVE IInv'
<1>1. ASSUME Holds(c), pc[c] # "sent" PROVE c \notin wire
  BY <1>1 DEF IInv, TypeOK, UnderWay
<1>2. CASE AskHold(c)
  BY <1>1, <1>2, EndInv, GotoInv DEF AskHold
<1>3. CASE AskLast(c)
  BY <1>1, <1>3, EndInv, GotoInv DEF AskLast
<1>4. CASE LookUp(c)
  <2>1. report[of[c]] = "fail114" => refund[of[c]] = "fail114"
    BY <1>4 DEF LookUp, IInv, TypeOK, OutOfCooldown, PastCheck
  <2>2. stamp[of[c]] # "hot"
    BY <1>4 DEF LookUp, IInv, PastCheck
  <2> QED
    BY <1>1, <1>4, <2>1, <2>2, EndInv, GotoInv DEF LookUp
<1>5. CASE LookUpFails(c)
  BY <1>5, EndInv DEF LookUpFails
<1>6. CASE StampAndSend(c)
  BY <1>6, StampAndSendInv
<1>7. CASE StoreThrows(c)
  BY <1>7, EndInv DEF StoreThrows
<1>8. CASE SendEnds(c)
  BY <1>8, EndInv DEF SendEnds
<1> QED
  BY <1>2, <1>3, <1>4, <1>5, <1>6, <1>7, <1>8 DEF Call, SepCall, StoreCall

(* SEP puts the refund back to Start: it was the only request for it.      *)
LEMMA SepTakesInv == ASSUME NEW c \in Calls, IInv, SepTakes(c) PROVE IInv'
<1> DEFINE r == of[c]
<1>1. /\ c \in wire /\ r \in Refunds /\ refund[r] = "fail114" /\ stamp[r] = "hot"
      /\ \A d \in wire : d # c => of[d] # r
  BY DEF SepTakes, IInv, TypeOK, UnderWay, OutOfCooldown
<1>2. TypeOK' /\ ClaimIsExclusive' /\ NeverTwice'
  BY <1>1 DEF SepTakes, IInv, TypeOK, ClaimIsExclusive, NeverTwice
<1>3. OutOfCooldown' /\ PastCheck' /\ UnderWay'
  BY <1>1 DEF SepTakes, IInv, TypeOK, OutOfCooldown, PastCheck, UnderWay
<1> QED
  BY <1>2, <1>3 DEF IInv

(* A request is lost.                                                      *)
LEMMA SepMissesInv == ASSUME NEW c \in Calls, IInv, SepMisses(c) PROVE IInv'
BY DEF SepMisses, IInv, TypeOK, ClaimIsExclusive, OutOfCooldown, PastCheck, UnderWay, NeverTwice

(* SEP's cycle, its report, the time and a person.                         *)
LEMMA EnvironmentInv ==
  ASSUME IInv, NEW r \in Refunds,
         SepCycle(r) \/ ReportFollows(r) \/ CooldownEnds(r) \/ TakenByHand(r)
  PROVE  IInv'
<1>1. CASE SepCycle(r)
  <2>1. TypeOK' /\ ClaimIsExclusive' /\ NeverTwice'
    BY <1>1 DEF SepCycle, IInv, TypeOK, ClaimIsExclusive, NeverTwice
  <2>2. OutOfCooldown' /\ PastCheck' /\ UnderWay'
    BY <1>1 DEF SepCycle, IInv, TypeOK, OutOfCooldown, PastCheck, UnderWay
  <2> QED
    BY <2>1, <2>2 DEF IInv
<1>2. CASE ReportFollows(r)
  BY <1>2 DEF ReportFollows, IInv, TypeOK, ClaimIsExclusive, OutOfCooldown, PastCheck,
     UnderWay, NeverTwice
<1>3. CASE CooldownEnds(r)
  <2>1. TypeOK' /\ ClaimIsExclusive' /\ NeverTwice'
    BY <1>3 DEF CooldownEnds, IInv, TypeOK, ClaimIsExclusive, NeverTwice
  <2>2. OutOfCooldown' /\ PastCheck' /\ UnderWay'
    BY <1>3 DEF CooldownEnds, IInv, TypeOK, OutOfCooldown, PastCheck, UnderWay
  <2> QED
    BY <2>1, <2>2 DEF IInv
<1>4. CASE TakenByHand(r)
  BY <1>4 DEF TakenByHand, IInv, TypeOK, ClaimIsExclusive, OutOfCooldown, PastCheck,
     UnderWay, NeverTwice
<1> QED
  BY <1>1, <1>2, <1>3, <1>4

(* A restart forgets the claims with the calls that held them; the stamps  *)
(* stay, so a request still under way keeps its refund in the cooldown.    *)
LEMMA CrashInv == ASSUME StampsLast, IInv, Crash PROVE IInv'
<1>1. TypeOK' /\ ClaimIsExclusive' /\ NeverTwice'
  BY DEF StampsLast, Crash, IInv, TypeOK, ClaimIsExclusive, NeverTwice
<1>2. OutOfCooldown' /\ PastCheck' /\ UnderWay'
  BY DEF StampsLast, Crash, IInv, TypeOK, OutOfCooldown, PastCheck, UnderWay
<1> QED
  BY <1>1, <1>2 DEF IInv

(* The invariant holds for ever.                                           *)
LEMMA Invariance == ASSUME StampsLast PROVE Spec => []IInv
<1>1. IInv /\ [Next]_vars => IInv'
  <2> SUFFICES ASSUME IInv, [Next]_vars PROVE IInv'
    OBVIOUS
  <2>1. CASE \E c \in Calls : ClaimRefresh(c) \/ Call(c) \/ SepTakes(c) \/ SepMisses(c)
    BY <2>1, ClaimRefreshInv, CallInv, SepTakesInv, SepMissesInv
  <2>2. CASE \E r \in Refunds : SepCycle(r) \/ ReportFollows(r) \/ CooldownEnds(r) \/ TakenByHand(r)
    BY <2>2, EnvironmentInv
  <2>3. CASE Crash
    BY <2>3, CrashInv
  <2>4. CASE UNCHANGED vars
    BY <2>4 DEF vars, IInv, TypeOK, ClaimIsExclusive, OutOfCooldown, PastCheck, UnderWay, NeverTwice
  <2> QED
    BY <2>1, <2>2, <2>3, <2>4 DEF Next
<1> QED
  BY <1>1, InitInv, PTL DEF Spec

(* No refund is put back to Start unless it had failed.                    *)
THEOREM RefundedOnce == ASSUME StampsLast PROVE Spec => []NeverTwice
<1>1. IInv => NeverTwice
  BY DEF IInv
<1> QED
  BY <1>1, Invariance, PTL

(***************************************************************************)
(* Types and claims do not need the stamps: they survive a restart of the  *)
(* memory store too, which loses every stamp.                              *)
(***************************************************************************)
OnTheWire == \A c \in wire : pc[c] \in {"sent", "over"} /\ of[c] \in Refunds

ClaimInv == TypeOK /\ ClaimIsExclusive /\ OnTheWire

LEMMA ClaimEndInv ==
  ASSUME NEW c \in Calls, ClaimInv, Holds(c),
         \/ End(c)
         \/ \E await \in {"last", "lookup", "stamp"} : Goto(c, await) /\ c \notin wire,
         UNCHANGED <<sep, byHand, stamp, of, wire, crashes>>
  PROVE  ClaimInv'
<1>1. CASE End(c)
  BY <1>1 DEF End, ClaimInv, TypeOK, ClaimIsExclusive, OnTheWire
<1>2. CASE \E await \in {"last", "lookup", "stamp"} : Goto(c, await) /\ c \notin wire
  BY <1>2 DEF Goto, ClaimInv, TypeOK, ClaimIsExclusive, OnTheWire
<1> QED
  BY <1>1, <1>2

LEMMA ClaimCallInv == ASSUME NEW c \in Calls, ClaimInv, Call(c) PROVE ClaimInv'
<1>1. ASSUME pc[c] \in {"hold", "last", "lookup", "stamp"} PROVE c \notin wire
  BY <1>1 DEF ClaimInv, OnTheWire
<1>2. CASE StampAndSend(c)
  BY <1>2 DEF StampAndSend, Goto, ClaimInv, TypeOK, ClaimIsExclusive, OnTheWire
<1>3. CASE AskHold(c)
  BY <1>1, <1>3, ClaimEndInv DEF AskHold
<1>4. CASE AskLast(c)
  BY <1>1, <1>4, ClaimEndInv DEF AskLast
<1>5. CASE LookUp(c)
  BY <1>1, <1>5, ClaimEndInv DEF LookUp
<1>6. CASE LookUpFails(c) \/ StoreThrows(c) \/ SendEnds(c)
  BY <1>6, ClaimEndInv DEF LookUpFails, StoreThrows, SendEnds
<1> QED
  BY <1>2, <1>3, <1>4, <1>5, <1>6 DEF Call, SepCall, StoreCall

LEMMA ClaimStep == ASSUME ClaimInv, [Next]_vars PROVE ClaimInv'
<1>1. ASSUME NEW c \in Calls, ClaimRefresh(c) PROVE ClaimInv'
  BY <1>1 DEF ClaimRefresh, ClaimInv, TypeOK, ClaimIsExclusive, OnTheWire
<1>2. ASSUME NEW c \in Calls, SepTakes(c) \/ SepMisses(c) PROVE ClaimInv'
  BY <1>2 DEF SepTakes, SepMisses, ClaimInv, TypeOK, ClaimIsExclusive, OnTheWire
<1>3. ASSUME NEW r \in Refunds,
             SepCycle(r) \/ ReportFollows(r) \/ CooldownEnds(r) \/ TakenByHand(r)
      PROVE  ClaimInv'
  BY <1>3 DEF SepCycle, ReportFollows, CooldownEnds, TakenByHand, ClaimInv, TypeOK,
     ClaimIsExclusive, OnTheWire
<1>4. CASE Crash
  BY <1>4 DEF Crash, ClaimInv, TypeOK, ClaimIsExclusive, OnTheWire
<1>5. CASE UNCHANGED vars
  BY <1>5 DEF vars, ClaimInv, TypeOK, ClaimIsExclusive, OnTheWire
<1> QED
  BY <1>1, <1>2, <1>3, <1>4, <1>5, ClaimCallInv DEF Next

LEMMA ClaimInvariance == Spec => []ClaimInv
<1>1. Init => ClaimInv
  BY DEF Init, ClaimInv, TypeOK, ClaimIsExclusive, OnTheWire
<1> QED
  BY <1>1, ClaimStep, PTL DEF Spec

(* Every variable has its type, with either store and whatever fails.      *)
THEOREM TypeCorrect == Spec => []TypeOK
<1>1. ClaimInv => TypeOK
  BY DEF ClaimInv
<1> QED
  BY <1>1, ClaimInvariance, PTL

(* One call at a time works on a refund, and it holds the claim, with      *)
(* either store and after any restart.                                     *)
THEOREM OneWorksOnARefund == Spec => []ClaimIsExclusive
<1>1. ClaimInv => ClaimIsExclusive
  BY DEF ClaimInv
<1> QED
  BY <1>1, ClaimInvariance, PTL
=============================================================================
