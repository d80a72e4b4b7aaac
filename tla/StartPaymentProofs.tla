------------------------- MODULE StartPaymentProofs -------------------------
(* Why a key has one answer, for any number of calls, keys and prices.     *)
EXTENDS StartPayment, TLAPS

(***************************************************************************)
(* The inductive invariant.  A key is running, or has an answer, or is     *)
(* free: a running key has one call at the banks and no answer, and a call *)
(* that was told a result was told the one answer kept for its key.        *)
(***************************************************************************)
Shape ==
  /\ pc \in [Calls -> {"idle", "asking", "over", "old"}]
  /\ key \in [Calls -> Keys \cup {None}]
  /\ answer = [c \in Calls |-> answer[c]]
  /\ \A c \in Calls : pc[c] \in {"idle", "asking"} => answer[c] = NoAnswer

OneRuns ==
  /\ \A c \in Calls : pc[c] = "asking" /\ key[c] # None => key[c] \in inFlight
  /\ \A c, d \in Calls :
       pc[c] = "asking" /\ pc[d] = "asking" /\ key[c] = key[d] /\ key[c] # None => c = d

OneKept ==
  /\ \A e \in kept : e.key \notin inFlight
  /\ \A e, f \in kept : e.key = f.key => e = f

ToldIsKept ==
  \A c \in Calls : HasResult(c) /\ key[c] # None =>
    \E e \in kept : e.key = key[c] /\ e.answer = answer[c]

IInv == Shape /\ OneRuns /\ OneKept /\ ToldIsKept

USE StartAssumption DEF HasResult, IsNew, Known, Loaded, Said, NoAnswer

(* The invariant holds at the start.                                       *)
LEMMA InitInv == Init => IInv
BY DEF Init, KeysInit, IInv, Shape, OneRuns, OneKept, ToldIsKept

(* A key that ends: whatever call it is of, it was running or free, so no  *)
(* answer of it is known to anybody yet.                                   *)
LEMMA FinishKept ==
  ASSUME IInv, NEW k \in Keys, NEW meaning, NEW a,
         \A e \in kept : e.key # k, Finish(k, meaning, a, "ok")
  PROVE  /\ OneKept'
         /\ inFlight' = inFlight \ {k}
         /\ kept \subseteq kept'
         /\ Keeps(a) => \E e \in kept' : e.key = k /\ e.answer = a
<1> DEFINE n == [key |-> k, meaning |-> meaning, answer |-> a]
<1>1. n.key = k /\ n.answer = a
  OBVIOUS
<1>2. inFlight' = inFlight \ {k}
  BY DEF Finish, Released
<1>3. CASE ~Keeps(a)
  BY <1>2, <1>3 DEF Finish, IInv, OneKept
<1>4. CASE Keeps(a)
  <2>1. kept' = kept \cup {n}
    BY <1>4 DEF Finish, Stored, Without
  <2> HIDE DEF n
  <2> QED
    BY <1>1, <1>2, <2>1 DEF IInv, OneKept
<1> QED
  BY <1>3, <1>4

(* A call without the secret, or with a malformed key.                     *)
LEMMA TurnAwayInv == ASSUME NEW c \in Calls, IInv, TurnAway(c) PROVE IInv'
BY DEF TurnAway, Answered, IInv, Shape, OneRuns, OneKept, ToldIsKept

(* A key that is known or running: the call is told what is kept, or that  *)
(* it may not go on.                                                       *)
LEMMA AnswerForKeyInv ==
  ASSUME NEW c \in Calls, NEW k \in Keys, IInv, AnswerForKey(c, k, "ok")
  PROVE  IInv'
<1>1. PICK a : /\ Answered(c, a)
               /\ a.status \in {"started", "refused"} =>
                    \E e \in kept : e.key = k /\ e.answer = a
  <2>1. CASE \E e \in kept : e.key = k /\ Answered(c, e.answer)
    BY <2>1
  <2>2. CASE Answered(c, Said("key reused")) \/ Answered(c, Said("in progress"))
    <3>1. /\ Said("key reused").status \notin {"started", "refused"}
          /\ Said("in progress").status \notin {"started", "refused"}
      OBVIOUS
    <3> QED
      BY <2>2, <3>1
  <2> QED
    BY <2>1, <2>2 DEF AnswerForKey, SameCall
<1>2. UNCHANGED <<kept, inFlight>> /\ pc[c] = "idle" /\ key' = [key EXCEPT ![c] = k]
  BY DEF AnswerForKey
<1>3. Shape' /\ OneRuns' /\ OneKept'
  BY <1>1, <1>2 DEF Answered, IInv, Shape, OneRuns, OneKept
<1>4. ToldIsKept'
  BY <1>1, <1>2 DEF Answered, IInv, Shape, ToldIsKept
<1> QED
  BY <1>3, <1>4 DEF IInv

(* A new call begins to run.                                               *)
LEMMA AskInv ==
  ASSUME NEW c \in Calls, NEW k \in Keys \cup {None}, IInv, Ask(c, k, "ok")
  PROVE  IInv'
<1>1. /\ pc[c] = "idle" /\ kept' = kept /\ answer' = answer
      /\ pc' = [pc EXCEPT ![c] = "asking"] /\ key' = [key EXCEPT ![c] = k]
      /\ IF k = None THEN inFlight' = inFlight
         ELSE IsNew(k, "ok") /\ inFlight' = inFlight \cup {k}
  BY DEF Ask, Begin
<1>2. Shape' /\ OneKept' /\ ToldIsKept'
  BY <1>1 DEF IInv, Shape, OneKept, ToldIsKept
<1>3. OneRuns'
  BY <1>1 DEF IInv, Shape, OneRuns
<1> QED
  BY <1>2, <1>3 DEF IInv

(* A call that ends with an answer of its own: its key had none.           *)
LEMMA EndsWith ==
  ASSUME IInv, NEW c \in Calls, NEW k \in Keys \cup {None}, NEW a,
         NEW meaning,
         \/ pc[c] = "asking" /\ key[c] = k
         \/ pc[c] = "idle" /\ (k # None => IsNew(k, "ok")),
         IF k = None THEN UNCHANGED <<kept, inFlight>> ELSE Finish(k, meaning, a, "ok"),
         key' = [key EXCEPT ![c] = k], Answered(c, a),
         a.status \in {"started", "refused"} => Keeps(a)
  PROVE  IInv'
<1>1. Shape'
  BY DEF Answered, IInv, Shape
<1>2. CASE k = None
  <2>1. OneRuns' /\ OneKept'
    BY <1>2 DEF Answered, IInv, Shape, OneRuns, OneKept
  <2>2. ToldIsKept'
    BY <1>2 DEF Answered, IInv, Shape, ToldIsKept
  <2> QED
    BY <1>1, <2>1, <2>2 DEF IInv
<1>3. CASE k # None
  <2>1. k \in Keys /\ \A e \in kept : e.key # k
    BY <1>3 DEF IInv, OneRuns, OneKept
  <2>2. /\ OneKept' /\ inFlight' = inFlight \ {k} /\ kept \subseteq kept'
        /\ Keeps(a) => \E e \in kept' : e.key = k /\ e.answer = a
    BY <1>3, <2>1, FinishKept
  <2>3. \A d \in Calls : d # c /\ pc[d] = "asking" => key[d] # k
    BY <1>3 DEF IInv, OneRuns
  <2>4. OneRuns'
    BY <2>2, <2>3 DEF Answered, IInv, Shape, OneRuns
  <2>5. ToldIsKept'
    BY <2>2 DEF Answered, IInv, Shape, ToldIsKept
  <2> QED
    BY <1>1, <2>2, <2>4, <2>5 DEF IInv
<1> QED
  BY <1>2, <1>3

(* A call whose body is refused.                                           *)
LEMMA RejectInv ==
  ASSUME NEW c \in Calls, NEW k \in Keys \cup {None}, IInv, Reject(c, k, "ok", "ok")
  PROVE  IInv'
<1> DEFINE a == Said("refused")
<1>1. a.status = "refused" /\ Keeps(a)
  BY DEF Keeps
<1> HIDE DEF a
<1>2. /\ pc[c] = "idle" /\ (k # None => IsNew(k, "ok")) /\ key' = [key EXCEPT ![c] = k]
      /\ IF k = None THEN UNCHANGED <<kept, inFlight>> ELSE Finish(k, body[c], a, "ok")
      /\ Answered(c, a)
  BY DEF Reject, a
<1> QED
  BY <1>1, <1>2, EndsWith

(* The call at a bank ends.                                                *)
LEMMA EndInv ==
  ASSUME NEW c \in Calls, IInv, pc[c] = "asking", NEW a, End(c, a, "ok"),
         key' = key, a.status \in {"started", "refused"} => Keeps(a)
  PROVE  IInv'
<1>1. key[c] \in Keys \cup {None} /\ key' = [key EXCEPT ![c] = key[c]]
  BY DEF IInv, Shape
<1>2. IF key[c] = None THEN UNCHANGED <<kept, inFlight>> ELSE Finish(key[c], body[c], a, "ok")
  BY DEF End
<1> QED
  BY <1>1, <1>2, EndsWith DEF End

(* A try ends: with a link, with the next bank, or with a failure.         *)
LEMMA TryEndsInv ==
  ASSUME NEW c \in Calls, IInv, TryEnds(c), misses' = 0, misses = 0
  PROVE  IInv'
<1>1. CASE BankAnswers(c, "ok")
  <2> DEFINE a == [status |-> "started", link |-> Link(c)]
  <2>1. a.status \in {"started", "refused"} => Keeps(a)
    BY DEF Keeps
  <2>2. pc[c] = "asking" /\ End(c, a, "ok") /\ key' = key
    BY <1>1 DEF BankAnswers
  <2> HIDE DEF a
  <2> QED
    BY <2>1, <2>2, EndInv
<1>2. ASSUME pc[c] = "asking", key' = key, NextBank(c, "ok") PROVE IInv'
  <2>1. CASE End(c, Said("failed"), "ok")
    <3> DEFINE a == Said("failed")
    <3>1. a.status \in {"started", "refused"} => Keeps(a)
      OBVIOUS
    <3>2. End(c, a, "ok")
      BY <2>1
    <3> HIDE DEF a
    <3> QED
      BY <1>2, <3>1, <3>2, EndInv
  <2>2. CASE UNCHANGED <<kept, inFlight, pc, answer>>
    BY <1>2, <2>2 DEF IInv, Shape, OneRuns, OneKept, ToldIsKept
  <2> QED
    BY <1>2, <2>1, <2>2 DEF NextBank
<1>3. CASE BankRefuses(c, "ok")
  BY <1>2, <1>3 DEF BankRefuses
<1>4. CASE NetworkFails(c, "ok")
  <2>1. CASE UNCHANGED <<kept, inFlight, pc, answer>>
    BY <1>4, <2>1 DEF NetworkFails, IInv, Shape, OneRuns, OneKept, ToldIsKept
  <2> QED
    BY <1>2, <1>4, <2>1 DEF NetworkFails
<1> QED
  BY <1>1, <1>3, <1>4 DEF TryEnds, Uses

(* An answer is forgotten, and with it the time its calls could compare.   *)
LEMMA KeyExpiresInv == ASSUME NEW k \in Keys, IInv, KeyExpires(k) PROVE IInv'
<1>1. /\ kept' = {e \in kept : e.key # k} /\ UNCHANGED <<inFlight, key, answer>>
      /\ pc' = [c \in Calls |-> IF key[c] = k /\ pc[c] = "over" THEN "old" ELSE pc[c]]
  BY DEF KeyExpires, Expire, Without
<1>2. Shape' /\ OneRuns' /\ OneKept'
  BY <1>1 DEF IInv, Shape, OneRuns, OneKept
<1>3. ToldIsKept'
  BY <1>1 DEF IInv, Shape, ToldIsKept
<1> QED
  BY <1>2, <1>3 DEF IInv

(* A restart: the calls that ran are told nothing.                         *)
LEMMA CrashInv == ASSUME IInv, Crash PROVE IInv'
<1>1. /\ inFlight' = {} /\ UNCHANGED <<kept, key, answer>>
      /\ pc' = [c \in Calls |-> IF pc[c] = "asking" THEN "over" ELSE pc[c]]
  BY DEF Crash
<1>2. \A c \in Calls : pc[c] = "asking" => answer[c].status = "none"
  BY DEF IInv, Shape
<1> QED
  BY <1>1, <1>2 DEF IInv, Shape, OneRuns, OneKept, ToldIsKept

(* With no failed use of the file, every step keeps the invariant.         *)
LEMMA StepInv ==
  ASSUME IInv, [Next]_vars, misses = 0, misses' = 0
  PROVE  IInv'
<1>1. ASSUME NEW c \in Calls, Incoming(c) PROVE IInv'
  BY <1>1, TurnAwayInv, AnswerForKeyInv, AskInv, RejectInv DEF Incoming, Uses
<1>2. ASSUME NEW c \in Calls, BankOpens(c) PROVE IInv'
  BY <1>2 DEF BankOpens, callVars, IInv, Shape, OneRuns, OneKept, ToldIsKept
<1>3. ASSUME NEW c \in Calls, TryEnds(c) PROVE IInv'
  BY <1>3, TryEndsInv
<1>4. ASSUME NEW o \in Orders, SessionEnds(o) PROVE IInv'
  BY <1>4 DEF SessionEnds, callVars, IInv, Shape, OneRuns, OneKept, ToldIsKept
<1>5. ASSUME NEW k \in Keys, KeyExpires(k) PROVE IInv'
  BY <1>5, KeyExpiresInv
<1>6. CASE Crash
  BY <1>6, CrashInv
<1>7. CASE UNCHANGED vars
  BY <1>7 DEF vars, callVars, IInv, Shape, OneRuns, OneKept, ToldIsKept
<1> QED
  BY <1>1, <1>2, <1>3, <1>4, <1>5, <1>6, <1>7 DEF Next

(* The failures are only counted up, so a run without one had none before. *)
LEMMA MissesGrow ==
  ASSUME misses \in Nat, [Next]_vars
  PROVE  misses' \in Nat /\ (misses' = 0 => misses = 0)
<1>1. ASSUME NEW c \in Calls, Incoming(c) PROVE misses' \in {misses, misses + 1}
  BY <1>1 DEF Incoming, TurnAway, Uses
<1>2. ASSUME NEW c \in Calls, BankOpens(c) \/ TryEnds(c) PROVE misses' \in {misses, misses + 1}
  BY <1>2 DEF BankOpens, TryEnds, Uses
<1>3. CASE \/ \E o \in Orders : SessionEnds(o)
           \/ \E k \in Keys : KeyExpires(k)
           \/ Crash \/ UNCHANGED vars
  BY <1>3 DEF SessionEnds, KeyExpires, Crash, vars
<1> QED
  BY <1>1, <1>2, <1>3 DEF Next

JInv == misses \in Nat /\ (misses = 0 => IInv)

(* The invariant holds for ever, as long as the file can be used.          *)
LEMMA Invariance == Spec => []JInv
<1>1. Init => JInv
  BY InitInv DEF Init, JInv
<1>2. JInv /\ [Next]_vars => JInv'
  BY StepInv, MissesGrow DEF JInv
<1> QED
  BY <1>1, <1>2, PTL DEF Spec

(* Calls with one key that are told a result are told the same.            *)
THEOREM KeyHasOneAnswer == Spec => []OneAnswerPerKey
<1>1. JInv => OneAnswerPerKey
  BY DEF JInv, IInv, OneKept, ToldIsKept, OneAnswerPerKey
<1> QED
  BY <1>1, Invariance, PTL

(***************************************************************************)
(* Every variable has its type, failed uses of the file or not.  A call at *)
(* a bank has a body worth a payment, so the bank's link is one.           *)
(***************************************************************************)
TInv == TypeOK /\ \A c \in Calls : pc[c] = "asking" => ~Rejected(body[c])

(* A chain is one bank, or SEP and the bank it falls over to.              *)
LEMMA ChainIs ==
  ASSUME NEW g \in Gateways \cup {None}
  PROVE  /\ Chain(g) \in Seq(Gateways)
         /\ Len(Chain(g)) \in {1, 2}
<1>1. ResolveGateway(g) \in Gateways
  BY DEF ResolveGateway, Gateways
<1>2. {"sep", "zarinpal"} \subseteq Gateways
  BY DEF Gateways
<1> QED
  BY <1>1, <1>2 DEF Chain

(* The chain of a call, and its place there.                               *)
LEMMA PlaceInChain ==
  ASSUME TypeOK, NEW c \in Calls
  PROVE  /\ ChainOf(c) \in Seq(Gateways)
         /\ Len(ChainOf(c)) \in {1, 2}
         /\ hop[c] \in 1..Len(ChainOf(c))
         /\ AskedBank(c) \in Gateways
         /\ TriesAt(c) \in Nat \ {0}
<1>1. body[c] \in Bodies /\ hop[c] \in 1..2 /\ hop[c] <= Len(ChainOf(c))
  BY DEF TypeOK
<1>2. body[c].gateway \in Gateways \cup {None}
  BY <1>1
<1>3. ChainOf(c) \in Seq(Gateways) /\ Len(ChainOf(c)) \in {1, 2}
  BY <1>2, ChainIs DEF ChainOf
<1>4. hop[c] \in 1..Len(ChainOf(c))
  BY <1>1, <1>3
<1> QED
  BY <1>3, <1>4 DEF AskedBank, TriesAt

(* What a bank opens for a call is a payment of the call's body.           *)
LEMMA LinkIs ==
  ASSUME TInv, NEW c \in Calls, pc[c] = "asking"
  PROVE  /\ Link(c) \in Links
         /\ Link(c).order = body[c].order /\ Link(c).amount = body[c].amount
         /\ Link(c).gateway = ChainOf(c)[hop[c]] /\ hop[c] \in DOMAIN ChainOf(c)
<1>1. body[c] \in Bodies /\ hop[c] \in 1..2 /\ try[c] \in Nat
  BY DEF TInv, TypeOK
<1>2. body[c].order \in Orders /\ body[c].amount \in Nat
  BY <1>1 DEF TInv, Rejected
<1>3. AskedBank(c) \in Gateways /\ hop[c] \in DOMAIN ChainOf(c)
  BY PlaceInChain DEF TInv
<1>4. Link(c) \in Links
  BY <1>1, <1>2, <1>3 DEF Link, Links
<1> QED
  BY <1>3, <1>4 DEF Link, AskedBank

(* What may be said without a payment is an answer.                        *)
LEMMA SaidIs == ASSUME NEW s \in Statuses PROVE Said(s) \in Answers /\ Said(s).status = s
BY DEF Answers

(***************************************************************************)
(* The four parts of the type invariant, one for the calls, one for the    *)
(* file and the running keys, one for the banks, one for the counters.     *)
(***************************************************************************)
CallsTyped ==
  /\ pc \in [Calls -> {"idle", "asking", "over", "old"}]
  /\ key \in [Calls -> Keys \cup {None}]
  /\ body \in [Calls -> Bodies]
  /\ hop \in [Calls -> 1..2]
  /\ try \in [Calls -> Nat \ {0}]
  /\ \A c \in Calls : hop[c] <= Len(ChainOf(c)) /\ try[c] <= TriesAt(c)
  /\ answer \in [Calls -> Answers]
  /\ \A c \in Calls : pc[c] = "asking" => ~Rejected(body[c])

FileTyped ==
  /\ kept \subseteq [key : Keys, meaning : Bodies, answer : Answers]
  /\ inFlight \subseteq Keys

BanksTyped ==
  /\ opened \subseteq Links
  /\ session \in [Orders -> {None} \cup [amount : Nat, gateway : Gateways]]

Counted == crashes \in 0..MaxCrashes /\ misses \in 0..MaxMisses

LEMMA TypedParts == TInv <=> CallsTyped /\ FileTyped /\ BanksTyped /\ Counted
BY DEF TInv, TypeOK, CallsTyped, FileTyped, BanksTyped, Counted

LEMMA TypedPartsAfter == TInv' <=> CallsTyped' /\ FileTyped' /\ BanksTyped' /\ Counted'
BY DEF TInv, TypeOK, CallsTyped, FileTyped, BanksTyped, Counted

(* The file of answers as one use of it may find it.                       *)
LEMMA FinishTyped ==
  ASSUME FileTyped, NEW k \in Keys, NEW meaning \in Bodies, NEW a \in Answers,
         NEW io, Finish(k, meaning, a, io)
  PROVE  /\ FileTyped'
         /\ inFlight' = inFlight \ {k}
         /\ \A e \in kept' : \/ e \in kept
                             \/ e = [key |-> k, meaning |-> meaning, answer |-> a] /\ Keeps(a)
<1>1. [key |-> k, meaning |-> meaning, answer |-> a]
        \in [key : Keys, meaning : Bodies, answer : Answers]
  OBVIOUS
<1>2. inFlight' = inFlight \ {k}
  BY DEF Finish, Released
<1>3. \A e \in kept' : \/ e \in kept
                       \/ e = [key |-> k, meaning |-> meaning, answer |-> a] /\ Keeps(a)
  BY DEF Finish, Stored, Without
<1> QED
  BY <1>1, <1>2, <1>3 DEF FileTyped

(***************************************************************************)
(* The call ends here: what every way of ending has in common.  It was not *)
(* told anything before, it is told an answer of its type, and the file    *)
(* gains at most that answer, under the call's key and meaning.            *)
(***************************************************************************)
Ends(c, k, a) ==
  /\ pc[c] \in {"idle", "asking"}
  /\ Answered(c, a)
  /\ a \in Answers
  /\ key' = [key EXCEPT ![c] = k]
  /\ UNCHANGED <<body, hop, try, opened>>
  /\ FileTyped'
  /\ inFlight' = IF pc[c] = "asking" THEN inFlight \ {k} ELSE inFlight
  /\ pc[c] = "asking" => k = key[c]
  /\ \A e \in kept' : \/ e \in kept
                      \/ e = [key |-> k, meaning |-> body[c], answer |-> a] /\ Keeps(a)
  /\ a.status # "none"
  /\ a.status = "started" =>
       \/ pc[c] = "asking" /\ Link(c) \in opened /\ a.link = Link(c)
       \/ \E e \in kept : e.meaning = body[c] /\ e.answer = a

LEMMA EndsTyped ==
  ASSUME TInv, NEW c \in Calls, NEW k \in Keys \cup {None}, NEW a, Ends(c, k, a)
  PROVE  CallsTyped' /\ FileTyped'
<1>1. CallsTyped
  BY TypedParts
<1>2. /\ pc' = [pc EXCEPT ![c] = "over"] /\ answer' = [answer EXCEPT ![c] = a]
      /\ key' = [key EXCEPT ![c] = k] /\ UNCHANGED <<body, hop, try>> /\ a \in Answers
  BY DEF Ends, Answered
<1>3. \A d \in Calls : ChainOf(d)' = ChainOf(d) /\ TriesAt(d)' = TriesAt(d)
  BY <1>2 DEF ChainOf, TriesAt, IsLast
<1>4. FileTyped'
  BY DEF Ends
<1> QED
  BY <1>1, <1>2, <1>3, <1>4 DEF CallsTyped

(* A call without the secret, or with a malformed key.                     *)
LEMMA TurnAwayEnds ==
  ASSUME TInv, NEW c \in Calls, TurnAway(c)
  PROVE  Ends(c, key[c], Said("turned away"))
<1>1. "turned away" \in Statuses
  BY DEF Statuses
<1>2. key = [key EXCEPT ![c] = key[c]] /\ FileTyped
  BY TypedParts DEF CallsTyped
<1>3. pc[c] = "idle" /\ Answered(c, Said("turned away"))
      /\ UNCHANGED <<kept, inFlight, key, body, hop, try, opened>>
  BY DEF TurnAway
<1>4. FileTyped'
  BY <1>2, <1>3 DEF FileTyped
<1> HIDE DEF Said
<1> QED
  BY <1>1, <1>2, <1>3, <1>4, SaidIs DEF Ends

(* A key that is known or running.                                         *)
LEMMA AnswerForKeyEnds ==
  ASSUME TInv, \A e \in kept : e.answer.status # "none",
         NEW c \in Calls, NEW k \in Keys, NEW io, AnswerForKey(c, k, io)
  PROVE  \E a : Ends(c, k, a)
<1>1. pc[c] = "idle" /\ key' = [key EXCEPT ![c] = k]
      /\ UNCHANGED <<kept, inFlight, body, hop, try, opened>>
  BY DEF AnswerForKey
<1>2. FileTyped /\ FileTyped'
  BY <1>1, TypedParts DEF FileTyped
<1>3. ASSUME NEW e \in kept, e.meaning = body[c], Answered(c, e.answer)
      PROVE  Ends(c, k, e.answer)
  <2>1. e.answer \in Answers /\ e.answer.status # "none"
    BY <1>2 DEF FileTyped
  <2> QED
    BY <1>1, <1>2, <1>3, <2>1 DEF Ends
<1>4. ASSUME NEW s \in {"key reused", "in progress"}, Answered(c, Said(s))
      PROVE  Ends(c, k, Said(s))
  <2>1. s \in Statuses /\ s # "none" /\ s # "started"
    BY DEF Statuses
  <2>2. Said(s) \in Answers /\ Said(s).status = s
    BY <2>1, SaidIs
  <2> HIDE DEF Said
  <2> QED
    BY <1>1, <1>2, <1>4, <2>1, <2>2 DEF Ends
<1>5. \/ \E e \in kept : e.meaning = body[c] /\ Answered(c, e.answer)
      \/ Answered(c, Said("key reused")) \/ Answered(c, Said("in progress"))
  BY DEF AnswerForKey, SameCall
<1> QED
  BY <1>3, <1>4, <1>5

(* What a call leaves in the file when it ends with an answer of its own.  *)
LEMMA OwnAnswerEnds ==
  ASSUME TInv, NEW c \in Calls, NEW k \in Keys \cup {None}, NEW a \in Answers, NEW io,
         \/ pc[c] = "asking" /\ k = key[c]
         \/ pc[c] = "idle" /\ k \notin inFlight,
         IF k = None THEN UNCHANGED <<kept, inFlight>> ELSE Finish(k, body[c], a, io),
         key' = [key EXCEPT ![c] = k], Answered(c, a),
         UNCHANGED <<body, hop, try, opened>>,
         a.status # "none",
         a.status = "started" => pc[c] = "asking" /\ Link(c) \in opened /\ a.link = Link(c)
  PROVE  Ends(c, k, a)
<1>1. FileTyped /\ body[c] \in Bodies
  BY TypedParts DEF CallsTyped
<1>2. None \notin inFlight
  BY <1>1 DEF FileTyped
<1>3. /\ FileTyped'
      /\ inFlight' = inFlight \ {k}
      /\ \A e \in kept' : \/ e \in kept
                          \/ e = [key |-> k, meaning |-> body[c], answer |-> a] /\ Keeps(a)
  <2>1. CASE k = None
    BY <1>1, <1>2, <2>1 DEF FileTyped
  <2>2. CASE k # None
    BY <1>1, <2>2, FinishTyped
  <2> QED
    BY <2>1, <2>2
<1> QED
  BY <1>3 DEF Ends

LEMMA RejectEnds ==
  ASSUME TInv, NEW c \in Calls, NEW k \in Keys \cup {None}, NEW io, NEW io2,
         Reject(c, k, io, io2)
  PROVE  Ends(c, k, Said("refused"))
<1>1. "refused" \in Statuses /\ k \notin inFlight
  BY TypedParts DEF Statuses, FileTyped, Reject
<1>2. Said("refused") \in Answers /\ Said("refused").status = "refused"
  BY <1>1, SaidIs
<1>3. /\ pc[c] = "idle" /\ key' = [key EXCEPT ![c] = k]
      /\ IF k = None THEN UNCHANGED <<kept, inFlight>>
         ELSE Finish(k, body[c], Said("refused"), io2)
      /\ Answered(c, Said("refused")) /\ UNCHANGED <<body, hop, try, opened>>
  BY DEF Reject
<1> HIDE DEF Said
<1> QED
  BY <1>1, <1>2, <1>3, OwnAnswerEnds

(* The call at a bank ends.                                                *)
LEMMA EndEnds ==
  ASSUME TInv, NEW c \in Calls, pc[c] = "asking", NEW a \in Answers, NEW io, End(c, a, io),
         UNCHANGED <<key, body, hop, try, opened>>, a.status # "none",
         a.status = "started" => Link(c) \in opened /\ a.link = Link(c)
  PROVE  Ends(c, key[c], a)
<1>1. key[c] \in Keys \cup {None} /\ key' = [key EXCEPT ![c] = key[c]]
  BY TypedParts DEF CallsTyped
<1>2. /\ IF key[c] = None THEN UNCHANGED <<kept, inFlight>> ELSE Finish(key[c], body[c], a, io)
      /\ Answered(c, a)
  BY DEF End
<1> QED
  BY <1>1, <1>2, OwnAnswerEnds

(***************************************************************************)
(* What a step of a call is: it ends, it begins to run, or it goes on to   *)
(* the next try or the next bank.                                          *)
(***************************************************************************)
Begins(c, k) ==
  /\ pc[c] = "idle" /\ ~Rejected(body[c])
  /\ IF k = None THEN inFlight' = inFlight
     ELSE k \notin inFlight /\ inFlight' = inFlight \cup {k}
  /\ key' = [key EXCEPT ![c] = k]
  /\ pc' = [pc EXCEPT ![c] = "asking"]
  /\ UNCHANGED <<kept, body, hop, try, answer, opened>>

GoesOn(c) ==
  /\ pc[c] = "asking"
  /\ \/ try[c] < TriesAt(c) /\ try' = [try EXCEPT ![c] = @ + 1] /\ hop' = hop
     \/ ~IsLast(c) /\ hop' = [hop EXCEPT ![c] = @ + 1] /\ try' = [try EXCEPT ![c] = 1]
  /\ UNCHANGED <<kept, inFlight, pc, key, body, answer, opened>>

CallActs(c) ==
  \/ \E k \in Keys \cup {None}, a \in Answers : Ends(c, k, a)
  \/ \E k \in Keys \cup {None} : Begins(c, k)
  \/ GoesOn(c)

LEMMA EndsActs ==
  ASSUME NEW c, NEW k \in Keys \cup {None}, NEW a, Ends(c, k, a)
  PROVE  CallActs(c)
<1>1. a \in Answers
  BY DEF Ends
<1> QED
  BY <1>1 DEF CallActs

LEMMA IncomingActs ==
  ASSUME TInv, \A e \in kept : e.answer.status # "none", NEW c \in Calls, Incoming(c)
  PROVE  CallActs(c) /\ UNCHANGED <<opened, session, crashes>>
<1>1. CASE TurnAway(c)
  <2>1. key[c] \in Keys \cup {None}
    BY TypedParts DEF CallsTyped
  <2>2. UNCHANGED <<opened, session, crashes>>
    BY <1>1 DEF TurnAway
  <2> QED
    BY <1>1, <2>1, <2>2, TurnAwayEnds, EndsActs
<1>2. ASSUME NEW k \in Keys, NEW io, AnswerForKey(c, k, io)
      PROVE  CallActs(c) /\ UNCHANGED <<opened, session, crashes>>
  <2>1. UNCHANGED <<opened, session, crashes>>
    BY <1>2 DEF AnswerForKey
  <2> QED
    BY <1>2, <2>1, AnswerForKeyEnds, EndsActs
<1>3. ASSUME NEW k \in Keys \cup {None}, NEW io, Ask(c, k, io)
      PROVE  CallActs(c) /\ UNCHANGED <<opened, session, crashes>>
  <2>1. Begins(c, k)
    BY <1>3 DEF Ask, Begin, Begins
  <2>2. UNCHANGED <<opened, session, crashes>>
    BY <1>3 DEF Ask
  <2> QED
    BY <2>1, <2>2 DEF CallActs
<1>4. ASSUME NEW k \in Keys \cup {None}, NEW io, NEW io2, Reject(c, k, io, io2)
      PROVE  CallActs(c) /\ UNCHANGED <<opened, session, crashes>>
  <2>1. UNCHANGED <<opened, session, crashes>>
    BY <1>4 DEF Reject
  <2>2. Ends(c, k, Said("refused"))
    BY <1>4, RejectEnds
  <2> QED
    BY <2>1, <2>2, EndsActs
<1> QED
  BY <1>1, <1>2, <1>3, <1>4 DEF Incoming

(* The session that a payment writes is that of the payment the bank       *)
(* opened for the call.                                                    *)
SessionActs(c) ==
  \/ session' = session
  \/ pc[c] = "asking" /\ Link(c) \in opened
     /\ session' = [session EXCEPT ![body[c].order] = SessionOf(c)]

LEMMA BankAnswersActs ==
  ASSUME TInv, NEW c \in Calls, NEW io, BankAnswers(c, io)
  PROVE  CallActs(c) /\ SessionActs(c) /\ UNCHANGED <<opened, crashes>>
<1> DEFINE a == [status |-> "started", link |-> Link(c)]
<1>1. Link(c) \in Links /\ pc[c] = "asking"
  BY LinkIs DEF BankAnswers
<1>2. a \in Answers /\ a.status = "started" /\ a.link = Link(c)
  BY <1>1 DEF Answers, Statuses
<1>3. End(c, a, io) /\ Link(c) \in opened /\ UNCHANGED <<key, body, hop, try, opened, crashes>>
  BY DEF BankAnswers
<1>4. SessionActs(c)
  BY DEF BankAnswers, SessionActs
<1>5. key[c] \in Keys \cup {None}
  BY TypedParts DEF CallsTyped
<1> HIDE DEF a
<1>6. Ends(c, key[c], a)
  BY <1>1, <1>2, <1>3, EndEnds
<1> QED
  BY <1>3, <1>4, <1>5, <1>6, EndsActs

LEMMA NextBankActs ==
  ASSUME TInv, NEW c \in Calls, pc[c] = "asking", NEW io, NextBank(c, io),
         UNCHANGED <<key, body, opened>>
  PROVE  CallActs(c)
<1>1. CASE IsLast(c)
  <2>1. "failed" \in Statuses
    BY DEF Statuses
  <2>2. Said("failed") \in Answers /\ Said("failed").status = "failed"
    BY <2>1, SaidIs
  <2>3. End(c, Said("failed"), io) /\ UNCHANGED <<hop, try>>
    BY <1>1 DEF NextBank
  <2>4. key[c] \in Keys \cup {None}
    BY TypedParts DEF CallsTyped
  <2> HIDE DEF Said
  <2>5. Ends(c, key[c], Said("failed"))
    BY <2>2, <2>3, EndEnds
  <2> QED
    BY <2>4, <2>5, EndsActs
<1>2. CASE ~IsLast(c)
  BY <1>2 DEF NextBank, CallActs, GoesOn
<1> QED
  BY <1>1, <1>2

LEMMA TryEndsActs ==
  ASSUME TInv, NEW c \in Calls, TryEnds(c)
  PROVE  CallActs(c) /\ SessionActs(c) /\ UNCHANGED <<opened, crashes>>
<1>1. ASSUME NEW io, BankRefuses(c, io)
      PROVE  CallActs(c) /\ UNCHANGED <<opened, session, crashes>>
  BY <1>1, NextBankActs DEF BankRefuses
<1>2. ASSUME NEW io, NetworkFails(c, io)
      PROVE  CallActs(c) /\ UNCHANGED <<opened, session, crashes>>
  <2>1. pc[c] = "asking" /\ UNCHANGED <<key, body, opened, session, crashes>>
    BY <1>2 DEF NetworkFails
  <2>2. CASE try[c] < TriesAt(c)
    BY <1>2, <2>1, <2>2 DEF NetworkFails, CallActs, GoesOn
  <2>3. CASE ~(try[c] < TriesAt(c))
    BY <1>2, <2>1, <2>3, NextBankActs DEF NetworkFails
  <2> QED
    BY <2>1, <2>2, <2>3
<1> QED
  BY <1>1, <1>2, BankAnswersActs DEF TryEnds, SessionActs

(* A step of a call keeps the types.                                       *)
LEMMA CallActsTyped ==
  ASSUME TInv, NEW c \in Calls, CallActs(c)
  PROVE  CallsTyped' /\ FileTyped'
<1>1. CallsTyped /\ FileTyped
  BY TypedParts
<1>2. ASSUME NEW k \in Keys \cup {None}, NEW a, Ends(c, k, a)
      PROVE  CallsTyped' /\ FileTyped'
  BY <1>2, EndsTyped
<1>3. ASSUME NEW k \in Keys \cup {None}, Begins(c, k)
      PROVE  CallsTyped' /\ FileTyped'
  <2>1. \A d \in Calls : ChainOf(d)' = ChainOf(d) /\ TriesAt(d)' = TriesAt(d)
    BY <1>3 DEF Begins, ChainOf, TriesAt, IsLast
  <2>2. CallsTyped'
    BY <1>1, <1>3, <2>1 DEF Begins, CallsTyped
  <2>3. FileTyped'
    BY <1>1, <1>3 DEF Begins, FileTyped
  <2> QED
    BY <2>2, <2>3
<1>4. CASE GoesOn(c)
  <2>1. FileTyped' /\ UNCHANGED <<pc, key, body, answer>>
    BY <1>1, <1>4 DEF GoesOn, FileTyped
  <2>2. \A d \in Calls : ChainOf(d)' = ChainOf(d)
    BY <2>1 DEF ChainOf
  <2>3. CASE try[c] < TriesAt(c) /\ try' = [try EXCEPT ![c] = @ + 1] /\ hop' = hop
    <3>1. \A d \in Calls : TriesAt(d)' = TriesAt(d) /\ TriesAt(d) \in Nat
      BY <2>2, <2>3, PlaceInChain DEF TriesAt, IsLast, TInv
    <3> QED
      BY <1>1, <2>1, <2>2, <2>3, <3>1 DEF CallsTyped
  <2>4. CASE ~IsLast(c) /\ hop' = [hop EXCEPT ![c] = @ + 1] /\ try' = [try EXCEPT ![c] = 1]
    <3>1. \A d \in Calls : Len(ChainOf(d)) \in {1, 2} /\ hop[d] \in 1..Len(ChainOf(d))
      BY PlaceInChain DEF TInv
    <3>2. hop[c] # Len(ChainOf(c))
      BY <2>4 DEF IsLast
    <3>3. hop' \in [Calls -> 1..2] /\ \A d \in Calls : hop'[d] <= Len(ChainOf(d))
      <4>1. hop \in [Calls -> 1..2]
        BY <1>1 DEF CallsTyped
      <4>2. hop[c] = 1 /\ Len(ChainOf(c)) = 2
        <5>1. Len(ChainOf(c)) \in {1, 2} /\ hop[c] \in 1..Len(ChainOf(c))
          BY <3>1
        <5>2. CASE Len(ChainOf(c)) = 1
          BY <3>2, <5>1, <5>2
        <5>3. CASE Len(ChainOf(c)) = 2
          BY <3>2, <5>1, <5>3
        <5> QED
          BY <5>1, <5>2, <5>3
      <4>3. hop' = [hop EXCEPT ![c] = 2]
        BY <2>4, <4>2
      <4> QED
        BY <3>1, <4>1, <4>2, <4>3
    <3>4. try' \in [Calls -> Nat \ {0}]
      BY <1>1, <2>4 DEF CallsTyped
    <3>5. \A d \in Calls : try'[d] <= TriesAt(d)'
      <4>1. \A d \in Calls : d # c => TriesAt(d)' = TriesAt(d) /\ try'[d] = try[d]
        BY <1>1, <2>2, <2>4 DEF CallsTyped, TriesAt, IsLast
      <4>2. try'[c] = 1
        BY <1>1, <2>4 DEF CallsTyped
      <4>3. TriesAt(c)' \in Nat \ {0}
        BY DEF TriesAt
      <4>4. \A d \in Calls : d # c => try'[d] <= TriesAt(d)'
        BY <1>1, <4>1 DEF CallsTyped
      <4>5. try'[c] <= TriesAt(c)'
        BY <4>2, <4>3
      <4> QED
        BY <4>4, <4>5
    <3>6. \A d \in Calls : hop'[d] <= Len(ChainOf(d)')
      BY <2>2, <3>3
    <3>7. /\ pc' \in [Calls -> {"idle", "asking", "over", "old"}]
          /\ key' \in [Calls -> Keys \cup {None}] /\ body' \in [Calls -> Bodies]
          /\ answer' \in [Calls -> Answers]
          /\ \A d \in Calls : pc'[d] = "asking" => ~Rejected(body'[d])
      BY <1>1, <2>1 DEF CallsTyped
    <3> QED
      BY <2>1, <3>3, <3>4, <3>5, <3>6, <3>7 DEF CallsTyped
  <2> QED
    BY <1>4, <2>1, <2>3, <2>4 DEF GoesOn
<1> QED
  BY <1>2, <1>3, <1>4 DEF CallActs

(* The counters, in every step.                                            *)
LEMMA CountedStep == ASSUME Counted, [Next]_vars PROVE Counted'
<1>1. ASSUME NEW io, Uses(io) PROVE misses' \in 0..MaxMisses
  BY <1>1 DEF Uses, Counted
<1>2. ASSUME NEW c \in Calls, Incoming(c) PROVE Counted'
  BY <1>1, <1>2 DEF Incoming, TurnAway, AnswerForKey, Ask, Reject, Counted
<1>3. ASSUME NEW c \in Calls, BankOpens(c) \/ TryEnds(c) PROVE Counted'
  BY <1>1, <1>3 DEF BankOpens, TryEnds, BankAnswers, BankRefuses, NetworkFails, Counted
<1>4. CASE Crash
  BY <1>4 DEF Crash, Counted
<1>5. CASE \/ \E o \in Orders : SessionEnds(o)
           \/ \E k \in Keys : KeyExpires(k)
           \/ UNCHANGED vars
  BY <1>5 DEF SessionEnds, KeyExpires, vars, Counted
<1> QED
  BY <1>2, <1>3, <1>4, <1>5 DEF Next

(***************************************************************************)
(* What calls and the file know of each other.  A kept answer is one a     *)
(* call that is over was told, so it stays what that call was told; a      *)
(* running key has one call at the banks.                                  *)
(***************************************************************************)
Told ==
  /\ \A c \in Calls : pc[c] \in {"idle", "asking"} => answer[c] = NoAnswer
  /\ AnswerIsForThisCall
  /\ \A e \in kept :
       /\ e.answer.status \notin {"failed", "none"}
       /\ \E c \in Calls : /\ pc[c] \notin {"idle", "asking"}
                           /\ key[c] = e.key /\ body[c] = e.meaning /\ answer[c] = e.answer

Running ==
  /\ KeyIsOfACall
  /\ \A c, d \in Calls :
       pc[c] = "asking" /\ pc[d] = "asking" /\ key[c] = key[d] /\ key[c] # None => c = d

PInv == TInv /\ Told /\ Running /\ SessionIsOfAPayment

(* The link of an answer, given that of another call of the same body.     *)
ForBody(b, a) ==
  /\ a.link \in opened
  /\ a.link.order = b.order /\ a.link.amount = b.amount
  /\ \E i \in DOMAIN Chain(b.gateway) : a.link.gateway = Chain(b.gateway)[i]

LEMMA EndsTold ==
  ASSUME TInv, Told, NEW c \in Calls, NEW k \in Keys \cup {None}, NEW a, Ends(c, k, a)
  PROVE  Told'
<1>1. /\ pc[c] \in {"idle", "asking"} /\ key' = [key EXCEPT ![c] = k]
      /\ pc' = [pc EXCEPT ![c] = "over"] /\ answer' = [answer EXCEPT ![c] = a]
      /\ body' = body /\ opened' = opened
  BY DEF Ends, Answered
<1>2. pc \in [Calls -> {"idle", "asking", "over", "old"}] /\ DOMAIN key = Calls /\ DOMAIN answer = Calls
  BY TypedParts DEF CallsTyped
<1>3. a.status = "started" => ForBody(body[c], a)
  <2>1. CASE pc[c] = "asking" /\ Link(c) \in opened /\ a.link = Link(c)
    BY <2>1, LinkIs DEF ForBody, ChainOf
  <2>2. CASE \E e \in kept : e.meaning = body[c] /\ e.answer = a
    BY <2>2 DEF Told, AnswerIsForThisCall, ForBody, ChainOf
  <2> QED
    BY <2>1, <2>2 DEF Ends
<1>4. \A d \in Calls : pc'[d] \in {"idle", "asking"} => answer'[d] = NoAnswer
  BY <1>1, <1>2 DEF Told
<1>5. AnswerIsForThisCall'
  <2>1. \A d \in Calls : answer[d].status = "started" => ForBody(body[d], answer[d])
    BY DEF Told, AnswerIsForThisCall, ForBody, ChainOf
  <2>2. \A d \in Calls : answer'[d].status = "started" => ForBody(body[d], answer'[d])
    BY <1>1, <1>2, <1>3, <2>1
  <2> QED
    BY <1>1, <2>2 DEF AnswerIsForThisCall, ForBody, ChainOf
<1>6. ASSUME NEW e \in kept'
      PROVE  /\ e.answer.status \notin {"failed", "none"}
             /\ \E d \in Calls : /\ pc'[d] \notin {"idle", "asking"}
                                 /\ key'[d] = e.key /\ body'[d] = e.meaning /\ answer'[d] = e.answer
  <2>1. CASE e \in kept
    <3>1. PICK d \in Calls : /\ pc[d] \notin {"idle", "asking"}
                             /\ key[d] = e.key /\ body[d] = e.meaning /\ answer[d] = e.answer
      BY <2>1 DEF Told
    <3>2. d # c
      BY <1>1, <3>1
    <3> QED
      BY <1>1, <1>2, <2>1, <3>1, <3>2 DEF Told
  <2>2. CASE e = [key |-> k, meaning |-> body[c], answer |-> a] /\ Keeps(a)
    <3>1. e.key = k /\ e.meaning = body[c] /\ e.answer = a /\ a.status \notin {"failed", "none"}
      BY <2>2 DEF Keeps, Ends
    <3>2. pc'[c] = "over" /\ key'[c] = k /\ answer'[c] = a
      BY <1>1, <1>2
    <3> QED
      BY <1>1, <3>1, <3>2
  <2> QED
    BY <1>6, <2>1, <2>2 DEF Ends
<1> QED
  BY <1>4, <1>5, <1>6 DEF Told

(* Nothing that was told is lost in the other steps of a call.             *)
LEMMA SameTold ==
  ASSUME TInv, Told,
         kept' \subseteq kept, opened \subseteq opened', body' = body, answer' = answer,
         \A c \in Calls : pc'[c] \in {"idle", "asking"} => pc[c] \in {"idle", "asking"},
         \A c \in Calls : pc[c] \notin {"idle", "asking"} => key'[c] = key[c]
  PROVE  Told'
<1>1. \A c \in Calls : pc'[c] \in {"idle", "asking"} => answer'[c] = NoAnswer
  BY DEF Told
<1>2. AnswerIsForThisCall'
  BY DEF Told, AnswerIsForThisCall, ChainOf
<1>3. ASSUME NEW e \in kept'
      PROVE  /\ e.answer.status \notin {"failed", "none"}
             /\ \E d \in Calls : /\ pc'[d] \notin {"idle", "asking"}
                                 /\ key'[d] = e.key /\ body'[d] = e.meaning /\ answer'[d] = e.answer
  BY <1>3 DEF Told
<1> QED
  BY <1>1, <1>2, <1>3 DEF Told

LEMMA CallActsTold ==
  ASSUME TInv, Told, NEW c \in Calls, CallActs(c)
  PROVE  Told'
<1>1. ASSUME NEW k \in Keys \cup {None}, Begins(c, k) PROVE Told'
  <2>1. /\ pc[c] = "idle" /\ pc' = [pc EXCEPT ![c] = "asking"] /\ key' = [key EXCEPT ![c] = k]
        /\ UNCHANGED <<kept, body, answer, opened>>
    BY <1>1 DEF Begins
  <2>2. DOMAIN pc = Calls /\ DOMAIN key = Calls
    BY TypedParts DEF CallsTyped
  <2> QED
    BY <1>1, <2>1, <2>2, SameTold
<1>2. CASE GoesOn(c)
  BY <1>2, SameTold DEF GoesOn
<1> QED
  BY <1>1, <1>2, EndsTold DEF CallActs

(* The running keys are those of the calls at the banks.                   *)
LEMMA CallActsRunning ==
  ASSUME TInv, Running, NEW c \in Calls, CallActs(c)
  PROVE  Running'
<1>1. /\ DOMAIN pc = Calls /\ DOMAIN key = Calls
      /\ \A d \in Calls : key[d] \in Keys \cup {None}
  BY TypedParts DEF CallsTyped
<1>2. \A k : k \in inFlight <=>
        k # None /\ \E d \in Calls : pc[d] = "asking" /\ key[d] = k
  BY DEF Running, KeyIsOfACall
<1>3. ASSUME \A k : k \in inFlight' <=>
               k # None /\ \E d \in Calls : pc'[d] = "asking" /\ key'[d] = k
      PROVE  KeyIsOfACall'
  BY <1>3 DEF KeyIsOfACall
<1>4. ASSUME NEW k \in Keys \cup {None}, NEW a, Ends(c, k, a) PROVE Running'
  <2>1. /\ pc[c] \in {"idle", "asking"} /\ pc' = [pc EXCEPT ![c] = "over"]
        /\ key' = [key EXCEPT ![c] = k] /\ (pc[c] = "asking" => k = key[c])
        /\ inFlight' = IF pc[c] = "asking" THEN inFlight \ {k} ELSE inFlight
    BY <1>4 DEF Ends, Answered
  <2>2. \A d \in Calls : pc'[d] = "asking" <=> pc[d] = "asking" /\ d # c
    BY <1>1, <2>1
  <2>3. \A d \in Calls : d # c => key'[d] = key[d]
    BY <1>1, <2>1
  <2>4. \A d, e \in Calls :
          pc[d] = "asking" /\ pc[e] = "asking" /\ key[d] = key[e] /\ key[d] # None => d = e
    BY DEF Running
  <2>5. ASSUME NEW n
        PROVE  n \in inFlight' <=> n # None /\ \E d \in Calls : pc'[d] = "asking" /\ key'[d] = n
    BY <1>2, <2>1, <2>2, <2>3, <2>4
  <2>6. KeyIsOfACall'
    BY <1>3, <2>5
  <2> QED
    BY <2>2, <2>3, <2>4, <2>6 DEF Running
<1>5. ASSUME NEW k \in Keys \cup {None}, Begins(c, k) PROVE Running'
  <2>1. /\ pc[c] = "idle" /\ pc' = [pc EXCEPT ![c] = "asking"] /\ key' = [key EXCEPT ![c] = k]
        /\ IF k = None THEN inFlight' = inFlight
           ELSE k \notin inFlight /\ inFlight' = inFlight \cup {k}
    BY <1>5 DEF Begins
  <2>2. \A d \in Calls : pc'[d] = "asking" <=> pc[d] = "asking" \/ d = c
    BY <1>1, <2>1
  <2>3. key'[c] = k /\ \A d \in Calls : d # c => key'[d] = key[d]
    BY <1>1, <2>1
  <2>4. \A d, e \in Calls :
          pc[d] = "asking" /\ pc[e] = "asking" /\ key[d] = key[e] /\ key[d] # None => d = e
    BY DEF Running
  <2>5. ASSUME NEW n
        PROVE  n \in inFlight' <=> n # None /\ \E d \in Calls : pc'[d] = "asking" /\ key'[d] = n
    BY <1>2, <2>1, <2>2, <2>3
  <2>6. KeyIsOfACall'
    BY <1>3, <2>5
  <2>7. k # None => \A d \in Calls : pc[d] = "asking" => key[d] # k
    BY <1>2, <2>1
  <2> QED
    BY <2>2, <2>3, <2>4, <2>6, <2>7 DEF Running
<1>6. CASE GoesOn(c)
  BY <1>6 DEF GoesOn, Running, KeyIsOfACall
<1> QED
  BY <1>4, <1>5, <1>6 DEF CallActs

(* The session of an order, and the payments the banks opened.             *)
LEMMA SessionStep ==
  ASSUME TInv, SessionIsOfAPayment, opened' = opened, NEW c \in Calls, SessionActs(c)
  PROVE  SessionIsOfAPayment' /\ BanksTyped'
<1>1. BanksTyped
  BY TypedParts
<1>2. CASE session' = session
  BY <1>1, <1>2 DEF SessionIsOfAPayment, BanksTyped
<1>3. CASE /\ pc[c] = "asking" /\ Link(c) \in opened
           /\ session' = [session EXCEPT ![body[c].order] = SessionOf(c)]
  <2> DEFINE s == SessionOf(c)
  <2>1. /\ Link(c) \in Links
        /\ Link(c).order = body[c].order /\ Link(c).amount = body[c].amount
        /\ Link(c).gateway = AskedBank(c)
    BY <1>3, LinkIs DEF AskedBank
  <2>2. /\ body[c].order \in Orders
        /\ s \in [amount : Nat, gateway : Gateways]
        /\ Link(c).amount = s.amount /\ Link(c).gateway = s.gateway
    BY <2>1 DEF Links, SessionOf
  <2>3. session' = [session EXCEPT ![body[c].order] = s]
    BY <1>3
  <2> HIDE DEF s
  <2>4. BanksTyped'
    BY <1>1, <2>2, <2>3 DEF BanksTyped
  <2>5. ASSUME NEW o \in Orders, session'[o] # None
        PROVE  \E l \in opened :
                 l.order = o /\ l.amount = session'[o].amount /\ l.gateway = session'[o].gateway
    <3>1. CASE o = body[c].order
      BY <1>1, <1>3, <2>1, <2>2, <2>3, <3>1 DEF BanksTyped
    <3>2. CASE o # body[c].order
      BY <1>1, <2>3, <2>5, <3>2 DEF BanksTyped, SessionIsOfAPayment
    <3> QED
      BY <3>1, <3>2
  <2> QED
    BY <2>4, <2>5 DEF SessionIsOfAPayment
<1> QED
  BY <1>2, <1>3 DEF SessionActs

(* What happens around the calls: a payment opened at a bank, a session or *)
(* a key that ends, a restart.                                             *)
LEMMA AroundCalls ==
  ASSUME PInv,
         \/ \E c \in Calls : BankOpens(c)
         \/ \E o \in Orders : SessionEnds(o)
         \/ \E k \in Keys : KeyExpires(k)
         \/ Crash
         \/ UNCHANGED vars
  PROVE  /\ CallsTyped' /\ FileTyped' /\ BanksTyped'
         /\ Told' /\ Running' /\ SessionIsOfAPayment'
<1>1. TInv /\ CallsTyped /\ FileTyped /\ BanksTyped /\ Told /\ Running /\ SessionIsOfAPayment
  BY TypedParts DEF PInv
<1>2. UNCHANGED <<key, body, hop, try, answer>> /\ kept' \subseteq kept
  BY DEF BankOpens, SessionEnds, KeyExpires, Crash, vars, callVars, Expire, Without
<1>3. \/ UNCHANGED <<pc, inFlight>>
      \/ /\ UNCHANGED inFlight
         /\ \E k : pc' = [c \in Calls |-> IF key[c] = k /\ pc[c] = "over" THEN "old" ELSE pc[c]]
      \/ inFlight' = {} /\ pc' = [c \in Calls |-> IF pc[c] = "asking" THEN "over" ELSE pc[c]]
  BY DEF BankOpens, SessionEnds, KeyExpires, Crash, vars, callVars, Expire
<1>4. opened' = opened \/ \E c \in Calls : pc[c] = "asking" /\ opened' = opened \cup {Link(c)}
  BY DEF BankOpens, SessionEnds, KeyExpires, Crash, vars
<1>5. session' = session \/ \E o \in Orders : session' = [session EXCEPT ![o] = None]
  BY DEF BankOpens, SessionEnds, KeyExpires, Crash, vars
<1>6. /\ pc' \in [Calls -> {"idle", "asking", "over", "old"}]
      /\ \A c \in Calls : /\ pc'[c] = "idle" <=> pc[c] = "idle"
                          /\ pc'[c] = "asking" => pc[c] = "asking"
  BY <1>1, <1>3 DEF CallsTyped
<1>7. CallsTyped'
  <2>1. \A d \in Calls : ChainOf(d)' = ChainOf(d) /\ TriesAt(d)' = TriesAt(d)
    BY <1>2 DEF ChainOf, TriesAt, IsLast
  <2> QED
    BY <1>1, <1>2, <1>6, <2>1 DEF CallsTyped
<1>8. FileTyped'
  BY <1>1, <1>2, <1>3 DEF FileTyped
<1>9. opened \subseteq opened' /\ opened' \subseteq Links
  BY <1>1, <1>4, LinkIs DEF BanksTyped
<1>10. BanksTyped' /\ SessionIsOfAPayment'
  BY <1>1, <1>5, <1>9 DEF BanksTyped, SessionIsOfAPayment
<1>11. Told'
  <2>1. \A c \in Calls : pc'[c] \in {"idle", "asking"} => pc[c] \in {"idle", "asking"}
    BY <1>6
  <2> QED
    BY <1>1, <1>2, <1>9, <2>1, SameTold
<1>12. Running'
  <2>1. CASE \A c \in Calls : pc'[c] = "asking" <=> pc[c] = "asking"
    <3>1. inFlight' = inFlight \/ inFlight' = {}
      BY <1>3
    <3>2. inFlight' = inFlight
      BY <1>1, <1>3, <2>1 DEF Running, KeyIsOfACall
    <3> QED
      BY <1>1, <1>2, <2>1, <3>2 DEF Running, KeyIsOfACall
  <2>2. CASE inFlight' = {} /\ \A c \in Calls : pc'[c] # "asking"
    BY <2>2 DEF Running, KeyIsOfACall
  <2> QED
    BY <1>1, <1>3, <2>1, <2>2 DEF CallsTyped
<1> QED
  BY <1>7, <1>8, <1>10, <1>11, <1>12

(* Every step keeps what is said of the calls, the keys and the sessions.  *)
LEMMA PaymentStep == ASSUME PInv, [Next]_vars PROVE PInv'
<1>1. TInv /\ CallsTyped /\ FileTyped /\ BanksTyped /\ Counted
      /\ Told /\ Running /\ SessionIsOfAPayment
  BY TypedParts DEF PInv
<1>2. Counted'
  BY <1>1, CountedStep
<1>3. ASSUME NEW c \in Calls, CallActs(c), SessionActs(c), opened' = opened
      PROVE  PInv'
  <2>1. CallsTyped' /\ FileTyped' /\ Told' /\ Running'
    BY <1>1, <1>3, CallActsTyped, CallActsTold, CallActsRunning
  <2>2. BanksTyped' /\ SessionIsOfAPayment'
    BY <1>1, <1>3, SessionStep
  <2> QED
    BY <1>2, <2>1, <2>2, TypedPartsAfter DEF PInv
<1>4. ASSUME NEW c \in Calls, Incoming(c) PROVE PInv'
  <2>1. \A e \in kept : e.answer.status # "none"
    BY <1>1 DEF Told
  <2> QED
    BY <1>1, <1>3, <1>4, <2>1, IncomingActs DEF SessionActs
<1>5. ASSUME NEW c \in Calls, TryEnds(c) PROVE PInv'
  BY <1>1, <1>3, <1>5, TryEndsActs
<1>6. CASE \/ \E c \in Calls : BankOpens(c)
           \/ \E o \in Orders : SessionEnds(o)
           \/ \E k \in Keys : KeyExpires(k)
           \/ Crash
           \/ UNCHANGED vars
  BY <1>2, <1>6, AroundCalls, TypedPartsAfter DEF PInv
<1> QED
  BY <1>4, <1>5, <1>6 DEF Next

LEMMA PaymentInit == Init => PInv
<1> SUFFICES ASSUME Init PROVE PInv
  OBVIOUS
<1>1. /\ kept = {} /\ inFlight = {} /\ opened = {} /\ crashes = 0 /\ misses = 0
      /\ pc = [c \in Calls |-> "idle"] /\ key = [c \in Calls |-> None]
      /\ body \in [Calls -> Bodies]
      /\ hop = [c \in Calls |-> 1] /\ try = [c \in Calls |-> 1]
      /\ answer = [c \in Calls |-> NoAnswer] /\ session = [o \in Orders |-> None]
  BY DEF Init, KeysInit
<1>2. NoAnswer \in Answers /\ NoAnswer.status = "none"
  BY DEF Answers, Statuses
<1>3. CallsTyped
  <2>1. \A c \in Calls : Len(ChainOf(c)) \in {1, 2}
    <3>1. \A c \in Calls : body[c].gateway \in Gateways \cup {None}
      BY <1>1
    <3> QED
      BY <3>1, ChainIs DEF ChainOf
  <2>2. \A c \in Calls : TriesAt(c) \in Nat \ {0}
    BY DEF TriesAt
  <2>3. answer \in [Calls -> Answers]
    BY <1>1, <1>2
  <2>4. \A c \in Calls : hop[c] <= Len(ChainOf(c)) /\ try[c] <= TriesAt(c)
    <3>1. \A c \in Calls : 1 <= Len(ChainOf(c)) /\ 1 <= TriesAt(c)
      BY <2>1, <2>2
    <3> QED
      BY <1>1, <3>1
  <2> QED
    BY <1>1, <2>3, <2>4 DEF CallsTyped
<1>4. FileTyped /\ BanksTyped /\ Counted
  BY <1>1 DEF FileTyped, BanksTyped, Counted
<1>5. Told
  BY <1>1, <1>2 DEF Told, AnswerIsForThisCall
<1>6. Running /\ SessionIsOfAPayment
  BY <1>1 DEF Running, KeyIsOfACall, SessionIsOfAPayment
<1> QED
  BY <1>3, <1>4, <1>5, <1>6, TypedParts DEF PInv

LEMMA PaymentInvariance == Spec => []PInv
BY PaymentInit, PaymentStep, PTL DEF Spec

(* Every variable has its type, for any number of calls, keys and prices.  *)
THEOREM TypeCorrect == Spec => []TypeOK
<1>1. PInv => TypeOK
  BY DEF PInv, TInv
<1> QED
  BY <1>1, PaymentInvariance, PTL

(* The link a call is given is of its own order and amount and of a bank   *)
(* of its chain, whatever key it came with and whatever the file did.      *)
THEOREM LinksAreOwn == Spec => []AnswerIsForThisCall
<1>1. PInv => AnswerIsForThisCall
  BY DEF PInv, Told
<1> QED
  BY <1>1, PaymentInvariance, PTL

(* What is kept for a key is what a call with that key was told, and is    *)
(* never a failure.                                                        *)
THEOREM KeptAnswersWereGiven == Spec => []KeptWasTold
<1>1. PInv => KeptWasTold
  BY DEF PInv, Told, KeptWasTold
<1> QED
  BY <1>1, PaymentInvariance, PTL

(* A session is that of a payment a bank opened for its order.             *)
THEOREM SessionsAreOpened == Spec => []SessionIsOfAPayment
<1>1. PInv => SessionIsOfAPayment
  BY DEF PInv
<1> QED
  BY <1>1, PaymentInvariance, PTL

(* A key is in progress exactly as long as a call with it is at a bank.    *)
THEOREM KeysAreReleased == Spec => []KeyIsOfACall
<1>1. PInv => KeyIsOfACall
  BY DEF PInv, Running
<1> QED
  BY <1>1, PaymentInvariance, PTL
=============================================================================
