--------------------------- MODULE DeliveryProofs ---------------------------
(***************************************************************************)
(* Proofs about the two ways out of the gateway, for any bounds: a request *)
(* to a merchant (WebhookDelivery, the specification Spec) and an alert to *)
(* the channel (AlertQueue, the specification AlertsSpec).                 *)
(***************************************************************************)
EXTENDS WebhookDelivery, AlertQueue, TLAPS

(***************************************************************************)
(* The inductive invariant.  Requests that may have reached the receiver,  *)
(* or still may, differ in their attempt; while one is under way nothing   *)
(* else of its attempt is among them.                                      *)
(***************************************************************************)
MaySee == received \cup late

AtMostOne == \A r, s \in MaySee : r[1] = s[1] => r = s

NoneAhead == \A r \in MaySee : r[1] <= attempt

UnderWay ==
  pc = "post" =>
    /\ <<attempt, at>> \in posted
    /\ at \in 1..addresses
    /\ \A r \in received : r[1] = attempt => r = <<attempt, at>>
    /\ \A r \in late : r[1] # attempt

NotAtLast == pc = "sleep" => attempt < Retries /\ addresses > 0

Started == pc = "new" => attempt = 1 /\ received = {} /\ late = {}

IInv == TypeOK /\ AtMostOne /\ NoneAhead /\ UnderWay /\ NotAtLast /\ Started

USE DEF NeverReached, Succeeds, MayRetry, Outcomes

(* The invariant holds before the first request.                           *)
LEMMA InitInv == Init => IInv
BY DeliveryAssumption
   DEF Init, IInv, TypeOK, MaySee, AtMostOne, NoneAhead, UnderWay, NotAtLast, Started

(* The start: the first request of the first attempt, or nothing at all.   *)
LEMMA StartInv == IInv /\ Start => IInv'
BY DeliveryAssumption
   DEF IInv, TypeOK, MaySee, AtMostOne, NoneAhead, UnderWay, NotAtLast, Started,
       Start, Post, End

(* A request arrives: it was among those that might, so the sets change by *)
(* one element that MaySee already held, or by the one under way.          *)
LEMMA ReachesInv == IInv /\ Reaches => IInv'
<1> SUFFICES ASSUME IInv, Reaches PROVE IInv'
  OBVIOUS
<1>1. PICK p \in late \cup (IF pc = "post" THEN {<<attempt, at>>} ELSE {}) :
        p \notin received /\ received' = received \cup {p} /\ late' = late \ {p}
  BY DEF Reaches
<1>2. UNCHANGED <<addresses, pc, attempt, at, posted, result>>
  BY DEF Reaches
<1>3. p \in late \/ (pc = "post" /\ p = <<attempt, at>>)
  BY <1>1
<1>4. p \in posted
  BY <1>3 DEF IInv, TypeOK, UnderWay
<1>5. TypeOK'
  BY <1>1, <1>2, <1>4 DEF IInv, TypeOK
<1>6. MaySee' = MaySee \cup {p}
  BY <1>1 DEF MaySee
<1>7. AtMostOne'
  BY <1>3, <1>6 DEF IInv, AtMostOne, UnderWay, MaySee
<1>8. NoneAhead'
  BY <1>2, <1>3, <1>6 DEF IInv, TypeOK, NoneAhead, MaySee
<1>9. UnderWay'
  BY <1>1, <1>2, <1>3 DEF IInv, UnderWay
<1>10. NotAtLast' /\ Started'
  BY <1>2, <1>3 DEF IInv, NotAtLast, Started
<1> QED
  BY <1>5, <1>7, <1>8, <1>9, <1>10 DEF IInv

(* A request ends.  Only one that provably never arrived is followed by    *)
(* another of the same attempt, so the attempt is still unseen.            *)
LEMMA RequestEndsInv == IInv /\ RequestEnds => IInv'
<1> SUFFICES ASSUME IInv, RequestEnds PROVE IInv'
  OBVIOUS
<1> DEFINE r0 == <<attempt, at>>
<1>1. PICK outcome \in Outcomes :
        /\ late' = IF outcome = "timeout" THEN (late \cup {r0}) \ received ELSE late
        /\ IF Succeeds(outcome) THEN End("ok")
           ELSE IF NeverReached(outcome) /\ at < addresses
           THEN Post(attempt, at + 1)
           ELSE IF MayRetry(attempt)
           THEN pc' = "sleep" /\ UNCHANGED <<attempt, at, posted, result>>
           ELSE End("failed")
  BY DEF RequestEnds
<1>2. pc = "post" /\ UNCHANGED <<addresses, received>>
  BY DEF RequestEnds
<1>3. r0 \in posted /\ at \in 1..addresses
  BY <1>2 DEF IInv, UnderWay
<1>4. attempt' = attempt /\ posted \subseteq posted'
  BY <1>1 DEF End, Post
<1>5. MaySee' \subseteq MaySee \cup {r0}
  BY <1>1, <1>2 DEF MaySee
<1>6. \A r \in MaySee : r[1] = attempt => r = r0
  BY <1>2 DEF IInv, UnderWay, MaySee
<1>7. AtMostOne'
  BY <1>5, <1>6 DEF IInv, AtMostOne
<1>8. NoneAhead'
  BY <1>4, <1>5 DEF IInv, TypeOK, NoneAhead
<1>9. CASE NeverReached(outcome) /\ at < addresses
  <2>1. Post(attempt, at + 1) /\ late' = late
    BY <1>1, <1>9
  <2>2. <<attempt, at + 1>> \in (1..Retries) \X (1..addresses)
    BY <1>3, <1>9, DeliveryAssumption DEF IInv, TypeOK
  <2>3. TypeOK'
    BY <1>2, <2>1, <2>2 DEF IInv, TypeOK, Post
  <2>4. \A r \in received : r[1] # attempt
    BY <1>2, <1>9 DEF IInv, UnderWay
  <2>5. UnderWay'
    BY <1>2, <1>3, <1>9, <2>1, <2>4, DeliveryAssumption DEF IInv, TypeOK, UnderWay, Post
  <2>6. NotAtLast' /\ Started'
    BY <2>1 DEF Post, NotAtLast, Started
  <2> QED
    BY <1>7, <1>8, <2>3, <2>5, <2>6 DEF IInv
<1>10. CASE ~(NeverReached(outcome) /\ at < addresses)
  <2>1. /\ pc' \in {"sleep", "ended"}
        /\ pc' = "sleep" => attempt < Retries
        /\ result' \in {result, "ok", "failed"}
        /\ UNCHANGED <<attempt, at, posted>>
    BY <1>1, <1>10 DEF End
  <2>2. TypeOK'
    BY <1>1, <1>2, <1>3, <2>1 DEF IInv, TypeOK
  <2>3. UnderWay' /\ NotAtLast' /\ Started'
    BY <1>2, <1>3, <2>1 DEF IInv, TypeOK, UnderWay, NotAtLast, Started
  <2> QED
    BY <1>7, <1>8, <2>2, <2>3 DEF IInv
<1> QED
  BY <1>9, <1>10

(* The next attempt: nothing was sent in it yet.                           *)
LEMMA AgainInv == IInv /\ Again => IInv'
<1> SUFFICES ASSUME IInv, Again PROVE IInv'
  OBVIOUS
<1>1. /\ pc = "sleep" /\ pc' = "post" /\ attempt' = attempt + 1 /\ at' = 1
      /\ posted' = posted \cup {<<attempt + 1, 1>>}
      /\ UNCHANGED <<addresses, received, late, result>>
  BY DEF Again, Post
<1>2. attempt + 1 \in 1..Retries /\ 1 \in 1..addresses
  BY <1>1, DeliveryAssumption DEF IInv, TypeOK, NotAtLast
<1>3. TypeOK'
  BY <1>1, <1>2 DEF IInv, TypeOK
<1>4. \A r \in MaySee : r[1] \in Nat /\ r[1] <= attempt /\ r[1] # attempt + 1
  BY DeliveryAssumption DEF IInv, TypeOK, NoneAhead, MaySee
<1>5. AtMostOne' /\ NoneAhead'
  BY <1>1, <1>4, DeliveryAssumption DEF IInv, TypeOK, AtMostOne, NoneAhead, MaySee
<1>6. UnderWay' /\ NotAtLast' /\ Started'
  BY <1>1, <1>2, <1>4 DEF UnderWay, NotAtLast, Started, MaySee
<1> QED
  BY <1>3, <1>5, <1>6 DEF IInv

(* The invariant holds for ever.                                           *)
LEMMA Invariance == Spec => []IInv
<1>1. IInv /\ [Next]_vars => IInv'
  <2> SUFFICES ASSUME IInv, [Next]_vars PROVE IInv'
    OBVIOUS
  <2>1. CASE UNCHANGED vars
    BY <2>1 DEF vars, IInv, TypeOK, MaySee, AtMostOne, NoneAhead, UnderWay, NotAtLast, Started
  <2> QED
    BY <2>1, StartInv, ReachesInv, RequestEndsInv, AgainInv DEF Next
<1> QED
  BY <1>1, InitInv, PTL DEF Spec

(* Every variable keeps its type, and no attempt beyond the last is made.  *)
THEOREM TypeCorrect == Spec => []TypeOK
<1>1. IInv => TypeOK
  BY DEF IInv
<1> QED
  BY <1>1, Invariance, PTL

(* In one attempt the receiver gets the payload at most once, however many *)
(* addresses it has and however late a request arrives.                    *)
THEOREM ReceivedOncePerAttempt == Spec => []OncePerAttempt
<1>1. IInv => OncePerAttempt
  BY DEF IInv, AtMostOne, MaySee, OncePerAttempt
<1> QED
  BY <1>1, Invariance, PTL

(***************************************************************************)
(* Success is said of the last request only, and nothing is sent after it: *)
(* the inductive form of OkMeansTaken.                                     *)
(***************************************************************************)
OkEnds == result = "ok" => pc = "ended" /\ <<attempt, at>> \in received

(* A call that reports success reached the receiver with its last request, *)
(* whichever addresses failed before and whatever still arrives late.      *)
THEOREM OkIsTrue == Spec => []OkMeansTaken
<1>1. Init => OkEnds
  BY DEF Init, OkEnds
<1>2. OkEnds /\ [Next]_vars => OkEnds'
  <2> SUFFICES ASSUME OkEnds, [Next]_vars PROVE OkEnds'
    OBVIOUS
  <2>1. CASE Start
    BY <2>1 DEF Start, Post, End, OkEnds
  <2>2. CASE Reaches
    BY <2>2 DEF Reaches, OkEnds
  <2>3. CASE RequestEnds
    <3>1. result # "ok" /\ pc = "post" /\ received' = received
      BY <2>3 DEF RequestEnds, OkEnds
    <3>2. PICK outcome \in Outcomes :
            IF Succeeds(outcome) THEN End("ok")
            ELSE IF NeverReached(outcome) /\ at < addresses
            THEN Post(attempt, at + 1)
            ELSE IF MayRetry(attempt)
            THEN pc' = "sleep" /\ UNCHANGED <<attempt, at, posted, result>>
            ELSE End("failed")
      BY <2>3 DEF RequestEnds
    <3>3. CASE Succeeds(outcome)
      <4>1. <<attempt, at>> \in received
        BY <3>3
      <4> QED
        BY <3>1, <3>2, <3>3, <4>1 DEF End, OkEnds
    <3>4. CASE ~Succeeds(outcome)
      BY <3>1, <3>2, <3>4 DEF End, Post, OkEnds
    <3> QED
      BY <3>3, <3>4
  <2>4. CASE Again
    BY <2>4 DEF Again, Post, OkEnds
  <2>5. CASE UNCHANGED vars
    BY <2>5 DEF vars, OkEnds
  <2> QED
    BY <2>1, <2>2, <2>3, <2>4, <2>5 DEF Next
<1>3. OkEnds => OkMeansTaken
  BY DEF OkEnds, OkMeansTaken
<1> QED
  BY <1>1, <1>2, <1>3, PTL DEF Spec
-----------------------------------------------------------------------------
(***************************************************************************)
(* AlertQueue.  While a pass runs, its copy and not the file says what is  *)
(* still to be sent; when none runs, the file does.                        *)
(***************************************************************************)
Current == IF processing THEN items ELSE file

(* The alerts of a pass are pending in its copy and have tries left.       *)
PassIs ==
  processing =>
    /\ sending \in Alerts \ todo
    /\ \A a \in todo \cup {sending} : IsPending(items[a]) /\ items[a].retryCount < MaxRetries

(* What is pending was not delivered, and what was not raised is nowhere.  *)
Undelivered ==
  \A a \in Alerts :
    /\ delivered[a] <= 1
    /\ IsPending(Current[a]) => delivered[a] = 0
    /\ a \notin raised => ~Has(file, a) /\ ~Has(items, a) /\ delivered[a] = 0

AlertsTyped == AlertsTypeOK /\ PassIs

AlertsInv == AlertsTyped /\ (slips = 0 => Undelivered)

USE AlertAssumption

LEMMA HappensIs ==
  ASSUME slips \in 0..MaxSlips, NEW io, Happens(io)
  PROVE  slips' \in 0..MaxSlips /\ (slips' = 0 => io = "ok" /\ slips = 0)
BY DEF Happens

(* Entries as the code makes them.                                         *)
LEMMA Entries == Absent \in Item /\ NewItem \in Item /\ Empty \in [Alerts -> Item]
BY DEF Absent, NewItem, Empty, Item

(***************************************************************************)
(* What the pass does with its copy: it writes the copy back and ends, or  *)
(* it goes on to the next send.                                            *)
(***************************************************************************)
LEMMA ProceedIs ==
  ASSUME AlertsTypeOK, NEW copy \in [Alerts -> Item], NEW left \in SUBSET Alerts, NEW io,
         Proceed(copy, left, io),
         \A a \in left : IsPending(copy[a]) /\ copy[a].retryCount < MaxRetries
  PROVE  /\ file' \in [Alerts -> Item] /\ items' \in [Alerts -> Item]
         /\ processing' \in BOOLEAN /\ todo' \subseteq Alerts /\ sending' \in Alerts \cup {None}
         /\ slips' \in 0..MaxSlips /\ (slips' = 0 => io = "ok" /\ slips = 0)
         /\ PassIs'
         /\ io = "ok" => Current' = copy /\ file' \in {file, copy}
         /\ items' \in {Empty, copy}
<1>1. file \in [Alerts -> Item] /\ slips \in 0..MaxSlips
  BY DEF AlertsTypeOK
<1>2. slips' \in 0..MaxSlips /\ (slips' = 0 => io = "ok" /\ slips = 0)
  BY <1>1, HappensIs DEF Proceed
<1>3. CASE left = {}
  <2>1. /\ IF io = "disk" THEN file' \in {file, Empty} ELSE file' = copy
        /\ items' = Empty /\ processing' = FALSE /\ todo' = {} /\ sending' = None
    BY <1>3 DEF Proceed, Persist, AfterFailedWrite
  <2> QED
    BY <1>1, <1>2, <2>1, Entries DEF PassIs, Current
<1>4. CASE left # {}
  <2>1. PICK a \in left : sending' = a /\ todo' = left \ {a}
    BY <1>4 DEF Proceed
  <2>2. items' = copy /\ processing' = TRUE /\ file' = file
    BY <1>4 DEF Proceed
  <2>3. PassIs'
    BY <2>1, <2>2 DEF PassIs
  <2> QED
    BY <1>1, <1>2, <2>1, <2>2, <2>3 DEF Current
<1> QED
  BY <1>3, <1>4

(* The copies the pass works on.                                           *)
LEMMA StartCopy ==
  ASSUME AlertsTypeOK
  PROVE  LET copy == [a \in Alerts |-> IF Fails(a) THEN [file[a] EXCEPT !.status = "failed"]
                                       ELSE file[a]]
         IN  /\ copy \in [Alerts -> Item]
             /\ \A a \in Alerts : /\ Has(copy, a) <=> Has(file, a)
                                  /\ IsPending(copy[a]) => IsPending(file[a])
                                  /\ Sends(a) => /\ IsPending(copy[a])
                                                 /\ copy[a].retryCount < MaxRetries
<1> DEFINE copy == [a \in Alerts |-> IF Fails(a) THEN [file[a] EXCEPT !.status = "failed"]
                                     ELSE file[a]]
<1>1. \A a \in Alerts : file[a] \in Item
  BY DEF AlertsTypeOK
<1>2. ASSUME NEW a \in Alerts, Fails(a)
      PROVE  /\ copy[a] \in Item /\ copy[a].status = "failed"
             /\ Has(copy, a) /\ Has(file, a) /\ ~Sends(a)
  BY <1>1, <1>2 DEF Item, Has, Fails, Sends, IsPending, TooMany
<1>3. ASSUME NEW a \in Alerts, ~Fails(a)
      PROVE  copy[a] = file[a] /\ (Sends(a) => file[a].retryCount < MaxRetries)
  BY <1>1, <1>3 DEF Item, Sends, TooMany
<1>4. copy \in [Alerts -> Item]
  BY <1>1, <1>2, <1>3
<1>5. \A a \in Alerts : Sends(a) => IsPending(file[a])
  BY DEF Sends
<1> HIDE DEF copy
<1>6. \A a \in Alerts : /\ Has(copy, a) <=> Has(file, a)
                        /\ IsPending(copy[a]) => IsPending(file[a])
                        /\ Sends(a) => IsPending(copy[a]) /\ copy[a].retryCount < MaxRetries
  BY <1>2, <1>3, <1>5 DEF Has, IsPending
<1> QED
  BY <1>4, <1>6 DEF copy

LEMMA SentCopy ==
  ASSUME AlertsTyped, processing, NEW copy,
         \/ copy = [items EXCEPT ![sending].status = "sent"]
         \/ copy = [items EXCEPT ![sending].retryCount = @ + 1, ![sending].due = FALSE]
  PROVE  /\ copy \in [Alerts -> Item]
         /\ \A a \in Alerts : a # sending => copy[a] = items[a]
         /\ \A a \in Alerts : Has(items, a) => Has(copy, a)
         /\ \A a \in todo : IsPending(copy[a]) /\ copy[a].retryCount < MaxRetries
<1>1. /\ items \in [Alerts -> Item] /\ sending \in Alerts /\ todo \subseteq Alerts \ {sending}
      /\ IsPending(items[sending]) /\ items[sending].retryCount < MaxRetries
      /\ \A a \in todo : IsPending(items[a]) /\ items[a].retryCount < MaxRetries
  BY DEF AlertsTyped, AlertsTypeOK, PassIs
<1>2. /\ items[sending] \in Item /\ items[sending].retryCount + 1 \in 0..MaxRetries
  BY <1>1 DEF Item
<1>3. copy \in [Alerts -> Item] /\ copy[sending].status # "absent"
  BY <1>1, <1>2 DEF Item, IsPending
<1>4. \A a \in Alerts : a # sending => copy[a] = items[a]
  BY <1>1
<1> QED
  BY <1>1, <1>3, <1>4 DEF Has

LEMMA BumpIs == ASSUME NEW n \in 0..2 PROVE Bump(n) \in 0..2 /\ (n = 0 => Bump(n) = 1)
BY DEF Bump

(* A pass starts.                                                          *)
LEMMA StartPassInv == ASSUME AlertsInv, StartPass PROVE AlertsInv'
<1> DEFINE copy == [a \in Alerts |-> IF Fails(a) THEN [file[a] EXCEPT !.status = "failed"]
                                     ELSE file[a]]
           left == {a \in Alerts : Sends(a)}
<1>1. AlertsTypeOK /\ ~processing /\ UNCHANGED <<expired, raised, meanwhile, delivered>>
  BY DEF AlertsInv, AlertsTyped, StartPass, WorkerIsFree
<1>2. PICK io \in {"ok", "disk"} : Proceed(copy, left, io)
  BY DEF StartPass
<1>3. /\ copy \in [Alerts -> Item]
      /\ \A a \in Alerts : /\ Has(copy, a) <=> Has(file, a)
                           /\ IsPending(copy[a]) => IsPending(file[a])
                           /\ Sends(a) => /\ IsPending(copy[a])
                                          /\ copy[a].retryCount < MaxRetries
  BY <1>1, StartCopy
<1>4. left \in SUBSET Alerts /\ \A a \in left : IsPending(copy[a]) /\ copy[a].retryCount < MaxRetries
  BY <1>3
<1> HIDE DEF copy, left
<1>5. /\ file' \in [Alerts -> Item] /\ items' \in [Alerts -> Item]
      /\ processing' \in BOOLEAN /\ todo' \subseteq Alerts /\ sending' \in Alerts \cup {None}
      /\ slips' \in 0..MaxSlips /\ (slips' = 0 => io = "ok" /\ slips = 0)
      /\ PassIs'
      /\ io = "ok" => Current' = copy /\ file' \in {file, copy}
      /\ items' \in {Empty, copy}
  BY <1>1, <1>2, <1>3, <1>4, ProceedIs
<1>6. AlertsTyped'
  BY <1>1, <1>5 DEF AlertsTyped, AlertsTypeOK
<1>7. ASSUME slips' = 0 PROVE Undelivered'
  <2>1. Undelivered /\ Current = file /\ Current' = copy
    BY <1>1, <1>5, <1>7 DEF AlertsInv, Current
  <2>2. ASSUME NEW a \in Alerts
        PROVE  /\ delivered'[a] <= 1
               /\ IsPending(Current'[a]) => delivered'[a] = 0
               /\ a \notin raised' => ~Has(file', a) /\ ~Has(items', a) /\ delivered'[a] = 0
    <3>1. delivered[a] <= 1 /\ (IsPending(copy[a]) => delivered[a] = 0)
      BY <1>3, <2>1 DEF Undelivered
    <3>2. a \notin raised => ~Has(file, a) /\ ~Has(copy, a) /\ ~Has(Empty, a) /\ delivered[a] = 0
      BY <1>3, <2>1 DEF Undelivered, Has, Empty, Absent
    <3> QED
      BY <1>1, <1>5, <1>7, <2>1, <3>1, <3>2
  <2> QED
    BY <2>2 DEF Undelivered
<1> QED
  BY <1>6, <1>7 DEF AlertsInv

(* A send of the pass works or throws.                                     *)
LEMMA SendInv == ASSUME AlertsInv, SendWorks \/ SendThrows PROVE AlertsInv'
<1>1. AlertsTyped /\ AlertsTypeOK /\ processing /\ UNCHANGED <<expired, raised, meanwhile>>
  BY DEF AlertsInv, AlertsTyped, SendWorks, SendThrows
<1>2. PICK copy, io :
        /\ Proceed(copy, todo, io)
        /\ \/ /\ copy = [items EXCEPT ![sending].status = "sent"]
              /\ delivered' = [delivered EXCEPT ![sending] = Bump(@)]
           \/ /\ copy = [items EXCEPT ![sending].retryCount = @ + 1, ![sending].due = FALSE]
              /\ delivered' = IF io = "answer" THEN [delivered EXCEPT ![sending] = Bump(@)]
                              ELSE delivered
  BY DEF SendWorks, SendThrows
<1>3. /\ copy \in [Alerts -> Item]
      /\ \A a \in Alerts : a # sending => copy[a] = items[a]
      /\ \A a \in todo : IsPending(copy[a]) /\ copy[a].retryCount < MaxRetries
  BY <1>1, <1>2, SentCopy
<1>4. todo \in SUBSET Alerts
  BY <1>1 DEF AlertsTypeOK
<1>5. /\ file' \in [Alerts -> Item] /\ items' \in [Alerts -> Item]
      /\ processing' \in BOOLEAN /\ todo' \subseteq Alerts /\ sending' \in Alerts \cup {None}
      /\ slips' \in 0..MaxSlips /\ (slips' = 0 => io = "ok" /\ slips = 0)
      /\ PassIs'
      /\ io = "ok" => Current' = copy /\ file' \in {file, copy}
      /\ items' \in {Empty, copy}
  BY <1>1, <1>2, <1>3, <1>4, ProceedIs
<1>6. /\ sending \in Alerts /\ IsPending(items[sending]) /\ items \in [Alerts -> Item]
      /\ delivered \in [Alerts -> 0..2]
  BY <1>1 DEF AlertsTyped, AlertsTypeOK, PassIs
<1>7. Bump(delivered[sending]) \in 0..2 /\ (delivered[sending] = 0 => Bump(delivered[sending]) = 1)
  BY <1>6, BumpIs
<1>8. delivered' \in [Alerts -> 0..2]
  BY <1>2, <1>6, <1>7
<1>9. AlertsTyped'
  BY <1>1, <1>5, <1>8 DEF AlertsTyped, AlertsTypeOK
<1>10. ASSUME slips' = 0 PROVE Undelivered'
  <2>1. Undelivered /\ Current = items /\ Current' = copy /\ io = "ok"
    BY <1>1, <1>5, <1>10 DEF AlertsInv, Current
  <2>2. delivered[sending] = 0 /\ sending \in raised
    BY <1>6, <2>1 DEF Undelivered, Has, IsPending
  <2>3. \A a \in Alerts : a # sending => delivered'[a] = delivered[a]
    BY <1>2, <1>6
  <2>4. delivered'[sending] <= 1 /\ (IsPending(copy[sending]) => delivered'[sending] = 0)
    <3>1. CASE /\ copy = [items EXCEPT ![sending].status = "sent"]
               /\ delivered' = [delivered EXCEPT ![sending] = Bump(@)]
      <4>1. copy[sending].status = "sent"
        BY <1>6, <3>1 DEF Item
      <4>2. delivered'[sending] = 1
        BY <1>6, <1>7, <2>2, <3>1
      <4> QED
        BY <4>1, <4>2 DEF IsPending
    <3>2. CASE delivered' = delivered
      BY <2>2, <3>2
    <3> QED
      BY <1>2, <2>1, <3>1, <3>2
  <2>5. \A a \in Alerts \ {sending} :
          delivered[a] <= 1 /\ (IsPending(copy[a]) => delivered[a] = 0)
    BY <1>3, <2>1 DEF Undelivered
  <2>6. \A a \in Alerts \ raised :
          ~Has(file, a) /\ ~Has(copy, a) /\ ~Has(Empty, a) /\ delivered[a] = 0
    BY <1>3, <2>1, <2>2 DEF Undelivered, Has, Empty, Absent
  <2>7. ASSUME NEW a \in Alerts
        PROVE  /\ delivered'[a] <= 1
               /\ IsPending(Current'[a]) => delivered'[a] = 0
               /\ a \notin raised' => ~Has(file', a) /\ ~Has(items', a) /\ delivered'[a] = 0
    <3>1. CASE a = sending
      BY <1>1, <2>1, <2>2, <2>4, <3>1
    <3>2. CASE a # sending
      BY <1>1, <1>5, <2>1, <2>3, <2>5, <2>6, <3>2
    <3> QED
      BY <3>1, <3>2
  <2> QED
    BY <2>7 DEF Undelivered
<1> QED
  BY <1>9, <1>10 DEF AlertsInv

(* An alert is raised: it is taken, or it goes into the file.              *)
LEMMA SendQueuedInv == ASSUME AlertsInv, NEW a \in Alerts, SendQueued(a) PROVE AlertsInv'
<1>1. AlertsTyped /\ AlertsTypeOK /\ a \notin raised /\ raised' = raised \cup {a}
      /\ UNCHANGED <<items, processing, todo, sending, expired>>
  BY DEF AlertsInv, AlertsTyped, SendQueued, pass
<1>2. PICK took \in BOOLEAN, io \in {"ok", "answer", "disk"} :
        /\ Happens(io)
        /\ io = "answer" => took
        /\ delivered' = IF took THEN [delivered EXCEPT ![a] = Bump(@)] ELSE delivered
        /\ \/ file' = file /\ took /\ io # "answer"
           \/ file' \in {file, Empty, Queued(Empty, a)} /\ io = "disk"
           \/ file' = Queued(file, a) /\ (io = "ok" => ~took)
        /\ meanwhile' \in {meanwhile, meanwhile \cup {a}}
  BY DEF SendQueued, AfterFailedWrite
<1>3. /\ file \in [Alerts -> Item] /\ delivered \in [Alerts -> 0..2] /\ slips \in 0..MaxSlips
  BY <1>1 DEF AlertsTypeOK
<1>4. slips' \in 0..MaxSlips /\ (slips' = 0 => io = "ok" /\ slips = 0)
  BY <1>2, <1>3, HappensIs
<1>5. delivered' \in [Alerts -> 0..2] /\ \A b \in Alerts \ {a} : delivered'[b] = delivered[b]
  BY <1>2, <1>3, BumpIs
<1>6. file' \in [Alerts -> Item] /\ (io = "ok" => \A b \in Alerts \ {a} : file'[b] = file[b])
  BY <1>2, <1>3, Entries DEF Queued
<1>7. AlertsTyped'
  BY <1>1, <1>2, <1>4, <1>5, <1>6 DEF AlertsTyped, AlertsTypeOK, PassIs
<1>8. ASSUME slips' = 0 PROVE Undelivered'
  <2>1. Undelivered /\ io = "ok"
    BY <1>4, <1>8 DEF AlertsInv
  <2>2. delivered[a] = 0 /\ ~Has(items, a) /\ ~Has(file, a)
    BY <1>1, <2>1 DEF Undelivered
  <2>3. delivered'[a] <= 1
    BY <1>2, <1>3, <1>5, <2>2, BumpIs
  <2>4. ASSUME IsPending(Current'[a]) PROVE delivered'[a] = 0
    <3>1. CASE processing
      BY <1>1, <2>2, <2>4, <3>1 DEF Current, IsPending, Has
    <3>2. CASE ~processing
      <4>1. IsPending(file'[a]) /\ ~IsPending(file[a])
        BY <1>1, <2>2, <2>4, <3>2 DEF Current, IsPending, Has
      <4>2. ~took
        BY <1>2, <2>1, <4>1
      <4> QED
        BY <1>2, <2>2, <4>2
    <3> QED
      BY <3>1, <3>2
  <2>5. \A b \in Alerts \ {a} : Current'[b] = Current[b]
    BY <1>1, <1>6, <2>1 DEF Current
  <2>6. ASSUME NEW b \in Alerts, b # a
        PROVE  /\ delivered'[b] <= 1
               /\ IsPending(Current'[b]) => delivered'[b] = 0
               /\ b \notin raised' => ~Has(file', b) /\ ~Has(items', b) /\ delivered'[b] = 0
    <3>1. delivered'[b] = delivered[b] /\ Current'[b] = Current[b] /\ file'[b] = file[b]
          /\ items' = items
      BY <1>1, <1>5, <1>6, <2>1, <2>5, <2>6
    <3>2. /\ delivered[b] <= 1
          /\ IsPending(Current[b]) => delivered[b] = 0
          /\ b \notin raised => ~Has(file, b) /\ ~Has(items, b) /\ delivered[b] = 0
      BY <2>1 DEF Undelivered
    <3> QED
      BY <1>1, <3>1, <3>2 DEF Has
  <2> QED
    BY <1>1, <2>3, <2>4, <2>6 DEF Undelivered
<1> QED
  BY <1>7, <1>8 DEF AlertsInv

(* An alert in the file is due again.                                      *)
LEMMA DueAgainInv == ASSUME AlertsInv, NEW a \in Alerts, DueAgain(a) PROVE AlertsInv'
<1>1. AlertsTyped /\ AlertsTypeOK /\ ~processing /\ file' = [file EXCEPT ![a].due = TRUE]
      /\ UNCHANGED <<items, processing, todo, sending, expired, raised, meanwhile, delivered, slips>>
  BY DEF AlertsInv, AlertsTyped, DueAgain, pass
<1>2. file \in [Alerts -> Item]
  BY <1>1 DEF AlertsTypeOK
<1>3. [file[a] EXCEPT !.due = TRUE] \in Item
  BY <1>2 DEF Item
<1>4. file' \in [Alerts -> Item]
  BY <1>1, <1>2, <1>3
<1>5. \A b \in Alerts : file'[b].status = file[b].status
  BY <1>1, <1>2 DEF Item
<1>6. AlertsTyped'
  BY <1>1, <1>2, <1>4 DEF AlertsTyped, AlertsTypeOK, PassIs
<1>7. Undelivered => Undelivered'
  BY <1>1, <1>5 DEF Undelivered, Current, Has, IsPending
<1> QED
  BY <1>1, <1>6, <1>7 DEF AlertsInv

LEMMA AlertsStep == ASSUME AlertsInv, [AlertsNext]_alertVars PROVE AlertsInv'
<1>1. ASSUME NEW a \in Alerts, Expires(a) PROVE AlertsInv'
  BY <1>1 DEF Expires, pass, AlertsInv, AlertsTyped, AlertsTypeOK, PassIs, Undelivered, Current
<1>2. CASE Crash
  <2>1. /\ file' \in {file, Empty} /\ items' = Empty /\ processing' = FALSE /\ todo' = {}
        /\ sending' = None /\ UNCHANGED <<expired, raised, meanwhile, delivered>> /\ Happens("crash")
    BY <1>2 DEF Crash, AfterFailedWrite
  <2>2. slips' \in 0..MaxSlips /\ slips' # 0
    BY <2>1, HappensIs DEF AlertsInv, AlertsTyped, AlertsTypeOK
  <2>3. AlertsTyped'
    BY <2>1, <2>2, Entries DEF AlertsInv, AlertsTyped, AlertsTypeOK, PassIs
  <2> QED
    BY <2>2, <2>3 DEF AlertsInv
<1>3. CASE UNCHANGED alertVars
  BY <1>3 DEF alertVars, AlertsInv, AlertsTyped, AlertsTypeOK, PassIs, Undelivered, Current
<1> QED
  BY <1>1, <1>2, <1>3, SendQueuedInv, DueAgainInv, StartPassInv, SendInv DEF AlertsNext, Pass

LEMMA AlertsInvariance == AlertsSpec => []AlertsInv
<1>1. AlertsInit => AlertsInv
  <2> SUFFICES ASSUME AlertsInit PROVE AlertsInv
    OBVIOUS
  <2>1. /\ file = Empty /\ items = Empty /\ processing = FALSE /\ todo = {} /\ sending = None
        /\ expired = {} /\ raised = {} /\ meanwhile = {} /\ slips = 0 /\ delivered = [a \in Alerts |-> 0]
    BY DEF AlertsInit
  <2>2. delivered \in [Alerts -> 0..2] /\ slips \in 0..MaxSlips
    BY <2>1
  <2>3. AlertsTyped
    BY <2>1, <2>2, Entries DEF AlertsTyped, AlertsTypeOK, PassIs
  <2>4. \A a \in Alerts : Empty[a].status = "absent"
    BY DEF Empty, Absent
  <2>5. Undelivered
    BY <2>1, <2>4 DEF Undelivered, Current, Has, IsPending
  <2> QED
    BY <2>3, <2>5 DEF AlertsInv
<1>2. AlertsInv /\ [AlertsNext]_alertVars => AlertsInv'
  BY AlertsStep
<1> QED
  BY <1>1, <1>2, PTL DEF AlertsSpec

(* Every variable has its type, and no alert is tried more often than      *)
(* allowed, whatever fails.                                                *)
THEOREM AlertsAreTyped == AlertsSpec => []AlertsTypeOK
<1>1. AlertsInv => AlertsTypeOK
  BY DEF AlertsInv, AlertsTyped
<1> QED
  BY <1>1, AlertsInvariance, PTL

(* Without a fault no alert reaches the channel twice, for any number of   *)
(* alerts and retries, though new ones come while a pass works on its copy.*)
THEOREM AlertsOnce == AlertsSpec => []DeliveredOnce
<1>1. AlertsInv => DeliveredOnce
  BY DEF AlertsInv, Undelivered, DeliveredOnce
<1> QED
  BY <1>1, AlertsInvariance, PTL

(***************************************************************************)
(* What is kept.  The file and, while a pass runs, its copy hold every     *)
(* alert that was neither delivered nor queued during a pass; the copy has *)
(* to, for it becomes the file.                                            *)
(***************************************************************************)
Kept(q) == \A a \in raised \ meanwhile : delivered[a] > 0 \/ q[a].status \in {"pending", "failed"}

KeptInv == slips = 0 => Kept(file) /\ Kept(Current)

(* The pass goes on with a copy that holds them.                           *)
LEMMA ProceedKeeps ==
  ASSUME AlertsInv, KeptInv, NEW copy \in [Alerts -> Item], NEW left \in SUBSET Alerts, NEW io,
         Proceed(copy, left, io), UNCHANGED <<raised, meanwhile>>,
         \A a \in left : IsPending(copy[a]) /\ copy[a].retryCount < MaxRetries,
         delivered' \in [Alerts -> 0..2],
         \A a \in Alerts : delivered'[a] >= delivered[a],
         slips = 0 /\ io = "ok" =>
           \A a \in raised \ meanwhile : delivered'[a] > 0 \/ copy[a].status \in {"pending", "failed"}
  PROVE  KeptInv'
<1>1. /\ slips' = 0 => io = "ok" /\ slips = 0
      /\ io = "ok" => Current' = copy /\ file' \in {file, copy}
  BY ProceedIs DEF AlertsInv, AlertsTyped
<1>2. delivered \in [Alerts -> 0..2] /\ raised \subseteq Alerts
  BY DEF AlertsInv, AlertsTyped, AlertsTypeOK
<1>3. ASSUME slips' = 0, NEW a \in raised \ meanwhile
      PROVE  /\ delivered'[a] > 0 \/ file'[a].status \in {"pending", "failed"}
             /\ delivered'[a] > 0 \/ Current'[a].status \in {"pending", "failed"}
  <2>1. delivered[a] > 0 \/ file[a].status \in {"pending", "failed"}
    BY <1>1, <1>3 DEF KeptInv, Kept
  <2>2. delivered'[a] > 0 \/ copy[a].status \in {"pending", "failed"}
    BY <1>1, <1>3
  <2>3. delivered[a] > 0 => delivered'[a] > 0
    BY <1>2, <1>3
  <2> QED
    BY <1>1, <1>3, <2>1, <2>2, <2>3
<1> QED
  BY <1>3 DEF KeptInv, Kept

(* Every step keeps them.                                                  *)
LEMMA KeptStep == ASSUME AlertsInv, KeptInv, [AlertsNext]_alertVars PROVE KeptInv'
<1>1. /\ AlertsTypeOK /\ AlertsTyped /\ file \in [Alerts -> Item] /\ items \in [Alerts -> Item]
      /\ delivered \in [Alerts -> 0..2] /\ slips \in 0..MaxSlips /\ raised \subseteq Alerts
      /\ todo \in SUBSET Alerts
  BY DEF AlertsInv, AlertsTyped, AlertsTypeOK
<1>2. CASE StartPass
  <2> DEFINE copy == [a \in Alerts |-> IF Fails(a) THEN [file[a] EXCEPT !.status = "failed"]
                                       ELSE file[a]]
             left == {a \in Alerts : Sends(a)}
  <2>1. PICK io \in {"ok", "disk"} : Proceed(copy, left, io)
    BY <1>2 DEF StartPass
  <2>2. UNCHANGED <<raised, meanwhile, delivered>>
    BY <1>2 DEF StartPass
  <2>3. /\ copy \in [Alerts -> Item]
        /\ \A a \in left : IsPending(copy[a]) /\ copy[a].retryCount < MaxRetries
        /\ left \in SUBSET Alerts
    BY <1>1, StartCopy
  <2>4. \A a \in Alerts : copy[a].status \in {"failed", file[a].status}
    <3>1. ASSUME NEW a \in Alerts PROVE copy[a].status \in {"failed", file[a].status}
      <4>1. file[a] \in Item
        BY <1>1
      <4> QED
        BY <4>1 DEF Item
    <3> QED
      BY <3>1
  <2> HIDE DEF copy, left
  <2>5. slips = 0 => \A a \in raised \ meanwhile :
                       delivered'[a] > 0 \/ copy[a].status \in {"pending", "failed"}
    BY <1>1, <2>2, <2>4 DEF KeptInv, Kept
  <2>6. \A a \in Alerts : delivered'[a] >= delivered[a]
    BY <1>1, <2>2
  <2> QED
    BY <1>1, <2>1, <2>2, <2>3, <2>5, <2>6, ProceedKeeps
<1>3. CASE SendWorks \/ SendThrows
  <2>1. PICK copy, io :
          /\ Proceed(copy, todo, io)
          /\ \/ /\ copy = [items EXCEPT ![sending].status = "sent"]
                /\ delivered' = [delivered EXCEPT ![sending] = Bump(@)]
             \/ /\ copy = [items EXCEPT ![sending].retryCount = @ + 1, ![sending].due = FALSE]
                /\ delivered' \in {delivered, [delivered EXCEPT ![sending] = Bump(@)]}
    BY <1>3 DEF SendWorks, SendThrows
  <2>2. processing /\ UNCHANGED <<raised, meanwhile>>
    BY <1>3 DEF SendWorks, SendThrows
  <2>3. /\ copy \in [Alerts -> Item]
        /\ \A a \in Alerts : a # sending => copy[a] = items[a]
        /\ \A a \in todo : IsPending(copy[a]) /\ copy[a].retryCount < MaxRetries
    BY <1>1, <2>1, <2>2, SentCopy
  <2>4. sending \in Alerts /\ IsPending(items[sending]) /\ items[sending] \in Item
    BY <1>1, <2>2 DEF AlertsTyped, PassIs
  <2>5. Bump(delivered[sending]) \in 1..2 /\ Bump(delivered[sending]) >= delivered[sending]
    BY <1>1, <2>4 DEF Bump
  <2>6. delivered' \in [Alerts -> 0..2] /\ \A a \in Alerts : delivered'[a] >= delivered[a]
    BY <1>1, <2>1, <2>4, <2>5
  <2>7. delivered'[sending] > 0 \/ copy[sending].status \in {"pending", "failed"}
    <3>1. CASE copy = [items EXCEPT ![sending].retryCount = @ + 1, ![sending].due = FALSE]
      BY <1>1, <2>4, <3>1 DEF Item, IsPending
    <3>2. CASE delivered' = [delivered EXCEPT ![sending] = Bump(@)]
      BY <1>1, <2>4, <2>5, <3>2
    <3> QED
      BY <2>1, <3>1, <3>2
  <2>8. slips = 0 => \A a \in raised \ meanwhile :
                       delivered'[a] > 0 \/ copy[a].status \in {"pending", "failed"}
    <3>1. ASSUME slips = 0, NEW a \in raised \ meanwhile, a # sending
          PROVE  delivered'[a] > 0 \/ copy[a].status \in {"pending", "failed"}
      <4>1. delivered[a] > 0 \/ items[a].status \in {"pending", "failed"}
        BY <2>2, <3>1 DEF KeptInv, Kept, Current
      <4> QED
        BY <1>1, <2>3, <2>6, <3>1, <4>1
    <3> QED
      BY <2>7, <3>1
  <2> QED
    BY <1>1, <2>1, <2>2, <2>3, <2>6, <2>8, ProceedKeeps
<1>4. ASSUME NEW a \in Alerts, SendQueued(a) PROVE KeptInv'
  <2>1. PICK took \in BOOLEAN, io \in {"ok", "answer", "disk"} :
          /\ Happens(io)
          /\ delivered' = IF took THEN [delivered EXCEPT ![a] = Bump(@)] ELSE delivered
          /\ io = "ok" => IF took THEN UNCHANGED <<file, meanwhile>>
                          ELSE /\ file' = Queued(file, a)
                               /\ meanwhile' = IF processing THEN meanwhile \cup {a} ELSE meanwhile
    BY <1>4 DEF SendQueued
  <2>2. raised' = raised \cup {a} /\ UNCHANGED <<items, processing>>
    BY <1>4 DEF SendQueued, pass
  <2>3. ASSUME slips' = 0 PROVE slips = 0 /\ io = "ok"
    BY <1>1, <2>1, <2>3, HappensIs
  <2>4. Bump(delivered[a]) > 0
    BY <1>1 DEF Bump
  <2>5. ASSUME slips' = 0, NEW b \in raised' \ meanwhile'
        PROVE  /\ delivered'[b] > 0 \/ file'[b].status \in {"pending", "failed"}
               /\ delivered'[b] > 0 \/ Current'[b].status \in {"pending", "failed"}
    <3>1. CASE took /\ b = a
      BY <1>1, <2>1, <2>4, <3>1
    <3>2. CASE ~took /\ b = a
      <4>1. ~processing /\ file'[a] = NewItem
        BY <1>1, <2>1, <2>3, <2>5, <3>2 DEF Queued
      <4> QED
        BY <2>2, <3>2, <4>1 DEF Current, NewItem
    <3>3. CASE b # a
      <4>1. b \in raised \ meanwhile
        BY <2>1, <2>2, <2>3, <2>5, <3>3
      <4>2. delivered'[b] = delivered[b] /\ file'[b] = file[b]
        BY <1>1, <2>1, <2>3, <2>5, <3>3, <4>1 DEF Queued
      <4>3. Current'[b] = Current[b]
        BY <2>2, <4>2 DEF Current
      <4> QED
        BY <2>3, <2>5, <4>1, <4>2, <4>3 DEF KeptInv, Kept
    <3> QED
      BY <3>1, <3>2, <3>3
  <2> QED
    BY <2>5 DEF KeptInv, Kept
<1>5. ASSUME NEW a \in Alerts, DueAgain(a) PROVE KeptInv'
  <2>1. file' = [file EXCEPT ![a].due = TRUE]
        /\ UNCHANGED <<items, processing, raised, meanwhile, delivered, slips>>
    BY <1>5 DEF DueAgain, pass
  <2>2. \A b \in Alerts : file'[b].status = file[b].status
    BY <1>1, <2>1 DEF Item
  <2>3. \A b \in Alerts : Current'[b].status = Current[b].status
    BY <2>1, <2>2 DEF Current
  <2> QED
    BY <1>1, <2>1, <2>2, <2>3 DEF KeptInv, Kept
<1>6. CASE Crash
  <2>1. slips' # 0
    BY <1>1, <1>6, HappensIs DEF Crash
  <2> QED
    BY <2>1 DEF KeptInv
<1>7. ASSUME UNCHANGED <<file, pass, raised, meanwhile, delivered, slips>> PROVE KeptInv'
  BY <1>7 DEF pass, KeptInv, Kept, Current
<1>8. UNCHANGED alertVars => KeptInv'
  BY <1>7 DEF alertVars, pass
<1>9. ASSUME NEW a \in Alerts, Expires(a) PROVE KeptInv'
  BY <1>7, <1>9 DEF Expires
<1> QED
  BY <1>2, <1>3, <1>4, <1>5, <1>6, <1>8, <1>9 DEF AlertsNext, Pass

(* For any number of alerts and retries: without a fault, the only alerts  *)
(* that can be lost are those queued while a pass works on its copy.       *)
THEOREM OnlyLateAlertsAreLost == AlertsSpec => []OnlyMeanwhileIsLost
<1>1. AlertsInit => KeptInv
  BY DEF AlertsInit, KeptInv, Kept
<1>2. AlertsInv /\ KeptInv /\ [AlertsNext]_alertVars => KeptInv'
  BY KeptStep
<1>3. KeptInv => OnlyMeanwhileIsLost
  BY DEF KeptInv, Kept, OnlyMeanwhileIsLost
<1> QED
  BY <1>1, <1>2, <1>3, AlertsInvariance, PTL DEF AlertsSpec
=============================================================================
