--------------------------- MODULE AdminApiProofs ---------------------------
(***************************************************************************)
(* Proofs about AdminApi, for any keys, entries and limits.                *)
(***************************************************************************)
EXTENDS AdminApi, SequenceTheorems, TLAPS

(* A request that is let in at a money route carries the money key.        *)
LEMMA MoneyScope ==
  ASSUME NEW given, NEW route, Check(given, Scope(route)) = "ok", NamesMoney(route)
  PROVE  given = adminKey /\ adminKey # Blank
<1>1. Scope(route) = "money"
  BY DEF Scope
<1> QED  BY <1>1 DEF Check, KeysOf

(* What one request may do.                                                *)
LEMMA RequestActs ==
  ASSUME NEW given, NEW route, Request(given, route)
  PROVE  /\ by' = given /\ adminKey' = adminKey /\ readKey' = readKey
         /\ queue' # queue \/ moved' # "nothing" => given = adminKey /\ adminKey # Blank
         /\ answer' = "ok" => Check(given, Scope(route)) = "ok"
<1>1. by' = given /\ adminKey' = adminKey /\ readKey' = readKey
  BY DEF Request, keys
<1>2. queue' # queue \/ moved' # "nothing" => NamesMoney(route) /\ Check(given, Scope(route)) = "ok"
  BY DEF Request, LookUp, NamesMoney
<1>3. answer' = "ok" => Check(given, Scope(route)) = "ok"
  BY DEF Request
<1> QED  BY <1>1, <1>2, <1>3, MoneyScope

(* Only the money key of the moment acts, however the keys are changed.    *)
THEOREM OnlyMoneyActs == Spec => MoneyKeyActs
<1>1. ASSUME Next, queue' # queue \/ moved' # "nothing"
      PROVE  by' = adminKey /\ adminKey # Blank
  <2>1. ASSUME NEW given, NEW route, Request(given, route)
        PROVE  by' = adminKey /\ adminKey # Blank
    BY <1>1, <2>1, RequestActs
  <2>2. ~(ChangeKeys \/ (NoRequest /\ UNCHANGED <<keys, queue>>))
    BY <1>1 DEF ChangeKeys, NoRequest
  <2> QED  BY <1>1, <2>1, <2>2 DEF Next, AdminRequest, ReadLogPage
<1>2. UNCHANGED vars => UNCHANGED accessVars
  BY DEF vars
<1>3. [Next]_vars => [queue' # queue \/ moved' # "nothing" => by' = adminKey /\ adminKey # Blank]_accessVars
  BY <1>1, <1>2
<1> QED  BY <1>3, PTL DEF Spec, MoneyKeyActs

(* The client's pages are counted.                                         *)
Counted == "pages" \in DOMAIN walk /\ walk.pages \in Nat

LEMMA PagesAreCounted == Spec => []Counted
<1>1. Init => Counted
  BY DEF Init, LogInit, Idle, Counted
<1>2. Counted /\ [Next]_vars => Counted'
  <2> SUFFICES ASSUME Counted, [Next]_vars PROVE Counted'
    OBVIOUS
  <2>1. ASSUME NEW asked, StartWalk(asked) PROVE Counted'
    BY <2>1 DEF StartWalk, Idle, Counted
  <2>2. CASE NextPage
    BY <2>2 DEF NextPage, Counted
  <2>3. CASE walk' = walk
    BY <2>3 DEF Counted
  <2> QED
    BY <2>1, <2>2, <2>3
    DEF Next, AdminRequest, ReadLogPage, AppendErrorLog, LogIsDamaged, vars, logVars
<1> QED  BY <1>1, <1>2, PTL DEF Spec

(* No page is read without a key that is set, however the keys change.     *)
THEOREM OnlyKeysRead == Spec => PagesNeedAKey
<1> DEFINE Reads == walk'.seen # walk.seen /\ walk'.pages > walk.pages
<1>1. ASSUME Counted, Next, Reads
      PROVE  by' \in {adminKey, readKey} \ {Blank}
  <2>1. ASSUME NEW given, ReadLogPage(given)
        PROVE  by' \in {adminKey, readKey} \ {Blank}
    <3>1. Request(given, LogRoute) /\ answer' = "ok"
      BY <1>1, <2>1 DEF ReadLogPage, logVars
    <3>2. by' = given /\ Check(given, Scope(LogRoute)) = "ok"
      BY <3>1, RequestActs
    <3> QED  BY <3>2 DEF Check, KeysOf
  <2>2. ASSUME NEW asked, StartWalk(asked)
        PROVE  FALSE
    <3>1. walk'.pages = 0
      BY <2>2 DEF StartWalk, Idle
    <3> QED  BY <1>1, <3>1 DEF Counted
  <2> QED
    BY <1>1, <2>1, <2>2 DEF Next, AdminRequest, AppendErrorLog, LogIsDamaged, logVars
<1>2. UNCHANGED vars => ~Reads
  BY DEF vars, logVars
<1>3. Counted /\ [Next]_vars => [Reads => by' \in {adminKey, readKey} \ {Blank}]_vars
  BY <1>1, <1>2
<1> QED  BY <1>3, PagesAreCounted, PTL DEF Spec, PagesNeedAKey

(* Every refusal is true of the keys that are set.                         *)
THEOREM TrueRefusals == Spec => []RefusalsAreTrue
<1>1. Init => RefusalsAreTrue
  BY DEF Init, AccessInit, RefusalsAreTrue
<1>2. RefusalsAreTrue /\ [Next]_vars => RefusalsAreTrue'
  <2> SUFFICES ASSUME RefusalsAreTrue, [Next]_vars PROVE RefusalsAreTrue'
    OBVIOUS
  <2>1. ASSUME NEW given, NEW route, Request(given, route)
        PROVE  RefusalsAreTrue'
    <3> DEFINE outcome == Check(given, Scope(route))
    <3>1. by' = given /\ adminKey' = adminKey /\ readKey' = readKey
      BY <2>1, RequestActs
    <3>2. \/ outcome # "ok" /\ answer' = outcome
          \/ outcome = "ok" /\ answer' \in {"ok", "refused", "not_found"}
      BY <2>1 DEF Request, Delete, AskTheBank, LookUp
    <3>3. outcome = "unconfigured" => {adminKey, readKey} = {Blank}
      BY DEF Check, KeysOf
    <3>4. outcome = "forbidden" => given = readKey /\ given # adminKey
      BY DEF Check, KeysOf
    <3>5. given \notin {adminKey, readKey} \ {Blank} => outcome \in {"unconfigured", "unauthorized"}
      BY DEF Check, KeysOf
    <3> QED  BY <3>1, <3>2, <3>3, <3>4, <3>5 DEF RefusalsAreTrue
  <2>2. CASE NoRequest
    BY <2>2 DEF NoRequest, RefusalsAreTrue
  <2>3. CASE UNCHANGED vars
    BY <2>3 DEF vars, accessVars, keys, request, RefusalsAreTrue
  <2> QED
    BY <2>1, <2>2, <2>3 DEF Next, AdminRequest, ReadLogPage, ChangeKeys
<1> QED  BY <1>1, <1>2, PTL DEF Spec

(***************************************************************************)
(* The sequences of the log: what the bound leaves, and what a page shows. *)
(***************************************************************************)
LEMMA BoundedIs ==
  ASSUME NEW entries \in Seq(Nat)
  PROVE  /\ Bounded(entries) \in Seq(Nat)
         /\ Len(Bounded(entries)) <= Len(entries)
         /\ Len(Bounded(entries)) <= MaxEntries
         /\ \A i \in 1..Len(Bounded(entries)) :
              Bounded(entries)[i] = entries[Len(entries) - Len(Bounded(entries)) + i]
<1> DEFINE n == Len(entries)
           b == Least(n, MaxEntries)
<1>1. n \in Nat /\ MaxEntries \in Nat /\ \A i \in 1..n : entries[i] \in Nat
  BY LogAssumption, LenProperties
<1>2. b \in 0..n /\ b <= MaxEntries
  BY <1>1 DEF Least
<1> HIDE DEF n, b
<1>3. \A i \in (n - b + 1)..n : entries[i] \in Nat
  BY <1>1, <1>2
<1>4. /\ SubSeq(entries, n - b + 1, n) \in Seq(Nat)
      /\ Len(SubSeq(entries, n - b + 1, n)) = b
      /\ \A i \in 1..b : SubSeq(entries, n - b + 1, n)[i] = entries[n - b + i]
  <2>1. n - b + 1 \in Int /\ n \in Int
    BY <1>1, <1>2
  <2>2. /\ SubSeq(entries, n - b + 1, n) \in Seq(Nat)
        /\ Len(SubSeq(entries, n - b + 1, n))
             = IF n - b + 1 <= n THEN n - (n - b + 1) + 1 ELSE 0
        /\ \A i \in 1..(n - (n - b + 1) + 1) :
             SubSeq(entries, n - b + 1, n)[i] = entries[n - b + 1 + i - 1]
    BY <1>3, <2>1, SubSeqProperties
  <2>3. n - (n - b + 1) + 1 = b /\ (n - b + 1 <= n <=> b # 0)
    BY <1>1, <1>2
  <2>4. \A i \in 1..b : n - b + 1 + i - 1 = n - b + i
    BY <1>1, <1>2
  <2> QED
    BY <1>2, <2>2, <2>3, <2>4
<1>5. Bounded(entries) = SubSeq(entries, n - b + 1, n)
  BY DEF Bounded, n, b
<1> QED
  BY <1>1, <1>2, <1>4, <1>5 DEF n

(* The newest entry is at place 0 of the list a client reads.              *)
LEMMA NewestFirstIs ==
  ASSUME NEW entries \in Seq(Nat)
  PROVE  /\ NewestFirst(entries) \in Seq(Nat)
         /\ Len(NewestFirst(entries)) = Len(entries)
         /\ \A j \in 1..Len(entries) :
              NewestFirst(entries)[j] = entries[Len(entries) - j + 1]
<1> DEFINE n == Len(entries)
           r == [j \in 1..n |-> entries[(n - j) + 1]]
<1>1. n \in Nat /\ \A i \in 1..n : entries[i] \in Nat
  BY LenProperties
<1>2. NewestFirst(entries) = r
  BY DEF NewestFirst, Reverse
<1>3. \A j \in 1..n : r[j] = entries[n - j + 1]
  OBVIOUS
<1>4. r \in [1..n -> Nat]
  BY <1>1
<1>5. r \in Seq(Nat) /\ Len(r) = n
  <2> HIDE DEF r, n
  <2>1. r \in Seq(Nat)
    BY <1>1, <1>4, SeqDef
  <2> QED
    BY <1>1, <1>4, <2>1, LenProperties
<1> QED
  BY <1>2, <1>3, <1>5

(* A page holds the entries of its window of that list, and no others.     *)
LEMMA PageShows ==
  ASSUME NEW entries \in Seq(Nat), NEW limit \in Nat, NEW offset \in Nat
  PROVE  LET page == PageOf(NewestFirst(entries), limit, offset) IN
         /\ page.total = Len(entries) /\ page.limit = limit
         /\ ToSet(page.items) \subseteq ToSet(entries)
         /\ \A i \in 1..Len(entries) :
              offset <= Len(entries) - i /\ Len(entries) - i < offset + limit
                => entries[i] \in ToSet(page.items)
<1> DEFINE n == Len(entries)
           r == NewestFirst(entries)
           last == Least(offset + limit, n)
           s == SubSeq(r, offset + 1, last)
           page == PageOf(r, limit, offset)
<1>1. n \in Nat /\ r \in Seq(Nat) /\ Len(r) = n /\ DOMAIN entries = 1..n
  BY NewestFirstIs, LenProperties
<1>2. \A j \in 1..n : r[j] = entries[n - j + 1] /\ r[j] \in Nat
  BY NewestFirstIs, LenProperties
<1>3. page.total = n /\ page.limit = limit /\ page.items = s
  BY <1>1 DEF PageOf
<1>4. last \in Int /\ last <= n /\ last <= offset + limit
      /\ (last = n \/ last = offset + limit)
  BY <1>1 DEF Least
<1> HIDE DEF n, r, last, page
<1>5. /\ s \in Seq(Nat)
      /\ Len(s) = IF offset + 1 <= last THEN last - offset ELSE 0
      /\ \A i \in 1..Len(s) : s[i] = r[offset + i]
  <2>1. \A i \in (offset + 1)..last : r[i] \in Nat
    BY <1>2, <1>4, <1>1
  <2> DEFINE m == offset + 1
  <2>2. m \in Int /\ last \in Int /\ \A i \in m..last : r[i] \in Nat
    BY <1>4, <2>1
  <2>3. s = SubSeq(r, m, last)
    OBVIOUS
  <2> HIDE DEF m, s
  <2>4. /\ SubSeq(r, m, last) \in Seq(Nat)
        /\ Len(SubSeq(r, m, last)) = IF m <= last THEN last - m + 1 ELSE 0
        /\ \A i \in 1..(last - m + 1) : SubSeq(r, m, last)[i] = r[m + i - 1]
    BY <2>2, SubSeqProperties
  <2>5. /\ s \in Seq(Nat)
        /\ Len(s) = IF m <= last THEN last - m + 1 ELSE 0
        /\ \A i \in 1..(last - m + 1) : s[i] = r[m + i - 1]
    BY <2>3, <2>4
  <2>6. /\ \A i \in 1..Len(s) : s[i] = r[m + i - 1] /\ m + i - 1 = offset + i
        /\ m - 1 = offset /\ last - m + 1 = last - offset
    <3>1. m = offset + 1
      BY DEF m
    <3> QED
      BY <2>2, <2>5, <3>1
  <2> QED
    BY <2>5, <2>6 DEF m
<1> HIDE DEF s
<1>6. \A i \in 1..Len(s) : offset + i \in 1..n /\ offset + i <= last /\ s[i] = r[offset + i]
  BY <1>1, <1>4, <1>5
<1>7. DOMAIN s = 1..Len(s)
  BY <1>5, LenProperties
<1>8. ToSet(s) \subseteq ToSet(entries)
  <2> SUFFICES ASSUME NEW i \in 1..Len(s) PROVE s[i] \in ToSet(entries)
    BY <1>7 DEF ToSet
  <2>1. s[i] = entries[n - (offset + i) + 1]
    BY <1>2, <1>6
  <2> DEFINE p == offset + i
  <2>2. p \in 1..n
    BY <1>6
  <2> HIDE DEF p
  <2>3. n - p + 1 \in 1..n
    BY <1>1, <2>2
  <2> QED
    BY <1>1, <2>1, <2>3 DEF ToSet, p
<1>9. ASSUME NEW i \in 1..n, offset <= n - i, n - i < offset + limit
      PROVE  entries[i] \in ToSet(s)
  <2> DEFINE j == n - i + 1 - offset
  <2>1. j \in Nat /\ j >= 1 /\ offset + j <= last /\ n - (offset + j) + 1 = i
    BY <1>1, <1>4, <1>9
  <2>2. Len(s) = last - offset
    BY <1>4, <1>5, <2>1
  <2>3. j \in 1..Len(s) /\ offset + j \in 1..n
    BY <1>1, <1>4, <2>1, <2>2
  <2> HIDE DEF j
  <2>4. s[j] = entries[i]
    BY <1>2, <1>6, <2>1, <2>3
  <2> QED
    BY <1>7, <2>3, <2>4 DEF ToSet
<1> QED
  BY <1>3, <1>8, <1>9 DEF n, r, page

(* The log after an entry was written: the new one is the newest, and the  *)
(* others are one place further from the newest than they were.            *)
LEMMA AppendedIs ==
  ASSUME log \in Seq(Nat), NEW x \in Nat
  PROVE  LET l == Bounded(Append(log, x)) IN
         /\ l \in Seq(Nat) /\ Len(l) <= MaxEntries
         /\ \A i \in 1..Len(l) :
              \/ i = Len(l) /\ l[i] = x
              \/ \E j \in 1..Len(log) : l[i] = log[j] /\ Len(log) - j = Len(l) - i - 1
<1> DEFINE a == Append(log, x)
           n == Len(log)
           l == Bounded(a)
<1>1. /\ n \in Nat /\ a \in Seq(Nat) /\ Len(a) = n + 1
      /\ a[n + 1] = x /\ \A j \in 1..n : a[j] = log[j]
  BY LenProperties
<1> HIDE DEF a
<1>2. /\ l \in Seq(Nat) /\ Len(l) <= n + 1 /\ Len(l) <= MaxEntries
      /\ \A i \in 1..Len(l) : l[i] = a[n + 1 - Len(l) + i]
  <2>1. /\ Bounded(a) \in Seq(Nat) /\ Len(Bounded(a)) <= Len(a)
        /\ Len(Bounded(a)) <= MaxEntries
        /\ \A i \in 1..Len(Bounded(a)) : Bounded(a)[i] = a[Len(a) - Len(Bounded(a)) + i]
    BY <1>1, BoundedIs
  <2> QED
    BY <1>1, <2>1
<1> HIDE DEF l
<1>3. Len(l) \in Nat
  BY <1>2, LenProperties
<1> HIDE DEF n
<1>4. ASSUME NEW i \in 1..Len(l)
      PROVE  \/ i = Len(l) /\ l[i] = x
             \/ \E j \in 1..n : l[i] = log[j] /\ n - j = Len(l) - i - 1
  <2>1. CASE i = Len(l)
    <3>1. n + 1 - Len(l) + i = n + 1
      BY <1>1, <1>3, <2>1
    <3> QED
      BY <1>1, <1>2, <2>1, <3>1
  <2>2. CASE i # Len(l)
    <3> DEFINE j == n + 1 - Len(l) + i
    <3>1. j \in 1..n /\ n - j = Len(l) - i - 1
      BY <1>1, <1>2, <1>3, <2>2
    <3>2. l[i] = log[j]
      BY <1>1, <1>2, <3>1
    <3> HIDE DEF j
    <3> QED
      BY <3>1, <3>2
  <2> QED
    BY <2>1, <2>2
<1> QED
  BY <1>2, <1>4 DEF n, l, a

(***************************************************************************)
(* The inductive invariant of the walk.  Whatever was added or dropped     *)
(* since it began, an entry that was there then and is still there was     *)
(* seen if it lies before the offset: an entry added pushes the others     *)
(* away from the newest, so none slips past a client that counts from it.  *)
(***************************************************************************)
LogTyped ==
  /\ log \in Seq(Nat) /\ Len(log) <= MaxEntries
  /\ \A i, j \in 1..Len(log) : i < j => log[i] < log[j]
  /\ appended \in 0..MaxAppends
  /\ \A i \in 1..Len(log) : log[i] \in 1..appended

WalkTyped ==
  walk \in [state : {"idle", "walking", "refused", "done"}, asked : Asked \cup {NoLimit},
            offset : Nat, pages : Nat, seen : SUBSET (1..appended),
            wanted : SUBSET (1..appended)]

SeenBefore(offset) ==
  \A i \in 1..Len(log) :
    log[i] \in walk.wanted /\ Len(log) - i < offset => log[i] \in walk.seen

WalkInv ==
  /\ LogTyped /\ WalkTyped
  /\ walk.state = "walking" => SeenBefore(walk.offset)
  /\ WalkMissesNothing

(* The elements of the log.                                                *)
LEMMA LogElements ==
  ASSUME LogTyped
  PROVE  ToSet(log) = {log[i] : i \in 1..Len(log)} /\ ToSet(log) \subseteq 1..appended
<1>1. DOMAIN log = 1..Len(log)
  BY LenProperties DEF LogTyped
<1>2. ToSet(log) = {log[i] : i \in 1..Len(log)}
  BY <1>1 DEF ToSet
<1>3. \A i \in 1..Len(log) : log[i] \in 1..appended
  BY DEF LogTyped
<1> QED
  BY <1>2, <1>3

LEMMA LimitIs == ASSUME NEW asked \in Asked \cup {NoLimit} PROVE Limit(asked) \in Nat
BY LogAssumption DEF Limit, Least

(* A page is read.                                                         *)
LEMMA NextPageWalk ==
  ASSUME WalkInv, NextPage
  PROVE  WalkInv'
<1> DEFINE w == walk
           limit == Limit(walk.asked)
           page == PageOf(NewestFirst(log), limit, walk.offset)
           next == walk.offset + limit
           p == ToSet(page.items)
<1>1. LogTyped /\ WalkTyped /\ w.state = "walking" /\ SeenBefore(w.offset) /\ log' = log
      /\ appended' = appended
  BY DEF WalkInv, NextPage
<1>2. /\ w.asked \in Asked \cup {NoLimit} /\ w.offset \in Nat /\ w.pages \in Nat
      /\ w.seen \subseteq 1..appended /\ w.wanted \subseteq 1..appended
  BY <1>1 DEF WalkTyped
<1>3. limit \in Nat /\ log \in Seq(Nat) /\ Len(log) \in Nat
  BY <1>1, <1>2, LimitIs, LenProperties DEF LogTyped
<1> HIDE DEF limit
<1>4. /\ page.total = Len(log) /\ page.limit = limit
      /\ p \subseteq ToSet(log)
      /\ \A i \in 1..Len(log) :
           w.offset <= Len(log) - i /\ Len(log) - i < w.offset + limit => log[i] \in p
  BY <1>2, <1>3, PageShows
<1> DEFINE state == IF next < page.total THEN "walking" ELSE "done"
           pages == w.pages + 1
           seen == w.seen \cup p
<1>5. walk' = [w EXCEPT !.state = state, !.offset = next, !.pages = pages, !.seen = seen]
  <2>1. page.limit = limit
    BY <1>4
  <2> QED
    BY <2>1 DEF NextPage, limit
<1>6. p \subseteq 1..appended /\ next \in Nat
  BY <1>1, <1>2, <1>3, <1>4, LogElements
<1> HIDE DEF page, p, w, next
<1>7. WalkTyped'
  <2> DEFINE States == {"idle", "walking", "refused", "done"}
             Entries == SUBSET (1..appended)
             R == [state : States, asked : Asked \cup {NoLimit}, offset : Nat, pages : Nat,
                   seen : Entries, wanted : Entries]
  <2>1. w \in R
    BY <1>1 DEF WalkTyped, w
  <2>2. state \in States /\ pages \in Nat /\ seen \in Entries
    <3>1. state \in States
      OBVIOUS
    <3>2. pages \in Nat
      <4>1. w.pages \in Nat
        BY <1>2
      <4> QED
        BY <4>1
    <3>3. seen \in Entries
      BY <1>2, <1>6
    <3> QED
      BY <3>1, <3>2, <3>3
  <2> HIDE DEF state, pages, seen, States, Entries
  <2>3. walk' \in R
    BY <1>5, <1>6, <2>1, <2>2
  <2> QED
    BY <1>1, <2>3 DEF WalkTyped, States, Entries
<1>8. /\ walk'.offset = next /\ walk'.seen = w.seen \cup p /\ walk'.wanted = w.wanted
      /\ walk'.state = IF next < Len(log) THEN "walking" ELSE "done"
  BY <1>1, <1>4, <1>5 DEF WalkTyped, w
<1>9. ASSUME NEW i \in 1..Len(log), log[i] \in w.wanted, Len(log) - i < next
      PROVE  log[i] \in w.seen \cup p
  <2>1. CASE Len(log) - i < w.offset
    BY <1>1, <1>9, <2>1 DEF SeenBefore, w
  <2>2. CASE ~(Len(log) - i < w.offset)
    <3>1. w.offset <= Len(log) - i /\ Len(log) - i < w.offset + limit
      BY <1>2, <1>3, <1>9, <2>2 DEF next, w
    <3> QED
      BY <1>4, <3>1
  <2> QED
    BY <2>1, <2>2
<1>10. ASSUME walk'.state = "done"
       PROVE  w.wanted \cap ToSet(log) \subseteq w.seen \cup p
  <2>1. ~(next < Len(log))
    BY <1>8, <1>10
  <2>2. \A i \in 1..Len(log) : Len(log) - i < next
    BY <1>3, <1>6, <2>1
  <2>3. ToSet(log) = {log[i] : i \in 1..Len(log)}
    BY <1>1, LogElements
  <2> QED
    BY <1>9, <2>2, <2>3
<1>11. WalkMissesNothing'
  BY <1>1, <1>8, <1>10 DEF WalkMissesNothing
<1>12. LogTyped'
  BY <1>1 DEF LogTyped
<1>13. SeenBefore(walk.offset)'
  BY <1>1, <1>8, <1>9 DEF SeenBefore
<1> QED
  BY <1>7, <1>11, <1>12, <1>13 DEF WalkInv

(* A walk begins, or is refused for its limit.                             *)
LEMMA StartWalkWalk ==
  ASSUME WalkInv, NEW asked \in Asked \cup {NoLimit}, StartWalk(asked)
  PROVE  WalkInv'
<1>1. LogTyped /\ log' = log /\ appended' = appended
  BY DEF WalkInv, StartWalk
<1>2. walk' = [state |-> IF asked = 0 THEN "refused" ELSE "walking", asked |-> asked,
               offset |-> 0, pages |-> 0, seen |-> {}, wanted |-> ToSet(log)]
  BY DEF StartWalk, Idle
<1>3. WalkTyped'
  BY <1>1, <1>2, LogElements DEF WalkTyped
<1>4. walk'.state # "done" /\ walk'.offset = 0
  BY <1>2
<1>5. Len(log) \in Nat
  BY <1>1, LenProperties DEF LogTyped
<1>6. SeenBefore(walk.offset)'
  BY <1>1, <1>4, <1>5 DEF SeenBefore
<1> QED
  BY <1>1, <1>3, <1>4, <1>6 DEF WalkInv, WalkMissesNothing, LogTyped

(* An entry is written, or lost in writing.                                *)
LEMMA AppendWalk ==
  ASSUME WalkInv, AppendErrorLog
  PROVE  WalkInv'
<1> DEFINE x == appended + 1
<1>1. LogTyped /\ WalkTyped /\ walk' = walk /\ appended' = x /\ x \in 1..MaxAppends
      /\ log' \in {log, Bounded(Append(log, x))}
  BY LogAssumption DEF WalkInv, AppendErrorLog, LogTyped
<1>2. appended \in Nat /\ x = appended + 1
  BY <1>1 DEF LogTyped
<1>3. WalkTyped'
  <2>1. 1..appended \subseteq 1..appended'
    BY <1>1, <1>2
  <2> QED
    BY <1>1, <2>1 DEF WalkTyped
<1>4. walk.wanted \subseteq 1..appended
  BY <1>1 DEF WalkTyped
<1> HIDE DEF x
<1>5. CASE log' = log
  <2>1. LogTyped'
    BY <1>1, <1>2, <1>5 DEF LogTyped
  <2> QED
    BY <1>1, <1>3, <1>5, <2>1 DEF WalkInv, SeenBefore, WalkMissesNothing
<1>6. CASE log' = Bounded(Append(log, x))
  <2>1. log \in Seq(Nat) /\ Len(log) \in Nat
    BY <1>1, LenProperties DEF LogTyped
  <2>2. /\ log' \in Seq(Nat) /\ Len(log') <= MaxEntries /\ Len(log') \in Nat
        /\ \A i \in 1..Len(log') :
             \/ i = Len(log') /\ log'[i] = x
             \/ \E j \in 1..Len(log) : log'[i] = log[j] /\ Len(log) - j = Len(log') - i - 1
    <3>1. x \in Nat
      BY <1>2
    <3> DEFINE l == log'
    <3>2. l = Bounded(Append(log, x))
      BY <1>6
    <3> HIDE DEF l
    <3>3. /\ l \in Seq(Nat) /\ Len(l) <= MaxEntries
          /\ \A i \in 1..Len(l) :
               \/ i = Len(l) /\ l[i] = x
               \/ \E j \in 1..Len(log) : l[i] = log[j] /\ Len(log) - j = Len(l) - i - 1
      BY <2>1, <3>1, <3>2, AppendedIs
    <3>4. Len(l) \in Nat
      BY <3>3, LenProperties
    <3> QED
      BY <3>3, <3>4 DEF l
  <2>3. \A j \in 1..Len(log) : log[j] \in 1..appended
    BY <1>1 DEF LogTyped
  <2>4. ASSUME NEW i \in 1..Len(log'), log'[i] # x
        PROVE  \E j \in 1..Len(log) : log'[i] = log[j] /\ Len(log) - j = Len(log') - i - 1
    BY <2>2, <2>4
  <2>5. \A i \in 1..Len(log') : log'[i] \in 1..appended'
    <3>1. \A e \in 1..appended : e \in 1..x
      BY <1>2
    <3>2. x \in 1..x
      BY <1>2
    <3> QED
      BY <1>1, <2>2, <2>3, <3>1, <3>2
  <2>6. ASSUME NEW i \in 1..Len(log'), NEW k \in 1..Len(log'), i < k
        PROVE  log'[i] < log'[k]
    <3>1. i # Len(log')
      BY <2>2, <2>6
    <3>2. PICK j \in 1..Len(log) : log'[i] = log[j] /\ Len(log) - j = Len(log') - i - 1
      BY <2>2, <3>1
    <3>3. CASE k = Len(log') /\ log'[k] = x
      BY <1>2, <2>3, <3>2, <3>3
    <3>4. CASE \E m \in 1..Len(log) : log'[k] = log[m] /\ Len(log) - m = Len(log') - k - 1
      <4>1. PICK m \in 1..Len(log) : log'[k] = log[m] /\ Len(log) - m = Len(log') - k - 1
        BY <3>4
      <4>2. j < m
        BY <2>1, <2>2, <2>6, <3>2, <4>1
      <4> QED
        BY <1>1, <3>2, <4>1, <4>2 DEF LogTyped
    <3> QED
      BY <2>2, <3>3, <3>4
  <2>7. LogTyped'
    <3>1. appended' \in 0..MaxAppends
      BY <1>1
    <3> QED
      BY <2>2, <2>5, <2>6, <3>1 DEF LogTyped
  <2>8. x \notin walk.wanted
    BY <1>2, <1>4
  <2>9. ASSUME walk.state = "walking",
               NEW i \in 1..Len(log'), log'[i] \in walk.wanted, Len(log') - i < walk.offset
        PROVE  log'[i] \in walk.seen
    <3>1. PICK j \in 1..Len(log) : log'[i] = log[j] /\ Len(log) - j = Len(log') - i - 1
      BY <2>4, <2>8, <2>9
    <3>2. walk.offset \in Nat
      BY <1>1 DEF WalkTyped
    <3>3. Len(log) - j < walk.offset
      BY <2>1, <2>2, <2>9, <3>1, <3>2
    <3> QED
      BY <2>9, <3>1, <3>3 DEF WalkInv, SeenBefore
  <2>10. walk.state = "walking" => SeenBefore(walk.offset)'
    BY <1>1, <2>9 DEF SeenBefore
  <2>11. WalkMissesNothing'
    <3>1. ToSet(log) = {log[i] : i \in 1..Len(log)}
      BY <1>1, LogElements
    <3>2. ToSet(log') = {log'[i] : i \in 1..Len(log')}
      BY <2>2, LenProperties DEF ToSet
    <3>3. \A e \in ToSet(log') : e # x => e \in ToSet(log)
      BY <2>4, <3>1, <3>2
    <3> QED
      BY <1>1, <2>8, <3>3 DEF WalkInv, WalkMissesNothing
  <2> QED
    BY <1>1, <1>3, <2>7, <2>10, <2>11 DEF WalkInv
<1> QED
  BY <1>1, <1>5, <1>6

(* The file is damaged: no entry of the walk is still there.               *)
LEMMA DamagedWalk ==
  ASSUME WalkInv, LogIsDamaged
  PROVE  WalkInv'
<1>1. LogTyped /\ WalkTyped /\ log' = <<>> /\ walk' = walk /\ appended' = appended
  BY DEF WalkInv, LogIsDamaged
<1>2. log' \in Seq(Nat) /\ Len(log') = 0 /\ DOMAIN log' = {}
  BY <1>1, EmptySeq
<1>3. ToSet(log') = {}
  BY <1>2 DEF ToSet
<1>4. LogTyped'
  BY <1>1, <1>2, LogAssumption DEF LogTyped
<1>5. WalkTyped'
  BY <1>1 DEF WalkTyped
<1>6. SeenBefore(walk.offset)'
  BY <1>2 DEF SeenBefore
<1> QED
  BY <1>3, <1>4, <1>5, <1>6 DEF WalkInv, WalkMissesNothing

LEMMA WalkStep == ASSUME WalkInv, [Next]_vars PROVE WalkInv'
<1>1. ASSUME UNCHANGED logVars PROVE WalkInv'
  BY <1>1 DEF logVars, WalkInv, LogTyped, WalkTyped, SeenBefore, WalkMissesNothing
<1>2. \/ UNCHANGED logVars
      \/ NextPage \/ AppendErrorLog \/ LogIsDamaged
      \/ \E asked \in Asked \cup {NoLimit} : StartWalk(asked)
  BY DEF Next, AdminRequest, ReadLogPage, vars
<1> QED
  BY <1>1, <1>2, NextPageWalk, AppendWalk, DamagedWalk, StartWalkWalk

LEMMA WalkInvariance == Spec => []WalkInv
<1>1. Init => WalkInv
  <2> SUFFICES ASSUME Init PROVE WalkInv
    OBVIOUS
  <2>1. log = <<>> /\ appended = 0 /\ walk = Idle
    BY DEF Init, LogInit
  <2>2. log \in Seq(Nat) /\ Len(log) = 0
    BY <2>1, EmptySeq
  <2>3. LogTyped
    BY <2>1, <2>2, LogAssumption DEF LogTyped
  <2>4. WalkTyped /\ walk.state = "idle"
    BY <2>1 DEF Idle, WalkTyped
  <2> QED
    BY <2>3, <2>4 DEF WalkInv, WalkMissesNothing
<1>2. WalkInv /\ [Next]_vars => WalkInv'
  BY WalkStep
<1> QED  BY <1>1, <1>2, PTL DEF Spec

(* A client that pages through the log misses no entry that was there when *)
(* it began and still is, however many were added or dropped meanwhile.    *)
THEOREM WalkIsComplete == Spec => []WalkMissesNothing
<1>1. WalkInv => WalkMissesNothing
  BY DEF WalkInv
<1> QED  BY <1>1, WalkInvariance, PTL

(* The log keeps its bound and its order, and nothing is read that was not *)
(* written.                                                                *)
THEOREM LogIsBounded == Spec => []LogTypeOK
<1>1. WalkInv => LogTypeOK
  <2> SUFFICES ASSUME WalkInv PROVE LogTypeOK
    OBVIOUS
  <2>1. LogTyped /\ WalkTyped
    BY DEF WalkInv
  <2>2. walk.seen \subseteq 1..appended /\ walk.wanted \subseteq 1..appended
        /\ walk.state \in {"idle", "walking", "refused", "done"}
    BY <2>1 DEF WalkTyped
  <2>3. ToSet(log) \subseteq 1..appended
    BY <2>1, LogElements
  <2> QED
    BY <2>1, <2>2, <2>3 DEF LogTyped, LogTypeOK
<1> QED  BY <1>1, WalkInvariance, PTL

(* Every variable has its type: the keys, the queue and the log.           *)
THEOREM TypeCorrect == Spec => []TypeOK
<1> DEFINE Access == /\ {adminKey, readKey} \subseteq Keys \cup {Blank}
                     /\ by \in Keys \cup {Blank, NoKey}
                     /\ queue \subseteq Items
                     /\ moved \in AtTheBank \cup {"nothing"}
<1>1. Init => Access
  BY DEF Init, AccessInit
<1>2. Access /\ [Next]_vars => Access'
  <2> SUFFICES ASSUME Access, [Next]_vars PROVE Access'
    OBVIOUS
  <2>1. ASSUME NEW given \in Keys \cup {Blank, NoKey}, NEW route, Request(given, route)
        PROVE  Access'
    <3>1. by' = given /\ adminKey' = adminKey /\ readKey' = readKey
      BY <2>1 DEF Request, keys
    <3>2. queue' \subseteq Items /\ moved' \in AtTheBank \cup {"nothing"}
      BY <2>1 DEF Request, Delete, AskTheBank, LookUp
    <3> QED  BY <3>1, <3>2
  <2>2. CASE NoRequest /\ UNCHANGED <<keys, queue>>
    BY <2>2 DEF NoRequest, keys
  <2>3. CASE ChangeKeys
    BY <2>3 DEF ChangeKeys, NoRequest
  <2>4. CASE UNCHANGED vars
    BY <2>4 DEF vars, accessVars, keys, request
  <2> QED  BY <2>1, <2>2, <2>3, <2>4 DEF Next, AdminRequest, ReadLogPage
<1>3. Access /\ LogTypeOK => TypeOK
  BY DEF TypeOK
<1> QED  BY <1>1, <1>2, <1>3, LogIsBounded, PTL DEF Spec

=============================================================================
