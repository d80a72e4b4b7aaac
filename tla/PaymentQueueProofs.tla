------------------------- MODULE PaymentQueueProofs -------------------------
(***************************************************************************)
(* What the retry queue guarantees for any number of hand-overs, any cap,  *)
(* any number of attempts and any faults, proved with TLAPS.               *)
(***************************************************************************)
EXTENDS PaymentQueue, FiniteSetTheorems, TLAPS

(***************************************************************************)
(* The inductive invariant.  A pending entry that this queue wrote (one    *)
(* with a nextRetryAt) has attempts left; that is what keeps the retry     *)
(* count within QUEUE_MAX_ATTEMPTS.                                        *)
(***************************************************************************)
Queue ==
  {q \in [Items -> Entry] :
     \A i \in Items : q[i].status = "pending" /\ q[i].nextRetryAt # "unset"
                        => q[i].retryCount < MaxAttempts}

TypeInv ==
  /\ TypeOK
  /\ disk \in Queue
  /\ held \in Queue
  /\ due \in [Passes -> Queue]

(* The flag keeps the passes apart, and a pass delivers from its copies.   *)
PassInv ==
  /\ processing = (active # {})
  /\ \A p, r \in active : p = r
  /\ \A p \in Passes \ active : sending[p] = None /\ due[p] = Empty
  /\ \A p \in Passes, i \in Items : due[p][i].status \in {"absent", "pending"}
  /\ \A p \in Passes :
       sending[p] # None => /\ Has(due[p], sending[p])
                            /\ due[p][sending[p]].retryCount < MaxAttempts
-----------------------------------------------------------------------------
(***************************************************************************)
(* Lemmas: the operations on queues yield queues.                          *)
(***************************************************************************)
LEMMA QueueIsTyped == Queue \subseteq [Items -> Entry]
BY DEF Queue

(* The empty queue.                                                        *)
LEMMA EmptyIsQueue == Empty \in Queue
BY LimitsAssumption DEF Empty, Absent, Entry, Queue

(* The file and the held entries put together (mutate).                    *)
LEMMA BothIsQueue ==
  ASSUME NEW q \in Queue, NEW h \in Queue
  PROVE  Both(q, h) \in Queue
BY DEF Both, Has, Entry, Queue

(* A queue an entry was taken out of.                                      *)
LEMMA WithoutIsQueue ==
  ASSUME NEW q \in Queue, NEW i \in Items
  PROVE  Without(q, i) \in Queue
BY LimitsAssumption DEF Without, Absent, Entry, Queue

(* A queue with a new entry.                                               *)
LEMMA NewEntryIsQueue ==
  ASSUME NEW q \in Queue, NEW i \in Items
  PROVE  Added(q, i) \in Queue
BY LimitsAssumption DEF Added, NewEntry, Entry, Queue

(* A queue with an entry marked dead or cancelled.                         *)
LEMMA MarkIsQueue ==
  ASSUME NEW q \in Queue, NEW i \in Items, NEW st \in {"dead", "cancelled"}
  PROVE  Mark(q, i, st) \in Queue
BY DEF Mark, Has, Entry, Queue

(* A queue with an entry that was tried once more.                         *)
LEMMA SetIsQueue ==
  ASSUME NEW q \in Queue, NEW i \in Items, NEW e \in Entry,
         e.retryCount < MaxAttempts
  PROVE  Set(q, i, Retried(e)) \in Queue
BY LimitsAssumption DEF Set, Retried, Has, Entry, Queue

(* A queue with an entry whose backoff is over.                            *)
LEMMA ElapsedIsQueue ==
  ASSUME NEW q \in Queue, NEW i \in Items
  PROVE  Elapsed(q, i) \in Queue
BY DEF Elapsed, BackingOff, Entry, Queue

(* What a pass reads of a queue.                                           *)
LEMMA DueInIsQueue ==
  ASSUME NEW q \in Queue
  PROVE  DueIn(q) \in Queue
BY LimitsAssumption DEF DueIn, Absent, Entry, Queue

(* What a read of the file gives, damaged or not.                          *)
LEMMA OnFileIsQueue ==
  ASSUME TypeInv
  PROVE  OnFile \in Queue
BY EmptyIsQueue DEF TypeInv, OnFile

(* What a read of the file means for the hand-overs in it.                 *)
LEMMA ReadFateType ==
  ASSUME TypeInv, NEW io
  PROVE  ReadFate(io) \in [Items -> {"new", "queued", "taken", "dropped", "aside", "lost"}]
BY DEF TypeInv, TypeOK, ReadFate

(* What becomes of a hand-over that leaves the queue.                      *)
LEMMA LeavesType ==
  ASSUME NEW f \in [Items -> {"new", "queued", "taken", "dropped", "aside", "lost"}],
         NEW i \in Items, NEW why \in {"taken", "dropped"}
  PROVE  Leaves(f, i, why) \in [Items -> {"new", "queued", "taken", "dropped", "aside", "lost"}]
BY DEF Leaves

(* A read without a write, and a step that leaves the file alone.          *)
LEMMA ReadFileType ==
  ASSUME TypeInv, NEW io, ReadFile(io)
  PROVE  disk' \in Queue /\ corrupt' \in BOOLEAN
BY OnFileIsQueue DEF ReadFile, TypeInv, TypeOK

-----------------------------------------------------------------------------
(***************************************************************************)
(* TypeInv and PassInv are inductive.                                      *)
(***************************************************************************)
LEMMA InitTypeInv == Init => TypeInv /\ PassInv
<1> SUFFICES ASSUME Init PROVE TypeInv /\ PassInv
  OBVIOUS
<1>1. disk \in Queue
  BY LimitsAssumption DEF Init, Queue, Entry, Old, Absent
<1>2. held \in Queue /\ due \in [Passes -> Queue]
  BY EmptyIsQueue DEF Init
<1>3. TypeOK
  <2>1. fate \in [Items -> {"new", "queued", "taken", "dropped", "aside", "lost"}]
    BY DEF Init
  <2>2. taken \in [Items -> 0..2] /\ mishaps \in 0..MaxMishaps
    BY LimitsAssumption DEF Init
  <2> QED
    BY <1>1, <1>2, <2>1, <2>2, QueueIsTyped DEF Init, TypeOK
<1>4. PassInv
  BY DEF Init, PassInv, Empty, Absent
<1> QED
  BY <1>1, <1>2, <1>3, <1>4 DEF TypeInv

(* Every step keeps the types and keeps the passes apart.                  *)
LEMMA NextTypeInv == TypeInv /\ PassInv /\ [Next]_vars => TypeInv' /\ PassInv'
<1> SUFFICES ASSUME TypeInv, PassInv, [Next]_vars PROVE TypeInv' /\ PassInv'
  OBVIOUS
<1> USE QueueIsTyped
<1>a. OnFile \in Queue /\ Both(OnFile, held) \in Queue /\ Empty \in Queue
  BY OnFileIsQueue, BothIsQueue, EmptyIsQueue DEF TypeInv
<1>1. CASE FlushNothing
  BY <1>1 DEF FlushNothing, passVars, TypeInv, TypeOK, PassInv, Has
<1>2. CASE FlushWorks
  <2>1. disk' \in Queue /\ held' \in Queue /\ corrupt' \in BOOLEAN
    BY <1>2, <1>a DEF FlushWorks, Mutate, TypeInv
  <2> QED
    BY <1>2, <2>1, ReadFateType DEF FlushWorks, passVars, TypeInv, TypeOK, PassInv, Has
<1>3. CASE FlushFails
  <2>1. PICK io : ReadFile(io) /\ fate' = ReadFate(io)
    BY <1>3 DEF FlushFails
  <2> QED
    BY <1>3, <2>1, ReadFileType, ReadFateType DEF FlushFails, passVars, TypeInv, TypeOK, PassInv, Has
<1>4. CASE ListQueue
  BY <1>4, ReadFileType, ReadFateType DEF ListQueue, passVars, TypeInv, TypeOK, PassInv, Has
<1>5. CASE FileCorrupts
  BY <1>5, LimitsAssumption DEF FileCorrupts, memory, passVars, TypeInv, TypeOK, PassInv, Has
<1>6. CASE Crash
  <2>1. fate' \in [Items -> {"new", "queued", "taken", "dropped", "aside", "lost"}]
    BY <1>6 DEF Crash, TypeInv, TypeOK
  <2>2. TypeInv'
    <3>1. due' \in [Passes -> Queue] /\ sending' \in [Passes -> Items \cup {None}]
      BY <1>6, <1>a DEF Crash
    <3>2. mishaps' \in 0..MaxMishaps
      BY <1>6, LimitsAssumption DEF Crash, TypeInv, TypeOK
    <3> QED
      BY <1>6, <1>a, <2>1, <3>1, <3>2 DEF Crash, TypeInv, TypeOK
  <2>3. PassInv'
    BY <1>6 DEF Crash, PassInv, Empty, Absent
  <2> QED
    BY <2>2, <2>3
<1>7. ASSUME NEW i \in Items, AddToQueue(i) PROVE TypeInv' /\ PassInv'
  <2>1. PICK io \in Outcomes :
          /\ \/ /\ Mutate(LAMBDA q : Added(q, i))
                /\ UNCHANGED <<told, holdTimer>>
             \/ ReadFile(io) /\ Hold(i)
          /\ fate' = [ReadFate(io) EXCEPT ![i] = "queued"]
    BY <1>7 DEF AddToQueue
  <2>2. fate' \in [Items -> {"new", "queued", "taken", "dropped", "aside", "lost"}]
    BY <2>1, ReadFateType
  <2>3. CASE Mutate(LAMBDA q : Added(q, i)) /\ UNCHANGED <<told, holdTimer>>
    <3>1. disk' \in Queue /\ held' \in Queue /\ corrupt' \in BOOLEAN
      BY <2>3, <1>a, NewEntryIsQueue DEF Mutate, TypeInv
    <3> QED
      BY <1>7, <2>2, <2>3, <3>1 DEF AddToQueue, passVars, TypeInv, TypeOK, PassInv, Has
  <2>4. CASE ReadFile(io) /\ Hold(i)
    <3>1. held' \in Queue
      BY <2>4, NewEntryIsQueue DEF Hold, TypeInv
    <3>2. told' \subseteq {"queue_write_failed", "queue_item_dead"} \X Items /\ holdTimer' \in BOOLEAN
      BY <2>4 DEF Hold, TypeInv, TypeOK
    <3> QED
      BY <1>7, <2>2, <2>4, <3>1, <3>2, ReadFileType DEF AddToQueue, passVars, TypeInv, TypeOK, PassInv, Has
  <2> QED
    BY <2>1, <2>3, <2>4
<1>8. ASSUME NEW i \in Items, RemoveItem(i) PROVE TypeInv' /\ PassInv'
  <2>1. disk' \in Queue /\ held' \in Queue /\ corrupt' \in BOOLEAN
    BY <1>8, <1>a, WithoutIsQueue DEF RemoveItem, Mutate, TypeInv
  <2> QED
    BY <1>8, <2>1, ReadFateType, LeavesType DEF RemoveItem, passVars, TypeInv, TypeOK, PassInv, Has
<1>9. ASSUME NEW i \in Items, CancelItem(i) PROVE TypeInv' /\ PassInv'
  <2>1. disk' \in Queue /\ held' \in Queue /\ corrupt' \in BOOLEAN
    BY <1>9, <1>a, MarkIsQueue DEF CancelItem, Mutate, TypeInv
  <2> QED
    BY <1>9, <2>1, ReadFateType DEF CancelItem, passVars, TypeInv, TypeOK, PassInv, Has
<1>10. ASSUME NEW i \in Items, BackoffElapses(i) PROVE TypeInv' /\ PassInv'
  <2>1. disk' \in Queue /\ held' \in Queue
    BY <1>10, ElapsedIsQueue DEF BackoffElapses, TypeInv
  <2> QED
    BY <1>10, <2>1 DEF BackoffElapses, passVars, TypeInv, TypeOK, PassInv, Has
<1>11. ASSUME NEW p \in Passes, StartPass(p) PROVE TypeInv' /\ PassInv'
  <2>1. PICK io \in Outcomes : StartPassReading(p, io)
    BY <1>11 DEF StartPass
  <2>2. DueIn(IF io = "ok" THEN Both(OnFile, held) ELSE held) \in Queue
    BY <1>a, DueInIsQueue DEF TypeInv
  <2>3. TypeInv'
    BY <2>1, <2>2, ReadFileType, ReadFateType DEF StartPassReading, TypeInv, TypeOK
  <2>4. active = {} /\ active' = {p}
    BY <2>1 DEF StartPassReading, WorkerIsFree, PassInv, TypeInv, TypeOK
  <2>5. PassInv'
    BY <2>1, <2>4 DEF StartPassReading, PassInv, TypeInv, TypeOK, Has, DueIn, IsDue, Absent
  <2> QED
    BY <2>3, <2>5
<1>12. ASSUME NEW p \in Passes, ReceiverTakes(p) PROVE TypeInv' /\ PassInv'
  BY <1>12, ItemsAssumption DEF ReceiverTakes, TypeInv, TypeOK, PassInv, Has
<1>h. ASSUME NEW p \in active, NEW i \in Items, Handled(p, i)
      PROVE  /\ due' \in [Passes -> Queue]
             /\ sending' \in [Passes -> Items \cup {None}]
             /\ booked' \subseteq Passes
             /\ PassInv'
  <2>1. due[p] \in Queue /\ p \in Passes
    BY DEF TypeInv, TypeOK
  <2>2. due' \in [Passes -> Queue]
    BY <1>h, <2>1, WithoutIsQueue DEF Handled, TypeInv
  <2>3. sending' \in [Passes -> Items \cup {None}] /\ booked' \subseteq Passes
    BY <1>h, <2>1 DEF Handled, TypeInv, TypeOK
  <2>4. PassInv'
    BY <1>h, <2>1 DEF Handled, PassInv, TypeInv, TypeOK, Has, Without, Absent
  <2> QED
    BY <2>2, <2>3, <2>4
<1>e. ASSUME NEW p \in active, Ended(p)
      PROVE  /\ due' \in [Passes -> Queue]
             /\ sending' \in [Passes -> Items \cup {None}]
             /\ booked' \subseteq Passes
             /\ active' \subseteq Passes
             /\ processing' \in BOOLEAN
             /\ PassInv'
  <2>1. active' = {} /\ p \in Passes
    BY <1>e DEF Ended, PassInv, TypeInv, TypeOK
  <2> QED
    BY <1>e, <2>1, <1>a DEF Ended, PassInv, TypeInv, TypeOK, Has, Empty, Absent
<1>13. ASSUME NEW p \in Passes, PassStops(p) PROVE TypeInv' /\ PassInv'
  <2>1. p \in active
    BY <1>13 DEF PassStops, PassInv, IsNext
  <2>2. PICK io : ReadFile(io) /\ fate' = ReadFate(io)
    BY <1>13 DEF PassStops
  <2> QED
    BY <1>13, <1>e, <2>1, <2>2, ReadFileType, ReadFateType DEF PassStops, TypeInv, TypeOK
<1>14. ASSUME NEW p \in Passes, EndPass(p) PROVE TypeInv' /\ PassInv'
  BY <1>14, <1>e DEF EndPass, TypeInv, TypeOK
<1>15. ASSUME NEW p \in Passes, NEW i \in Items, ExpireOld(p, i) PROVE TypeInv' /\ PassInv'
  <2>1. disk' \in Queue /\ held' \in Queue /\ corrupt' \in BOOLEAN
    BY <1>15, <1>a, MarkIsQueue DEF ExpireOld, Mutate, TypeInv
  <2>2. told' \subseteq {"queue_write_failed", "queue_item_dead"} \X Items
    BY <1>15 DEF ExpireOld, TypeInv, TypeOK
  <2>3. p \in active /\ Handled(p, i)
    BY <1>15 DEF ExpireOld, IsNext
  <2>4. processing' = processing /\ active' = active
    BY <2>3 DEF Handled
  <2> QED
    BY <1>15, <1>h, <2>1, <2>2, <2>3, <2>4, ReadFateType DEF ExpireOld, TypeInv, TypeOK
<1>16. ASSUME NEW p \in Passes, NEW i \in Items, Deliver(p, i) PROVE TypeInv' /\ PassInv'
  <2>1. due[p][i].retryCount < MaxAttempts
    BY <1>16, LimitsAssumption DEF Deliver, IsNext, PastItsRetries, Has, TypeInv, PassInv, Queue, Entry
  <2> QED
    BY <1>16, <2>1 DEF Deliver, IsNext, TypeInv, TypeOK, PassInv, Has
<1>17. ASSUME NEW p \in Passes, NEW i \in Items, Remove(p, i) PROVE TypeInv' /\ PassInv'
  <2>1. disk' \in Queue /\ held' \in Queue /\ corrupt' \in BOOLEAN
    BY <1>17, <1>a, WithoutIsQueue DEF Remove, Mutate, TypeInv
  <2>2. p \in active
    BY <1>17, ItemsAssumption DEF Remove, PassInv
  <2> QED
    BY <1>17, <1>h, <2>1, <2>2, ReadFateType, LeavesType DEF Remove, Handled, TypeInv, TypeOK
<1>18. ASSUME NEW p \in Passes, NEW i \in Items, RetryLater(p, i) PROVE TypeInv' /\ PassInv'
  <2>1. due[p][i] \in Entry /\ due[p][i].retryCount < MaxAttempts /\ p \in active
    BY <1>18, ItemsAssumption DEF RetryLater, PassInv, TypeInv, TypeOK
  <2>2. disk' \in Queue /\ held' \in Queue /\ corrupt' \in BOOLEAN
    BY <1>18, <1>a, <2>1, SetIsQueue DEF RetryLater, Mutate, TypeInv
  <2>3. told' \subseteq {"queue_write_failed", "queue_item_dead"} \X Items
    BY <1>18 DEF RetryLater, TypeInv, TypeOK
  <2>4. Handled(p, i) /\ processing' = processing /\ active' = active
    BY <1>18 DEF RetryLater, Handled
  <2> QED
    BY <1>18, <1>h, <2>1, <2>2, <2>3, <2>4, ReadFateType DEF RetryLater, TypeInv, TypeOK
<1>19. CASE UNCHANGED vars
  BY <1>19 DEF vars, memory, passVars, TypeInv, TypeOK, PassInv, Has
<1> QED
  BY <1>1, <1>2, <1>3, <1>4, <1>5, <1>6, <1>7, <1>8, <1>9, <1>10, <1>11, <1>12,
     <1>13, <1>14, <1>15, <1>16, <1>17, <1>18, <1>19 DEF Next

(* Every reachable state is well typed, whatever faults happen: retry      *)
(* counts stay within QUEUE_MAX_ATTEMPTS, also for entries that an older   *)
(* queue left and for those a pass rewrites from its copies.               *)
THEOREM TypeCorrect == Spec => []TypeOK
<1>1. Init => TypeInv /\ PassInv
  BY InitTypeInv
<1>2. TypeInv /\ PassInv /\ [Next]_vars => TypeInv' /\ PassInv'
  BY NextTypeInv
<1>3. TypeInv => TypeOK
  BY DEF TypeInv
<1> QED
  BY <1>1, <1>2, <1>3, PTL DEF Spec

-----------------------------------------------------------------------------
(***************************************************************************)
(* Counting live entries.                                                  *)
(***************************************************************************)
LEMMA SizeIsNat ==
  ASSUME NEW q \in Queue
  PROVE  IsFiniteSet(Live(q)) /\ Size(q) \in Nat
BY FS_Subset, FS_CardinalityType, ItemsAssumption DEF Live, Size

(* More live entries make a larger size.                                   *)
LEMMA SizeGrowsWithLive ==
  ASSUME NEW q \in Queue, NEW h \in Queue, Live(q) \subseteq Live(h)
  PROVE  Size(q) <= Size(h)
BY FS_Subset, SizeIsNat DEF Size

(* Putting the two together adds no entry.                                 *)
LEMMA SizeOfBoth ==
  ASSUME NEW q \in Queue, NEW h \in Queue
  PROVE  Size(Both(q, h)) <= Size(q) + Size(h)
<1>1. Live(Both(q, h)) \subseteq Live(q) \cup Live(h)
  BY DEF Live, Both, Has
<1>2. IsFiniteSet(Live(q) \cup Live(h)) /\ Cardinality(Live(q) \cup Live(h)) \in Nat
  BY SizeIsNat, FS_Union, FS_CardinalityType
<1>3. Size(Both(q, h)) <= Cardinality(Live(q) \cup Live(h))
  BY <1>1, <1>2, FS_Subset DEF Size
<1>4. Cardinality(Live(q) \cup Live(h)) <= Size(q) + Size(h)
  <2>1. Cardinality(Live(q) \cup Live(h))
          = Cardinality(Live(q)) + Cardinality(Live(h)) - Cardinality(Live(q) \cap Live(h))
    BY SizeIsNat, FS_Union
  <2>2. Cardinality(Live(q) \cap Live(h)) \in Nat
    BY SizeIsNat, FS_Intersection, FS_CardinalityType
  <2> QED
    BY <2>1, <2>2, SizeIsNat DEF Size
<1> QED
  BY <1>2, <1>3, <1>4, SizeIsNat, BothIsQueue

(* A new entry adds at most one.                                           *)
LEMMA AddedSize ==
  ASSUME NEW q \in Queue, NEW i \in Items
  PROVE  Size(Added(q, i)) <= Size(q) + 1
<1>1. Live(Added(q, i)) \subseteq Live(q) \cup {i}
  BY DEF Live, Added, Queue
<1>2. IsFiniteSet(Live(q) \cup {i}) /\ Cardinality(Live(q) \cup {i}) <= Size(q) + 1
  BY SizeIsNat, FS_AddElement DEF Size
<1> QED
  BY <1>1, <1>2, SizeIsNat, NewEntryIsQueue, FS_Subset, FS_CardinalityType DEF Size

(* Where there is room for more, mutate writes the held entries too.       *)
LEMMA RoomForBoth ==
  ASSUME TypeInv, NEW n \in Nat, HasRoom(n)
  PROVE  Size(Both(OnFile, held)) + n <= MaxItems
<1>1. OnFile \in Queue /\ held \in Queue
  BY OnFileIsQueue DEF TypeInv
<1>2. Size(Both(OnFile, held)) <= Size(OnFile) + Size(held)
  BY <1>1, SizeOfBoth
<1>3. Size(OnFile) \in Nat /\ Size(held) \in Nat /\ Size(Both(OnFile, held)) \in Nat
  BY <1>1, SizeIsNat, BothIsQueue
<1> QED
  BY <1>2, <1>3, LimitsAssumption DEF HasRoom

-----------------------------------------------------------------------------
(***************************************************************************)
(* No hand-over is lost, doubled or brought back.  Accounted is inductive  *)
(* on top of TypeInv: what mutate writes is the file and the held entries  *)
(* put together, so that emptying the memory loses nothing.                *)
(***************************************************************************)
LEMMA InitAccounted == Init => Accounted
<1> SUFFICES ASSUME Init, NEW i \in Items
             PROVE  IF fate[i] = "queued" THEN InQueueOnce(i) ELSE OutOfQueue(i)
  BY DEF Accounted
<1>1. ~Has(held, i)
  BY DEF Init, Empty, Absent, Has
<1>2. Has(disk, i) <=> i \in OldItems
  <2>1. PICK spent \in SUBSET OldItems :
          disk = [j \in Items |-> CASE j \in spent            -> Old(MaxAttempts)
                                    [] j \in OldItems \ spent -> Old(0)
                                    [] OTHER                  -> Absent]
    BY DEF Init
  <2> QED
    BY <2>1 DEF Has, Old, Absent
<1> QED
  BY <1>1, <1>2 DEF Init, InQueueOnce, OutOfQueue

(* Every step keeps every hand-over accounted for.                         *)
LEMMA NextAccounted == TypeInv /\ PassInv /\ Accounted /\ [Next]_vars => Accounted'
<1> SUFFICES ASSUME TypeInv, PassInv, Accounted, [Next]_vars PROVE Accounted'
  OBVIOUS
<1> USE QueueIsTyped DEF TypeInv, TypeOK
<1>f. OnFile \in Queue
  BY OnFileIsQueue
<1>1. CASE UNCHANGED <<disk, held, fate>>
  BY <1>1 DEF Accounted, InQueueOnce, OutOfQueue, Has
<1>2. ASSUME NEW io, ReadFile(io), fate' = ReadFate(io), held' = held PROVE Accounted'
  BY <1>2 DEF ReadFile, ReadFate, OnFile, Empty, Absent, Accounted, InQueueOnce, OutOfQueue, Has
<1>3. CASE FlushWorks
  BY <1>3, <1>f DEF FlushWorks, Mutate, ReadFate, Both, OnFile, Empty, Absent,
                    Accounted, InQueueOnce, OutOfQueue, Has
<1>4. ASSUME NEW i \in Items, AddToQueue(i) PROVE Accounted'
  <2>1. OutOfQueue(i)
    BY <1>4 DEF AddToQueue, Accounted
  <2>2. PICK io \in Outcomes :
          /\ \/ io = "ok" /\ HasRoom(1) /\ Mutate(LAMBDA q : Added(q, i))
             \/ ReadFile(io) /\ Hold(i)
          /\ fate' = [ReadFate(io) EXCEPT ![i] = "queued"]
    BY <1>4 DEF AddToQueue
  <2>3. CASE io = "ok" /\ HasRoom(1) /\ Mutate(LAMBDA q : Added(q, i))
    <3>1. ~Overflows
      BY <2>3, <1>f, RoomForBoth, SizeIsNat, BothIsQueue, LimitsAssumption DEF Overflows
    <3>2. disk' = Added(Both(OnFile, held), i) /\ held' = Empty
      BY <2>3, <3>1 DEF Mutate
    <3> QED
      BY <1>f, <2>1, <2>2, <2>3, <3>2 DEF Added, NewEntry, ReadFate, Both, OnFile, Empty,
         Absent, Accounted, InQueueOnce, OutOfQueue, Has
  <2>4. CASE ReadFile(io) /\ Hold(i)
    BY <2>1, <2>2, <2>4 DEF ReadFile, Hold, Added, NewEntry, ReadFate, OnFile, Empty,
       Absent, Accounted, InQueueOnce, OutOfQueue, Has
  <2> QED
    BY <2>2, <2>3, <2>4
(* Taking an entry out, or changing one that is there.                     *)
<1>5. ASSUME NEW i \in Items, NEW why \in {"taken", "dropped"},
             Mutate(LAMBDA q : Without(q, i)), fate' = Leaves(ReadFate("ok"), i, why)
      PROVE  Accounted'
  <2>1. CASE Overflows
    BY <1>5, <1>f, <2>1 DEF Mutate, Without, Leaves, ReadFate, OnFile, Empty, Absent,
                            Accounted, InQueueOnce, OutOfQueue, Has
  <2>2. CASE ~Overflows
    <3>1. disk' = Without(Both(OnFile, held), i) /\ held' = Empty
      BY <1>5, <2>2 DEF Mutate
    <3> QED
      BY <1>5, <1>f, <3>1 DEF Without, Leaves, ReadFate, Both, OnFile, Empty, Absent,
                              Accounted, InQueueOnce, OutOfQueue, Has
  <2> QED
    BY <2>1, <2>2
<1>6. ASSUME NEW i \in Items, NEW e \in Entry,
             Mutate(LAMBDA q : Set(q, i, Retried(e))), fate' = ReadFate("ok")
      PROVE  Accounted'
  <2>1. CASE Overflows
    BY <1>6, <1>f, <2>1 DEF Mutate, Set, Retried, ReadFate, OnFile, Empty, Absent,
                            Accounted, InQueueOnce, OutOfQueue, Has
  <2>2. CASE ~Overflows
    <3>1. disk' = Set(Both(OnFile, held), i, Retried(e)) /\ held' = Empty
      BY <1>6, <2>2 DEF Mutate
    <3> QED
      BY <1>6, <1>f, <3>1 DEF Set, Retried, ReadFate, Both, OnFile, Empty, Absent,
                              Accounted, InQueueOnce, OutOfQueue, Has
  <2> QED
    BY <2>1, <2>2
<1>7. ASSUME NEW i \in Items, NEW st \in {"dead", "cancelled"},
             Mutate(LAMBDA q : Mark(q, i, st)), fate' = ReadFate("ok")
      PROVE  Accounted'
  <2>1. \A q \in Queue, j \in Items : Has(Mark(q, i, st), j) <=> Has(q, j)
    BY DEF Mark, Has, Entry
  <2>2. Both(OnFile, held) \in Queue
    BY <1>f, BothIsQueue
  <2>3. \A j \in Items : Has(disk', j) \/ Has(held', j) <=> Has(OnFile, j) \/ Has(held, j)
    BY <1>7, <1>f, <2>1, <2>2 DEF Mutate, Both, Empty, Absent, Has
  <2>4. \A j \in Items : Has(disk', j) /\ Has(held', j) => Has(OnFile, j) /\ Has(held, j)
    BY <1>7, <1>f, <2>1, <2>2 DEF Mutate, Empty, Absent, Has
  <2> QED
    BY <1>7, <2>3, <2>4 DEF OnFile, ReadFate, Empty, Absent, Accounted, InQueueOnce, OutOfQueue, Has
<1>8. ASSUME NEW i \in Items, BackoffElapses(i) PROVE Accounted'
  <2>1. \A q \in Queue, j \in Items : Has(Elapsed(q, i), j) <=> Has(q, j)
    BY DEF Elapsed, BackingOff, Has, Entry
  <2> QED
    BY <1>8, <2>1 DEF BackoffElapses, Accounted, InQueueOnce, OutOfQueue
<1>9. CASE Crash
  BY <1>9 DEF Crash, Empty, Absent, Accounted, InQueueOnce, OutOfQueue, Has
<1>10. ASSUME NEW p \in Passes, NEW i \in Items, RetryLater(p, i) PROVE Accounted'
  <2>1. due[p][i] \in Entry
    OBVIOUS
  <2> QED
    BY <1>10, <1>6, <2>1 DEF RetryLater
<1> QED
  <2>1. CASE \/ FlushNothing \/ FileCorrupts \/ UNCHANGED vars
             \/ \E p \in Passes : ReceiverTakes(p) \/ EndPass(p)
             \/ \E p \in Passes, i \in Items : Deliver(p, i)
    BY <2>1, <1>1 DEF FlushNothing, FileCorrupts, vars, memory, ReceiverTakes, EndPass, Deliver
  <2>2. CASE \/ ListQueue \/ FlushFails
             \/ \E p \in Passes : StartPass(p) \/ PassStops(p)
    BY <2>2, <1>2 DEF ListQueue, FlushFails, StartPass, StartPassReading, PassStops
  <2>3. CASE \E i \in Items : RemoveItem(i) \/ \E p \in Passes : Remove(p, i)
    BY <2>3, <1>5 DEF RemoveItem, Remove
  <2>4. CASE \E i \in Items : CancelItem(i) \/ \E p \in Passes : ExpireOld(p, i)
    BY <2>4, <1>7 DEF CancelItem, ExpireOld
  <2> QED
    BY <1>3, <1>4, <1>8, <1>9, <1>10, <2>1, <2>2, <2>3, <2>4 DEF Next

(* A verified payment handed to the queue is in it, once, until it was     *)
(* taken, deleted, moved aside or lost with the memory, and never returns. *)
THEOREM NeverUnaccounted == Spec => []Accounted
<1>1. Init => TypeInv /\ PassInv /\ Accounted
  BY InitTypeInv, InitAccounted
<1>2. (TypeInv /\ PassInv /\ Accounted) /\ [Next]_vars => (TypeInv /\ PassInv /\ Accounted)'
  BY NextTypeInv, NextAccounted
<1> QED
  BY <1>1, <1>2, PTL DEF Spec

-----------------------------------------------------------------------------
(***************************************************************************)
(* What is held in memory.  Entries get there in one place only, which     *)
(* alerts and schedules a flush; every other step only takes them out.     *)
(***************************************************************************)
NoneHeldAnew == \A j \in Items : Has(held', j) => Has(held, j)
NoneLost     == \A j \in Items : fate'[j] = "lost" => fate[j] = "lost" \/ Has(held, j)

(* A read of the file loses nothing: what it cannot read it moves aside.   *)
LEMMA ReadLosesNone ==
  ASSUME TypeInv, NEW io, fate' = ReadFate(io)
  PROVE  NoneLost
BY DEF ReadFate, NoneLost, TypeInv, TypeOK

(* What one step does to the held entries, the timer and the alerts.       *)
LEMMA HeldStep ==
  ASSUME TypeInv, PassInv, [Next]_vars
  PROVE  /\ told \subseteq told'
         /\ NoneLost
         /\ \/ \E i \in Items : AddToQueue(i) /\ Hold(i)
            \/ NoneHeldAnew /\ (holdTimer' = holdTimer \/ \A j \in Items : ~Has(held', j))
<1> USE QueueIsTyped DEF TypeInv, TypeOK
<1>1. ASSUME UNCHANGED <<fate, held, holdTimer, told>> PROVE NoneLost /\ NoneHeldAnew
  BY <1>1 DEF NoneLost, NoneHeldAnew
<1>2. ASSUME NEW io, fate' = ReadFate(io), UNCHANGED <<held, holdTimer, told>>
      PROVE  NoneLost /\ NoneHeldAnew
  BY <1>2, ReadLosesNone DEF NoneHeldAnew
<1>3. CASE FlushNothing
  BY <1>3 DEF FlushNothing, NoneLost, NoneHeldAnew, Entries
<1>4. CASE FlushWorks
  <2>1. NoneHeldAnew /\ NoneLost
    BY <1>4, ReadLosesNone DEF FlushWorks, Mutate, NoneHeldAnew, Has, Empty, Absent
  <2>2. \A j \in Items : ~Has(held', j)
    <3>1. ~Overflows
      <4>1. HasRoom(0) /\ OnFile \in Queue /\ held \in Queue
        BY <1>4, OnFileIsQueue DEF FlushWorks
      <4>2. Size(Both(OnFile, held)) + 0 <= MaxItems
        BY <4>1, RoomForBoth
      <4> QED
        BY <4>1, <4>2, SizeIsNat, BothIsQueue, LimitsAssumption DEF Overflows
    <3> QED
      BY <1>4, <3>1 DEF FlushWorks, Mutate, Has, Empty, Absent
  <2> QED
    BY <1>4, <2>1, <2>2 DEF FlushWorks
<1>5. ASSUME NEW i \in Items, AddToQueue(i)
      PROVE  /\ told \subseteq told' /\ NoneLost
             /\ \/ Hold(i)
                \/ NoneHeldAnew /\ holdTimer' = holdTimer
  <2>1. PICK io \in Outcomes :
          /\ \/ io = "ok" /\ HasRoom(1) /\ Mutate(LAMBDA q : Added(q, i)) /\ UNCHANGED <<told, holdTimer>>
             \/ ReadFile(io) /\ Hold(i)
          /\ fate' = [ReadFate(io) EXCEPT ![i] = "queued"]
    BY <1>5 DEF AddToQueue
  <2>2. NoneLost
    BY <2>1 DEF ReadFate, NoneLost
  <2>3. CASE io = "ok" /\ HasRoom(1) /\ Mutate(LAMBDA q : Added(q, i)) /\ UNCHANGED <<told, holdTimer>>
    <3>1. ~Overflows
      BY <2>3, OnFileIsQueue, RoomForBoth, SizeIsNat, BothIsQueue, LimitsAssumption DEF Overflows
    <3>2. held' = Empty
      BY <2>3, <3>1 DEF Mutate
    <3> QED
      BY <2>2, <2>3, <3>2 DEF NoneHeldAnew, Has, Empty, Absent
  <2>4. CASE Hold(i)
    BY <2>2, <2>4 DEF Hold
  <2> QED
    BY <2>1, <2>3, <2>4
(* Taking an entry out, or changing one that is there.                     *)
<1>6. ASSUME NEW i \in Items, NEW why \in {"taken", "dropped"},
             Mutate(LAMBDA q : Without(q, i)), fate' = Leaves(ReadFate("ok"), i, why)
      PROVE  NoneHeldAnew /\ NoneLost
  BY <1>6 DEF Mutate, Without, Leaves, ReadFate, NoneHeldAnew, NoneLost, Has, Empty, Absent
<1>7. ASSUME NEW i \in Items, NEW st \in {"dead", "cancelled"},
             Mutate(LAMBDA q : Mark(q, i, st)), fate' = ReadFate("ok")
      PROVE  NoneHeldAnew /\ NoneLost
  <2>1. \A j \in Items : Has(Mark(held, i, st), j) => Has(held, j)
    BY DEF Mark, Has, Entry
  <2> QED
    BY <1>7, <2>1, ReadLosesNone DEF Mutate, NoneHeldAnew, Has, Empty, Absent
<1>8. ASSUME NEW p \in Passes, NEW i \in Items, RetryLater(p, i)
      PROVE  NoneHeldAnew /\ NoneLost
  <2>1. \A j \in Items, e \in Entry : Has(Set(held, i, Retried(e)), j) => Has(held, j)
    BY DEF Set, Has, Entry
  <2>2. due[p][i] \in Entry
    OBVIOUS
  <2> QED
    BY <1>8, <2>1, <2>2, ReadLosesNone DEF RetryLater, Mutate, NoneHeldAnew, Has, Empty, Absent
<1>9. ASSUME NEW i \in Items, BackoffElapses(i) PROVE NoneHeldAnew /\ NoneLost
  <2>1. \A j \in Items : Has(Elapsed(held, i), j) <=> Has(held, j)
    BY DEF Elapsed, BackingOff, Has, Entry
  <2> QED
    BY <1>9, <2>1 DEF BackoffElapses, NoneHeldAnew, NoneLost
<1>10. CASE Crash
  BY <1>10 DEF Crash, NoneHeldAnew, NoneLost, Has, Empty, Absent
<1> QED
  <2>1. CASE \/ FileCorrupts \/ UNCHANGED vars
             \/ \E p \in Passes : ReceiverTakes(p) \/ EndPass(p)
             \/ \E p \in Passes, i \in Items : Deliver(p, i)
    BY <2>1, <1>1 DEF FileCorrupts, vars, memory, ReceiverTakes, EndPass, Deliver
  <2>2. CASE \/ ListQueue \/ FlushFails
             \/ \E p \in Passes : StartPass(p) \/ PassStops(p)
    BY <2>2, <1>2 DEF ListQueue, FlushFails, StartPass, StartPassReading, PassStops
  <2>3. CASE \E i \in Items : RemoveItem(i) \/ \E p \in Passes : Remove(p, i)
    BY <2>3, <1>6 DEF RemoveItem, Remove
  <2>4. CASE \E i \in Items : CancelItem(i) \/ \E p \in Passes : ExpireOld(p, i)
    BY <2>4, <1>7 DEF CancelItem, ExpireOld
  <2>5. CASE \E p \in Passes, i \in Items : RetryLater(p, i)
    BY <2>5, <1>8 DEF RetryLater
  <2>6. CASE \E i \in Items : BackoffElapses(i)
    BY <2>6, <1>9 DEF BackoffElapses
  <2>7. CASE Crash
    BY <2>7, <1>10 DEF Crash, Has, Empty, Absent
  <2>8. CASE FlushNothing
    BY <1>3, <2>8 DEF FlushNothing, Entries, NoneHeldAnew, NoneLost
  <2>9. CASE FlushWorks
    BY <1>4, <2>9
  <2> QED
    BY <1>5, <2>1, <2>2, <2>3, <2>4, <2>5, <2>6, <2>7, <2>8, <2>9 DEF Next

(* A write that fails in memory only is never forgotten: as long as any    *)
(* entry is held, a flush is scheduled, whatever runs in between.          *)
THEOREM HeldIsFlushed == Spec => []HeldIsRetried
<1>1. Init => HeldIsRetried
  BY DEF Init, HeldIsRetried, Entries, Has, Empty, Absent
<1>2. TypeInv /\ PassInv /\ HeldIsRetried /\ [Next]_vars => HeldIsRetried'
  <2> SUFFICES ASSUME TypeInv, PassInv, HeldIsRetried, [Next]_vars PROVE HeldIsRetried'
    OBVIOUS
  <2>1. CASE \E i \in Items : Hold(i)
    BY <2>1 DEF Hold, HeldIsRetried
  <2>2. CASE NoneHeldAnew /\ (holdTimer' = holdTimer \/ \A j \in Items : ~Has(held', j))
    BY <2>2 DEF NoneHeldAnew, HeldIsRetried, Entries, Has
  <2> QED
    BY <2>1, <2>2, HeldStep
<1> QED
  BY <1>1, <1>2, InitTypeInv, NextTypeInv, PTL DEF Spec

(* No verified payment is lost with the process unless the alert that      *)
(* names it was raised before, however the crash falls between the steps.  *)
THEOREM LossesAreTold == Spec => []LossIsTold
<1>1. Init => LossIsTold
  BY DEF Init, LossIsTold, Has, Empty, Absent
<1>2. TypeInv /\ PassInv /\ LossIsTold /\ [Next]_vars => LossIsTold'
  <2> SUFFICES ASSUME TypeInv, PassInv, LossIsTold, [Next]_vars, NEW i \in Items,
                      fate'[i] = "lost" \/ Has(held', i)
               PROVE  <<"queue_write_failed", i>> \in told'
    BY DEF LossIsTold, Has
  <2>1. told \subseteq told' /\ NoneLost
    BY HeldStep
  <2>2. CASE fate[i] = "lost" \/ Has(held, i)
    BY <2>1, <2>2 DEF LossIsTold
  <2>3. CASE fate[i] # "lost" /\ ~Has(held, i)
    <3>1. PICK j \in Items : Hold(j)
      BY <2>1, <2>3, HeldStep DEF NoneLost, NoneHeldAnew
    <3>2. j = i
      BY <2>1, <2>3, <3>1 DEF Hold, Added, Has, NoneLost, TypeInv, TypeOK
    <3> QED
      BY <3>1, <3>2 DEF Hold
  <2> QED
    BY <2>2, <2>3
<1> QED
  BY <1>1, <1>2, InitTypeInv, NextTypeInv, PTL DEF Spec

-----------------------------------------------------------------------------
(***************************************************************************)
(* How the entry of a hand-over, its fate and the copies of it move in one *)
(* step.  Whole is the queue: the file and what is held, put together.     *)
(***************************************************************************)
Whole == Both(disk, held)

EntryStays(j) ==
  /\ Whole'[j].status = Whole[j].status
  /\ Whole'[j].retryCount = Whole[j].retryCount
EntryLeaves(j) == ~Has(Whole', j)
EntryMarked(j, st) ==
  /\ Has(Whole, j)
  /\ Whole'[j].status = st
  /\ Whole'[j].retryCount = Whole[j].retryCount

EntryMoves(j) ==
  \/ EntryStays(j)
  \/ EntryLeaves(j)
  \/ AddToQueue(j) /\ Whole'[j] = NewEntry
  \/ CancelItem(j) /\ EntryMarked(j, "cancelled")
  \/ \E p \in Passes : ExpireOld(p, j) /\ EntryMarked(j, "dead")
  \/ \E p \in Passes : RetryLater(p, j) /\ Has(Whole, j) /\ Whole'[j] = Retried(due[p][j])

(* The queue holds what the file and the memory hold.                      *)
LEMMA WholeHas ==
  ASSUME TypeInv, Accounted, NEW j \in Items
  PROVE  /\ Has(Whole, j) <=> Has(disk, j) \/ Has(held, j)
         /\ Has(Whole, j) <=> fate[j] = "queued"
         /\ Has(disk, j) => Whole[j] = disk[j] /\ ~Has(held, j)
         /\ Has(held, j) => Whole[j] = held[j]
         /\ Whole[j] \in Entry
BY DEF Whole, Both, Has, TypeInv, TypeOK, Entry, Accounted, InQueueOnce, OutOfQueue

(* A read of the file: an entry stays, or it was in a corrupt file.        *)
LEMMA ReadMovesEntry ==
  ASSUME TypeInv, Accounted, NEW j \in Items, NEW io, ReadFile(io), held' = held
  PROVE  EntryStays(j) \/ EntryLeaves(j)
BY DEF EntryStays, EntryLeaves, Whole, Both, ReadFile, OnFile, Empty, Absent, Has,
       TypeInv, TypeOK, Accounted, InQueueOnce, OutOfQueue

(* What mutate makes its change to holds every entry as it was, or not.    *)
LEMMA ReadEntry ==
  ASSUME TypeInv, Accounted, NEW j \in Items
  PROVE  /\ OnFile \in Queue /\ held \in Queue /\ Both(OnFile, held) \in Queue
         /\ Has(OnFile, j) => OnFile[j] = Whole[j] /\ Has(Whole, j) /\ ~Has(held, j)
         /\ Has(held, j) => held[j] = Whole[j] /\ Has(Whole, j) /\ ~Has(OnFile, j)
         /\ Has(Both(OnFile, held), j) => Both(OnFile, held)[j] = Whole[j] /\ Has(Whole, j)
<1>1. OnFile \in Queue /\ held \in Queue /\ Both(OnFile, held) \in Queue
  BY OnFileIsQueue, BothIsQueue DEF TypeInv
<1>2. Has(OnFile, j) => OnFile[j] = disk[j] /\ Has(disk, j)
  BY DEF OnFile, Empty, Absent, Has
<1>3. Has(Both(OnFile, held), j) =>
        \/ Has(OnFile, j) /\ Both(OnFile, held)[j] = OnFile[j]
        \/ Has(held, j) /\ Both(OnFile, held)[j] = held[j]
  BY DEF Both, Has
<1> QED
  BY <1>1, <1>2, <1>3, WholeHas

(* An entry of the whole after the step is one of the file or of memory.   *)
LEMMA WholeAfter ==
  ASSUME NEW j \in Items
  PROVE  Has(Whole', j) => \/ Has(disk', j) /\ Whole'[j] = disk'[j]
                           \/ Has(held', j) /\ Whole'[j] = held'[j]
BY DEF Whole, Both, Has

(* A write that takes an entry out: it leaves and the others stay.         *)
LEMMA WithoutMovesEntry ==
  ASSUME TypeInv, Accounted, NEW j \in Items, NEW i \in Items,
         Mutate(LAMBDA q : Without(q, i))
  PROVE  EntryStays(j) \/ EntryLeaves(j)
<1>1. \A q \in Queue : Has(Without(q, i), j) => Without(q, i)[j] = q[j] /\ Has(q, j)
  BY QueueIsTyped DEF Without, Has, Absent
<1>2. ~Has(Empty, j)
  BY DEF Has, Empty, Absent
<1>3. CASE Overflows
  <2>1. disk' = Without(OnFile, i) /\ held' = Without(held, i)
    BY <1>3 DEF Mutate
  <2> QED
    BY <1>1, <2>1, ReadEntry, WholeAfter DEF EntryStays, EntryLeaves
<1>4. CASE ~Overflows
  <2>1. disk' = Without(Both(OnFile, held), i) /\ held' = Empty
    BY <1>4 DEF Mutate
  <2> QED
    BY <1>1, <1>2, <2>1, ReadEntry, WholeAfter DEF EntryStays, EntryLeaves
<1> QED
  BY <1>3, <1>4

(* A write of the held entries alone.                                      *)
LEMMA FlushMovesEntry ==
  ASSUME TypeInv, Accounted, NEW j \in Items, Mutate(LAMBDA q : q)
  PROVE  EntryStays(j) \/ EntryLeaves(j)
<1>2. ~Has(Empty, j)
  BY DEF Has, Empty, Absent
<1>3. CASE Overflows
  <2>1. disk' = OnFile /\ held' = held
    BY <1>3 DEF Mutate
  <2> QED
    BY <2>1, ReadEntry, WholeAfter DEF EntryStays, EntryLeaves
<1>4. CASE ~Overflows
  <2>1. disk' = Both(OnFile, held) /\ held' = Empty
    BY <1>4 DEF Mutate
  <2> QED
    BY <1>2, <2>1, ReadEntry, WholeAfter DEF EntryStays, EntryLeaves
<1> QED
  BY <1>3, <1>4

(* A write that marks an entry.                                            *)
LEMMA MarkMovesEntry ==
  ASSUME TypeInv, Accounted, NEW j \in Items, NEW i \in Items,
         NEW st \in {"dead", "cancelled"}, Mutate(LAMBDA q : Mark(q, i, st))
  PROVE  EntryStays(j) \/ EntryLeaves(j) \/ (j = i /\ EntryMarked(i, st))
<1>1. \A q \in Queue : Has(Mark(q, i, st), j) =>
        /\ Has(q, j)
        /\ j # i => Mark(q, i, st)[j] = q[j]
        /\ j = i => /\ Mark(q, i, st)[j].status = st
                    /\ Mark(q, i, st)[j].retryCount = q[j].retryCount
  BY QueueIsTyped DEF Mark, Has, Entry
<1>2. ~Has(Empty, j)
  BY DEF Has, Empty, Absent
<1>3. CASE Overflows
  <2>1. disk' = Mark(OnFile, i, st) /\ held' = Mark(held, i, st)
    BY <1>3 DEF Mutate
  <2> QED
    BY <1>1, <2>1, ReadEntry, WholeAfter DEF EntryStays, EntryLeaves, EntryMarked
<1>4. CASE ~Overflows
  <2>1. disk' = Mark(Both(OnFile, held), i, st) /\ held' = Empty
    BY <1>4 DEF Mutate
  <2> QED
    BY <1>1, <1>2, <2>1, ReadEntry, WholeAfter DEF EntryStays, EntryLeaves, EntryMarked
<1> QED
  BY <1>3, <1>4

(* A write of an entry that was tried once more.                           *)
LEMMA SetMovesEntry ==
  ASSUME TypeInv, Accounted, NEW j \in Items, NEW i \in Items,
         NEW e, Mutate(LAMBDA q : Set(q, i, e))
  PROVE  EntryStays(j) \/ EntryLeaves(j) \/ (j = i /\ Has(Whole, i) /\ Whole'[i] = e)
<1>1. \A q \in Queue : Has(Set(q, i, e), j) =>
        \/ j # i /\ Set(q, i, e)[j] = q[j] /\ Has(q, j)
        \/ j = i /\ Set(q, i, e)[j] = e /\ Has(q, j)
        \/ Set(q, i, e)[j] = q[j] /\ Has(q, j)
  BY QueueIsTyped DEF Set, Has, Entry
<1>2. ~Has(Empty, j)
  BY DEF Has, Empty, Absent
<1>3. CASE Overflows
  <2>1. disk' = Set(OnFile, i, e) /\ held' = Set(held, i, e)
    BY <1>3 DEF Mutate
  <2> QED
    BY <1>1, <2>1, ReadEntry, WholeAfter DEF EntryStays, EntryLeaves
<1>4. CASE ~Overflows
  <2>1. disk' = Set(Both(OnFile, held), i, e) /\ held' = Empty
    BY <1>4 DEF Mutate
  <2> QED
    BY <1>1, <1>2, <2>1, ReadEntry, WholeAfter DEF EntryStays, EntryLeaves
<1> QED
  BY <1>3, <1>4

(* Every step moves every entry in one of six ways.                        *)
LEMMA EntryStep ==
  ASSUME TypeInv, Accounted, [Next]_vars, NEW j \in Items
  PROVE  EntryMoves(j)
<1>1. ASSUME UNCHANGED <<disk, held>> PROVE EntryStays(j)
  BY <1>1 DEF EntryStays, Whole
<1>2. CASE \/ FileCorrupts \/ FlushNothing \/ UNCHANGED vars
           \/ \E p \in Passes : ReceiverTakes(p) \/ EndPass(p)
           \/ \E p \in Passes, i \in Items : Deliver(p, i)
  BY <1>1, <1>2 DEF FileCorrupts, FlushNothing, vars, memory, ReceiverTakes, EndPass,
                    Deliver, EntryMoves
<1>3. CASE \/ ListQueue \/ FlushFails
           \/ \E p \in Passes : StartPass(p) \/ PassStops(p)
  BY <1>3, ReadMovesEntry DEF ListQueue, FlushFails, StartPass, StartPassReading,
                              PassStops, EntryMoves
<1>4. CASE FlushWorks
  BY <1>4, FlushMovesEntry DEF FlushWorks, EntryMoves
<1>5. CASE \E i \in Items : RemoveItem(i) \/ \E p \in Passes : Remove(p, i)
  BY <1>5, WithoutMovesEntry DEF RemoveItem, Remove, EntryMoves
<1>6. ASSUME NEW i \in Items, CancelItem(i) PROVE EntryMoves(j)
  <2>1. EntryStays(j) \/ EntryLeaves(j) \/ (j = i /\ EntryMarked(i, "cancelled"))
    BY <1>6, MarkMovesEntry DEF CancelItem
  <2> QED
    BY <1>6, <2>1 DEF EntryMoves
<1>7. ASSUME NEW p \in Passes, NEW i \in Items, ExpireOld(p, i) PROVE EntryMoves(j)
  <2>1. EntryStays(j) \/ EntryLeaves(j) \/ (j = i /\ EntryMarked(i, "dead"))
    BY <1>7, MarkMovesEntry DEF ExpireOld
  <2> QED
    BY <1>7, <2>1 DEF EntryMoves
<1>8. ASSUME NEW p \in Passes, NEW i \in Items, RetryLater(p, i) PROVE EntryMoves(j)
  <2>1. Mutate(LAMBDA q : Set(q, i, Retried(due[p][i])))
    BY <1>8 DEF RetryLater
  <2>2. \/ EntryStays(j) \/ EntryLeaves(j)
        \/ j = i /\ Has(Whole, i) /\ Whole'[i] = Retried(due[p][i])
    BY <2>1, SetMovesEntry
  <2> QED
    BY <1>8, <2>2 DEF EntryMoves
<1>9. ASSUME NEW i \in Items, BackoffElapses(i) PROVE EntryMoves(j)
  <2>1. \A q \in Queue : /\ Elapsed(q, i)[j].status = q[j].status
                         /\ Elapsed(q, i)[j].retryCount = q[j].retryCount
    BY QueueIsTyped DEF Elapsed, BackingOff, Entry
  <2>2. disk' = Elapsed(disk, i) /\ held' = Elapsed(held, i) /\ disk \in Queue /\ held \in Queue
    BY <1>9 DEF BackoffElapses, TypeInv
  <2>3. EntryStays(j)
    BY <2>1, <2>2 DEF EntryStays, Whole, Both, Has
  <2> QED
    BY <2>3 DEF EntryMoves
<1>10. CASE Crash
  <2>1. disk' = disk /\ held' = Empty /\ ~Has(Empty, j)
    BY <1>10 DEF Crash, Empty, Absent, Has
  <2>2. EntryStays(j) \/ EntryLeaves(j)
    BY <2>1, WholeHas, WholeAfter DEF EntryStays, EntryLeaves
  <2> QED
    BY <2>2 DEF EntryMoves
<1>11. ASSUME NEW i \in Items, AddToQueue(i) PROVE EntryMoves(j)
  <2>1. PICK io \in Outcomes :
          \/ Mutate(LAMBDA q : Added(q, i))
          \/ ReadFile(io) /\ held' = Added(held, i)
    BY <1>11 DEF AddToQueue, Hold
  <2>2. \A q \in Queue : IF j = i THEN Added(q, i)[j] = NewEntry ELSE Added(q, i)[j] = q[j]
    BY QueueIsTyped DEF Added
  <2>3. /\ ~Has(Empty, j)
        /\ Has(OnFile, j) => OnFile[j] = disk[j] /\ Has(disk, j)
    BY DEF Empty, Absent, Has, OnFile
  <2>4. CASE ReadFile(io) /\ held' = Added(held, i)
    <3>1. \/ disk'[j] = Whole[j] /\ Has(Whole, j) /\ Has(disk', j) /\ ~Has(held, j)
          \/ ~Has(disk', j)
      BY <2>4, <2>3, WholeHas, ReadEntry DEF ReadFile
    <3>2. fate[i] = "new"
      BY <1>11 DEF AddToQueue
    <3>3. j = i => ~Has(Whole, j)
      BY <3>2, WholeHas
    <3>4. CASE j = i
      <4>1. ~Has(disk', j) /\ held'[j] = NewEntry
        BY <2>2, <2>4, <3>1, <3>3, <3>4, ReadEntry
      <4> QED
        BY <1>11, <3>4, <4>1 DEF EntryMoves, Whole, Both
    <3>5. CASE j # i
      <4>1. held'[j] = held[j]
        BY <2>2, <2>4, <3>5, ReadEntry
      <4>2. EntryStays(j) \/ EntryLeaves(j)
        BY <3>1, <4>1, WholeHas, WholeAfter DEF EntryStays, EntryLeaves, Has
      <4> QED
        BY <4>2 DEF EntryMoves
    <3> QED
      BY <3>4, <3>5
  <2>5. CASE Mutate(LAMBDA q : Added(q, i))
    <3>1. \/ disk' = Added(OnFile, i) /\ held' = Added(held, i)
          \/ disk' = Added(Both(OnFile, held), i) /\ held' = Empty
      BY <2>5 DEF Mutate
    <3>2. CASE j = i
      <4>1. disk'[j] = NewEntry /\ Has(disk', j)
        BY <2>2, <3>1, <3>2, ReadEntry DEF NewEntry, Has
      <4> QED
        BY <1>11, <3>2, <4>1 DEF EntryMoves, Whole, Both
    <3>3. CASE j # i
      <4>1. \/ disk'[j] = OnFile[j] /\ held'[j] = held[j]
            \/ disk'[j] = Both(OnFile, held)[j] /\ ~Has(held', j)
        BY <2>2, <2>3, <3>1, <3>3, ReadEntry
      <4>2. EntryStays(j) \/ EntryLeaves(j)
        BY <4>1, ReadEntry, WholeAfter DEF EntryStays, EntryLeaves, Has
      <4> QED
        BY <4>2 DEF EntryMoves
    <3> QED
      BY <3>2, <3>3
  <2> QED
    BY <2>1, <2>4, <2>5
<1> QED
  BY <1>2, <1>3, <1>4, <1>5, <1>6, <1>7, <1>8, <1>9, <1>10, <1>11 DEF Next

(* What a step may make of a hand-over.                                    *)
FateMoves(j) ==
  \/ fate'[j] = fate[j]
  \/ AddToQueue(j) /\ fate[j] = "new" /\ fate'[j] = "queued"
  \/ fate[j] = "queued" /\ fate'[j] = "dropped"
  \/ fate[j] = "queued" /\ fate'[j] = "taken" /\ \E p \in Passes : Remove(p, j)
  \/ Has(disk, j) /\ fate'[j] = "aside"
  \/ Crash /\ Has(held, j) /\ ~Has(disk, j) /\ fate'[j] = "lost"

(* A hand-over changes its place in one of six ways.                       *)
LEMMA FateStep ==
  ASSUME TypeInv, [Next]_vars, NEW j \in Items
  PROVE  FateMoves(j)
<1> USE DEF TypeInv, TypeOK
<1>1. ASSUME UNCHANGED fate PROVE FateMoves(j)
  BY <1>1 DEF FateMoves
<1>2. ASSUME NEW io, fate' = ReadFate(io) PROVE FateMoves(j)
  BY <1>2 DEF FateMoves, ReadFate
<1>3. CASE \/ FileCorrupts \/ FlushNothing \/ UNCHANGED vars
           \/ \E i \in Items : BackoffElapses(i)
           \/ \E p \in Passes : ReceiverTakes(p) \/ EndPass(p)
           \/ \E p \in Passes, i \in Items : Deliver(p, i)
  BY <1>1, <1>3 DEF FileCorrupts, FlushNothing, vars, memory, ReceiverTakes, EndPass,
                    Deliver, BackoffElapses
<1>4. CASE \/ ListQueue \/ FlushFails \/ FlushWorks
           \/ \E i \in Items : CancelItem(i)
           \/ \E p \in Passes : StartPass(p) \/ PassStops(p)
           \/ \E p \in Passes, i \in Items : ExpireOld(p, i) \/ RetryLater(p, i)
  BY <1>2, <1>4 DEF ListQueue, FlushFails, FlushWorks, CancelItem, StartPass,
                    StartPassReading, PassStops, ExpireOld, RetryLater
<1>5. ASSUME NEW i \in Items, RemoveItem(i) PROVE FateMoves(j)
  <2>1. fate' = Leaves(ReadFate("ok"), i, "dropped")
    BY <1>5 DEF RemoveItem
  <2> QED
    BY <2>1 DEF Leaves, ReadFate, FateMoves
<1>6. ASSUME NEW p \in Passes, NEW i \in Items, Remove(p, i) PROVE FateMoves(j)
  <2>1. fate' = Leaves(ReadFate("ok"), i, "taken")
    BY <1>6 DEF Remove
  <2>2. \/ fate'[j] = fate[j]
        \/ j = i /\ fate[j] = "queued" /\ fate'[j] = "taken"
        \/ Has(disk, j) /\ fate'[j] = "aside"
    BY <2>1 DEF Leaves, ReadFate
  <2> QED
    BY <1>6, <2>2 DEF FateMoves
<1>7. ASSUME NEW i \in Items, AddToQueue(i) PROVE FateMoves(j)
  <2>1. PICK io : fate' = [ReadFate(io) EXCEPT ![i] = "queued"]
    BY <1>7 DEF AddToQueue
  <2>2. fate[i] = "new"
    BY <1>7 DEF AddToQueue
  <2>3. \/ fate'[j] = fate[j]
        \/ j = i /\ fate'[j] = "queued"
        \/ Has(disk, j) /\ fate'[j] = "aside"
    BY <2>1 DEF ReadFate
  <2> QED
    BY <1>7, <2>2, <2>3 DEF FateMoves
<1>8. CASE Crash
  <2>1. fate'[j] = IF Has(held, j) /\ ~Has(disk, j) THEN "lost" ELSE fate[j]
    BY <1>8 DEF Crash
  <2> QED
    BY <1>8, <2>1 DEF FateMoves
<1> QED
  BY <1>3, <1>4, <1>5, <1>6, <1>7, <1>8 DEF Next

(* A copy a pass has is one it had, of a hand-over it has not dealt with,  *)
(* or one it has just read.                                                *)
CopyStays(p, j) ==
  /\ Has(due[p], j) /\ due'[p][j] = due[p][j]
  /\ ~Crash
  /\ \A r \in Passes : ~(ExpireOld(r, j) \/ Remove(r, j) \/ RetryLater(r, j))
CopyIsNew(p, j) ==
  /\ Has(Whole, j)
  /\ Whole[j].status = "pending"
  /\ Whole[j].retryCount = due'[p][j].retryCount
  /\ EntryStays(j) \/ EntryLeaves(j)
  /\ fate'[j] \in {"queued", "aside"}

LEMMA CopyStep ==
  ASSUME TypeInv, PassInv, Accounted, [Next]_vars, NEW p \in Passes, NEW j \in Items,
         Has(due'[p], j)
  PROVE  CopyStays(p, j) \/ CopyIsNew(p, j)
<1> USE QueueIsTyped DEF TypeInv, TypeOK
<1>1. ~Crash
  BY DEF Crash, Empty, Absent, Has
<1>2. ASSUME NEW r \in active, Handled(r, j) PROVE FALSE
  <2>1. r \in Passes /\ due[r] \in [Items -> Entry]
    OBVIOUS
  <2>2. due' = [due EXCEPT ![r] = Without(due[r], j)]
    BY <1>2 DEF Handled
  <2>3. ~Has(Without(due[r], j), j)
    BY <2>1 DEF Without, Absent, Has
  <2>4. p = r
    <3>1. p # r => due'[p] = due[p]
      BY <2>2
    <3>2. p \in active
      BY <2>1, <2>2, <3>1 DEF PassInv, Empty, Absent, Has
    <3> QED
      BY <3>2 DEF PassInv
  <2> QED
    BY <2>1, <2>2, <2>3, <2>4
<1>3. \A r \in Passes : ~(ExpireOld(r, j) \/ Remove(r, j) \/ RetryLater(r, j))
  <2> SUFFICES ASSUME NEW r \in Passes, ExpireOld(r, j) \/ Remove(r, j) \/ RetryLater(r, j)
               PROVE  FALSE
    OBVIOUS
  <2>1. Handled(r, j)
    BY DEF ExpireOld, Remove, RetryLater
  <2>2. r \in active
    BY ItemsAssumption DEF ExpireOld, IsNext, Remove, RetryLater, PassInv
  <2> QED
    BY <1>2, <2>1, <2>2
<1>4. ASSUME due'[p][j] = due[p][j] PROVE CopyStays(p, j)
  BY <1>1, <1>3, <1>4 DEF CopyStays, Has
<1>5. ASSUME NEW r \in Passes, NEW i \in Items, Handled(r, i) PROVE due'[p][j] = due[p][j]
  BY <1>5 DEF Handled, Without, Absent, Has
<1>6. ASSUME NEW r \in Passes, Ended(r) PROVE due'[p][j] = due[p][j]
  BY <1>6 DEF Ended, Empty, Absent, Has
<1>7. ASSUME NEW r \in Passes, StartPass(r) PROVE CopyStays(p, j) \/ CopyIsNew(p, j)
  <2>1. PICK io : StartPassReading(r, io)
    BY <1>7 DEF StartPass
  <2>2. CASE r # p
    BY <1>4, <2>1, <2>2 DEF StartPassReading
  <2>3. CASE r = p
    <3>1. PICK q \in {Both(OnFile, held), held} : due'[p] = DueIn(q)
      BY <2>1, <2>3 DEF StartPassReading
    <3>2. q \in Queue /\ Has(q, j) /\ q[j].status = "pending" /\ due'[p][j] = q[j]
      BY <3>1, ReadEntry DEF DueIn, IsDue, Has, Absent
    <3>3. Whole[j] = q[j] /\ Has(Whole, j)
      BY <3>1, <3>2, ReadEntry
    <3>4. EntryStays(j) \/ EntryLeaves(j)
      BY <2>1, ReadMovesEntry DEF StartPassReading
    <3>5. fate'[j] \in {"queued", "aside"}
      <4>1. fate[j] = "queued" /\ fate' = ReadFate(io)
        BY <2>1, <3>3, WholeHas DEF StartPassReading
      <4> QED
        BY <4>1 DEF ReadFate
    <3> QED
      BY <3>2, <3>3, <3>4, <3>5 DEF CopyIsNew
  <2> QED
    BY <2>2, <2>3
<1> QED
  <2>1. CASE \/ FlushNothing \/ FlushWorks \/ FlushFails \/ ListQueue \/ FileCorrupts
             \/ UNCHANGED vars
             \/ \E i \in Items : AddToQueue(i) \/ RemoveItem(i) \/ CancelItem(i) \/ BackoffElapses(i)
             \/ \E r \in Passes : ReceiverTakes(r)
             \/ \E r \in Passes, i \in Items : Deliver(r, i)
    BY <1>4, <2>1 DEF FlushNothing, FlushWorks, FlushFails, ListQueue, FileCorrupts, vars,
       memory, passVars, AddToQueue, RemoveItem, CancelItem, BackoffElapses, ReceiverTakes, Deliver
  <2>2. CASE \E r \in Passes : PassStops(r) \/ EndPass(r)
    BY <1>4, <1>6, <2>2 DEF PassStops, EndPass
  <2>3. CASE \E r \in Passes, i \in Items : ExpireOld(r, i) \/ Remove(r, i) \/ RetryLater(r, i)
    BY <1>4, <1>5, <2>3 DEF ExpireOld, Remove, RetryLater
  <2> QED
    BY <1>1, <1>7, <2>1, <2>2, <2>3 DEF Next

-----------------------------------------------------------------------------
(***************************************************************************)
(* Copies and their entries.  What a pass still has to deliver was in the  *)
(* queue when it was read; while it still is, it has been tried as often   *)
(* as the copy says, for only the pass itself tries it.                    *)
(***************************************************************************)
CopyInv ==
  \A p \in Passes, j \in Items : Has(due[p], j) =>
    /\ fate[j] \in {"queued", "dropped", "aside"}
    /\ Has(Whole, j) => Whole[j].retryCount = due[p][j].retryCount

(* A pass whose delivery was taken still waits for the answer.             *)
BookedInv == \A p \in booked : sending[p] # None /\ taken[sending[p]] > 0

Base == TypeInv /\ PassInv /\ Accounted
QueueInv == Base /\ CopyInv /\ DeadIsLeftAlone /\ BookedInv

(* Copies stay true to their entries.                                      *)
LEMMA NextCopyInv == Base /\ CopyInv /\ [Next]_vars => CopyInv'
<1> SUFFICES ASSUME Base, CopyInv, [Next]_vars,
                    NEW p \in Passes, NEW j \in Items, Has(due'[p], j)
             PROVE  /\ fate'[j] \in {"queued", "dropped", "aside"}
                    /\ Has(Whole', j) => Whole'[j].retryCount = due'[p][j].retryCount
  BY DEF CopyInv
<1> USE DEF Base
<1>1. EntryMoves(j) /\ FateMoves(j) /\ (CopyStays(p, j) \/ CopyIsNew(p, j))
  BY EntryStep, FateStep, CopyStep
<1>2. CASE CopyIsNew(p, j)
  BY <1>2 DEF CopyIsNew, EntryStays, EntryLeaves
<1>3. CASE CopyStays(p, j)
  <2>1. /\ fate[j] \in {"queued", "dropped", "aside"}
        /\ Has(Whole, j) => Whole[j].retryCount = due'[p][j].retryCount
    BY <1>3 DEF CopyStays, CopyInv
  <2>2. fate'[j] \in {"queued", "dropped", "aside"}
    BY <1>1, <1>3, <2>1 DEF FateMoves, CopyStays
  <2>3. Has(Whole', j) => Whole'[j].retryCount = due'[p][j].retryCount
    <3> SUFFICES ASSUME Has(Whole', j) PROVE Whole'[j].retryCount = due'[p][j].retryCount
      OBVIOUS
    <3>1. CASE EntryStays(j)
      BY <2>1, <3>1 DEF EntryStays, Has
    <3>2. CASE CancelItem(j) /\ EntryMarked(j, "cancelled")
      BY <2>1, <3>2 DEF EntryMarked
    <3>3. ~AddToQueue(j)
      BY <2>1 DEF AddToQueue
    <3> QED
      BY <1>1, <1>3, <3>1, <3>2, <3>3 DEF EntryMoves, EntryLeaves, CopyStays
  <2> QED
    BY <2>2, <2>3
<1> QED
  BY <1>1, <1>2, <1>3

(* An entry is dead in the file or in memory if it is dead in the queue.   *)
LEMMA DeadInWhole ==
  ASSUME TypeInv, Accounted, NEW j \in Items
  PROVE  (disk[j].status = "dead" \/ held[j].status = "dead") <=> Whole[j].status = "dead"
BY WholeHas DEF Has

(* Nothing that runs still has a copy of an entry that died.               *)
LEMMA NextDeadIsLeftAlone == Base /\ DeadIsLeftAlone /\ [Next]_vars => DeadIsLeftAlone'
<1> SUFFICES ASSUME Base, DeadIsLeftAlone, [Next]_vars, NEW j \in Items,
                    disk'[j].status = "dead" \/ held'[j].status = "dead"
             PROVE  /\ <<"queue_item_dead", j>> \in told'
                    /\ \A p \in Passes : ~Has(due'[p], j) /\ sending'[p] # j
  BY DEF DeadIsLeftAlone
<1> USE DEF Base
<1>1. Whole'[j].status = "dead" /\ Has(Whole', j)
  <2>1. TypeInv' /\ Accounted'
    BY NextTypeInv, NextAccounted
  <2> QED
    BY <2>1 DEF Whole, Both, Has, TypeInv, TypeOK, Accounted, InQueueOnce, OutOfQueue
<1>2. EntryMoves(j) /\ told \subseteq told'
  BY EntryStep, HeldStep
<1>3. /\ <<"queue_item_dead", j>> \in told'
      /\ \/ Whole[j].status = "dead" /\ \A p \in Passes : ~Has(due[p], j)
         \/ \E p \in Passes : ExpireOld(p, j) \/ RetryLater(p, j)
  <2>1. CASE EntryStays(j)
    BY <1>1, <1>2, <2>1, DeadInWhole DEF EntryStays, DeadIsLeftAlone
  <2>2. CASE AddToQueue(j) /\ Whole'[j] = NewEntry
    BY <1>1, <2>2 DEF NewEntry
  <2>3. CASE \E p \in Passes : ExpireOld(p, j)
    BY <2>3 DEF ExpireOld
  <2>4. CASE \E p \in Passes : RetryLater(p, j) /\ Whole'[j] = Retried(due[p][j])
    BY <1>1, <2>4 DEF RetryLater
  <2> QED
    BY <1>1, <1>2, <2>1, <2>2, <2>3, <2>4 DEF EntryMoves, EntryLeaves, EntryMarked
<1>4. ASSUME NEW p \in Passes PROVE ~Has(due'[p], j)
  <2>1. CopyIsNew(p, j) => Whole'[j].status = "pending"
    BY <1>1 DEF CopyIsNew, EntryStays, EntryLeaves
  <2>2. ~CopyStays(p, j)
    BY <1>3, <1>4 DEF CopyStays
  <2> QED
    BY <1>1, <2>1, <2>2, CopyStep
<1>5. ASSUME NEW p \in Passes PROVE sending'[p] # j
  BY <1>4, NextTypeInv, ItemsAssumption DEF PassInv
<1> QED
  BY <1>3, <1>4, <1>5

(* What a step does to the deliveries under way.                           *)
DeliveryStays(p) ==
  sending'[p] = sending[p] /\ (p \in booked' <=> p \in booked)
DeliveryEnds(p) ==
  /\ sending'[p] = None
  /\ p \notin booked'
  /\ \/ sending[p] = None
     \/ Remove(p, sending[p]) \/ RetryLater(p, sending[p]) \/ PassStops(p) \/ Crash

LEMMA SendingStep ==
  ASSUME TypeInv, PassInv, [Next]_vars, NEW p \in Passes
  PROVE  \/ taken' = taken /\ DeliveryStays(p)
         \/ taken' = taken /\ DeliveryEnds(p)
         \/ taken' = taken /\ \E i \in Items : Deliver(p, i)
         \/ \E r \in Passes : ReceiverTakes(r) /\ (r = p \/ DeliveryStays(p))
<1> USE DEF TypeInv, TypeOK
<1>1. CASE \/ FlushNothing \/ FlushWorks \/ FlushFails \/ ListQueue \/ FileCorrupts
           \/ UNCHANGED vars
           \/ \E i \in Items : AddToQueue(i) \/ RemoveItem(i) \/ CancelItem(i) \/ BackoffElapses(i)
           \/ \E r \in Passes : StartPass(r)
  BY <1>1 DEF DeliveryStays, FlushNothing, FlushWorks, FlushFails, ListQueue, FileCorrupts, vars,
     memory, passVars, AddToQueue, RemoveItem, CancelItem, BackoffElapses, StartPass,
     StartPassReading
<1>2. ASSUME NEW r \in Passes, NEW i \in Items, Handled(r, i)
      PROVE  IF r = p THEN sending'[p] = None /\ p \notin booked' ELSE DeliveryStays(p)
  BY <1>2 DEF Handled, DeliveryStays
<1>3. ASSUME NEW r \in Passes, Ended(r)
      PROVE  IF r = p THEN sending'[p] = None /\ p \notin booked' ELSE DeliveryStays(p)
  BY <1>3 DEF Ended, DeliveryStays
<1>4. ASSUME NEW r \in Passes, NEW i \in Items, ExpireOld(r, i)
      PROVE  taken' = taken /\ (DeliveryStays(p) \/ DeliveryEnds(p))
  BY <1>2, <1>4 DEF ExpireOld, IsNext, DeliveryEnds
<1>5. ASSUME NEW r \in Passes, NEW i \in Items, Remove(r, i) \/ RetryLater(r, i)
      PROVE  taken' = taken /\ (DeliveryStays(p) \/ DeliveryEnds(p))
  <2>1. taken' = taken /\ sending[r] = i /\ Handled(r, i)
    BY <1>5 DEF Remove, RetryLater
  <2> QED
    BY <1>2, <1>5, <2>1 DEF DeliveryEnds
<1>6. ASSUME NEW r \in Passes, PassStops(r)
      PROVE  taken' = taken /\ (DeliveryStays(p) \/ DeliveryEnds(p))
  <2>1. taken' = taken /\ Ended(r)
    BY <1>6 DEF PassStops
  <2> QED
    BY <1>3, <1>6, <2>1 DEF DeliveryEnds
<1>7. ASSUME NEW r \in Passes, EndPass(r)
      PROVE  taken' = taken /\ (DeliveryStays(p) \/ DeliveryEnds(p))
  BY <1>3, <1>7 DEF EndPass, DeliveryEnds
<1>8. CASE Crash
  <2>1. taken' = taken /\ sending'[p] = None /\ p \notin booked'
    BY <1>8 DEF Crash
  <2> QED
    BY <1>8, <2>1 DEF DeliveryEnds
<1>9. ASSUME NEW r \in Passes, NEW i \in Items, Deliver(r, i)
      PROVE  taken' = taken /\ (r = p \/ DeliveryStays(p))
  BY <1>9 DEF Deliver, DeliveryStays
<1>10. ASSUME NEW r \in Passes, ReceiverTakes(r) PROVE r = p \/ DeliveryStays(p)
  BY <1>10 DEF ReceiverTakes, DeliveryStays
<1>11. CASE \E r \in Passes, i \in Items : Deliver(r, i)
  BY <1>9, <1>11
<1> QED
  BY <1>1, <1>4, <1>5, <1>6, <1>7, <1>8, <1>10, <1>11 DEF Next

(* A booked delivery has been taken.                                       *)
LEMMA NextBookedInv == Base /\ BookedInv /\ [Next]_vars => BookedInv'
<1> SUFFICES ASSUME Base, BookedInv, [Next]_vars, NEW p \in booked'
             PROVE  sending'[p] # None /\ taken'[sending'[p]] > 0
  BY DEF BookedInv
<1> USE DEF Base, TypeInv, TypeOK
<1>1. p \in Passes
  BY NextTypeInv
<1>2. CASE taken' = taken /\ DeliveryStays(p)
  BY <1>2 DEF DeliveryStays, BookedInv
<1>3. ASSUME NEW i \in Items, Deliver(p, i) PROVE FALSE
  BY <1>3 DEF Deliver, IsNext, BookedInv
<1>4. ASSUME NEW r \in Passes, ReceiverTakes(r), r = p \/ DeliveryStays(p)
      PROVE  sending'[p] # None /\ taken'[sending'[p]] > 0
  <2>1. /\ sending[r] \in Items /\ sending' = sending /\ p \in booked \cup {r}
        /\ taken' = [taken EXCEPT ![sending[r]] = IF @ = 0 THEN 1 ELSE 2]
    BY <1>4 DEF ReceiverTakes
  <2>2. \A i \in Items : taken[i] > 0 => taken'[i] > 0
    BY <2>1
  <2>3. taken'[sending[r]] > 0
    BY <2>1
  <2>4. p \in booked => sending[p] \in Items /\ taken[sending[p]] > 0
    BY DEF BookedInv
  <2> QED
    BY <2>1, <2>2, <2>3, <2>4, ItemsAssumption
<1> QED
  BY <1>1, <1>2, <1>3, <1>4, SendingStep DEF DeliveryEnds

(* The queue's invariant holds for ever.                                   *)
LEMMA QueueInvariance == Spec => []QueueInv
<1>1. Init => QueueInv
  <2> SUFFICES ASSUME Init PROVE QueueInv
    OBVIOUS
  <2>1. Base
    BY InitTypeInv, InitAccounted DEF Base
  <2>2. CopyInv /\ BookedInv
    BY DEF Init, CopyInv, BookedInv, Has, Empty, Absent
  <2>3. \A j \in Items : disk[j].status # "dead" /\ held[j].status # "dead"
    BY DEF Init, Old, Absent, Empty
  <2> QED
    BY <2>1, <2>2, <2>3 DEF QueueInv, DeadIsLeftAlone
<1>2. QueueInv /\ [Next]_vars => QueueInv'
  <2> SUFFICES ASSUME QueueInv, [Next]_vars PROVE QueueInv'
    OBVIOUS
  <2>1. Base /\ CopyInv /\ DeadIsLeftAlone /\ BookedInv
    BY DEF QueueInv
  <2>2. Base'
    BY <2>1, NextTypeInv, NextAccounted DEF Base
  <2> QED
    BY <2>1, <2>2, NextCopyInv, NextDeadIsLeftAlone, NextBookedInv DEF QueueInv
<1> QED
  BY <1>1, <1>2, PTL DEF Spec

(* A dead entry was alerted and no pass still has a copy of it that could  *)
(* deliver it or write it back, whenever it died and whatever failed.      *)
THEOREM DeadAreLeft == Spec => []DeadIsLeftAlone
<1>1. QueueInv => DeadIsLeftAlone
  BY DEF QueueInv
<1> QED
  BY <1>1, QueueInvariance, PTL

(***************************************************************************)
(* No write from a copy undoes an attempt: the stored count of an entry    *)
(* never goes back, because the copy a pass adds one to is never older     *)
(* than the entry.                                                         *)
(***************************************************************************)
THEOREM RetriesAreKept == Spec => RetriesOnlyGrow
<1>1. ASSUME QueueInv, [Next]_vars, NEW i \in Items, Has(Whole, i), Has(Whole', i)
      PROVE  Whole'[i].retryCount >= Whole[i].retryCount
  <2>1. TypeInv /\ PassInv /\ Accounted /\ CopyInv
    BY <1>1 DEF QueueInv, Base
  <2>2. EntryMoves(i) /\ Whole[i].retryCount \in Nat
    BY <1>1, <2>1, EntryStep, WholeHas DEF Entry
  <2>3. CASE EntryStays(i) \/ EntryMarked(i, "cancelled")
    BY <2>2, <2>3 DEF EntryStays, EntryMarked
  <2>4. CASE \E p \in Passes : ExpireOld(p, i) /\ EntryMarked(i, "dead")
    BY <2>2, <2>4 DEF EntryMarked
  <2>5. ~AddToQueue(i)
    BY <1>1, <2>1, WholeHas DEF AddToQueue
  <2>6. ASSUME NEW p \in Passes, RetryLater(p, i), Whole'[i] = Retried(due[p][i])
        PROVE  Whole'[i].retryCount >= Whole[i].retryCount
    <3>1. Has(due[p], i)
      BY <2>1, <2>6, ItemsAssumption DEF RetryLater, PassInv
    <3>2. Whole[i].retryCount = due[p][i].retryCount
      BY <1>1, <2>1, <3>1 DEF CopyInv
    <3>3. Whole'[i].retryCount = due[p][i].retryCount + 1
      BY <2>6 DEF Retried
    <3> QED
      BY <2>2, <3>2, <3>3
  <2> QED
    BY <1>1, <2>2, <2>3, <2>4, <2>5, <2>6 DEF EntryMoves, EntryLeaves
<1>2. QueueInv /\ [Next]_vars =>
        [\A i \in Items :
           Has(Both(disk, held), i) /\ Has(Both(disk', held'), i) =>
             Both(disk', held')[i].retryCount >= Both(disk, held)[i].retryCount]_vars
  BY <1>1 DEF Whole
<1> QED
  BY <1>2, QueueInvariance, PTL DEF Spec, RetriesOnlyGrow

-----------------------------------------------------------------------------
(***************************************************************************)
(* At most once.  A hand-over the receiver has taken is one whose delivery *)
(* the worker still awaits, or it has left the queue for good and no pass  *)
(* has a copy of it.                                                       *)
(***************************************************************************)
NothingFails == Faults \cap {"disk", "crash", "answer"} = {}

OnceInv ==
  \A i \in Items : taken[i] > 0 =>
    /\ taken[i] = 1
    /\ \/ \E p \in booked : sending[p] = i
       \/ fate[i] \notin {"new", "queued"} /\ \A p \in Passes : ~Has(due[p], i)

(* Only the receiver takes hand-overs.                                     *)
LEMMA TakenStep ==
  ASSUME [Next]_vars
  PROVE  taken' = taken \/ \E p \in Passes : ReceiverTakes(p)
BY DEF Next, vars, memory, passVars, FlushNothing, FlushWorks, FlushFails, ListQueue,
   FileCorrupts, Crash, AddToQueue, RemoveItem, CancelItem, BackoffElapses, StartPass,
   StartPassReading, PassStops, EndPass, ExpireOld, Deliver, Remove, RetryLater

(* Without a fault, a taken delivery ends by its entry being removed.      *)
LEMMA TakenIsRemoved ==
  ASSUME NothingFails, NEW p \in booked, DeliveryEnds(p), sending[p] # None
  PROVE  Remove(p, sending[p])
<1>1. ~Crash
  BY DEF Crash, NothingFails
<1>2. ~PassStops(p)
  BY DEF PassStops, Outcomes, NothingFails
<1>3. ~RetryLater(p, sending[p])
  BY DEF RetryLater, MayFail, NothingFails
<1> QED
  BY <1>1, <1>2, <1>3 DEF DeliveryEnds

LEMMA NextOnceInv == NothingFails /\ QueueInv /\ OnceInv /\ [Next]_vars => OnceInv'
<1> SUFFICES ASSUME NothingFails, QueueInv, OnceInv, [Next]_vars,
                    NEW i \in Items, taken'[i] > 0
             PROVE  /\ taken'[i] = 1
                    /\ \/ \E p \in booked' : sending'[p] = i
                       \/ fate'[i] \notin {"new", "queued"} /\ \A p \in Passes : ~Has(due'[p], i)
  BY DEF OnceInv
<1>1. Base /\ CopyInv /\ BookedInv /\ TypeInv /\ PassInv /\ Accounted
  BY DEF QueueInv, Base
<1>2. \A p \in booked : p \in Passes
  BY <1>1 DEF TypeInv, TypeOK
(* Once out of the queue and out of the copies, always.                    *)
<1>3. ASSUME fate[i] \notin {"new", "queued"}, \A p \in Passes : ~Has(due[p], i)
      PROVE  fate'[i] \notin {"new", "queued"} /\ \A p \in Passes : ~Has(due'[p], i)
  <2>1. FateMoves(i) /\ ~Has(Whole, i)
    BY <1>1, <1>3, FateStep, WholeHas
  <2>2. fate'[i] \notin {"new", "queued"}
    BY <1>3, <2>1 DEF FateMoves
  <2>3. ASSUME NEW p \in Passes, Has(due'[p], i) PROVE FALSE
    BY <1>1, <1>3, <2>1, <2>3, CopyStep DEF CopyStays, CopyIsNew
  <2> QED
    BY <2>2, <2>3
(* The worker hears of the delivery it awaited: the copy is done with.     *)
<1>4. ASSUME NEW p \in booked, sending[p] = i, Remove(p, i)
      PROVE  fate'[i] \notin {"new", "queued"} /\ \A r \in Passes : ~Has(due'[r], i)
  <2>1. p \in Passes /\ sending[p] # None
    BY <1>2, <1>4, ItemsAssumption
  <2>2. Has(due[p], i)
    BY <1>1, <1>4, <2>1 DEF PassInv
  <2>3. fate[i] \in {"queued", "dropped", "aside"}
    BY <1>1, <2>1, <2>2 DEF CopyInv
  <2>4. fate'[i] \notin {"new", "queued"}
    <3>1. fate' = Leaves(ReadFate("ok"), i, "taken")
      BY <1>4 DEF Remove
    <3> QED
      BY <1>1, <2>3, <3>1 DEF Leaves, ReadFate, TypeInv, TypeOK
  <2>5. ASSUME NEW r \in Passes, Has(due'[r], i) PROVE FALSE
    <3>1. CASE CopyStays(r, i)
      BY <1>4, <2>1, <3>1 DEF CopyStays
    <3>2. CASE CopyIsNew(r, i)
      <4>1. due' = [due EXCEPT ![p] = Without(@, i)]
        BY <1>4 DEF Remove, Handled
      <4>2. r = p => ~Has(due'[r], i)
        BY <1>1, <2>1, <4>1 DEF Without, Absent, Has, TypeInv, TypeOK
      <4>3. r # p => due'[r] = due[r] /\ due[r] = Empty
        BY <1>1, <2>1, <4>1 DEF PassInv, TypeInv, TypeOK
      <4> QED
        BY <2>5, <4>2, <4>3 DEF Empty, Absent, Has
    <3> QED
      BY <1>1, <2>5, <3>1, <3>2, CopyStep
  <2> QED
    BY <2>4, <2>5
<1>5. CASE taken'[i] = taken[i]
  <2>1. taken[i] = 1
    BY <1>5 DEF OnceInv
  <2>2. CASE fate[i] \notin {"new", "queued"} /\ \A p \in Passes : ~Has(due[p], i)
    BY <1>3, <1>5, <2>1, <2>2
  <2>3. ASSUME NEW p \in booked, sending[p] = i
        PROVE  \/ p \in booked' /\ sending'[p] = i
               \/ fate'[i] \notin {"new", "queued"} /\ \A r \in Passes : ~Has(due'[r], i)
    <3>1. p \in Passes /\ sending[p] # None
      BY <1>2, <2>3, ItemsAssumption
    <3>2. CASE DeliveryStays(p)
      BY <2>3, <3>2 DEF DeliveryStays
    <3>3. CASE DeliveryEnds(p)
      BY <1>4, <2>3, <3>1, <3>3, TakenIsRemoved
    <3>4. ~(\E j \in Items : Deliver(p, j)) /\ ~ReceiverTakes(p)
      BY <2>3, <3>1 DEF Deliver, IsNext, ReceiverTakes
    <3> QED
      BY <1>1, <3>1, <3>2, <3>3, <3>4, SendingStep
  <2> QED
    BY <1>5, <2>1, <2>2, <2>3 DEF OnceInv
<1>6. CASE taken'[i] # taken[i]
  <2>1. PICK p \in Passes : ReceiverTakes(p)
    BY <1>6, TakenStep
  <2>2. /\ sending[p] \in Items /\ p \notin booked /\ p \in booked' /\ sending' = sending
        /\ taken' = [taken EXCEPT ![sending[p]] = IF @ = 0 THEN 1 ELSE 2]
    BY <1>1, <2>1 DEF ReceiverTakes, TypeInv, TypeOK
  <2>3. sending[p] = i /\ sending[p] # None
    BY <1>6, <2>2, ItemsAssumption DEF TypeInv, TypeOK
  <2>4. Has(due[p], i)
    BY <1>1, <2>3 DEF PassInv
  <2>5. ~(\E r \in booked : sending[r] = i)
    BY <1>1, <1>2, <2>2, <2>3 DEF PassInv
  <2>6. taken[i] = 0
    BY <1>1, <2>4, <2>5 DEF OnceInv, TypeInv, TypeOK
  <2>7. taken'[i] = 1
    BY <1>1, <2>2, <2>3, <2>6 DEF TypeInv, TypeOK
  <2> QED
    BY <2>2, <2>3, <2>7
<1> QED
  BY <1>5, <1>6

(***************************************************************************)
(* With a disk that takes its writes, no crash and no lost answer, the     *)
(* receiver takes each hand-over at most once, for any number of passes,   *)
(* intervals, deletions and damaged files.                                 *)
(***************************************************************************)
THEOREM TakenOnce == Spec => []AtMostOnce
<1> DEFINE inv == NothingFails => OnceInv
<1>1. Init => inv
  BY DEF Init, OnceInv
<1>2. QueueInv /\ inv /\ [Next]_vars => inv'
  BY NextOnceInv DEF NothingFails
<1>3. inv /\ QueueInv => AtMostOnce
  BY DEF OnceInv, AtMostOnce, NothingFails, QueueInv, Base, TypeInv, TypeOK
<1> QED
  BY <1>1, <1>2, <1>3, QueueInvariance, PTL DEF Spec

-----------------------------------------------------------------------------
(***************************************************************************)
(* The cap.                                                                *)
(***************************************************************************)
LiveAfter == Live(disk') \cap {i \in Items : Whole[i].status # "dead"}
CapKept == Cardinality(LiveAfter) > MaxItems => Cardinality(LiveAfter) <= Size(disk)

(* A write stays under the cap, or under the file's size, if what it       *)
(* writes alive is alive in a queue that does.                             *)
LEMMA CapOf ==
  ASSUME TypeInv, NEW q \in Queue, LiveAfter \subseteq Live(q),
         Size(q) <= MaxItems \/ Size(q) <= Size(disk)
  PROVE  CapKept
<1>1. IsFiniteSet(Live(q)) /\ Size(q) \in Nat /\ Size(disk) \in Nat
  BY SizeIsNat DEF TypeInv
<1>2. Cardinality(LiveAfter) \in Nat /\ Cardinality(LiveAfter) <= Size(q)
  BY <1>1, FS_Subset, FS_CardinalityType DEF Size
<1> QED
  BY <1>1, <1>2, LimitsAssumption DEF CapKept

(* A step that adds nothing to the file keeps within the file's size.      *)
LEMMA CapOfFile ==
  ASSUME TypeInv, Accounted, \A j \in Items : Has(disk', j) => Has(disk, j)
  PROVE  CapKept
<1>1. LiveAfter \subseteq Live(disk)
  BY WholeHas DEF LiveAfter, Live, Has
<1>2. disk \in Queue /\ Size(disk) \in Nat
  BY SizeIsNat DEF TypeInv
<1> QED
  BY <1>1, <1>2, CapOf

(* So does mutate, which writes the held entries too only when all fit.    *)
LEMMA CapOfMutate ==
  ASSUME TypeInv, Accounted,
         IF Overflows THEN \A j \in Items : Has(disk', j) => Has(OnFile, j)
                      ELSE \A j \in Items : Has(disk', j) => Has(Both(OnFile, held), j)
  PROVE  CapKept
<1>1. CASE Overflows
  <2>1. \A j \in Items : Has(OnFile, j) => Has(disk, j)
    BY DEF OnFile, Empty, Absent, Has
  <2> QED
    BY <1>1, <2>1, CapOfFile
<1>2. CASE ~Overflows
  <2>1. Both(OnFile, held) \in Queue
    BY OnFileIsQueue, BothIsQueue DEF TypeInv
  <2>2. Size(Both(OnFile, held)) <= MaxItems
    BY <1>2, <2>1, SizeIsNat, LimitsAssumption DEF Overflows
  <2>3. LiveAfter \subseteq Live(Both(OnFile, held))
    BY <1>2, ReadEntry DEF LiveAfter, Live, Has
  <2> QED
    BY <2>1, <2>2, <2>3, CapOf
<1> QED
  BY <1>1, <1>2

(* Every step keeps the cap.                                               *)
LEMMA CapStep ==
  ASSUME TypeInv, PassInv, Accounted, [Next]_vars
  PROVE  CapKept
<1>1. CASE \/ FileCorrupts \/ FlushNothing \/ UNCHANGED vars \/ Crash
           \/ \E p \in Passes : ReceiverTakes(p) \/ EndPass(p)
           \/ \E p \in Passes, i \in Items : Deliver(p, i)
  <2>1. disk' = disk
    BY <1>1 DEF FileCorrupts, FlushNothing, vars, Crash, ReceiverTakes, EndPass, Deliver
  <2> QED
    BY <2>1, CapOfFile
<1>r. ASSUME NEW io, ReadFile(io) PROVE CapKept
  BY <1>r, CapOfFile DEF ReadFile, OnFile, Empty, Absent, Has
<1>2. CASE \/ ListQueue \/ FlushFails
           \/ \E p \in Passes : StartPass(p) \/ PassStops(p)
  BY <1>r, <1>2 DEF ListQueue, FlushFails, StartPass, StartPassReading, PassStops
<1>3. CASE FlushWorks
  BY <1>3, CapOfMutate DEF FlushWorks, Mutate
<1>4. CASE \E i \in Items : RemoveItem(i) \/ \E p \in Passes : Remove(p, i)
  <2>1. PICK i \in Items : Mutate(LAMBDA q : Without(q, i))
    BY <1>4 DEF RemoveItem, Remove
  <2>2. \A q \in Queue, j \in Items : Has(Without(q, i), j) => Has(q, j)
    BY QueueIsTyped DEF Without, Absent, Has
  <2> QED
    BY <2>1, <2>2, CapOfMutate, OnFileIsQueue, BothIsQueue DEF Mutate, TypeInv
<1>5. CASE \E i \in Items : CancelItem(i) \/ \E p \in Passes : ExpireOld(p, i)
  <2>1. PICK i \in Items, st \in {"dead", "cancelled"} : Mutate(LAMBDA q : Mark(q, i, st))
    BY <1>5 DEF CancelItem, ExpireOld
  <2>2. \A q \in Queue, j \in Items : Has(Mark(q, i, st), j) => Has(q, j)
    BY QueueIsTyped DEF Mark, Has, Entry
  <2> QED
    BY <2>1, <2>2, CapOfMutate, OnFileIsQueue, BothIsQueue DEF Mutate, TypeInv
<1>6. ASSUME NEW p \in Passes, NEW i \in Items, RetryLater(p, i) PROVE CapKept
  <2> DEFINE e == Retried(due[p][i])
  <2>1. Mutate(LAMBDA q : Set(q, i, e))
    BY <1>6 DEF RetryLater
  <2>2. \A q \in Queue, j \in Items : Has(Set(q, i, e), j) => Has(q, j)
    BY QueueIsTyped DEF Set, Has
  <2> HIDE DEF e
  <2> QED
    BY <2>1, <2>2, CapOfMutate, OnFileIsQueue, BothIsQueue DEF Mutate, TypeInv
<1>7. ASSUME NEW i \in Items, BackoffElapses(i) PROVE CapKept
  <2>1. \A q \in Queue, j \in Items : Has(Elapsed(q, i), j) <=> Has(q, j)
    BY DEF Elapsed, BackingOff, Has, Entry, Queue
  <2> QED
    BY <1>7, <2>1, CapOfFile DEF BackoffElapses, TypeInv
<1>8. ASSUME NEW i \in Items, AddToQueue(i) PROVE CapKept
  <2>1. PICK io \in Outcomes :
          \/ HasRoom(1) /\ Mutate(LAMBDA q : Added(q, i))
          \/ ReadFile(io)
    BY <1>8 DEF AddToQueue
  <2>2. CASE HasRoom(1) /\ Mutate(LAMBDA q : Added(q, i))
    <3>1. OnFile \in Queue /\ held \in Queue /\ Both(OnFile, held) \in Queue
      BY OnFileIsQueue, BothIsQueue DEF TypeInv
    <3>2. Size(Both(OnFile, held)) + 1 <= MaxItems
      BY <2>2, RoomForBoth
    <3>3. ~Overflows
      BY <3>1, <3>2, SizeIsNat, LimitsAssumption DEF Overflows
    <3>4. disk' = Added(Both(OnFile, held), i)
      BY <2>2, <3>3 DEF Mutate
    <3>5. /\ Added(Both(OnFile, held), i) \in Queue
          /\ Size(Added(Both(OnFile, held), i)) <= MaxItems
      BY <3>1, <3>2, AddedSize, NewEntryIsQueue, SizeIsNat, LimitsAssumption
    <3> QED
      BY <3>4, <3>5, CapOf DEF LiveAfter
  <2> QED
    BY <1>r, <2>1, <2>2
<1> QED
  BY <1>1, <1>2, <1>3, <1>4, <1>5, <1>6, <1>7, <1>8 DEF Next

(***************************************************************************)
(* "Hard cap": no write, a retry's or a flush's included, takes the live   *)
(* entries of the file over QUEUE_MAX_ITEMS, for any cap, any number of    *)
(* entries held meanwhile and a file that started over the cap.            *)
(***************************************************************************)
THEOREM CapHolds == Spec => CapIsHard
<1>1. QueueInv /\ [Next]_vars =>
        [LET before == {i \in Items : Both(disk, held)[i].status # "dead"}
             live   == Cardinality(Live(disk') \cap before)
         IN  live > MaxItems => live <= Size(disk)]_vars
  BY CapStep DEF QueueInv, Base, CapKept, LiveAfter, Whole
<1> QED
  BY <1>1, QueueInvariance, PTL DEF Spec, CapIsHard

-----------------------------------------------------------------------------
(***************************************************************************)
(* The queue implements the outbox.  Without the test route every step is  *)
(* a step of the life of each hand-over, or leaves it where it is.         *)
(***************************************************************************)
Where(f, e) == IF f # "queued" THEN f ELSE IF e.status = "dead" THEN "dead" ELSE "queued"

(* The mapped place of a hand-over, from its fate and its entry.           *)
LEMMA PlaceIs ==
  ASSUME TypeInv, Accounted, NEW i \in Items
  PROVE  place[i] = Where(fate[i], Whole[i])
<1>1. fate[i] = "queued" => InQueueOnce(i)
  BY DEF Accounted
<1>2. Settled(i) <=> fate[i] # "queued" \/ Whole[i].status = "dead"
  BY DeadInWhole DEF Settled
<1> QED
  BY <1>1, <1>2 DEF place, Where

(* The same after a step.                                                  *)
LEMMA PlaceAfter ==
  ASSUME TypeInv', Accounted', NEW i \in Items
  PROVE  /\ place'[i] = Where(fate'[i], Whole'[i])
         /\ fate'[i] = "queued" <=> Has(Whole', i)
<1>1. fate'[i] = "queued" => InQueueOnce(i)'
  BY DEF Accounted
<1>2. fate'[i] = "queued" <=> Has(Whole', i)
  BY DEF Accounted, InQueueOnce, OutOfQueue, Whole, Both, Has
<1>3. (disk'[i].status = "dead" \/ held'[i].status = "dead") <=> Whole'[i].status = "dead"
  BY DEF Accounted, InQueueOnce, OutOfQueue, Whole, Both, Has, TypeInv, TypeOK
<1>4. Settled(i)' <=> fate'[i] # "queued" \/ Whole'[i].status = "dead"
  BY <1>3 DEF Settled
<1> QED
  BY <1>1, <1>2, <1>4 DEF place, Where

(* A pass delivers what waits in the queue, or waited when it was read.    *)
LEMMA SendingIsAlive ==
  ASSUME QueueInv, NEW p \in Passes, sending[p] # None
  PROVE  /\ sending[p] \in Items
         /\ fate[sending[p]] \in {"queued", "dropped", "aside"}
         /\ Whole[sending[p]].status # "dead"
<1>1. sending[p] \in Items /\ Has(due[p], sending[p])
  BY DEF QueueInv, Base, TypeInv, TypeOK, PassInv
<1>2. fate[sending[p]] \in {"queued", "dropped", "aside"}
  BY <1>1 DEF QueueInv, CopyInv
<1>3. Whole[sending[p]].status # "dead"
  BY <1>1, DeadInWhole DEF QueueInv, Base, DeadIsLeftAlone
<1> QED
  BY <1>1, <1>2, <1>3

(* A hand-over takes one step of its life, or none.                        *)
LEMMA PlaceStep ==
  ASSUME ~TestRoutes, QueueInv, Base', [Next]_vars, NEW i \in Items
  PROVE  \/ Box!Accept(i) \/ Box!GiveUp(i) \/ Box!Finish(i) \/ Box!Drop(i)
         \/ Box!MoveAside(i) \/ Box!Lose(i) \/ Box!Stay(i)
<1> DEFINE here == place[i]
           there == place'[i]
<1>1. TypeInv /\ PassInv /\ Accounted /\ TypeInv' /\ Accounted'
  BY DEF QueueInv, Base
<1>2. /\ here = Where(fate[i], Whole[i])
      /\ there = Where(fate'[i], Whole'[i])
      /\ fate'[i] = "queued" <=> Has(Whole', i)
  BY <1>1, PlaceIs, PlaceAfter
<1>3. EntryMoves(i) /\ FateMoves(i)
  BY <1>1, EntryStep, FateStep
<1>4. fate[i] = "queued" => here \in {"queued", "dead"}
  BY <1>2 DEF Where
<1>5. CASE AddToQueue(i) /\ fate[i] = "new" /\ fate'[i] = "queued"
  <2>1. ~Has(Whole, i)
    BY <1>1, <1>5, WholeHas
  <2>2. Whole'[i].status # "dead"
    BY <1>3, <2>1 DEF EntryMoves, EntryStays, EntryLeaves, EntryMarked, NewEntry, Has
  <2>3. here = "new" /\ there = "queued"
    BY <1>2, <1>5, <2>2 DEF Where
  <2> QED
    BY <2>3 DEF Box!Accept
<1>6. CASE fate[i] = "queued" /\ fate'[i] = "dropped"
  <2>1. there = "dropped"
    BY <1>2, <1>6 DEF Where
  <2> QED
    BY <1>4, <1>6, <2>1 DEF Box!Drop, Box!Waiting
<1>7. CASE fate[i] = "queued" /\ fate'[i] = "taken" /\ \E p \in Passes : Remove(p, i)
  <2>1. PICK p \in Passes : Remove(p, i)
    BY <1>7
  <2>2. sending[p] = i /\ p \in booked /\ i # None
    BY <2>1, ItemsAssumption DEF Remove
  <2>3. taken[i] > 0
    BY <2>2 DEF QueueInv, BookedInv
  <2>4. here = "queued" /\ there = "taken"
    BY <1>2, <1>7, <2>2, SendingIsAlive DEF Where
  <2> QED
    BY <2>3, <2>4 DEF Box!Finish
<1>8. CASE Has(disk, i) /\ fate'[i] = "aside"
  <2>1. fate[i] = "queued"
    BY <1>1, <1>8, WholeHas
  <2>2. there = "aside" /\ i \in safe
    BY <1>2, <1>8 DEF Where, safe, Entries
  <2> QED
    BY <1>4, <2>1, <2>2 DEF Box!MoveAside, Box!Waiting
<1>9. CASE Has(held, i) /\ ~Has(disk, i) /\ fate'[i] = "lost"
  <2>1. fate[i] = "queued"
    BY <1>1, <1>9, WholeHas
  <2>2. there = "lost" /\ i \notin safe
    BY <1>2, <1>9 DEF Where, safe, Entries
  <2> QED
    BY <1>4, <2>1, <2>2 DEF Box!Lose, Box!Waiting
<1>10. CASE fate'[i] = fate[i]
  <2>1. CASE fate[i] # "queued"
    BY <1>2, <1>10, <2>1 DEF Where, Box!Stay
  <2>2. CASE fate[i] = "queued" /\ Whole[i].status # "dead"
    <3>1. here = "queued" /\ there \in {"queued", "dead"}
      BY <1>2, <1>10, <2>2 DEF Where
    <3> QED
      BY <3>1 DEF Box!Stay, Box!GiveUp
  <2>3. CASE fate[i] = "queued" /\ Whole[i].status = "dead"
    <3>1. ~AddToQueue(i) /\ ~CancelItem(i) /\ ~EntryLeaves(i)
      BY <1>2, <1>10, <2>3 DEF AddToQueue, CancelItem, EntryLeaves
    <3>2. \A p \in Passes : ~RetryLater(p, i)
      BY <2>3, SendingIsAlive, ItemsAssumption DEF RetryLater
    <3>3. Whole'[i].status = "dead"
      BY <1>3, <2>3, <3>1, <3>2 DEF EntryMoves, EntryStays, EntryMarked
    <3> QED
      BY <1>2, <1>10, <2>3, <3>3 DEF Where, Box!Stay
  <2> QED
    BY <2>1, <2>2, <2>3
<1> QED
  BY <1>3, <1>5, <1>6, <1>7, <1>8, <1>9, <1>10 DEF FateMoves

(* Only what the outbox may offer is taken.                                *)
LEMMA OfferStep ==
  ASSUME QueueInv, [Next]_vars, NEW i \in Items
  PROVE  Box!Offer(i)
<1> USE DEF Box!Offer
<1>1. TypeInv /\ Accounted
  BY DEF QueueInv, Base
<1>2. CASE taken'[i] # taken[i]
  <2>1. PICK p \in Passes : ReceiverTakes(p)
    BY <1>2, TakenStep
  <2>2. /\ sending[p] # None
        /\ taken' = [taken EXCEPT ![sending[p]] = IF @ = 0 THEN 1 ELSE 2]
    BY <2>1 DEF ReceiverTakes
  <2>3. sending[p] = i
    BY <1>1, <1>2, <2>2 DEF TypeInv, TypeOK
  <2>4. place[i] \in {"queued", "dropped", "aside"}
    BY <1>1, <2>2, <2>3, PlaceIs, SendingIsAlive DEF Where
  <2>5. taken'[i] \in {1, 2} /\ taken'[i] >= taken[i]
    BY <1>1, <2>2, <2>3 DEF TypeInv, TypeOK
  <2> QED
    BY <2>4, <2>5
<1> QED
  BY <1>2

(* What is on disk stays there for as long as it waits.                    *)
LEMMA KeptStep ==
  ASSUME QueueInv, Base', [Next]_vars, NEW i \in Items
  PROVE  Box!Kept(i)
<1> SUFFICES ASSUME Has(disk, i), place'[i] \in {"queued", "dead"} PROVE Has(disk', i)
  BY DEF Box!Kept, Box!Waiting, safe, Entries
<1>1. TypeInv /\ PassInv /\ Accounted /\ TypeInv' /\ Accounted'
  BY DEF QueueInv, Base
<1>2. Has(disk', i) \/ Has(held', i)
  <2>1. fate'[i] = "queued"
    BY <1>1, PlaceAfter DEF Where, TypeInv, TypeOK
  <2> QED
    BY <1>1, <2>1 DEF Accounted, InQueueOnce
<1>3. fate[i] = "queued" /\ ~Has(held, i)
  BY <1>1, WholeHas
<1>4. ~Has(held', i)
  <2>1. CASE NoneHeldAnew
    BY <1>3, <2>1 DEF NoneHeldAnew
  <2>2. ASSUME NEW j \in Items, AddToQueue(j), Hold(j) PROVE ~Has(held', i)
    <3>1. j # i
      BY <1>3, <2>2 DEF AddToQueue
    <3> QED
      BY <1>1, <1>3, <2>2, <3>1 DEF Hold, Added, Has, TypeInv, TypeOK
  <2> QED
    BY <1>1, <2>1, <2>2, HeldStep
<1> QED
  BY <1>2, <1>4

(***************************************************************************)
(* The retry queue implements the outbox, for any hand-overs, limits and   *)
(* faults: entries held in memory, copies, failed writes and a damaged     *)
(* file add no way for a hand-over to leave, to come back or to be         *)
(* offered again.  The test route, off in production, is left out: it      *)
(* brings a dead entry back as a cancelled one.                            *)
(***************************************************************************)
THEOREM OutboxIsImplemented ==
  ASSUME ~TestRoutes
  PROVE  Spec => ImplementsOutbox
<1>1. Init => Box!OutboxInit
  <2> SUFFICES ASSUME Init PROVE Box!OutboxInit
    OBVIOUS
  <2>1. TypeInv /\ Accounted
    BY InitTypeInv, InitAccounted
  <2>2. \A i \in Items : Whole[i].status # "dead"
    BY DEF Init, Whole, Both, Old, Absent, Empty
  <2>3. \A i \in Items : place[i] = fate[i] /\ fate[i] \in {"new", "queued"}
    BY <2>1, <2>2, PlaceIs DEF Init, Where
  <2>4. place \in [Items -> {"new", "queued"}]
    BY <2>3 DEF place
  <2>5. safe = {i \in Items : place[i] = "queued"}
    <3>1. \A i \in Items : ~Has(held, i)
      BY DEF Init, Empty, Absent, Has
    <3> QED
      BY <2>1, <2>3, <3>1, WholeHas DEF safe, Entries
  <2> QED
    BY <2>4, <2>5 DEF Init, Box!OutboxInit
<1>2. QueueInv /\ QueueInv' /\ [Next]_vars => Box!OutboxNext
  <2> SUFFICES ASSUME QueueInv, QueueInv', [Next]_vars PROVE Box!OutboxNext
    OBVIOUS
  <2>1. Base'
    BY DEF QueueInv
  <2>2. place' \in [Items -> Box!Places]
    <3>1. \A i \in Items : place'[i] \in Box!Places
      BY <2>1, PlaceAfter DEF Where, Box!Places, Base, TypeInv, TypeOK
    <3> QED
      BY <3>1 DEF place
  <2>3. safe' \subseteq Items /\ taken' \in [Items -> 0..2]
    BY <2>1 DEF safe, Entries, Base, TypeInv, TypeOK
  <2> QED
    BY <2>1, <2>2, <2>3, PlaceStep, OfferStep, KeptStep DEF Box!OutboxNext
<1> QED
  BY <1>1, <1>2, QueueInvariance, PTL DEF Spec, ImplementsOutbox, Box!OutboxSpec
=============================================================================
