---------------------------- MODULE PaymentQueue ----------------------------
(***************************************************************************)
(* The retry queue of verified payments that the success receiver has not  *)
(* taken yet: services/payment-queue.service.js with utils/queueFile.js,   *)
(* the worker of index.js and processQueuedWebhook of webhookDispatch.js.  *)
(*                                                                         *)
(* Node runs one callback at a time, so an action is everything between    *)
(* two awaits.  The only await of the queue is the delivery inside a pass; *)
(* everything else interleaves with it there.                              *)
(***************************************************************************)
EXTENDS Naturals, FiniteSets

CONSTANTS
  Items,        \* hand-overs, each queued at most once (addToQueue draws a fresh id)
  OldItems,     \* those an older queue left in the file: no nextRetryAt
  None,         \* no hand-over is being delivered
  Passes,       \* passes of the worker: the interval may fire during one
  MaxItems,     \* QUEUE_MAX_ITEMS
  MaxAttempts,  \* QUEUE_MAX_ATTEMPTS
  Faults,       \* what may go wrong: "disk", "corrupt", "crash", "answer"
  MaxMishaps,   \* bound on crashes and corruptions together
  TestRoutes    \* ENABLE_TEST_ROUTES

ASSUME ItemsAssumption ==
  /\ IsFiniteSet(Items)
  /\ OldItems \subseteq Items
  /\ None \notin Items
ASSUME LimitsAssumption ==
  /\ MaxItems \in Nat
  /\ MaxAttempts \in Nat \ {0}
  /\ MaxMishaps \in Nat
ASSUME SwitchesAssumption ==
  /\ Faults \subseteq {"disk", "corrupt", "crash", "answer"}
  /\ TestRoutes \in BOOLEAN

VARIABLES
  disk,         \* the queue file (what it last held, when it is corrupt)
  corrupt,      \* the file is no JSON array
  held,         \* entries the disk did not take, in memory only
  holdTimer,    \* flushHeld is scheduled
  processing,   \* the worker's flag: a pass is running
  active,       \* the passes that run
  due,          \* per pass, what it read and has still to deliver: copies
  sending,      \* per pass, the hand-over whose delivery is awaited
  booked,       \* passes whose delivery the receiver has taken
  taken,        \* how often the receiver took each: 0, 1, or 2 for more
  fate,         \* what became of each hand-over
  told,         \* alerts raised
  mishaps

passVars == <<processing, active, due, sending, booked>>
memory == <<held, holdTimer, passVars>>
vars == <<disk, corrupt, memory, taken, fate, told, mishaps>>

(***************************************************************************)
(* Entries and queues.  A queue gives every hand-over its entry, Absent    *)
(* when it has none.  nextRetryAt is the past (due), the future (backing   *)
(* off) or unset.                                                          *)
(***************************************************************************)
Entry == [status      : {"absent", "pending", "dead", "cancelled"},
          retryCount  : 0..MaxAttempts,
          nextRetryAt : {"unset", "past", "future"}]

Absent    == [status |-> "absent", retryCount |-> 0, nextRetryAt |-> "past"]
NewEntry  == [status |-> "pending", retryCount |-> 0, nextRetryAt |-> "past"]
Old(n)    == [status |-> "pending", retryCount |-> n, nextRetryAt |-> "unset"]

Empty       == [i \in Items |-> Absent]
Has(q, i)   == q[i].status # "absent"
Entries(q)  == {i \in Items : Has(q, i)}
Live(q)     == {i \in Items : q[i].status \notin {"absent", "dead"}}
Size(q)     == Cardinality(Live(q))
Both(q, h)  == [i \in Items |-> IF Has(q, i) THEN q[i] ELSE h[i]]

(* nextRetryAt of an old entry reads as time 0 *)
IsDueWhateverItsStatus(e) == e.nextRetryAt \in {"unset", "past"}  \* mutant
IsDue(e) == e.status = "pending" /\ e.nextRetryAt \in {"unset", "past"}

(* An entry an older queue had already given up on. *)
PastItsRetries(e) == e.nextRetryAt = "unset" /\ e.retryCount >= MaxAttempts

(***************************************************************************)
(* Reading and writing the file.  "unread": the read (or moving a corrupt  *)
(* file aside) throws.  "unwritten": the temp file or the rename throws;   *)
(* the file stays as the read left it.                                     *)
(***************************************************************************)
Outcomes == {"ok"} \cup IF "disk" \in Faults THEN {"unread", "unwritten"} ELSE {}

OnFile == IF corrupt THEN Empty ELSE disk

ReadAsEmpty(io) == fate  \* mutant: the corrupt file is not moved aside
ReadFate(io) ==
  [i \in Items |-> IF corrupt /\ io # "unread" /\ Has(disk, i) THEN "aside" ELSE fate[i]]

(* mutate(fn): held entries ride along while everything fits under the cap. *)
Overflows == Size(Both(OnFile, held)) > MaxItems

Mutate(Fn(_)) ==
  /\ corrupt' = FALSE
  /\ IF Overflows
     THEN disk' = Fn(OnFile)             /\ held' = Fn(held)
     ELSE disk' = Fn(Both(OnFile, held)) /\ held' = Empty

(* readQueue without a write after it: a corrupt file is aside by now.     *)
ReadFile(io) ==
  /\ corrupt' = (corrupt /\ io = "unread")
  /\ disk' = IF io = "unread" THEN disk ELSE OnFile

Leaves(f, i, why) == IF f[i] = "queued" THEN [f EXCEPT ![i] = why] ELSE f

Added(q, i)     == [q EXCEPT ![i] = NewEntry]
Without(q, i)   == [q EXCEPT ![i] = Absent]
Upsert(q, i, e) == [q EXCEPT ![i] = e]  \* mutant of Set
Set(q, i, e)    == IF Has(q, i) THEN [q EXCEPT ![i] = e] ELSE q
Mark(q, i, st)  == IF Has(q, i) THEN [q EXCEPT ![i].status = st] ELSE q

(***************************************************************************)
(* The file of the older queue may hold entries past their retries.        *)
(***************************************************************************)
Init ==
  /\ \E spent \in SUBSET OldItems :
       disk = [i \in Items |-> CASE i \in spent            -> Old(MaxAttempts)
                                 [] i \in OldItems \ spent -> Old(0)
                                 [] OTHER                  -> Absent]
  /\ corrupt = FALSE
  /\ held = Empty
  /\ holdTimer = FALSE
  /\ processing = FALSE
  /\ active = {}
  /\ due = [p \in Passes |-> Empty]
  /\ sending = [p \in Passes |-> None]
  /\ booked = {}
  /\ taken = [i \in Items |-> 0]
  /\ fate = [i \in Items |-> IF i \in OldItems THEN "queued" ELSE "new"]
  /\ told = {}
  /\ mishaps = 0

(***************************************************************************)
(* addToQueue.  Over the cap, or when the file takes no write, the entry   *)
(* is held in memory, alerted, and a flush is scheduled.                   *)
(***************************************************************************)
FitsBeforeIt(more) == Size(OnFile) + Size(held) <= MaxItems  \* mutant: the new entry is not counted
HasRoom(more) == Size(OnFile) + Size(held) + more <= MaxItems

HoldUntold(i) ==  \* mutant: no alert
  /\ held' = Added(held, i)
  /\ holdTimer' = TRUE
  /\ UNCHANGED told
HoldUntimed(i) ==  \* mutant: no flush is scheduled
  /\ held' = Added(held, i)
  /\ told' = told \cup {<<"queue_write_failed", i>>}
  /\ UNCHANGED holdTimer
Hold(i) ==
  /\ held' = Added(held, i)
  /\ told' = told \cup {<<"queue_write_failed", i>>}
  /\ holdTimer' = TRUE

AddToQueue(i) ==
  /\ fate[i] = "new"
  /\ \E io \in Outcomes :
       /\ \/ /\ io = "ok"
             /\ HasRoom(1)
             /\ Mutate(LAMBDA q : Added(q, i))
             /\ UNCHANGED <<told, holdTimer>>
          \/ /\ io # "ok" \/ ~HasRoom(1)
             /\ ReadFile(io)
             /\ Hold(i)
       /\ fate' = [ReadFate(io) EXCEPT ![i] = "queued"]
  /\ UNCHANGED <<passVars, taken, mishaps>>

(***************************************************************************)
(* flushHeld.  The timer is armed again only when the write did not work.  *)
(***************************************************************************)
FlushNothing ==
  /\ holdTimer
  /\ Entries(held) = {}
  /\ holdTimer' = FALSE
  /\ UNCHANGED <<disk, corrupt, held, passVars, taken, fate, told, mishaps>>

FlushWorks ==
  /\ holdTimer
  /\ Entries(held) # {}
  /\ HasRoom(0)
  /\ Mutate(LAMBDA q : q)
  /\ fate' = ReadFate("ok")
  /\ holdTimer' = FALSE
  /\ UNCHANGED <<passVars, taken, told, mishaps>>

FlushFails ==
  /\ holdTimer
  /\ Entries(held) # {}
  /\ \E io \in (Outcomes \ {"ok"}) \cup IF HasRoom(0) THEN {} ELSE {"full"} :
       /\ ReadFile(io)
       /\ fate' = ReadFate(io)
  /\ UNCHANGED <<held, holdTimer, passVars, taken, told, mishaps>>

(***************************************************************************)
(* One pass of the worker.  An interval that fires during a pass does      *)
(* nothing.  An unreadable file leaves only the held entries to deliver.   *)
(***************************************************************************)
DueIn(q) == [i \in Items |-> IF IsDue(q[i]) THEN q[i] ELSE Absent]

NoGuard == TRUE  \* mutant: the interval starts a pass beside a running one
WorkerIsFree == ~processing

StartPassReading(p, io) ==
  /\ p \notin active
  /\ WorkerIsFree
  /\ processing' = TRUE
  /\ active' = active \cup {p}
  /\ due' = [due EXCEPT ![p] = DueIn(IF io = "ok" THEN Both(OnFile, held) ELSE held)]
  /\ ReadFile(io)
  /\ fate' = ReadFate(io)
  /\ UNCHANGED <<held, holdTimer, sending, booked, taken, told, mishaps>>

StartPass(p) == \E io \in Outcomes \ {"unwritten"} : StartPassReading(p, io)

(* The items of a pass are taken one by one. *)
IsNext(p, i) == p \in active /\ sending[p] = None /\ Has(due[p], i)

(* The pass is done with i and goes on. *)
Handled(p, i) ==
  /\ due' = [due EXCEPT ![p] = Without(@, i)]
  /\ sending' = [sending EXCEPT ![p] = None]
  /\ booked' = booked \ {p}
  /\ UNCHANGED <<processing, active>>

(* The pass is over; its flag is reset whatever ended it. *)
Ended(p) ==
  /\ processing' = FALSE
  /\ active' = active \ {p}
  /\ due' = [due EXCEPT ![p] = Empty]
  /\ sending' = [sending EXCEPT ![p] = None]
  /\ booked' = booked \ {p}

(* An entry past its retries is marked dead without being delivered. *)
ExpireOld(p, i) ==
  /\ IsNext(p, i)
  /\ PastItsRetries(due[p][i])
  /\ Mutate(LAMBDA q : Mark(q, i, "dead"))
  /\ fate' = ReadFate("ok")
  /\ told' = told \cup {<<"queue_item_dead", i>>}
  /\ Handled(p, i)
  /\ UNCHANGED <<holdTimer, taken, mishaps>>

Deliver(p, i) ==
  /\ IsNext(p, i)
  /\ ~PastItsRetries(due[p][i])
  /\ sending' = [sending EXCEPT ![p] = i]
  /\ UNCHANGED <<disk, corrupt, held, holdTimer, processing, active, due, booked,
                 taken, fate, told, mishaps>>

(* The receiver takes the delivery: the worker does not know yet. *)
ReceiverTakes(p) ==
  /\ sending[p] # None
  /\ p \notin booked
  /\ booked' = booked \cup {p}
  /\ taken' = [taken EXCEPT ![sending[p]] = IF @ = 0 THEN 1 ELSE 2]
  /\ UNCHANGED <<disk, corrupt, held, holdTimer, processing, active, due, sending,
                 fate, told, mishaps>>

(* deliver resolved and removeItem worked. *)
Remove(p, i) ==
  /\ sending[p] = i
  /\ p \in booked
  /\ Mutate(LAMBDA q : Without(q, i))
  /\ fate' = Leaves(ReadFate("ok"), i, "taken")
  /\ Handled(p, i)
  /\ UNCHANGED <<holdTimer, taken, told, mishaps>>

(* deliver threw; with a faulty disk, or an answer that was lost, it may   *)
(* throw, or removeItem may, although the receiver has taken the delivery. *)
MayFail(p) == p \notin booked \/ Faults \cap {"disk", "answer"} # {}

OneMoreTry(e) ==  \* mutant: > for >=
  LET n == e.retryCount + 1 IN
    [status      |-> IF n > MaxAttempts THEN "dead" ELSE "pending",
     retryCount  |-> n,
     nextRetryAt |-> "future"]
FirstTryAgain(e) ==  \* mutant: the stored count is not read
  [status |-> "pending", retryCount |-> 1, nextRetryAt |-> "future"]
Retried(e) ==
  LET n == e.retryCount + 1 IN
    [status      |-> IF n >= MaxAttempts THEN "dead" ELSE "pending",
     retryCount  |-> n,
     nextRetryAt |-> "future"]

RetryLater(p, i) ==
  /\ sending[p] = i
  /\ MayFail(p)
  /\ Mutate(LAMBDA q : Set(q, i, Retried(due[p][i])))
  /\ fate' = ReadFate("ok")
  /\ told' = IF Retried(due[p][i]).status = "dead"
             THEN told \cup {<<"queue_item_dead", i>>} ELSE told
  /\ Handled(p, i)
  /\ UNCHANGED <<holdTimer, taken, mishaps>>

(* updateItem threw: the rest of the pass is given up (runPass rejects).   *)
PassStops(p) ==
  /\ \/ sending[p] # None
     \/ \E i \in Items : IsNext(p, i) /\ PastItsRetries(due[p][i])
  /\ \E io \in Outcomes \ {"ok"} :
       /\ ReadFile(io)
       /\ fate' = ReadFate(io)
  /\ Ended(p)
  /\ UNCHANGED <<held, holdTimer, taken, told, mishaps>>

EndPass(p) ==
  /\ p \in active
  /\ sending[p] = None
  /\ due[p] = Empty
  /\ Ended(p)
  /\ UNCHANGED <<disk, corrupt, held, holdTimer, taken, fate, told, mishaps>>

(***************************************************************************)
(* The other callers of the queue: an admin deletes an entry or lists      *)
(* them, the test route cancels one.  A deletion whose write throws reads  *)
(* the file all the same, as ListQueue does.                               *)
(***************************************************************************)
RemoveItem(i) ==
  /\ fate[i] # "new"
  /\ Mutate(LAMBDA q : Without(q, i))
  /\ fate' = Leaves(ReadFate("ok"), i, "dropped")
  /\ UNCHANGED <<holdTimer, passVars, taken, told, mishaps>>

ListQueue ==
  /\ ReadFile("ok")
  /\ fate' = ReadFate("ok")
  /\ UNCHANGED <<held, holdTimer, passVars, taken, told, mishaps>>

CancelItem(i) ==
  /\ TestRoutes
  /\ fate[i] # "new"
  /\ Mutate(LAMBDA q : Mark(q, i, "cancelled"))
  /\ fate' = ReadFate("ok")
  /\ UNCHANGED <<holdTimer, passVars, taken, told, mishaps>>

(***************************************************************************)
(* The environment: time passes, the file is damaged, the process dies.    *)
(***************************************************************************)
BackingOff(q, i) == q[i].status = "pending" /\ q[i].nextRetryAt = "future"
Elapsed(q, i) == IF BackingOff(q, i) THEN [q EXCEPT ![i].nextRetryAt = "past"] ELSE q

BackoffElapses(i) ==
  /\ BackingOff(disk, i) \/ BackingOff(held, i)
  /\ disk' = Elapsed(disk, i)
  /\ held' = Elapsed(held, i)
  /\ UNCHANGED <<corrupt, holdTimer, passVars, taken, fate, told, mishaps>>

FileCorrupts ==
  /\ "corrupt" \in Faults
  /\ mishaps < MaxMishaps
  /\ mishaps' = mishaps + 1
  /\ corrupt' = TRUE
  /\ UNCHANGED <<disk, memory, taken, fate, told>>

Crash ==
  /\ "crash" \in Faults
  /\ mishaps < MaxMishaps
  /\ mishaps' = mishaps + 1
  /\ fate' = [i \in Items |-> IF Has(held, i) /\ ~Has(disk, i) THEN "lost" ELSE fate[i]]
  /\ held' = Empty
  /\ holdTimer' = FALSE
  /\ processing' = FALSE
  /\ active' = {}
  /\ due' = [p \in Passes |-> Empty]
  /\ sending' = [p \in Passes |-> None]
  /\ booked' = {}
  /\ UNCHANGED <<disk, corrupt, taken, told>>

Next ==
  \/ FlushNothing \/ FlushWorks \/ FlushFails
  \/ ListQueue \/ FileCorrupts \/ Crash
  \/ \E i \in Items :
       AddToQueue(i) \/ RemoveItem(i) \/ CancelItem(i) \/ BackoffElapses(i)
  \/ \E p \in Passes :
       \/ StartPass(p) \/ ReceiverTakes(p) \/ PassStops(p) \/ EndPass(p)
       \/ \E i \in Items :
            ExpireOld(p, i) \/ Deliver(p, i) \/ Remove(p, i) \/ RetryLater(p, i)

Spec == Init /\ [][Next]_vars

(***************************************************************************)
(* Fairness, with a receiver over HTTP.  Timers fire and a delivery ends   *)
(* (a request has a timeout of fifteen seconds; an extension in the        *)
(* process is awaited without one, and its pass may wait for ever), so     *)
(* passes start, go on and end.  A read or a write is tried again and      *)
(* again, and the disk does it at last: strong fairness of the steps that  *)
(* need a working disk.  A pass walks the file in order and every entry    *)
(* ahead of an entry leaves or dies, so no entry is passed over for ever.  *)
(***************************************************************************)
Fairness ==
  /\ SF_vars(FlushWorks)
  /\ SF_vars(\E p \in Passes : StartPassReading(p, "ok"))
  /\ \A p \in Passes : WF_vars(EndPass(p))
  /\ \A i \in Items :
       /\ WF_vars(BackoffElapses(i))
       /\ SF_vars(\E p \in Passes : ExpireOld(p, i))
       /\ SF_vars(\E p \in Passes : Deliver(p, i))
       /\ SF_vars(\E p \in Passes : Remove(p, i) \/ RetryLater(p, i))

FairSpec == Spec /\ Fairness

-----------------------------------------------------------------------------
(***************************************************************************)
(* Properties                                                              *)
(***************************************************************************)
(* Every variable has its type.                                            *)
TypeOK ==
  /\ disk \in [Items -> Entry]
  /\ corrupt \in BOOLEAN
  /\ held \in [Items -> Entry]
  /\ holdTimer \in BOOLEAN
  /\ processing \in BOOLEAN
  /\ active \subseteq Passes
  /\ due \in [Passes -> [Items -> Entry]]
  /\ sending \in [Passes -> Items \cup {None}]
  /\ booked \subseteq Passes
  /\ taken \in [Items -> 0..2]
  /\ fate \in [Items -> {"new", "queued", "taken", "dropped", "aside", "lost"}]
  /\ told \subseteq {"queue_write_failed", "queue_item_dead"} \X Items
  /\ mishaps \in 0..MaxMishaps

(* "It must never lose one": a hand-over is in the queue, in the file or   *)
(* in memory and not in both, from the moment it was added until something *)
(* took it out; and nothing that was taken out comes back, whatever writes *)
(* failed and whatever a running pass still had in its copies.             *)
InQueueOnce(i) ==
  /\ Has(disk, i) \/ Has(held, i)
  /\ ~(Has(disk, i) /\ Has(held, i))
OutOfQueue(i) == ~Has(disk, i) /\ ~Has(held, i)
Accounted ==
  \A i \in Items : IF fate[i] = "queued" THEN InQueueOnce(i) ELSE OutOfQueue(i)

(* Only a hand-over the disk never took can be lost with the process, and  *)
(* the alert that names it was raised before (the header of the service    *)
(* calls that alert the safety net).                                       *)
LossIsTold ==
  \A i \in Items :
    fate[i] = "lost" \/ Has(held, i) => <<"queue_write_failed", i>> \in told

(* No entry waits in memory without a flush being scheduled, whichever     *)
(* order the flush, other writes and a crash come in.                      *)
HeldIsRetried == Entries(held) # {} => holdTimer

(* A dead entry was alerted and is left to a human: it is in no running    *)
(* pass, although a pass works on copies read before it died.              *)
DeadIsLeftAlone ==
  \A i \in Items :
    disk[i].status = "dead" \/ held[i].status = "dead" =>
      /\ <<"queue_item_dead", i>> \in told
      /\ \A p \in Passes : ~Has(due[p], i) /\ sending[p] # i

(* "Hard cap": no write takes the live entries of the file over            *)
(* QUEUE_MAX_ITEMS, whatever was held meanwhile; a file that started over  *)
(* the cap only shrinks.  (An entry that was dead does not count: the      *)
(* debug route makes it a cancelled one, which is live.)                   *)
CapIsHard ==
  [][LET before == {i \in Items : Both(disk, held)[i].status # "dead"}
         live   == Cardinality(Live(disk') \cap before)
     IN  live > MaxItems => live <= Size(disk)]_vars

(* With a disk that takes its writes, no crash and no lost answer, the     *)
(* receiver takes each hand-over at most once, whatever an admin deletes   *)
(* and whenever the interval fires.                                        *)
AtMostOnce ==
  Faults \cap {"disk", "crash", "answer"} = {} =>
    \A i \in Items : taken[i] <= 1

(* A retry count never goes back while the entry is in the queue: retries  *)
(* are written from copies, so a second pass beside a running one, or a    *)
(* copy older than the entry, would undo attempts and postpone the alert.  *)
RetriesOnlyGrow ==
  [][\A i \in Items :
       Has(Both(disk, held), i) /\ Has(Both(disk', held'), i) =>
         Both(disk', held')[i].retryCount >= Both(disk, held)[i].retryCount]_vars

(* Every hand-over in the queue leaves it or ends dead, and none backs off *)
(* for ever, although writes may fail again and again in between.          *)
Settled(i) == fate[i] # "queued" \/ "dead" \in {disk[i].status, held[i].status}
Settles == \A i \in Items : fate[i] = "queued" ~> Settled(i)

(***************************************************************************)
(* The queue implements the outbox: a read of a corrupt file, the held     *)
(* entries that ride along and the copies of a pass are all steps, or      *)
(* stutters, of the life of single hand-overs.                             *)
(***************************************************************************)
place ==
  [i \in Items |->
     CASE fate[i] # "queued"                                -> fate[i]
       [] fate[i] = "queued" /\ ~InQueueOnce(i)             -> "lost"
       [] fate[i] = "queued" /\ InQueueOnce(i) /\ Settled(i) -> "dead"
       [] OTHER                                             -> "queued"]
safe == Entries(disk)

Box == INSTANCE Outbox WITH place <- place, safe <- safe, taken <- taken
ImplementsOutbox == Box!OutboxSpec
=============================================================================
