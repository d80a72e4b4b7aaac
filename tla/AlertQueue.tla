------------------------------ MODULE AlertQueue ------------------------------
(***************************************************************************)
(* Alerts the chat platform did not take: alerts/store.js with the queue   *)
(* part of services/notification.service.js.  The worker reads the file,   *)
(* sends one alert after the other, awaiting each, and then writes its     *)
(* copy back over the file; new alerts are appended at any time.           *)
(***************************************************************************)
EXTENDS Naturals

CONSTANTS
  Alerts,
  None,
  MaxRetries,  \* BALE_ERROR_QUEUE_MAX_RETRIES
  Faults,      \* "answer": delivered, but the send throws; "disk"; "crash"
  MaxSlips     \* bound on how often they happen

ASSUME AlertAssumption ==
  /\ None \notin Alerts
  /\ MaxRetries \in Nat
  /\ Faults \subseteq {"answer", "disk", "crash"}
  /\ MaxSlips \in Nat

VARIABLES
  file,        \* the queue file
  items,       \* the copy the pass works on
  processing,
  todo,        \* alerts of the pass still to be sent
  sending,     \* the alert whose send is awaited
  expired,     \* alerts older than BALE_ERROR_QUEUE_MAX_AGE_MS
  raised,      \* alerts raised
  meanwhile,   \* those of them queued while a pass worked on its copy
  delivered,   \* how often each was delivered: 0, 1, or 2 for more
  slips        \* faults that happened

alertVars == <<file, items, processing, todo, sending, expired, raised, meanwhile, delivered,
               slips>>
pass == <<items, processing, todo, sending>>

Absent   == [status |-> "absent", retryCount |-> 0, due |-> TRUE]
NewItem  == [status |-> "pending", retryCount |-> 0, due |-> TRUE]
Empty    == [a \in Alerts |-> Absent]
Has(q, a) == q[a].status # "absent"

AlertsInit ==
  /\ file = Empty
  /\ items = Empty
  /\ processing = FALSE
  /\ todo = {}
  /\ sending = None
  /\ expired = {}
  /\ raised = {}
  /\ meanwhile = {}
  /\ delivered = [a \in Alerts |-> 0]
  /\ slips = 0

Bump(n) == IF n = 0 THEN 1 ELSE 2

(* How a step may go: well ("ok"), or with one fault.                      *)
Happens(io) ==
  IF io = "ok" THEN UNCHANGED slips
  ELSE io \in Faults /\ slips < MaxSlips /\ slips' = slips + 1

(* The file is written in place: a write that fails leaves it as it was,   *)
(* or truncated, and a torn file reads as an empty queue.                  *)
AfterFailedWrite == {file, Empty}

(***************************************************************************)
(* sendQueued: the chat platform takes the alert, or it is queued: the     *)
(* file is read, and written with the alert appended.  A file that cannot  *)
(* be read counts as empty, and the write then puts the alert in its place.*)
(***************************************************************************)
Queued(q, a) == [q EXCEPT ![a] = NewItem]

SendQueued(a) ==
  /\ a \notin raised
  /\ raised' = raised \cup {a}
  /\ \E took \in BOOLEAN, io \in {"ok", "answer", "disk"} :
       /\ Happens(io)
       /\ io = "answer" => took
       /\ io = "disk" => ~took
       /\ delivered' = IF took THEN [delivered EXCEPT ![a] = Bump(@)] ELSE delivered
       /\ IF took /\ io # "answer"
          THEN UNCHANGED <<file, meanwhile>>
          ELSE /\ IF io = "disk" THEN file' \in AfterFailedWrite \cup {Queued(Empty, a)}
                                ELSE file' = Queued(file, a)
               /\ meanwhile' = IF processing THEN meanwhile \cup {a} ELSE meanwhile
  /\ UNCHANGED <<pass, expired>>

(***************************************************************************)
(* A pass.  queueDecision: an alert is sent when it is due, unless it has  *)
(* expired or has had all its retries; then it is marked failed.           *)
(***************************************************************************)
IsPending(e) == e.status = "pending"

TooMany(e) == e.retryCount >= MaxRetries

NeverFails(a) == FALSE  \* mutant: an expired alert is skipped
Fails(a) ==
  /\ IsPending(file[a])
  /\ a \in expired \/ (file[a].due /\ TooMany(file[a]))

Sends(a) == IsPending(file[a]) /\ file[a].due /\ ~TooMany(file[a]) /\ a \notin expired

OnlyDue(q) ==  \* mutant: what was skipped is not written back
  [a \in Alerts |-> IF q[a].due THEN q[a] ELSE Absent]
Persist(q) == q

(* The pass goes on with its copy to the next send, or writes it back; a   *)
(* write that fails is only logged.                                        *)
Proceed(copy, left, io) ==
  /\ Happens(io)
  /\ IF left = {}
     THEN /\ IF io = "disk" THEN file' \in AfterFailedWrite ELSE file' = Persist(copy)
          /\ items' = Empty
          /\ processing' = FALSE
          /\ todo' = {}
          /\ sending' = None
     ELSE /\ io # "disk"
          /\ \E a \in left : sending' = a /\ todo' = left \ {a}
          /\ items' = copy
          /\ processing' = TRUE
          /\ UNCHANGED file

AnyTime == TRUE  \* mutant: a pass starts beside a running one
WorkerIsFree == ~processing

StartPass ==
  /\ WorkerIsFree
  /\ \E a \in Alerts : Fails(a) \/ Sends(a)  \* else nothing is changed or written
  /\ \E io \in {"ok", "disk"} :
       Proceed([a \in Alerts |-> IF Fails(a) THEN [file[a] EXCEPT !.status = "failed"] ELSE file[a]],
               {a \in Alerts : Sends(a)}, io)
  /\ UNCHANGED <<expired, raised, meanwhile, delivered>>

SendWorks ==
  /\ processing
  /\ \E io \in {"ok", "disk"} : Proceed([items EXCEPT ![sending].status = "sent"], todo, io)
  /\ delivered' = [delivered EXCEPT ![sending] = Bump(@)]
  /\ UNCHANGED <<expired, raised, meanwhile>>

SendThrows ==
  /\ processing
  /\ \E io \in {"ok", "disk", "answer"} :
       /\ Proceed([items EXCEPT ![sending].retryCount = @ + 1, ![sending].due = FALSE], todo, io)
       /\ delivered' = IF io = "answer" THEN [delivered EXCEPT ![sending] = Bump(@)]
                       ELSE delivered
  /\ UNCHANGED <<expired, raised, meanwhile>>

(***************************************************************************)
(* Time passes: an alert in the file is due again, or expires.  The        *)
(* process dies, and may tear the file, which then reads as empty.         *)
(***************************************************************************)
DueAgain(a) ==
  /\ ~processing
  /\ IsPending(file[a]) /\ ~file[a].due
  /\ file' = [file EXCEPT ![a].due = TRUE]
  /\ UNCHANGED <<pass, expired, raised, meanwhile, delivered, slips>>

Expires(a) ==
  /\ a \in raised \ expired
  /\ expired' = expired \cup {a}
  /\ UNCHANGED <<file, pass, raised, meanwhile, delivered, slips>>

Crash ==
  /\ Happens("crash")
  /\ file' \in AfterFailedWrite
  /\ items' = Empty
  /\ processing' = FALSE
  /\ todo' = {}
  /\ sending' = None
  /\ UNCHANGED <<expired, raised, meanwhile, delivered>>

Pass == StartPass \/ SendWorks \/ SendThrows

AlertsNext ==
  \/ \E a \in Alerts : SendQueued(a) \/ DueAgain(a) \/ Expires(a)
  \/ Pass
  \/ Crash

AlertsSpec == AlertsInit /\ [][AlertsNext]_alertVars

(* The interval fires for ever, each send has a timeout, and time passes.  *)
FairSpec == AlertsSpec /\ WF_alertVars(Pass) /\ \A a \in Alerts : WF_alertVars(Expires(a))
-----------------------------------------------------------------------------
Item == [status : {"absent", "pending", "sent", "failed"}, retryCount : 0..MaxRetries, due : BOOLEAN]

(* Every variable has its type; no alert is tried more often than allowed. *)
AlertsTypeOK ==
  /\ file \in [Alerts -> Item]
  /\ items \in [Alerts -> Item]
  /\ processing \in BOOLEAN
  /\ todo \subseteq Alerts
  /\ sending \in Alerts \cup {None}
  /\ expired \subseteq raised /\ raised \subseteq Alerts /\ meanwhile \subseteq raised
  /\ delivered \in [Alerts -> 0..2]
  /\ slips \in 0..MaxSlips

(***************************************************************************)
(* An alert reaches the channel once as long as no answer, write or        *)
(* process was lost, though the worker's interval fires while a pass still *)
(* awaits a slow send (processOnce).                                       *)
(***************************************************************************)
DeliveredOnce == slips = 0 => \A a \in Alerts : delivered[a] <= 1

(***************************************************************************)
(* Without a fault, an alert that did not reach the channel is in the      *)
(* file and not marked as sent, whatever passes read, mark and write back  *)
(* (createQueueWorker, handleItems).  Only an alert queued while a pass    *)
(* awaits a send is lost: the pass writes its older copy over it.          *)
(***************************************************************************)
OnlyMeanwhileIsLost ==
  slips = 0 => \A a \in raised \ meanwhile :
                 delivered[a] > 0 \/ file[a].status \in {"pending", "failed"}

(* An alert in the queue is sent or marked failed in the end.              *)
QueuedEnds ==
  \A a \in Alerts : Has(file, a) ~> (Has(file, a) => file[a].status \in {"sent", "failed"})

(***************************************************************************)
(* The queue is durable: an alert that was queued is there until it is     *)
(* sent or given up (notification.service.js:124).  Not true of the code,  *)
(* and in no run: README, section 7.                                       *)
(***************************************************************************)
QueuedIsKept == [][\A a \in Alerts : Has(file, a) => Has(file', a)]_alertVars
=============================================================================
