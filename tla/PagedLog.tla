------------------------------ MODULE PagedLog ------------------------------
(***************************************************************************)
(* The error log (utils/errorLogger.js) and a client that reads it page by *)
(* page (v2/pagination.js, GET /payments/error-log-entries) while the      *)
(* gateway appends to it and the log drops its oldest entries.             *)
(***************************************************************************)
EXTENDS Integers, SequencesExt

CONSTANTS
  MaxEntries,    \* MAX_ENTRIES
  DefaultLimit,
  MaxLimit,
  Asked,         \* limits a client may ask for, 0 included
  NoLimit,       \* it asks for none
  MaxAppends     \* bound of the model

ASSUME LogAssumption ==
  /\ {MaxEntries, DefaultLimit, MaxLimit} \subseteq Nat \ {0}
  /\ Asked \subseteq Nat /\ NoLimit \notin Nat
  /\ MaxAppends \in Nat

VARIABLES
  log,       \* oldest entry first
  appended,  \* entries written so far
  walk       \* the client

logVars == <<log, appended, walk>>

Least(a, b) == IF a < b THEN a ELSE b

(***************************************************************************)
(* appendErrorLog.  A file that cannot be read counts as empty, and a      *)
(* write that fails loses only its entry.                                  *)
(***************************************************************************)
Bounded(entries) ==
  SubSeq(entries, Len(entries) - Least(Len(entries), MaxEntries) + 1, Len(entries))

AppendErrorLog ==
  /\ appended < MaxAppends
  /\ appended' = appended + 1
  /\ log' \in {log, Bounded(Append(log, appended'))}
  /\ UNCHANGED walk

LogIsDamaged ==
  /\ log # <<>>
  /\ log' = <<>>
  /\ UNCHANGED <<appended, walk>>

(***************************************************************************)
(* readPage and pageOf: a limit above the cap is clamped, and the answer   *)
(* names the limit that was used.                                          *)
(***************************************************************************)
Limit(asked) == Least(IF asked = NoLimit THEN DefaultLimit ELSE asked, MaxLimit)

OldestFirst(entries) == entries  \* mutant: as they are stored
NewestFirst(entries) == Reverse(entries)

PageOf(entries, limit, offset) ==
  [items |-> SubSeq(entries, offset + 1, Least(offset + limit, Len(entries))),
   total |-> Len(entries),
   limit |-> limit]

(***************************************************************************)
(* The client asks for the next window until it has passed the total.      *)
(***************************************************************************)
Idle == [state |-> "idle", asked |-> NoLimit, offset |-> 0, pages |-> 0,
         seen |-> {}, wanted |-> {}]

StartWalk(asked) ==
  /\ walk.state \in {"idle", "refused"}
  /\ walk' = [Idle EXCEPT !.state = IF asked = 0 THEN "refused" ELSE "walking",
                          !.asked = asked,
                          !.wanted = ToSet(log)]
  /\ UNCHANGED <<log, appended>>

NextPage ==
  /\ walk.state = "walking"
  /\ LET page == PageOf(NewestFirst(log), Limit(walk.asked), walk.offset)
         next == walk.offset + page.limit
     IN  walk' = [walk EXCEPT !.state = IF next < page.total THEN "walking" ELSE "done",
                              !.offset = next,
                              !.pages = @ + 1,
                              !.seen = @ \cup ToSet(page.items)]
  /\ UNCHANGED <<log, appended>>

LogInit ==
  /\ log = <<>>
  /\ appended = 0
  /\ walk = Idle
-----------------------------------------------------------------------------
(***************************************************************************)
(* The types; the log never grows past its bound, and holds every entry at *)
(* most once, oldest first.                                                *)
(***************************************************************************)
LogTypeOK ==
  /\ Len(log) <= MaxEntries
  /\ \A i, j \in 1..Len(log) : i < j => log[i] < log[j]
  /\ appended \in 0..MaxAppends
  /\ walk.state \in {"idle", "walking", "refused", "done"}
  /\ walk.seen \cup walk.wanted \cup ToSet(log) \subseteq 1..appended

(***************************************************************************)
(* A client that pages through the error log has seen every entry that was *)
(* there when it began and still is, though entries were added and the     *)
(* oldest dropped between its pages (newest first, and the applied limit   *)
(* in the envelope).                                                       *)
(***************************************************************************)
WalkMissesNothing == walk.state = "done" => walk.wanted \cap ToSet(log) \subseteq walk.seen
=============================================================================
