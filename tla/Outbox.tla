------------------------------- MODULE Outbox -------------------------------
(***************************************************************************)
(* What the retry queue of verified payments promises, without files,      *)
(* timers or passes: the life of one queued hand-over.  A hand-over enters *)
(* once, may be offered to the receiver any number of times while it is in *)
(* the queue, and leaves it for one of five reasons only.  It never comes  *)
(* back once it has left, and one that reached the disk is never lost.     *)
(***************************************************************************)
EXTENDS Naturals

CONSTANT Items          \* the hand-overs that may need the queue

VARIABLES place,        \* where each hand-over is in its life
          safe,         \* the hand-overs that are on disk
          taken         \* how often the receiver took it: 0, 1, or 2 for more

outboxVars == <<place, safe, taken>>

Places == {"new", "queued", "dead", "taken", "dropped", "aside", "lost"}
Waiting == {"queued", "dead"}

OutboxInit ==
  /\ place \in [Items -> {"new", "queued"}]
  /\ safe = {i \in Items : place[i] = "queued"}
  /\ taken = [i \in Items |-> 0]

(* The steps of one hand-over: accepted into the queue; given up on; taken *)
(* off the queue because the receiver has it; deleted by an admin; moved   *)
(* aside with an unreadable file; lost with the memory of the process.     *)
Accept(i)    == place[i] = "new"     /\ place'[i] = "queued"
GiveUp(i)    == place[i] = "queued"  /\ place'[i] = "dead"
Finish(i)    == place[i] = "queued"  /\ place'[i] = "taken" /\ taken[i] > 0
Drop(i)      == place[i] \in Waiting /\ place'[i] = "dropped"
MoveAside(i) == place[i] \in Waiting /\ place'[i] = "aside" /\ i \in safe
Lose(i)      == place[i] \in Waiting /\ place'[i] = "lost"  /\ i \notin safe
Stay(i)      == place'[i] = place[i]

(* An offer that is under way may be taken although the hand-over was      *)
(* deleted or moved aside meanwhile; a dead one is not offered again.      *)
Offer(i) ==
  \/ taken'[i] = taken[i]
  \/ /\ place[i] \in {"queued", "dropped", "aside"}
     /\ taken'[i] \in {1, 2}
     /\ taken'[i] >= taken[i]

(* Once on disk, a hand-over stays on disk for as long as it waits.        *)
Kept(i) == i \in safe /\ place'[i] \in Waiting => i \in safe'

OutboxNext ==
  /\ place' \in [Items -> Places]
  /\ safe' \subseteq Items
  /\ taken' \in [Items -> 0..2]
  /\ \A i \in Items :
    /\ \/ Accept(i) \/ GiveUp(i) \/ Finish(i) \/ Drop(i)
       \/ MoveAside(i) \/ Lose(i) \/ Stay(i)
    /\ Offer(i)
    /\ Kept(i)

OutboxSpec == OutboxInit /\ [][OutboxNext]_outboxVars
=============================================================================
