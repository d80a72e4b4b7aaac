------------------------------ MODULE AdminApi ------------------------------
(***************************************************************************)
(* The admin side of the gateway: AdminAccess and PagedLog together.       *)
(* Every page of the log is a request of its own, and the keys may change  *)
(* between two of them.                                                    *)
(***************************************************************************)
EXTENDS AdminAccess, PagedLog

vars == <<accessVars, logVars>>

Routes == Deletes \cup AtTheBank \cup LooksUp
LogRoute == "GET error-log-entries"

AdminRequest(given, route) ==
  /\ route # LogRoute
  /\ Request(given, route)
  /\ UNCHANGED logVars

(* The client stays where it is when a page is refused.                    *)
ReadLogPage(given) ==
  /\ Request(given, LogRoute)
  /\ IF answer' = "ok" THEN NextPage ELSE UNCHANGED logVars

Init == AccessInit /\ LogInit

Next ==
  \/ \E given \in Keys \cup {Blank, NoKey} :
       \/ \E route \in Routes : AdminRequest(given, route)
       \/ ReadLogPage(given)
  \/ ChangeKeys /\ UNCHANGED logVars
  \/ (AppendErrorLog \/ LogIsDamaged \/ \E asked \in Asked \cup {NoLimit} : StartWalk(asked))
     /\ NoRequest /\ UNCHANGED <<keys, queue>>

Spec == Init /\ [][Next]_vars
-----------------------------------------------------------------------------
(* Every variable has its type, and the log its bound and its order.       *)
TypeOK ==
  /\ {adminKey, readKey} \subseteq Keys \cup {Blank}
  /\ by \in Keys \cup {Blank, NoKey}
  /\ queue \subseteq Items
  /\ moved \in AtTheBank \cup {"nothing"}
  /\ LogTypeOK

(***************************************************************************)
(* Who reads a page of the log holds a key that is set at that moment; the *)
(* entries of an order do not reach a client whose key was replaced while  *)
(* it was reading (requireScope on every request).                         *)
(***************************************************************************)
PagesNeedAKey ==
  [][walk'.seen # walk.seen /\ walk'.pages > walk.pages =>
       by' \in {adminKey, readKey} \ {Blank}]_vars
=============================================================================
