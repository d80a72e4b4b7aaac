---------------------------- MODULE AdminAccess ----------------------------
(***************************************************************************)
(* Which key opens which admin route (utils/adminAuth.js and the scopes    *)
(* that routes/payment.routes.js and v2/routes.js name), while the keys    *)
(* are changed, and what the routes that act do.                           *)
(***************************************************************************)
EXTENDS Integers

CONSTANTS
  Keys,    \* what an admin key may be
  Blank,   \* a key that is not set, or only spaces
  NoKey,   \* the request carries no key
  Items    \* hand-overs in the retry queue

ASSUME AdminAssumption == Blank \notin Keys /\ NoKey \notin Keys \cup {Blank}

VARIABLES
  adminKey,  \* ADMIN_KEY
  readKey,   \* ADMIN_READ_KEY
  by,        \* the key of the request of the latest step
  answer,    \* its answer
  queue,     \* the retry queue
  moved      \* the route, if it settled, registered or refreshed anything at a bank

keys == <<adminKey, readKey>>
request == <<by, answer, moved>>
accessVars == <<keys, request, queue>>

NoRequest == by' = NoKey /\ answer' = "none" /\ moved' = "nothing"

KeysOf(key) == {key} \ {Blank}

(* The environment is read on every call; a money key also reads.          *)
Check(given, scope) ==
  IF KeysOf(adminKey) \cup KeysOf(readKey) = {} THEN "unconfigured"
  ELSE IF given = NoKey THEN "unauthorized"
  ELSE IF given \in KeysOf(adminKey) THEN "ok"
  ELSE IF given \in KeysOf(readKey) THEN (IF scope = "read" THEN "ok" ELSE "forbidden")
  ELSE "unauthorized"

(***************************************************************************)
(* What a route does when it is opened, whatever its scope.                *)
(***************************************************************************)
Deletes == {"DELETE admin/queue", "DELETE queue-items"}
AtTheBank == {"GET admin/verify-only", "POST verifications", "POST sep/refund/reg",
              "POST sep/refund/exec", "POST sep/refund/refresh"}
LooksUp == {"GET admin/error-log", "GET admin/queue", "GET admin/zarinpal-unverified",
            "POST sep/refund/list", "POST sep/refund/status", "POST sep/refund/detail",
            "POST sep/refund/status-by-request-id", "POST sep/report",
            "GET queue-items", "GET error-log-entries", "GET unverified-payments"}

VerifyReads(route) == route \in Deletes \cup (AtTheBank \ {"GET admin/verify-only"})  \* mutant: a GET taken for a look-up
NamesMoney(route) == route \in Deletes \cup AtTheBank
Scope(route) == IF NamesMoney(route) THEN "money" ELSE "read"

(* v1 removes what is there and says 200; v2 says 404 when it is not.      *)
Delete(route) ==
  \E i \in Items :
    /\ queue' = queue \ {i}
    /\ answer' = IF route = "DELETE queue-items" /\ i \notin queue THEN "not_found" ELSE "ok"
    /\ moved' = "nothing"

(* Fields may be missing, a cool-down may run, the bank may say no or give *)
(* no answer to what it has done.                                          *)
AskTheBank(route) ==
  /\ moved' \in {"nothing", route}
  /\ answer' \in {"ok", "refused"}
  /\ UNCHANGED queue

LookUp == answer' \in {"ok", "refused"} /\ moved' = "nothing" /\ UNCHANGED queue

Request(given, route) ==
  /\ by' = given
  /\ UNCHANGED keys
  /\ LET outcome == Check(given, Scope(route))
     IN  \/ outcome # "ok" /\ answer' = outcome /\ moved' = "nothing" /\ UNCHANGED queue
         \/ outcome = "ok" /\ route \in Deletes /\ Delete(route)
         \/ outcome = "ok" /\ route \in AtTheBank /\ AskTheBank(route)
         \/ outcome = "ok" /\ route \in LooksUp /\ LookUp

ChangeKeys ==
  /\ adminKey' \in Keys \cup {Blank}
  /\ readKey' \in Keys \cup {Blank}
  /\ NoRequest
  /\ UNCHANGED queue

AccessInit ==
  /\ adminKey \in Keys \cup {Blank}
  /\ readKey \in Keys \cup {Blank}
  /\ by = NoKey /\ answer = "none" /\ moved = "nothing"
  /\ queue = Items
-----------------------------------------------------------------------------
(***************************************************************************)
(* Whatever a step changes in the queue or at a bank, its request carried  *)
(* the money key that was set at that moment: a read key, a blank key, a   *)
(* key that was replaced, and no key change nothing (createAdminAuth and   *)
(* the scope every route names).                                           *)
(***************************************************************************)
MoneyKeyActs ==
  [][queue' # queue \/ moved' # "nothing" => by' = adminKey /\ adminKey # Blank]_accessVars

(***************************************************************************)
(* A 503 says that no key is set at all, and a 403 only ever answers the   *)
(* read key: whoever holds neither key is told 401, whatever he asks for   *)
(* (check and requireScope).                                               *)
(***************************************************************************)
RefusalsAreTrue ==
  /\ answer = "unconfigured" => {adminKey, readKey} = {Blank}
  /\ answer = "forbidden" => by = readKey /\ by # adminKey
  /\ by \notin {adminKey, readKey} \ {Blank} =>
       answer \in {"none", "unconfigured", "unauthorized"}
=============================================================================
