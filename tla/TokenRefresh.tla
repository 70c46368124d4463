---------------------------- MODULE TokenRefresh ----------------------------
(***************************************************************************)
(* The access token (pkg/botgo/token/authtoken.go): a first query at start, *)
(* then one goroutine that queries again when the lifetime of the last     *)
(* token has passed or somebody forces it.  Readers take the token that is *)
(* stored.  Time is abstract: a token expires, a timer fires.              *)
(***************************************************************************)
EXTENDS Integers

CONSTANTS
  Forcers,     \* callers of ForceUpToken
  ForceRoom    \* 10 in the source: capacity of the channel forceUpToken

ASSUME TokenAssumption == ForceRoom \in Nat \ {0}

VARIABLES
  refresher,   \* start-up, then the goroutine: waiting or querying
  accessToken, \* the token readers take
  forceUp,     \* reasons in the channel
  forcer,      \* the callers of ForceUpToken
  endpoint     \* what the token endpoint does

tokenVars == <<refresher, accessToken, forceUp, forcer, endpoint>>

TokenTypeOK ==
  /\ refresher \in {"start", "wait", "query", "exit"}
  /\ accessToken \in {"none", "good", "expired"}
  /\ forceUp \in 0..ForceRoom
  /\ forcer \in [Forcers -> {"idle", "blocked", "done"}]
  /\ endpoint \in {"answers", "fails"}

TokenInit ==
  /\ refresher = "start" /\ accessToken = "none"
  /\ forceUp = 0 /\ forcer = [f \in Forcers |-> "idle"]
  /\ endpoint \in {"answers", "fails"}
-----------------------------------------------------------------------------
(* queryAccessToken: a request, and an answer that holds a token and its     *)
(* lifetime as a number or a string of digits; all else is an error.         *)
Queried(onError) == accessToken' = IF endpoint = "answers" THEN "good" ELSE onError

(* At start an error is logged, and the zero token it comes with is stored.  *)
FirstQuery ==
  /\ refresher = "start" /\ refresher' = "wait"
  /\ Queried("none")
  /\ UNCHANGED <<forceUp, forcer, endpoint>>

(* The timer of the select: the lifetime of the last token, and 15 s if that *)
(* is not positive, as after a failed first query.                           *)
TimerSetIfStored == accessToken # "none"

TimerSet == TRUE

Timer ==
  /\ refresher = "wait" /\ TimerSet /\ refresher' = "query"
  /\ UNCHANGED <<accessToken, forceUp, forcer, endpoint>>

Forced ==
  /\ refresher = "wait" /\ forceUp > 0 /\ refresher' = "query"
  /\ forceUp' = forceUp - 1
  /\ UNCHANGED <<accessToken, forcer, endpoint>>

(* The query of the loop ends.  After an error the old token stays and the   *)
(* goroutine waits for the old lifetime once more.                           *)
AfterQueryGivingUp == IF endpoint = "answers" THEN "wait" ELSE "exit"

AfterQuery == "wait"

Query ==
  /\ refresher = "query" /\ refresher' = AfterQuery
  /\ Queried(accessToken)
  /\ UNCHANGED <<forceUp, forcer, endpoint>>

(* ForceUpToken: the send waits for room (its context never ends).           *)
ForceBegins(f) ==
  /\ forcer[f] = "idle" /\ refresher # "start"
  /\ forcer' = [forcer EXCEPT ![f] = "blocked"]
  /\ UNCHANGED <<refresher, accessToken, forceUp, endpoint>>

ForceSends(f) ==
  /\ forcer[f] = "blocked" /\ forceUp < ForceRoom
  /\ forceUp' = forceUp + 1
  /\ forcer' = [forcer EXCEPT ![f] = "done"]
  /\ UNCHANGED <<refresher, accessToken, endpoint>>

(* The platform: tokens expire, its endpoint comes and goes.                 *)
Expire ==
  /\ accessToken = "good" /\ accessToken' = "expired"
  /\ UNCHANGED <<refresher, forceUp, forcer, endpoint>>

EndpointChanges ==
  /\ endpoint' = IF endpoint = "answers" THEN "fails" ELSE "answers"
  /\ UNCHANGED <<refresher, accessToken, forceUp, forcer>>

TokenNext ==
  \/ FirstQuery \/ Timer \/ Forced \/ Query
  \/ \E f \in Forcers : ForceBegins(f) \/ ForceSends(f)
  \/ Expire \/ EndpointChanges

(* Timers fire and a channel serves its senders.  Nothing makes a query end: *)
(* http.DefaultClient has no timeout and the context is the background's.    *)
TokenFairness ==
  /\ WF_tokenVars(Timer \/ Forced) /\ SF_tokenVars(Forced)
  /\ \A f \in Forcers : SF_tokenVars(ForceSends(f))

TokenSpec == TokenInit /\ [][TokenNext]_tokenVars /\ TokenFairness
-----------------------------------------------------------------------------
(* No query hangs for ever: what the code leaves to the network.            *)
QueriesReturn == []<>(refresher \notin {"start", "query"})

(* As long as no query hangs: once the endpoint answers for good, there is  *)
(* a good token again and again, however the first query and the ones after *)
(* it failed.                                                               *)
TokenRecovers ==
  QueriesReturn /\ <>[](endpoint = "answers") => []<>(accessToken = "good")

(* As long as no query hangs, a caller that forces a refresh (the listener  *)
(* of a gateway connection, from inside its loop) is not blocked for ever   *)
(* by the reasons of others, whether queries succeed or not.                *)
ForcersReturn ==
  QueriesReturn => \A f \in Forcers : forcer[f] = "blocked" ~> forcer[f] = "done"
=============================================================================
