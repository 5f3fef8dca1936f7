-------------------------- MODULE SubmissionProxy --------------------------
(***************************************************************************)
(* The submission proxy of package submission: a LogListManager reads the  *)
(* log list again and again and sends every new version to the Proxy,      *)
(* which builds a Distributor for it, puts it in the place of the old one  *)
(* and has its roots refreshed periodically until the next list replaces   *)
(* it (schedule.Every).  Requests go to the Distributor of the moment.     *)
(*                                                                         *)
(* What a Distributor does with a request is module Distributor; here it   *)
(* is the version of the list it was built from.                           *)
(***************************************************************************)
EXTENDS Integers, Sequences

CONSTANTS
    MaxLists,       \* bound: versions of the log list
    Unparsable,     \* versions that NewFromJSON refuses
    Unusable,       \* versions that no Distributor can be built from
    Requests        \* concurrent calls of AddChain and AddPreChain

Lists == 1..MaxLists

VARIABLES
    published,      \* the version of the list at the path of the refresher
    lastJSON,       \* of logListRefresherImpl, 0: none
    latestLL, previousLL,
    mgr,            \* where the manager's goroutine is
    errs,           \* errors in the channel Errors, of capacity 1
    updates,        \* the channel LLUpdates, of capacity 1
    ctxDone,        \* the context of Run
    prx,            \* where the proxy's goroutine is
    init,           \* its variable init
    initChan,       \* the channel Init: "open", "true" (sent, closed) or "closed"
    dist,           \* version of p.dist, 0: nil
    cancelled,      \* Distributors whose refreshCtx was cancelled
    rfr,            \* where the goroutine is that refreshes each one's roots
    req, began, used    \* requests: state, p.dist when they came, p.dist they used

mgrVars == <<lastJSON, latestLL, previousLL, mgr>>
prxVars == <<prx, init, initChan, dist, cancelled>>
reqVars == <<req, began, used>>
vars == <<published, mgrVars, errs, updates, ctxDone, prxVars, rfr, reqVars>>

TypeOK ==
    /\ published \in Lists
    /\ {lastJSON, latestLL, previousLL, dist} \subseteq 0..MaxLists
    /\ mgr \in {"start", "refresh", "sendErr", "sendList", "tick", "ended"}
    /\ errs \in 0..1
    /\ updates \in Seq(Lists) /\ Len(updates) <= 1
    /\ ctxDone \in BOOLEAN /\ init \in BOOLEAN
    /\ prx \in {"select", "ended"}
    /\ initChan \in {"open", "true", "closed"}
    /\ cancelled \subseteq Lists
    /\ rfr \in [Lists -> {"none", "start", "refresh", "tick", "ended"}]
    /\ req \in [Requests -> {"idle", "checked", "refused", "passed"}]
    /\ began \in [Requests -> 0..MaxLists] /\ used \in [Requests -> 0..MaxLists]

Init ==
    /\ published = 1
    /\ lastJSON = 0 /\ latestLL = 0 /\ previousLL = 0 /\ mgr = "start"
    /\ errs = 0 /\ updates = <<>>
    /\ ctxDone = FALSE
    /\ prx = "select" /\ init = FALSE /\ initChan = "open"
    /\ dist = 0 /\ cancelled = {}
    /\ rfr = [v \in Lists |-> "none"]
    /\ req = [r \in Requests |-> "idle"]
    /\ began = [r \in Requests |-> 0] /\ used = [r \in Requests |-> 0]

----------------------------------------------------------------------------
(***************************************************************************)
(* The LogListManager: schedule.Every calls refreshLogListAndNotify.       *)
(***************************************************************************)
ManagerStarts ==
    /\ mgr = "start"
    /\ mgr' = IF ctxDone THEN "ended" ELSE "refresh"
    /\ UNCHANGED <<published, lastJSON, latestLL, previousLL, errs, updates, ctxDone,
                   prxVars, rfr, reqVars>>

\* The list cannot be read.
ReadFails ==
    /\ mgr = "refresh"
    /\ mgr' = "sendErr"
    /\ UNCHANGED <<published, lastJSON, latestLL, previousLL, errs, updates, ctxDone,
                   prxVars, rfr, reqVars>>

\* What Refresh makes of the list it has read: no update, an error, or a list
\* that it remembers.
Refresh == IF published = lastJSON THEN "same"
           ELSE IF published \in Unparsable THEN "error" ELSE "new"

RefreshLogList ==
    /\ mgr = "refresh"
    /\ \/ Refresh = "same" /\ mgr' = "tick" /\ UNCHANGED <<lastJSON, latestLL, previousLL>>
       \/ Refresh = "error" /\ mgr' = "sendErr" /\ UNCHANGED <<lastJSON, latestLL, previousLL>>
       \/ /\ Refresh = "new"
          /\ lastJSON' = published
          /\ previousLL' = latestLL
          /\ latestLL' = published
          /\ mgr' = "sendList"
    /\ UNCHANGED <<published, errs, updates, ctxDone, prxVars, rfr, reqVars>>

\* Both sends block while the channel is full.
SendError ==
    /\ mgr = "sendErr" /\ errs = 0
    /\ errs' = 1
    /\ mgr' = "tick"
    /\ UNCHANGED <<published, lastJSON, latestLL, previousLL, updates, ctxDone,
                   prxVars, rfr, reqVars>>

SendListMutant ==
    /\ mgr = "sendList"
    /\ updates' = IF updates = <<>> THEN <<latestLL>> ELSE updates
    /\ mgr' = "tick"
    /\ UNCHANGED <<published, lastJSON, latestLL, previousLL, errs, ctxDone,
                   prxVars, rfr, reqVars>>
SendList ==
    /\ mgr = "sendList" /\ updates = <<>>
    /\ updates' = <<latestLL>>
    /\ mgr' = "tick"
    /\ UNCHANGED <<published, lastJSON, latestLL, previousLL, errs, ctxDone,
                   prxVars, rfr, reqVars>>

\* The select of Every: when the ticker has fired and the context is done,
\* either case may be taken.
ManagerTicks ==
    /\ mgr = "tick"
    /\ mgr' = "refresh"
    /\ UNCHANGED <<published, lastJSON, latestLL, previousLL, errs, updates, ctxDone,
                   prxVars, rfr, reqVars>>

ManagerEnds ==
    /\ mgr = "tick" /\ ctxDone
    /\ mgr' = "ended"
    /\ UNCHANGED <<published, lastJSON, latestLL, previousLL, errs, updates, ctxDone,
                   prxVars, rfr, reqVars>>

(***************************************************************************)
(* The goroutine of Proxy.Run.                                             *)
(***************************************************************************)
ProxyEnds ==
    /\ prx = "select" /\ ctxDone
    /\ initChan' = IF init THEN initChan ELSE "closed"
    /\ prx' = "ended"
    /\ UNCHANGED <<published, mgrVars, errs, updates, ctxDone, init, dist, cancelled,
                   rfr, reqVars>>

LogsError ==
    /\ prx = "select" /\ errs = 1
    /\ errs' = 0
    /\ UNCHANGED <<published, mgrVars, updates, ctxDone, prxVars, rfr, reqVars>>

\* A list that cannot be used is dropped.  Otherwise the new Distributor's
\* refreshes start, those of the old one are cancelled, and the first time
\* Init is told.
RestartDistributorMutant ==
    /\ prx = "select" /\ updates # <<>>
    /\ updates' = <<>>
    /\ init' = TRUE /\ initChan' = "true"
    /\ IF Head(updates) \in Unusable
       THEN UNCHANGED <<dist, cancelled, rfr>>
       ELSE /\ dist' = Head(updates)
            /\ cancelled' = cancelled \cup ({dist} \ {0})
            /\ rfr' = [rfr EXCEPT ![Head(updates)] = "start"]
    /\ UNCHANGED <<published, mgrVars, errs, ctxDone, prx, reqVars>>
RestartDistributorLeaks ==
    /\ prx = "select" /\ updates # <<>>
    /\ updates' = <<>>
    /\ IF Head(updates) \in Unusable
       THEN UNCHANGED <<init, initChan, dist, rfr>>
       ELSE /\ dist' = Head(updates)
            /\ rfr' = [rfr EXCEPT ![Head(updates)] = "start"]
            /\ init' = TRUE /\ initChan' = "true"
    /\ UNCHANGED <<published, mgrVars, errs, ctxDone, prx, cancelled, reqVars>>
RestartDistributor ==
    /\ prx = "select" /\ updates # <<>>
    /\ updates' = <<>>
    /\ IF Head(updates) \in Unusable
       THEN UNCHANGED <<init, initChan, dist, cancelled, rfr>>
       ELSE /\ dist' = Head(updates)
            /\ cancelled' = cancelled \cup ({dist} \ {0})
            /\ rfr' = [rfr EXCEPT ![Head(updates)] = "start"]
            /\ init' = TRUE /\ initChan' = "true"
    /\ UNCHANGED <<published, mgrVars, errs, ctxDone, prx, reqVars>>

(***************************************************************************)
(* schedule.Every over RefreshRoots, one goroutine for each Distributor.   *)
(***************************************************************************)
RefreshCtxDone(v) == ctxDone \/ v \in cancelled

RefresherStarts(v) ==
    /\ rfr[v] = "start"
    /\ rfr' = [rfr EXCEPT ![v] = IF RefreshCtxDone(v) THEN "ended" ELSE "refresh"]
    /\ UNCHANGED <<published, mgrVars, errs, updates, ctxDone, prxVars, reqVars>>

\* RefreshRoots returns: its calls have a timeout.
RootsRefreshed(v) ==
    /\ rfr[v] = "refresh"
    /\ rfr' = [rfr EXCEPT ![v] = "tick"]
    /\ UNCHANGED <<published, mgrVars, errs, updates, ctxDone, prxVars, reqVars>>

RefresherTicks(v) ==
    /\ rfr[v] = "tick"
    /\ rfr' = [rfr EXCEPT ![v] = "refresh"]
    /\ UNCHANGED <<published, mgrVars, errs, updates, ctxDone, prxVars, reqVars>>

RefresherEnds(v) ==
    /\ rfr[v] = "tick" /\ RefreshCtxDone(v)
    /\ rfr' = [rfr EXCEPT ![v] = "ended"]
    /\ UNCHANGED <<published, mgrVars, errs, updates, ctxDone, prxVars, reqVars>>

(***************************************************************************)
(* AddChain and AddPreChain, which the server offers once ProxyServer.Run  *)
(* has read Init.  They read p.dist twice, and without the lock.           *)
(***************************************************************************)
CheckDist(r) ==
    /\ req[r] \in {"idle", "passed", "refused"}
    /\ initChan # "open"
    /\ began' = [began EXCEPT ![r] = dist]
    /\ req' = [req EXCEPT ![r] = IF dist = 0 THEN "refused" ELSE "checked"]
    /\ used' = [used EXCEPT ![r] = 0]
    /\ UNCHANGED <<published, mgrVars, errs, updates, ctxDone, prxVars, rfr>>

UseDist(r) ==
    /\ req[r] = "checked"
    /\ used' = [used EXCEPT ![r] = dist]
    /\ req' = [req EXCEPT ![r] = "passed"]
    /\ UNCHANGED <<published, mgrVars, errs, updates, ctxDone, prxVars, rfr, began>>

(***************************************************************************)
(* The environment.                                                        *)
(***************************************************************************)
Publish ==
    /\ published < MaxLists
    /\ published' = published + 1
    /\ UNCHANGED <<mgrVars, errs, updates, ctxDone, prxVars, rfr, reqVars>>

Cancel ==
    /\ ~ctxDone
    /\ ctxDone' = TRUE
    /\ UNCHANGED <<published, mgrVars, errs, updates, prxVars, rfr, reqVars>>

Manager == ManagerStarts \/ RefreshLogList \/ SendError \/ SendList \/ ManagerTicks
Proxy == LogsError \/ RestartDistributor
Refresher(v) == RefresherStarts(v) \/ RootsRefreshed(v)

Next ==
    \/ Manager \/ ReadFails \/ ManagerEnds
    \/ Proxy \/ ProxyEnds
    \/ \E v \in Lists : Refresher(v) \/ RefresherTicks(v) \/ RefresherEnds(v)
    \/ \E r \in Requests : CheckDist(r) \/ UseDist(r)
    \/ Publish \/ Cancel

\* Goroutines are scheduled and tickers tick.  A select with several ready
\* cases picks one at random, so that none is passed over for ever, and
\* reading the list does not fail for ever.
Fairness ==
    /\ WF_vars(Manager) /\ SF_vars(RefreshLogList) /\ SF_vars(ManagerEnds)
    /\ WF_vars(Proxy) /\ SF_vars(ProxyEnds) /\ SF_vars(RestartDistributor)
    /\ \A v \in Lists : WF_vars(Refresher(v)) /\ SF_vars(RefresherEnds(v))

Spec == Init /\ [][Next]_vars /\ Fairness

----------------------------------------------------------------------------
(***************************************************************************)
(* Properties.                                                             *)
(***************************************************************************)
\* Once ProxyServer.Run returns there is a Distributor to serve requests, and
\* HandleInfo may use it without a look; the one exception is a proxy that is
\* told to stop before it has a usable list.  And a request never gets a
\* Distributor older than the one that was in use when it came, although lists
\* and requests pass each other (proxy.go:148, 191, 198, proxy_server.go:52).
RequestsGetDistributor ==
    /\ initChan # "open" => dist # 0 \/ ctxDone
    /\ \A r \in Requests : req[r] = "passed" => used[r] >= began[r] /\ used[r] # 0

\* When the list stays at a version that can be used, the proxy gets to use it
\* and keeps it, whatever errors, broken lists and busy channels came before:
\* a version is offered only once (loglist_refresher.go:92, proxy.go:165).
LatestListIsUsed ==
    \A v \in Lists \ (Unparsable \cup Unusable) :
        <>[](published = v /\ ~ctxDone) => <>[](dist = v)

\* After the context is done the proxy ends and nobody is left waiting for
\* Init; and the root refreshes of a Distributor that was replaced, or whose
\* proxy has ended, even one that was made too late, end (proxy.go:139, 182).
NothingIsLeftRunning ==
    /\ ctxDone ~> prx = "ended" /\ initChan # "open"
    /\ \A v \in Lists :
          (rfr[v] # "none" /\ (ctxDone \/ dist > v)) ~> (rfr[v] = "ended")
============================================================================
