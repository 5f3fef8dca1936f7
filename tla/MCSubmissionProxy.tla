------------------------- MODULE MCSubmissionProxy -------------------------
(***************************************************************************)
(* The submission proxy (P!) with names that differ from those of the      *)
(* races: four versions of the log list, of which one cannot be parsed and *)
(* the next is of no use, so that lists are skipped at both ends of the    *)
(* channel on the way to the last one.                                     *)
(***************************************************************************)
EXTENDS Naturals

CONSTANTS MaxLists, Unparsable, Unusable, Submissions

ASSUME ListsAssumption == MaxLists \in Nat \ {0}

VARIABLES published, lastJSON, latestLL, previousLL, mgr, errs, updates, stopped,
          prx, init, initChan, dist, replaced, rfr, req, began, used

P == INSTANCE SubmissionProxy WITH
    Requests <- Submissions, ctxDone <- stopped, cancelled <- replaced

ProxySpec == P!Spec

\* Once ProxyServer.Run returns there is a Distributor or the proxy was told to stop, and
\* no request gets a Distributor older than the one that was in use when it came
\* (submission/proxy.go:148, 191, 198, proxy_server.go:52).
RequestsGetDistributor == P!RequestsGetDistributor

\* A version of the list that can be used and stays is used in the end, whatever errors,
\* broken lists and busy channels came before (loglist_refresher.go:92, proxy.go:165).
LatestListIsUsed == P!LatestListIsUsed

\* After the context is done the proxy and all root refreshes end, and those of a
\* Distributor that was replaced end too (submission/proxy.go:139, 182).
NothingIsLeftRunning == P!NothingIsLeftRunning
=============================================================================
