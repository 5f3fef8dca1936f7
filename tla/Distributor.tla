---------------------------- MODULE Distributor ----------------------------
(***************************************************************************)
(* The Distributor of package submission: RefreshRoots asks every Log for  *)
(* the roots it accepts, and addSomeChain uses the answers to choose the   *)
(* Logs that a chain is submitted to (loglist3/logfilter.go).  The         *)
(* submission itself, GetSCTs, is module SubmissionRaces; here it returns. *)
(*                                                                         *)
(* A chain is its root, what is wrong with it, and whether it is a         *)
(* precertificate.  The policy asks for MinSCTs Logs (CTPolicy has more).  *)
(***************************************************************************)
EXTENDS Integers, FiniteSets, Functions

CONSTANTS
    Usable, Pending,    \* Logs of the list: usable, and pending or qualified
    Clients,            \* the Logs that a client could be built for: NewDistributor
                        \* fails without one for a usable Log, not for a pending one
    Roots,              \* root certificates
    UnparsableRoots,    \* those that x509.ParseCertificate refuses
    MinSCTs,            \* number of Logs the policy asks for
    Requests            \* concurrent requests

VARIABLES
    accepts,        \* the roots each Log accepts now
    refreshing,     \* RefreshRoots is collecting answers
    answer,         \* its answers so far: "waiting", "failed" or "ok" ...
    answered,       \* ... and the roots it was answered
    logRoots,       \* logRoots of the Distributor
    rootDataFull,
    told,           \* history: all roots in the answers of the last refresh
    logs,           \* per request: the Logs its chain is being submitted to, {} when idle
    pending         \* per request: the goroutine for a pending Log has yet to submit

rootVars == <<logRoots, rootDataFull, told>>
refreshVars == <<refreshing, answer, answered>>
reqVars == <<logs, pending>>
vars == <<accepts, refreshVars, rootVars, reqVars>>

Chains == [root : Roots, state : {"good", "unverifiable", "garbage"},
           precert : BOOLEAN, window : SUBSET Usable]
GoodChain(r, S) == [root |-> r, state |-> "good", precert |-> FALSE, window |-> S]

TypeOK ==
    /\ accepts \in [Clients -> SUBSET Roots]
    /\ refreshing \in BOOLEAN
    /\ answer \in [Clients -> {"waiting", "failed", "ok"}]
    /\ answered \in [Clients -> SUBSET Roots]
    /\ DOMAIN logRoots \subseteq Clients
    /\ \A l \in DOMAIN logRoots : logRoots[l] \subseteq Roots \ UnparsableRoots
    /\ rootDataFull \in BOOLEAN
    /\ logs \in [Requests -> SUBSET Usable]
    /\ pending \in [Requests -> BOOLEAN]

Init ==
    /\ accepts \in [Clients -> SUBSET Roots]
    /\ refreshing = FALSE
    /\ answer = [l \in Clients |-> "waiting"]
    /\ answered = [l \in Clients |-> {}]
    /\ logRoots = [l \in {} |-> {}] /\ rootDataFull = FALSE /\ told = [l \in {} |-> {}]
    /\ logs = [q \in Requests |-> {}]
    /\ pending = [q \in Requests |-> FALSE]

----------------------------------------------------------------------------
(***************************************************************************)
(* RefreshRoots, which schedule.Every calls again and again.               *)
(***************************************************************************)
BeginRefresh ==
    /\ ~refreshing
    /\ refreshing' = TRUE
    /\ answer' = [l \in Clients |-> "waiting"]
    /\ answered' = [l \in Clients |-> {}]
    /\ UNCHANGED <<accepts, rootVars, reqVars>>

Answers(l) ==
    /\ refreshing /\ answer[l] = "waiting"
    /\ answer' = [answer EXCEPT ![l] = "ok"]
    /\ answered' = [answered EXCEPT ![l] = accepts[l]]
    /\ UNCHANGED <<accepts, refreshing, rootVars, reqVars>>

\* The call fails, or getRootsTimeout is over.
AnswerFails(l) ==
    /\ refreshing /\ answer[l] = "waiting"
    /\ answer' = [answer EXCEPT ![l] = "failed"]
    /\ UNCHANGED <<accepts, refreshing, answered, rootVars, reqVars>>

\* The Logs that answered get their roots replaced, as far as these can be
\* parsed; nothing is known of the others from now on.
EndRefreshMutant ==
    /\ refreshing /\ \A l \in Clients : answer[l] # "waiting"
    /\ LET known == {l \in Clients : answer[l] = "ok"} IN
       /\ logRoots' = [l \in known |-> answered[l] \ UnparsableRoots]
       /\ told' = [l \in known |-> answered[l]]
       /\ rootDataFull' = (known # {})
    /\ refreshing' = FALSE
    /\ UNCHANGED <<accepts, answer, answered, reqVars>>
EndRefresh ==
    /\ refreshing /\ \A l \in Clients : answer[l] # "waiting"
    /\ LET known == {l \in Clients : answer[l] = "ok"} IN
       /\ logRoots' = [l \in known |-> answered[l] \ UnparsableRoots]
       /\ told' = [l \in known |-> answered[l]]
       /\ rootDataFull' = (Cardinality(known) = Cardinality(Clients))
    /\ refreshing' = FALSE
    /\ UNCHANGED <<accepts, answer, answered, reqVars>>

(***************************************************************************)
(* addSomeChain.  The decision is taken under the read lock.               *)
(***************************************************************************)
rootPool == UNION Range(logRoots)

\* RootCompatible: Logs that nothing is known of always are.
RootCompatibleMutant(S, root) ==
    {l \in S : l \in DOMAIN logRoots /\ root \in logRoots[l]}
RootCompatible(S, root) ==
    {l \in S : l \in DOMAIN logRoots => root \in logRoots[l]}
Unknown(S) == {l \in S : l \notin DOMAIN logRoots}

\* ValidateChain needs a root it knows.
Validates(c) == c.state = "good" /\ c.root \in rootPool

\* The Logs that are compatible with the chain, the second part when it could
\* not be validated.
Compatible(c) ==
    IF Validates(c) THEN RootCompatible(c.window, c.root) ELSE Unknown(c.window)

RefusedChain(c) == ~Validates(c) /\ (rootDataFull \/ c.state = "garbage")

\* The chain is refused, is not of the type the entry point expects, leaves too few Logs
\* for the policy, or is submitted.
AddSomeChain(q) ==
    /\ logs[q] = {} /\ ~pending[q]
    /\ \E c \in Chains, asPreChain \in BOOLEAN, loadPendingLogs \in BOOLEAN :
         /\ ~RefusedChain(c) /\ c.precert = asPreChain
         /\ Cardinality(Compatible(c)) >= MinSCTs
         /\ logs' = [logs EXCEPT ![q] = Compatible(c)]
         /\ pending' = [pending EXCEPT ![q] = loadPendingLogs /\ Pending # {}]
    /\ UNCHANGED <<accepts, refreshVars, rootVars>>

\* GetSCTs returns, with SCTs or an error, and with it the handler of the proxy server,
\* whose deferred cancel ends the context of the request.
Returns(q) ==
    /\ logs[q] # {}
    /\ logs' = [logs EXCEPT ![q] = {}]
    /\ UNCHANGED <<accepts, refreshVars, rootVars, pending>>

\* The goroutine that submits the chain to one of the pending Logs uses the same context:
\* after the request has returned, or without a client for the Log, SubmitToLog fails.
SubmitPending(q) ==
    /\ pending[q]
    /\ pending' = [pending EXCEPT ![q] = FALSE]
    /\ UNCHANGED <<accepts, refreshVars, rootVars, logs>>

\* A Log starts or stops accepting a root.
ChangeRoots(l) ==
    /\ \E r \in Roots : accepts' = [accepts EXCEPT ![l] =
                                      IF r \in @ THEN @ \ {r} ELSE @ \cup {r}]
    /\ UNCHANGED <<refreshVars, rootVars, reqVars>>

Refresh == BeginRefresh \/ EndRefresh

Next ==
    \/ Refresh
    \/ \E l \in Clients : Answers(l) \/ AnswerFails(l) \/ ChangeRoots(l)
    \/ \E q \in Requests : AddSomeChain(q) \/ Returns(q) \/ SubmitPending(q)

\* The refreshes go on, and every call of GetAcceptedRoots ends.
Fairness ==
    /\ WF_vars(Refresh)
    /\ \A l \in Clients : WF_vars(Answers(l) \/ AnswerFails(l))

Spec == Init /\ [][Next]_vars /\ Fairness

----------------------------------------------------------------------------
(***************************************************************************)
(* Properties.                                                             *)
(***************************************************************************)
Offers(l, r) == l \in Compatible(GoodChain(r, {l}))

\* A Log that has started to accept a root is offered chains of that root in
\* the end, however often its get-roots call fails: roots that were known
\* before do not shadow it, and neither does what is known of other Logs
\* (distributor.go:161, logfilter.go:77).
NewRootsAreUsed ==
    \A l \in Usable, r \in Roots \ UnparsableRoots :
        <>[](r \in accepts[l]) => <>[]Offers(l, r)

\* 'Could not verify the chain while root info for logs is complete'
\* (distributor.go:263): a good chain is refused only when every Log has told
\* its roots and the root is not one of them.
RefusalIsJustified ==
    \A r \in Roots \ UnparsableRoots :
        RefusedChain(GoodChain(r, Usable))
            => DOMAIN told = Clients /\ r \notin UNION Range(told)
============================================================================
