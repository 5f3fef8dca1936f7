-------------------------- MODULE SubmissionRaces --------------------------
(***************************************************************************)
(* GetSCTs of submission/races.go: one chain is submitted to the Logs of   *)
(* several policy groups at once.  Every group runs a race (groupRace)     *)
(* with one goroutine per Log of the group; a Log may belong to several    *)
(* groups, so the goroutines share a mutex-protected safeSubmissionState,  *)
(* which sees to it that a Log is asked once and that requests nobody      *)
(* needs any more are cancelled.                                           *)
(*                                                                         *)
(* A step is one critical section of the mutex, one channel operation or   *)
(* one select.  A task is a pair <<group, log>>, i.e. one goroutine.       *)
(***************************************************************************)
EXTENDS Integers, Sequences, FiniteSets, FiniteSetsExt, SequencesExt

CONSTANTS
    Logs,           \* URLs of the Logs
    Groups,         \* names of the groups of the policy (ctpolicy.LogPolicyData)
    BaseName,       \* "All-logs", the name of the base group
    Members,        \* Members[g]: LogGroupInfo.LogURLs
    MinInclusions,  \* MinInclusions[g]: SCTs that group g requires
    NoGroup         \* no cancel function registered (nil)

ASSUME LogsAssumption   == IsFiniteSet(Logs)
ASSUME GroupsAssumption == IsFiniteSet(Groups) /\ NoGroup \notin Groups
ASSUME PolicyAssumption ==
    /\ Members \in [Groups -> SUBSET Logs]
    /\ MinInclusions \in [Groups -> Nat]
\* IsBase: "True only for Log-group covering all logs" (BaseGroupFor).
ASSUME BaseAssumption ==
    BaseName \in Groups => \A g \in Groups : Members[g] \subseteq Members[BaseName]

VARIABLES
    \* safeSubmissionState
    groupNeeds,     \* SCTs each group still needs; drops below zero
    results,        \* per Log: "none" (nil), "empty", "sct" or "err"
    cancels,        \* per Log: the group whose task registered its cancel function
    \* contexts and time
    ctxDone,        \* the caller's context is done
    cancelled,      \* tasks whose own context subCtx was cancelled
    elapsed,        \* whole PostBatchIntervals since the start
    \* groupRace
    session,        \* per group: the order in which its Logs are tried
    pc,             \* per task: where the goroutine is
    counter,        \* per group: messages in the channel counter
    seen,           \* per group: messages the collecting loop has received
    \* GetSCTs
    event,          \* per group: "racing", "ok" or "failed" (in groupEvents), "read"
    groupComplete,  \* the local map groupComplete
    returned,       \* GetSCTs has returned
    scts            \* the Logs of the SCTs it returned

vars == <<groupNeeds, results, cancels, ctxDone, cancelled, elapsed, session,
          pc, counter, seen, event, groupComplete, returned, scts>>

stateVars == <<groupNeeds, results, cancels>>
mainVars  == <<groupComplete, returned, scts>>

Tasks == {t \in Groups \X Logs : t[2] \in Members[t[1]]}

\* ctpolicy.GroupByLogs
GroupsOf(l) == {g \in Groups : l \in Members[g]}

\* Some group of the Log still needs SCTs (the isAwaited loops).
IsAwaited(needs, l) == \E g \in GroupsOf(l) : needs[g] > 0

\* The sum of the counts f[g] over the groups of S, as the number of things counted.
SumOver(S, f) == Cardinality(UNION {{g} \X (1..f[g]) : g \in S})

\* parallelNums: how many Logs a group asks at once, without any delay.
SubsetSum == SumOver(Groups \ {BaseName}, MinInclusions)
ParallelStart(g) ==
    IF g # BaseName THEN MinInclusions[g]
    ELSE IF MinInclusions[g] >= SubsetSum THEN MinInclusions[g] - SubsetSum ELSE 0

\* postInterval, in units of PostBatchInterval; i counts from 0.
PostInterval(i, parallelStart) ==
    IF i < parallelStart THEN 0 ELSE i + 1 - parallelStart

\* Position of Log l in the session of group g, counted from 0.
Index(g, l) == (CHOOSE i \in DOMAIN session[g] : session[g][i] = l) - 1

\* The last delay any task waits for; time is not followed past it.
MaxElapsed ==
    Max({PostInterval(Cardinality(Members[g]) - 1, ParallelStart(g)) : g \in Groups} \cup {0})

\* GetSubmissionSession: weighted random without replacement.  Every weight is
\* positive (populate sets 1.0), so any order of all members may come out.
Sessions(g) == SetToSeqs(Members[g])

\* make(chan count, len(session))
CounterCapMutant(g) == 1
CounterCap(g) == Len(session[g])

IsComplete(g) == groupNeeds[g] <= 0

SubCtxDone(t) == ctxDone \/ t \in cancelled

TypeOK ==
    /\ groupNeeds \in [Groups -> Int]
    /\ results \in [Logs -> {"none", "empty", "sct", "err"}]
    /\ cancels \in [Logs -> Groups \cup {NoGroup}]
    /\ ctxDone \in BOOLEAN
    /\ cancelled \subseteq Tasks
    /\ elapsed \in Nat
    /\ pc \in [Tasks -> {"delay", "request", "submit", "count", "done"}]
    /\ counter \in [Groups -> Nat]
    /\ seen \in [Groups -> Nat]
    /\ event \in [Groups -> {"racing", "ok", "failed", "read"}]
    /\ groupComplete \in [Groups -> BOOLEAN]
    /\ returned \in BOOLEAN
    /\ scts \subseteq Logs

\* newSafeSubmissionState, and GetSCTs up to its loop: all races are started.
Init ==
    /\ groupNeeds = MinInclusions
    /\ results = [l \in Logs |-> "none"]
    /\ cancels = [l \in Logs |-> NoGroup]
    /\ ctxDone = FALSE
    /\ cancelled = {}
    /\ elapsed = 0
    /\ session \in {s \in [Groups -> UNION {Sessions(g) : g \in Groups}] :
                        \A g \in Groups : s[g] \in Sessions(g)}
    /\ pc = [t \in Tasks |-> "delay"]
    /\ counter = [g \in Groups |-> 0]
    /\ seen = [g \in Groups |-> 0]
    /\ event = [g \in Groups |-> "racing"]
    /\ groupComplete = [g \in Groups |-> FALSE]
    /\ returned = FALSE
    /\ scts = {}

---------------------------------------------------------------------------
(* The environment: time passes, the caller gives up or its deadline ends. *)

\* Time matters while a task waits for its timer.
Tick ==
    /\ elapsed < MaxElapsed
    /\ \E t \in Tasks : pc[t] = "delay"
    /\ elapsed' = elapsed + 1
    /\ UNCHANGED <<stateVars, ctxDone, cancelled, session, pc, counter, seen, event, mainVars>>

CancelContext ==
    /\ ~ctxDone
    /\ ctxDone' = TRUE
    /\ UNCHANGED <<stateVars, cancelled, elapsed, session, pc, counter, seen, event, mainVars>>

---------------------------------------------------------------------------
(* A task of groupRace.                                                    *)

Goto(t, from, to) ==
    /\ pc[t] = from
    /\ pc' = [pc EXCEPT ![t] = to]

\* The select while the task waits: case <-subCtx.Done().
GiveUp(t) ==
    /\ SubCtxDone(t)
    /\ Goto(t, "delay", "count")
    /\ UNCHANGED <<stateVars, ctxDone, cancelled, elapsed, session, counter, seen, event, mainVars>>

\* case <-timeoutchan, then groupComplete under the mutex.
CheckGroup(t) ==
    /\ elapsed >= PostInterval(Index(t[1], t[2]), ParallelStart(t[1]))
    /\ \/ /\ IsComplete(t[1])
          /\ Goto(t, "delay", "count")
          /\ cancelled' = cancelled \cup {t}
       \/ /\ ~IsComplete(t[1])
          /\ Goto(t, "delay", "request")
          /\ UNCHANGED cancelled
    /\ UNCHANGED <<stateVars, ctxDone, elapsed, session, counter, seen, event, mainVars>>

\* state.request
RequestMutant(t) ==
    /\ Goto(t, "request", "submit")
    /\ results' = [results EXCEPT ![t[2]] = "empty"]
    /\ cancels' = [cancels EXCEPT ![t[2]] = t[1]]
    /\ UNCHANGED <<groupNeeds, ctxDone, cancelled, elapsed, session, counter, seen, event, mainVars>>
Request(t) ==
    LET g == t[1]
        l == t[2] IN
    /\ \/ /\ results[l] # "none"                    \* already requested
          /\ Goto(t, "request", "count")
          /\ UNCHANGED <<results, cancels>>
       \/ /\ results[l] = "none"
          /\ results' = [results EXCEPT ![l] = "empty"]
          /\ \/ /\ ~IsAwaited(groupNeeds, l)
                /\ Goto(t, "request", "count")
                /\ UNCHANGED cancels
             \/ /\ IsAwaited(groupNeeds, l)
                /\ Goto(t, "request", "submit")
                /\ cancels' = [cancels EXCEPT ![l] = g]
    /\ UNCHANGED <<groupNeeds, ctxDone, cancelled, elapsed, session, counter, seen, event, mainVars>>

\* SubmitToLog failed; setResult with a nil SCT.
SetError(t) ==
    /\ Goto(t, "submit", "count")
    /\ results' = [results EXCEPT ![t[2]] = "err"]
    /\ UNCHANGED <<groupNeeds, cancels, ctxDone, cancelled, elapsed, session, counter, seen, event, mainVars>>

\* setResult, first loop: every group of the Log but the base one counts the SCT.
NeedsAfterGroups(l) ==
    [g \in Groups |-> IF g \in GroupsOf(l) \ {BaseName} THEN groupNeeds[g] - 1 ELSE groupNeeds[g]]

StoredByGroup(l) == \E g \in GroupsOf(l) \ {BaseName} : groupNeeds[g] > 0

\* minInclusionsForOtherGroup
OtherNeeds(needs) == SumOver({g \in Groups \ {BaseName} : needs[g] > 0}, needs)

\* setResult, the base group: an SCT a group has taken counts for the base group
\* as well; another one does while the base group can spare the SCT.
BaseTakesMutant(l, needs) ==
    BaseName \in GroupsOf(l) /\ (StoredByGroup(l) \/ needs[BaseName] > 0)
BaseTakes(l, needs) ==
    /\ BaseName \in GroupsOf(l)
    /\ \/ StoredByGroup(l)
       \/ needs[BaseName] > 0 /\ needs[BaseName] > OtherNeeds(needs)

\* setResult, last loop: requests that no group awaits under the given needs.
Stale(needs) ==
    {k \in Logs : ~IsAwaited(needs, k) /\ cancels[k] # NoGroup}

\* SubmitToLog returned an SCT; setResult stores or dumps it, updates the needs
\* and cancels the requests no group awaits any more.
SetSCT(t) ==
    LET l      == t[2]
        needs1 == NeedsAfterGroups(l)
        takes  == BaseTakes(l, needs1)
        needs2 == IF takes THEN [needs1 EXCEPT ![BaseName] = @ - 1] ELSE needs1
        stale  == Stale(needs2)
    IN
    /\ Goto(t, "submit", "count")
    /\ groupNeeds' = needs2
    /\ results' = IF StoredByGroup(l) \/ takes THEN [results EXCEPT ![l] = "sct"] ELSE results
    /\ cancels' = [k \in Logs |-> IF k \in stale THEN NoGroup ELSE cancels[k]]
    /\ cancelled' = cancelled \cup {<<cancels[k], k>> : k \in stale}
    /\ UNCHANGED <<ctxDone, elapsed, session, counter, seen, event, mainVars>>

\* The deferred countCall: a send on the buffered channel counter.
CountCall(t) ==
    /\ counter[t[1]] < CounterCap(t[1])
    /\ Goto(t, "count", "done")
    /\ counter' = [counter EXCEPT ![t[1]] = @ + 1]
    /\ UNCHANGED <<stateVars, ctxDone, cancelled, elapsed, session, seen, event, mainVars>>

---------------------------------------------------------------------------
(* The collecting loop of groupRace.                                       *)

OutcomeMutant(g) == "ok"
Outcome(g) == IF IsComplete(g) THEN "ok" ELSE "failed"

\* case <-ctx.Done(), while messages are still missing.
RaceCancelled(g) ==
    /\ event[g] = "racing"
    /\ seen[g] < Len(session[g])
    /\ ctxDone
    /\ event' = [event EXCEPT ![g] = Outcome(g)]
    /\ UNCHANGED <<stateVars, ctxDone, cancelled, elapsed, session, pc, counter, seen, mainVars>>

\* case <-counter
RaceCounts(g) ==
    /\ event[g] = "racing"
    /\ seen[g] < Len(session[g])
    /\ counter[g] > 0
    /\ counter' = [counter EXCEPT ![g] = @ - 1]
    /\ seen' = [seen EXCEPT ![g] = @ + 1]
    /\ event' = IF IsComplete(g) THEN [event EXCEPT ![g] = "ok"] ELSE event
    /\ UNCHANGED <<stateVars, ctxDone, cancelled, elapsed, session, pc, mainVars>>

\* The loop is over: every Log of the session was processed.
RaceEnds(g) ==
    /\ event[g] = "racing"
    /\ seen[g] = Len(session[g])
    /\ event' = [event EXCEPT ![g] = Outcome(g)]
    /\ UNCHANGED <<stateVars, ctxDone, cancelled, elapsed, session, pc, counter, seen, mainVars>>

---------------------------------------------------------------------------
(* The loop of GetSCTs.                                                    *)

Collected == {l \in Logs : results[l] = "sct"}

AllRead == \A g \in Groups : event[g] = "read"

\* case g := <-groupEvents
ReadEvent(g) ==
    /\ ~returned
    /\ event[g] \in {"ok", "failed"}
    /\ event' = [event EXCEPT ![g] = "read"]
    /\ groupComplete' = [groupComplete EXCEPT ![g] = (event[g] = "ok")]
    /\ UNCHANGED <<stateVars, ctxDone, cancelled, elapsed, session, pc, counter, seen, returned, scts>>

\* The return statement, after the loop or in case <-ctx.Done().
Return ==
    /\ ~returned
    /\ AllRead \/ ctxDone
    /\ returned' = TRUE
    /\ scts' = Collected
    /\ UNCHANGED <<stateVars, ctxDone, cancelled, elapsed, session, pc, counter, seen, event, groupComplete>>

TaskStep(t) ==
    \/ GiveUp(t) \/ CheckGroup(t) \/ Request(t)
    \/ SetError(t) \/ SetSCT(t) \/ CountCall(t)

RaceStep(g) == RaceCancelled(g) \/ RaceCounts(g) \/ RaceEnds(g) \/ ReadEvent(g)

Next ==
    \/ Tick
    \/ CancelContext
    \/ \E t \in Tasks : TaskStep(t)
    \/ \E g \in Groups : RaceStep(g)
    \/ Return

\* The scheduler runs every goroutine and timers fire.  A Log need never answer
\* (the client retries until its context is done), but a request whose context is
\* done ends, and the caller's context has a deadline (handleAddSomeChain).
Fairness ==
    /\ WF_vars(Tick)
    /\ WF_vars(CancelContext)
    /\ \A t \in Tasks :
        /\ WF_vars(GiveUp(t) \/ CheckGroup(t) \/ Request(t) \/ CountCall(t))
        /\ WF_vars(SubCtxDone(t) /\ SetError(t))
    /\ \A g \in Groups : WF_vars(RaceStep(g))
    /\ WF_vars(Return)

Spec == Init /\ [][Next]_vars /\ Fairness

---------------------------------------------------------------------------
(* Properties.                                                             *)

PolicySatisfied(S) ==
    \A g \in Groups : Cardinality(S \cap Members[g]) >= MinInclusions[g]

\* completenessError is nil
NoError == \A g \in Groups : groupComplete[g]

\* SCTs the whole policy asks for when no Log fails: the base group reuses the
\* SCTs of the other groups.
PolicyTotal ==
    Max({SubsetSum} \cup (IF BaseName \in Groups THEN {MinInclusions[BaseName]} ELSE {}))

\* A group that setResult counts as complete really has its SCTs among the ones
\* collectSCTs will return, whichever groups the SCTs were first taken for.
CompleteGroupsHaveSCTs ==
    \A g \in Groups : IsComplete(g) =>
        Cardinality(Collected \cap Members[g]) >= MinInclusions[g]

\* GetSCTs reports no error only with SCTs that satisfy every group.
SuccessIsSound == returned /\ NoError => PolicySatisfied(scts)

\* GetSCTs reports an error, before its deadline, only with SCTs that do not
\* satisfy the policy ("May emit both SCTs array and error when SCTs collected do
\* not satisfy the policy", AddChain).
ErrorIsJustified == returned /\ ~ctxDone /\ ~NoError => ~PolicySatisfied(scts)

\* The races never have two requests to one Log in flight, although the Log is in
\* the sessions of several groups.
OneRequestPerLog ==
    \A t, u \in Tasks : t # u /\ t[2] = u[2] => ~(pc[t] = "submit" /\ pc[u] = "submit")

\* A request in flight that no group awaits has been cancelled.
UnneededRequestsCancelled ==
    \A t \in Tasks : 
        pc[t] = "submit" /\ (\A g \in GroupsOf(t[2]) : IsComplete(g)) => t \in cancelled

\* The base group leaves room for the SCTs that the other groups are going to
\* bring: no more SCTs are kept than the policy asks for.
NoSurplusSCTs == Cardinality(Collected) <= PolicyTotal

\* Neither requests nor SCTs are had for nothing, although the groups of the policy
\* overlap (races.go:77, 103).
NothingIsWasted == UnneededRequestsCancelled /\ NoSurplusSCTs

\* GetSCTs returns, and no goroutine it started is left behind blocked.
Termination == <>(returned /\ \A t \in Tasks : pc[t] = "done")
=============================================================================
