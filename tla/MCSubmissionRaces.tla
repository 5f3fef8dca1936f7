------------------------- MODULE MCSubmissionRaces -------------------------
(***************************************************************************)
(* A policy over two Logs: one SCT is enough, and it must come from the    *)
(* only Log of a group; the group's SCT counts for the base group as well. *)
(* The base group has another Log, so that requests become useless while   *)
(* they are in flight.                                                     *)
(*                                                                         *)
(* The Distributor (D!), which chooses the Logs of a submission, is        *)
(* model-checked along with the races: in a behaviour either a race is run *)
(* or a Distributor works, whose races then just return.                   *)
(***************************************************************************)
EXTENDS SubmissionRaces

CONSTANTS
    l1, l2, goog, allLogs,
    Usable, Pending, Clients, Roots, UnparsableRoots, MinSCTs, Requests     \* of D

ASSUME ClientsAssumption ==
    Usable \subseteq Clients /\ Clients \subseteq Usable \cup Pending /\ IsFiniteSet(Clients)
ASSUME RequestsAssumption == MinSCTs \in Nat \ {0} /\ UnparsableRoots \subseteq Roots

VARIABLES
    works,      \* "race" or "distributor"
    accepts, refreshing, answer, answered, logRoots, rootDataFull, told, logs, pending

D == INSTANCE Distributor

dVars == <<accepts, refreshing, answer, answered, logRoots, rootDataFull, told, logs,
           pending>>
allVars == <<works, vars, dVars>>

MCLogs == {l1, l2}
MCGroups == {goog, allLogs}
MCMembers == goog :> {l1} @@ allLogs :> MCLogs
MCMin == goog :> 1 @@ allLogs :> 1

\* GetSCTs has returned when its deadline was over, without any SCT.
RaceIdle ==
    /\ groupNeeds = MinInclusions
    /\ results = [l \in Logs |-> "none"] /\ cancels = [l \in Logs |-> NoGroup]
    /\ ctxDone = TRUE /\ cancelled = {} /\ elapsed = MaxElapsed
    /\ session = [g \in Groups |-> CHOOSE s \in Sessions(g) : TRUE]
    /\ pc = [t \in Tasks |-> "done"]
    /\ counter = [g \in Groups |-> 0] /\ seen = [g \in Groups |-> Cardinality(Members[g])]
    /\ event = [g \in Groups |-> "read"] /\ groupComplete = [g \in Groups |-> FALSE]
    /\ returned = TRUE /\ scts = {}

\* No Log accepts a root.
DistributorIdle == accepts = [l \in Clients |-> {}] /\ D!Init

MCInit ==
    \/ works = "race" /\ Init /\ DistributorIdle
    \/ works = "distributor" /\ RaceIdle /\ D!Init

MCNext ==
    \/ works = "race" /\ Next /\ UNCHANGED <<works, dVars>>
    \/ works = "distributor" /\ D!Next /\ UNCHANGED <<works, vars>>

\* The Fairness of the races, and that of the Distributor when it works.
MCFairness ==
    /\ Fairness
    /\ WF_dVars(works = "distributor" /\ D!Refresh)
    /\ \A l \in Clients :
         WF_dVars(works = "distributor" /\ (D!Answers(l) \/ D!AnswerFails(l)))

MCSpec == MCInit /\ [][MCNext]_allVars /\ MCFairness

\* One race alone.
RaceSpec == works = "race" /\ Init /\ DistributorIdle
                /\ [][works = "race" /\ Next /\ UNCHANGED <<works, dVars>>]_allVars

----------------------------------------------------------------------------
\* Distributor: a good chain is refused only when every Log has told its roots and the
\* chain's root is not one of them (submission/distributor.go:263).
RefusalIsJustified == D!RefusalIsJustified

\* Distributor: a Log that has started to accept a root is offered chains of that root
\* in the end, however often its get-roots call fails (submission/distributor.go:161,
\* loglist3/logfilter.go:77).
NewRootsAreUsed == D!NewRootsAreUsed
=============================================================================
