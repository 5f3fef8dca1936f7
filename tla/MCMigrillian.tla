--------------------------- MODULE MCMigrillian ---------------------------
(***************************************************************************)
(* The Run of a Controller (Migrillian) and the election between several   *)
(* Controllers (M!, module Mastership) are model-checked together.  In a   *)
(* behaviour one of them happens: either one Run after another, and no     *)
(* election, or an election between instances whose Runs begin and return. *)
(***************************************************************************)
EXTENDS Migrillian

CONSTANTS Instances, HasStopAfter, NoOne, MaxFaults

ASSUME NoOneAssumption == NoOne \notin Instances
ASSUME OptionsAssumption == HasStopAfter \in BOOLEAN /\ MaxFaults \in Nat

VARIABLES
    works,      \* "run" or "election"
    opt, epc, ectxDone, emctxDone, err, isMaster, master, faults

M == INSTANCE Mastership WITH
    continuous <- opt, pc <- epc, ctxDone <- ectxDone, mctxDone <- emctxDone

mVars == <<opt, epc, ectxDone, emctxDone, err, isMaster, master, faults>>
allVars == <<works, vars, mVars>>

\* All instances have stopped.
NoElection ==
    /\ opt = FALSE
    /\ epc = [i \in Instances |-> "stopped"]
    /\ ectxDone = [i \in Instances |-> TRUE] /\ emctxDone = [i \in Instances |-> TRUE]
    /\ err = [i \in Instances |-> "nil"] /\ isMaster = [i \in Instances |-> 0]
    /\ master = NoOne /\ faults = 0

\* No Run is observed: its label is none of those that its actions start from.
NoRun ==
    /\ F!Init /\ treeSize = 0
    /\ stored = {} /\ root = 0
    /\ isContinuous = FALSE /\ mctxDone = FALSE
    /\ ctl = "none" /\ pos = 0 /\ first = TRUE /\ rootSize = 0 /\ outcome = "none"
    /\ batches = <<>> /\ closed = FALSE
    /\ spc = [s \in Submitters |-> "none"] /\ batch = [s \in Submitters |-> NoBatch]
    /\ submitted = {} /\ repeated = FALSE

MCInit ==
    \/ works = "run" /\ Init /\ NoElection
    \/ works = "election" /\ NoRun /\ M!Init

MCNext ==
    \/ works = "run" /\ Next /\ UNCHANGED <<works, mVars>>
    \/ works = "election" /\ M!Next /\ UNCHANGED <<works, vars>>

MCSpec == MCInit /\ [][MCNext]_allVars /\ Fairness /\ M!Fairness

----------------------------------------------------------------------------
\* A continuous migration goes on for ever, whatever elections, leases, Runs and
\* resignations have failed in between, as long as an instance is left; and an instance
\* that is told to stop, or dies, ends and does not keep the tree: 'Releases mastership
\* when terminates' (controller.go:136, 153).
MastershipMoves == M!MigrationResumes /\ M!StopReleases
===========================================================================
