---------------------------- MODULE Mastership ----------------------------
(***************************************************************************)
(* Several instances of the migration Controller work on one Trillian tree *)
(* and elect a master: RunWhenMasterWithRestarts, RunWhenMaster and        *)
(* runWithRestarts of trillian/migrillian/core/controller.go.  What a Run  *)
(* does is module Migrillian; here it begins and returns.                  *)
(*                                                                         *)
(* The election is Trillian's election2, known by how the Controller uses  *)
(* it: Await blocks until the instance is the master, WithMastership makes *)
(* a context that is done some time after the mastership is lost, Resign   *)
(* and Close give the mastership up, and a lease that is not renewed runs  *)
(* out.                                                                    *)
(***************************************************************************)
EXTENDS Integers

CONSTANTS
    Instances,      \* Controllers of the same tree
    Modes,          \* the values of Options.Continuous
    HasStopAfter,   \* Options.StopAfter # 0
    NoOne,          \* no instance is the master
    MaxFaults       \* bound: errors, lost masterships and crashes

VARIABLES
    continuous, \* Options.Continuous
    pc,         \* where the instance is
    ctxDone,    \* the context of RunWhenMasterWithRestarts is done
    mctxDone,   \* the context that WithMastership made is done
    err,        \* the error RunWhenMaster is about to return
    isMaster,   \* the metric isMaster
    master,     \* the election: who holds the mastership
    faults      \* what has gone wrong so far

vars == <<continuous, pc, ctxDone, mctxDone, err, isMaster, master, faults>>

\* "canceled" is the error of a context; "severe" any other one.
Errors == {"nil", "canceled", "severe"}

TypeOK ==
    /\ continuous \in BOOLEAN
    /\ pc \in [Instances -> {"start", "await", "with", "run", "pause", "ran",
                             "resign", "close", "returned", "stopped"}]
    /\ ctxDone \in [Instances -> BOOLEAN]
    /\ mctxDone \in [Instances -> BOOLEAN]
    /\ err \in [Instances -> Errors]
    /\ isMaster \in [Instances -> {0, 1}]
    /\ master \in Instances \cup {NoOne}
    /\ faults \in 0..MaxFaults

Init ==
    /\ continuous \in Modes
    /\ pc = [i \in Instances |-> "start"]
    /\ ctxDone = [i \in Instances |-> FALSE]
    /\ mctxDone = [i \in Instances |-> TRUE]
    /\ err = [i \in Instances |-> "nil"]
    /\ isMaster = [i \in Instances |-> 0]
    /\ master = NoOne
    /\ faults = 0

----------------------------------------------------------------------------
Goto(i, label) == pc' = [pc EXCEPT ![i] = label]
Return(i, label, e) == Goto(i, label) /\ err' = [err EXCEPT ![i] = e]
Gauge(i, v) == isMaster' = [isMaster EXCEPT ![i] = v]
Fault == faults < MaxFaults /\ faults' = faults + 1
GiveUp(i) == master' = IF master = i THEN NoOne ELSE master

\* A call that takes the context fails when it is done, and may fail anyway.
CallFails(i, label) ==
    \/ ctxDone[i] /\ Return(i, label, "canceled") /\ UNCHANGED faults
    \/ ~ctxDone[i] /\ Fault /\ Return(i, label, "severe")

(***************************************************************************)
(* RunWhenMaster.                                                          *)
(***************************************************************************)
\* sleepRandom and NewElection; the deferred Close is in place from here on.
NewElection(i) ==
    /\ pc[i] = "start"
    /\ \/ CallFails(i, "returned") /\ UNCHANGED isMaster
       \/ ~ctxDone[i] /\ Return(i, "await", "nil") /\ Gauge(i, 0) /\ UNCHANGED faults
    /\ UNCHANGED <<continuous, ctxDone, mctxDone, master>>

AwaitMutant(i) ==
    /\ pc[i] = "await"
    /\ master \in {i, NoOne}
    /\ master' = i
    /\ Gauge(i, 1)
    /\ Goto(i, "with")
    /\ UNCHANGED <<continuous, ctxDone, mctxDone, err, faults>>
Await(i) ==
    /\ pc[i] = "await"
    /\ \/ CallFails(i, "close") /\ UNCHANGED <<isMaster, master>>
       \/ /\ ~ctxDone[i] /\ master \in {i, NoOne}
          /\ master' = i
          /\ Gauge(i, 1)
          /\ Goto(i, "with")
          /\ UNCHANGED <<err, faults>>
    /\ UNCHANGED <<continuous, ctxDone, mctxDone>>

\* A mastership that is lost by now shows at once or later.
WithMastership(i) ==
    /\ pc[i] = "with"
    /\ \/ CallFails(i, "close") /\ UNCHANGED mctxDone
       \/ /\ master # i
          /\ mctxDone' = [mctxDone EXCEPT ![i] = TRUE]
          /\ Return(i, "close", "canceled")
          /\ UNCHANGED faults
       \/ /\ ~ctxDone[i]
          /\ mctxDone' = [mctxDone EXCEPT ![i] = FALSE]
          /\ Goto(i, "run")
          /\ UNCHANGED <<err, faults>>
    /\ UNCHANGED <<continuous, ctxDone, isMaster, master>>

\* Run returns an error of its own.  In continuous mode runWithRestarts sleeps
\* and calls it again, unless the context is done as well.
RunFails(i) ==
    /\ pc[i] = "run" /\ (continuous => ~mctxDone[i])
    /\ Fault
    /\ IF continuous THEN Goto(i, "pause") /\ UNCHANGED err
                     ELSE Return(i, "ran", "severe")
    /\ UNCHANGED <<continuous, ctxDone, mctxDone, isMaster, master>>

RunAgain(i) ==
    /\ pc[i] = "pause"
    /\ Goto(i, "run")
    /\ UNCHANGED <<continuous, ctxDone, mctxDone, err, isMaster, master, faults>>

\* Run has transferred what it was asked to, which takes StopAfter in
\* continuous mode, or it sees that its context is done.
RunEnds(i) ==
    /\ pc[i] = "run"
    /\ \/ (continuous => HasStopAfter) /\
          Return(i, "ran", IF continuous /\ mctxDone[i] THEN "canceled" ELSE "nil")
       \/ mctxDone[i] /\ Return(i, "ran", "canceled")
    /\ UNCHANGED <<continuous, ctxDone, mctxDone, isMaster, master, faults>>

\* What is left to do depends on which context is done.
AfterRun(i) ==
    /\ pc[i] = "ran"
    /\ \/ ctxDone[i] /\ Goto(i, "close") /\ UNCHANGED isMaster
       \/ ~ctxDone[i] /\ ~mctxDone[i] /\ Goto(i, "resign") /\ UNCHANGED isMaster
       \/ ~ctxDone[i] /\ mctxDone[i] /\ Goto(i, "await") /\ Gauge(i, 0)
    /\ UNCHANGED <<continuous, ctxDone, mctxDone, err, master, faults>>

\* An error of Resign is only logged.
Resign(i) ==
    /\ pc[i] = "resign"
    /\ \/ GiveUp(i) /\ UNCHANGED faults
       \/ Fault /\ UNCHANGED master
       \/ ctxDone[i] /\ UNCHANGED <<faults, master>>
    /\ Goto(i, "close")
    /\ UNCHANGED <<continuous, ctxDone, mctxDone, err, isMaster>>

\* The deferred function.  An error of Close is only logged as well.
Close(i) ==
    /\ pc[i] = "close"
    /\ Gauge(i, 0)
    /\ \/ GiveUp(i) /\ UNCHANGED faults
       \/ Fault /\ UNCHANGED master
    /\ Goto(i, "returned")
    /\ UNCHANGED <<continuous, ctxDone, mctxDone, err>>

(***************************************************************************)
(* RunWhenMasterWithRestarts: the loop around RunWhenMaster.               *)
(***************************************************************************)
Restart(i) ==
    /\ pc[i] = "returned"
    /\ Goto(i, IF continuous /\ ~ctxDone[i] THEN "start" ELSE "stopped")
    /\ UNCHANGED <<continuous, ctxDone, mctxDone, err, isMaster, master, faults>>

(***************************************************************************)
(* The environment.                                                        *)
(***************************************************************************)
\* The process is told to stop: ctx is done, and mctx with it.
Cancel(i) ==
    /\ pc[i] # "stopped" /\ ~ctxDone[i]
    /\ ctxDone' = [ctxDone EXCEPT ![i] = TRUE]
    /\ mctxDone' = [mctxDone EXCEPT ![i] = TRUE]
    /\ UNCHANGED <<continuous, pc, err, isMaster, master, faults>>

\* The mastership is lost although the instance is alive.
Lose(i) ==
    /\ pc[i] # "stopped" /\ master = i
    /\ Fault
    /\ master' = NoOne
    /\ UNCHANGED <<continuous, pc, ctxDone, mctxDone, err, isMaster>>

\* The context of WithMastership notices.
Notice(i) ==
    /\ pc[i] # "stopped" /\ master # i /\ ~mctxDone[i]
    /\ mctxDone' = [mctxDone EXCEPT ![i] = TRUE]
    /\ UNCHANGED <<continuous, pc, ctxDone, err, isMaster, master, faults>>

\* The process dies, and takes its metrics along.
Crash(i) ==
    /\ pc[i] # "stopped"
    /\ Fault
    /\ ctxDone' = [ctxDone EXCEPT ![i] = TRUE]
    /\ mctxDone' = [mctxDone EXCEPT ![i] = TRUE]
    /\ Goto(i, "stopped")
    /\ Gauge(i, 0)
    /\ UNCHANGED <<continuous, err, master>>

\* The lease of an instance that does not campaign any more runs out.
Expire(i) ==
    /\ pc[i] \in {"start", "returned", "stopped"} /\ master = i
    /\ master' = NoOne
    /\ UNCHANGED <<continuous, pc, ctxDone, mctxDone, err, isMaster, faults>>

Step(i) ==
    \/ NewElection(i) \/ Await(i) \/ WithMastership(i)
    \/ RunAgain(i) \/ RunEnds(i) \/ AfterRun(i) \/ Resign(i) \/ Close(i) \/ Restart(i)

Next == \E i \in Instances :
    \/ Step(i) \/ RunFails(i)
    \/ Cancel(i) \/ Lose(i) \/ Notice(i) \/ Crash(i) \/ Expire(i)

\* Goroutines are scheduled, calls with a done context return, Run returns
\* when its context is done (Migrates of Migrillian), leases run out, and the
\* watch behind WithMastership gets its event.
Fairness ==
    \A i \in Instances : WF_vars(Step(i)) /\ WF_vars(Notice(i)) /\ WF_vars(Expire(i))

Spec == Init /\ [][Next]_vars /\ Fairness

----------------------------------------------------------------------------
(***************************************************************************)
(* Properties.                                                             *)
(***************************************************************************)
Migrating(i) == pc[i] = "run" /\ master = i /\ ~mctxDone[i]

\* A continuous migration goes on for ever: as long as an instance is left,
\* again and again one of them is the master and runs, whatever elections,
\* leases, Runs and resignations have failed in between (controller.go:134).
MigrationResumes ==
    continuous =>
        []<>(\E i \in Instances : Migrating(i)) \/ <>[](\A i \in Instances : ctxDone[i])

\* An instance that is told to stop, or dies, ends and does not keep the
\* tree: 'Releases mastership when terminates' (controller.go:153).
StopReleases ==
    \A i \in Instances : ctxDone[i] ~> (pc[i] = "stopped" /\ master # i)
============================================================================
