------------------------------ MODULE Fetcher ------------------------------
(***************************************************************************)
(* The Fetcher of scanner/fetcher.go: it reads a range of a CT Log with    *)
(* several workers.  A generator goroutine cuts [StartIndex, EndIndex)     *)
(* into batches and hands them out over an unbuffered channel; a worker    *)
(* asks the Log for its batch until it has all of it, for a Log may return *)
(* fewer entries than it was asked for, and passes what it gets to the     *)
(* callback.  In Continuous mode the generator waits for a bigger STH when *)
(* it has reached the end.                                                 *)
(*                                                                         *)
(* The Log only grows, and answers a request for entries it has with at    *)
(* least one and at most the number of entries asked for.                  *)
(***************************************************************************)
EXTENDS Integers, FiniteSets

CONSTANTS
    Workers,        \* the goroutines running runWorker (ParallelFetch of them)
    BatchSize,      \* FetcherOptions.BatchSize
    Modes,          \* the values of FetcherOptions.Continuous
    StartIndex,     \* FetcherOptions.StartIndex, as the caller set it
    EndIndex,       \* FetcherOptions.EndIndex, as the caller set it
    MaxTreeSize     \* bound on the size of the Log

ASSUME BatchAssumption == BatchSize \in Nat \ {0}
ASSUME TreeSizeAssumption == MaxTreeSize \in Nat
ASSUME RangeAssumption == StartIndex \in 0..MaxTreeSize /\ EndIndex \in Nat
ASSUME ModesAssumption == Modes \subseteq BOOLEAN
ASSUME WorkersAssumption == Workers # {}

VARIABLES
    treeSize,   \* size of the Log, which GetSTH reports
    ctxDone,    \* the context passed to Run is done
    \* Fetcher
    sth,        \* tree size in f.sth; -1 for nil
    optsStart,  \* f.opts.StartIndex
    optsEnd,    \* f.opts.EndIndex
    continuous, \* f.opts.Continuous
    cancelSet,  \* f.cancel is the cancel function of this Run
    \* Run
    run,        \* where Run is
    cctxDone,   \* the generator's context is cancelled by itself
    \* genRanges
    gen, start, end,
    \* runWorker: where each worker is, its range r and the entries it received
    pc, rStart, rEnd, got,
    \* history
    delivered,  \* how often the callback was given each index
    stopCalled  \* Stop was called while Run was active

callVars == <<cancelSet, run, stopCalled>>
optsVars == <<sth, optsStart, optsEnd, continuous>>
genVars  == <<gen, start, end>>
workVars == <<pc, rStart, rEnd, got, delivered>>
vars == <<treeSize, ctxDone, optsVars, callVars, cctxDone, genVars, workVars>>

Indices == 0..(MaxTreeSize - 1)

\* The generator's context is derived from the one of Run.
GenDone == ctxDone \/ cctxDone

TypeOK ==
    /\ treeSize \in 0..MaxTreeSize
    /\ ctxDone \in BOOLEAN
    /\ sth \in Int
    /\ optsStart \in 0..MaxTreeSize
    /\ optsEnd \in Nat
    /\ continuous \in BOOLEAN
    /\ cancelSet \in BOOLEAN
    /\ run \in {"idle", "prepare", "start", "running", "returned", "failed"}
    /\ cctxDone \in BOOLEAN
    /\ gen \in {"none", "loop", "update", "send", "closed"}
    /\ start \in 0..MaxTreeSize /\ end \in 0..MaxTreeSize
    /\ pc \in [Workers -> {"none", "recv", "check", "get", "deliver", "done"}]
    /\ rStart \in [Workers -> 0..MaxTreeSize]
    /\ rEnd \in [Workers -> Int]
    /\ got \in [Workers -> 0..BatchSize]
    /\ delivered \in [Indices -> Nat]
    /\ stopCalled \in BOOLEAN

\* NewFetcher
Init ==
    /\ treeSize \in 0..MaxTreeSize
    /\ ctxDone = FALSE
    /\ sth = -1
    /\ optsStart = StartIndex
    /\ optsEnd = EndIndex
    /\ continuous \in Modes
    /\ cancelSet = FALSE
    /\ run = "idle"
    /\ cctxDone = FALSE
    /\ gen = "none" /\ start = 0 /\ end = 0
    /\ pc = [w \in Workers |-> "none"]
    /\ rStart = [w \in Workers |-> 0]
    /\ rEnd = [w \in Workers |-> 0]
    /\ got = [w \in Workers |-> 0]
    /\ delivered = [i \in Indices |-> 0]
    /\ stopCalled = FALSE

---------------------------------------------------------------------------
(* The Log, and the caller of Run.                                         *)

LogGrows ==
    /\ treeSize < MaxTreeSize
    /\ treeSize' \in (treeSize + 1)..MaxTreeSize
    /\ UNCHANGED <<ctxDone, optsVars, callVars, cctxDone, genVars, workVars>>

CancelContext ==
    /\ ~ctxDone
    /\ ctxDone' = TRUE
    /\ UNCHANGED <<treeSize, optsVars, callVars, cctxDone, genVars, workVars>>

\* Stop.  Until Run has stored its cancel function, f.cancel does nothing.
Stop ==
    /\ stopCalled' = (stopCalled \/ run \in {"prepare", "start", "running"})
    /\ cctxDone' = (cctxDone \/ cancelSet)
    /\ UNCHANGED <<treeSize, ctxDone, optsVars, cancelSet, run, genVars, workVars>>

---------------------------------------------------------------------------
(* Run and Prepare.                                                        *)

Invoke ==
    /\ run = "idle"
    /\ run' = "prepare"
    /\ UNCHANGED <<treeSize, ctxDone, optsVars, cancelSet, stopCalled, cctxDone, genVars, workVars>>

\* Prepare caches the Log's STH, if not present, and fits the range to it.
ReadSTH ==
    \/ /\ sth >= 0
       /\ UNCHANGED optsVars
    \/ /\ sth < 0
       /\ sth' = treeSize
       /\ optsEnd' = IF optsEnd = 0 \/ optsEnd > treeSize THEN treeSize ELSE optsEnd
       /\ UNCHANGED <<optsStart, continuous>>

PrepareOK ==
    /\ run = "prepare"
    /\ run' = "start"
    /\ ReadSTH
    /\ UNCHANGED <<treeSize, ctxDone, cancelSet, stopCalled, cctxDone, genVars, workVars>>

\* GetSTH failed.
PrepareFails ==
    /\ run = "prepare"
    /\ sth < 0
    /\ run' = "failed"
    /\ UNCHANGED <<treeSize, ctxDone, optsVars, cancelSet, stopCalled, cctxDone, genVars, workVars>>

\* Run stores cancel, starts the generator and the workers.
Start ==
    /\ run = "start"
    /\ run' = "running"
    /\ cancelSet' = TRUE
    /\ gen' = "loop" /\ start' = optsStart /\ end' = optsEnd
    /\ pc' = [w \in Workers |-> "recv"]
    /\ UNCHANGED <<treeSize, ctxDone, optsVars, stopCalled, cctxDone, rStart, rEnd, got, delivered>>

\* wg.Wait is over; the deferred cancel ends the generator's context.
Finish ==
    /\ run = "running"
    /\ \A w \in Workers : pc[w] = "done"
    /\ run' = "returned"
    /\ cctxDone' = TRUE
    /\ UNCHANGED <<treeSize, ctxDone, optsVars, cancelSet, stopCalled, genVars, workVars>>

---------------------------------------------------------------------------
(* genRanges and updateSTH.                                                *)

\* The condition of the loop.
MoreToSendMutant == start + BatchSize <= end \/ continuous
MoreToSend == start < end \/ continuous

\* The head of the loop.
GenLoop ==
    /\ gen = "loop"
    /\ gen' = IF ~MoreToSend THEN "closed"
              ELSE IF start = end THEN "update" ELSE "send"
    /\ UNCHANGED <<treeSize, ctxDone, optsVars, callVars, cctxDone, start, end, workVars>>

\* The test of an STH in updateSTH: until quickDeadline the tree must have grown by
\* a whole batch, later by any number of entries.
BigEnoughMutant(quick) == treeSize >= optsEnd + BatchSize
BigEnough(quick) ==
    /\ treeSize > optsEnd
    /\ quick => treeSize >= optsEnd + BatchSize

\* updateSTH, once it sees a tree that is big enough.
UpdateSTH(quick) ==
    /\ gen = "update"
    /\ BigEnough(quick)
    /\ gen' = "send"
    /\ sth' = treeSize
    /\ optsEnd' = treeSize
    /\ end' = treeSize
    /\ UNCHANGED <<treeSize, ctxDone, optsStart, continuous, callVars, cctxDone, start, workVars>>

\* Retry gives up: GetSTH failed (only RetriableErrors are retried), or the context
\* is done.
UpdateFails ==
    /\ gen = "update"
    /\ gen' = "closed"
    /\ UNCHANGED <<treeSize, ctxDone, optsVars, callVars, cctxDone, start, end, workVars>>

Least(a, b) == IF a < b THEN a ELSE b

BatchEnd == start + Least(end - start, BatchSize)

\* fetchRange.end is inclusive; the next range starts after it.
LastOfBatch == BatchEnd - 1
NextStartMutant == IF BatchEnd < end THEN LastOfBatch ELSE BatchEnd
NextStart == BatchEnd

\* case ranges <- next: the channel is unbuffered, so worker w receives it.
SendRange(w) ==
    /\ gen = "send"
    /\ pc[w] = "recv"
    /\ pc' = [pc EXCEPT ![w] = "check"]
    /\ rStart' = [rStart EXCEPT ![w] = start]
    /\ rEnd' = [rEnd EXCEPT ![w] = LastOfBatch]
    /\ start' = NextStart
    /\ gen' = "loop"
    /\ UNCHANGED <<treeSize, ctxDone, optsVars, callVars, cctxDone, end, got, delivered>>

\* case <-ctx.Done()
GenCancelled ==
    /\ gen = "send"
    /\ GenDone
    /\ gen' = "closed"
    /\ UNCHANGED <<treeSize, ctxDone, optsVars, callVars, cctxDone, start, end, workVars>>

---------------------------------------------------------------------------
(* runWorker.                                                              *)

\* The channel is closed.
NoMoreRanges(w) ==
    /\ pc[w] = "recv"
    /\ gen = "closed"
    /\ pc' = [pc EXCEPT ![w] = "done"]
    /\ UNCHANGED <<treeSize, ctxDone, optsVars, callVars, cctxDone, genVars, rStart, rEnd, got, delivered>>

\* The inner loop: for r.start <= r.end, and the check of ctx.
RangeDone(w) == rStart[w] > rEnd[w]

CheckRange(w) ==
    /\ pc[w] = "check"
    /\ pc' = [pc EXCEPT ![w] = IF RangeDone(w) THEN "recv" ELSE IF ctxDone THEN "done" ELSE "get"]
    /\ UNCHANGED <<treeSize, ctxDone, optsVars, callVars, cctxDone, genVars, rStart, rEnd, got, delivered>>

\* GetRawEntries returned n entries, possibly fewer than requested.
GetOK(w, n) ==
    /\ pc[w] = "get"
    /\ n \in 1..(rEnd[w] - rStart[w] + 1)
    /\ rStart[w] + n <= treeSize
    /\ pc' = [pc EXCEPT ![w] = "deliver"]
    /\ got' = [got EXCEPT ![w] = n]
    /\ UNCHANGED <<treeSize, ctxDone, optsVars, callVars, cctxDone, genVars, rStart, rEnd, delivered>>

\* It failed, or ctx is done: try again.
GetFails(w) ==
    /\ pc[w] = "get"
    /\ pc' = [pc EXCEPT ![w] = "check"]
    /\ UNCHANGED <<treeSize, ctxDone, optsVars, callVars, cctxDone, genVars, rStart, rEnd, got, delivered>>

\* fn(EntryBatch{...}), and r.start moves past the entries received.
AdvanceMutant(w) == rEnd[w] + 1
Advance(w) == rStart[w] + got[w]
Callback(w) ==
    /\ pc[w] = "deliver"
    /\ pc' = [pc EXCEPT ![w] = "check"]
    /\ delivered' = [i \in Indices |->
                        IF rStart[w] <= i /\ i < rStart[w] + got[w] THEN delivered[i] + 1
                        ELSE delivered[i]]
    /\ rStart' = [rStart EXCEPT ![w] = Advance(w)]
    /\ UNCHANGED <<treeSize, ctxDone, optsVars, callVars, cctxDone, genVars, rEnd, got>>

---------------------------------------------------------------------------
RunStep == PrepareOK \/ PrepareFails \/ Start \/ Finish

GenStep ==
    \/ GenLoop
    \/ \E quick \in BOOLEAN : UpdateSTH(quick)
    \/ UpdateFails
    \/ \E w \in Workers : SendRange(w)
    \/ GenCancelled

WorkerStep(w) ==
    \/ NoMoreRanges(w)
    \/ CheckRange(w)
    \/ \E n \in 1..BatchSize : GetOK(w, n)
    \/ GetFails(w)
    \/ Callback(w)

Next ==
    \/ LogGrows \/ CancelContext \/ Stop
    \/ Invoke \/ RunStep
    \/ GenStep
    \/ \E w \in Workers : WorkerStep(w)

\* Every goroutine runs; a Log that is asked again and again answers at some
\* time; quickDeadline passes; a context that is done ends the wait for an STH.
\* GetSTH need not fail, the Log need not grow and nobody need call Stop.
Fairness ==
    /\ WF_vars(Invoke) /\ WF_vars(RunStep)
    /\ WF_vars(GenLoop \/ GenCancelled)
    /\ \A w \in Workers : WF_vars(SendRange(w))
    /\ WF_vars(UpdateSTH(FALSE))
    /\ WF_vars(GenDone /\ UpdateFails)
    /\ \A w \in Workers :
        /\ WF_vars(NoMoreRanges(w) \/ CheckRange(w) \/ Callback(w))
        /\ WF_vars(ctxDone /\ GetFails(w))
        /\ SF_vars(\E n \in 1..BatchSize : GetOK(w, n))

Spec == Init /\ [][Next]_vars /\ Fairness

---------------------------------------------------------------------------
(* Properties.                                                             *)

\* The workers, however their answers are cut and interleaved, never give the
\* callback an index twice.
DeliveredOnce == \A i \in Indices : delivered[i] <= 1

\* What its caller sees of a Fetcher: the steps of the generator, of the workers and of
\* their requests are hidden.
Promise ==
    INSTANCE RangeCopy
        WITH First <- StartIndex, size <- treeSize, limit <- optsEnd, follow <- continuous,
             seen <- {i \in Indices : delivered[i] = 1},
             phase <- IF run \in {"idle", "prepare"} THEN "idle" ELSE IF run \in {"start", "running"} THEN "open" ELSE run,
             stopped <- stopCalled, cancelled <- ctxDone

\* The Fetcher implements RangeCopy: the callback gets entries of the range in batches
\* that never overlap, and a Run that was not cancelled leaves no hole, nor anything out
\* unless it was stopped (fetcher.go:130-132, 168-170).
CopiesRange == Promise!Spec

\* When Run returns and ctx was not cancelled, the callback has seen every index
\* that the generator handed out: nothing a worker was given is lost, be it that
\* the range is complete or that Stop cut it short.
StartedFetchesFinish ==
    run = "returned" /\ ~ctxDone =>
        \A i \in Indices : optsStart <= i /\ i < start => delivered[i] = 1

\* When Run returns without having been cancelled or stopped, and the mode is not
\* Continuous, all of [StartIndex, EndIndex) was delivered.
RunIsComplete ==
    run = "returned" /\ ~ctxDone /\ ~stopCalled /\ ~continuous =>
        \A i \in Indices : optsStart <= i /\ i < optsEnd => delivered[i] = 1

\* Nothing past the EndIndex known at the time is delivered.
WithinEnd == \A i \in Indices : delivered[i] > 0 => i < optsEnd

\* A Run that is not Continuous, or that Stop has found the cancel function of, comes to
\* an end, and so does its generator, which may be waiting for a bigger STH or for a
\* worker.
RunEnds ==
    (~continuous \/ cctxDone) ~> (run = "failed" \/ (run = "returned" /\ gen = "closed"))

\* In Continuous mode every entry the Log comes to have is delivered, unless the
\* fetch is stopped or GetSTH fails.
KeepsUp ==
    \A i \in Indices :
        (treeSize > i /\ i >= optsStart) ~>
            (delivered[i] = 1 \/ ctxDone \/ gen = "closed" \/ run = "failed")

\* A Run gets on: it ends when it should, and delivers what there is until then
\* (fetcher.go:133, 180).
RunGetsOn == RunEnds /\ KeepsUp
=============================================================================
