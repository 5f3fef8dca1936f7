---------------------------- MODULE Migrillian ----------------------------
(***************************************************************************)
(* The migration Controller of trillian/migrillian/core: it copies a CT    *)
(* Log into a pre-ordered Trillian log.  Controller.Run calls fetchTail    *)
(* again and again; every fetchTail runs a new Fetcher (module Fetcher)    *)
(* whose callback puts batches into a channel, and submitters that take    *)
(* them out and send them to Trillian.  The first submitter that fails     *)
(* cancels the context that all of them share.                             *)
(*                                                                         *)
(* Trillian keeps the leaves it accepts in any order and integrates them   *)
(* in the order of their indices; its root tells how many are integrated.  *)
(* The Controller keeps its position in memory only: after an error, the   *)
(* loss of mastership or a crash it starts from Trillian's root again.     *)
(***************************************************************************)
EXTENDS Integers, Sequences, FiniteSets

CONSTANTS
    Workers, BatchSize, MaxTreeSize,    \* of the Fetcher
    Submitters,             \* goroutines running runSubmitter
    ChannelSize,            \* capacity of the channel batches
    Modes,                  \* the values of Options.Continuous
    NoConsistencyCheck,     \* Options.NoConsistencyCheck
    FromIndex, ToIndex      \* Options.StartIndex (-1: from the root) and EndIndex

ASSUME FetcherAssumption == BatchSize \in Nat \ {0} /\ MaxTreeSize \in Nat /\ Workers # {}
\* A configuration without submitters gets one.
ASSUME SubmittersAssumption == Submitters # {}
ASSUME ModesAssumption == Modes \subseteq BOOLEAN
ASSUME ChannelAssumption == ChannelSize \in Nat
ASSUME FromAssumption == FromIndex \in -1..MaxTreeSize /\ ToIndex \in Nat

VARIABLES
    \* the Fetcher of the current fetchTail; its context is cctx
    treeSize, ctxDone, sth, optsStart, optsEnd, continuous, cancelSet, run, cctxDone,
    gen, start, end, pc, rStart, rEnd, got, delivered, stopCalled,
    \* Trillian
    stored,     \* indices of the leaves accepted
    root,       \* tree size of the latest signed root
    \* Run and fetchTail
    isContinuous,   \* c.opts.Continuous
    mctxDone,   \* the context of Run is done: mastership or process is ending
    ctl,        \* where the Controller is
    pos,        \* pos of Run, begin of fetchTail
    first,      \* no fetchTail of this Run has returned yet
    rootSize,   \* treeSize of fetchTail: the root it read
    outcome,    \* what Run returned
    batches, closed,    \* the channel
    \* runSubmitter: where each submitter is, and the batch it has
    spc, batch,
    \* history
    submitted,  \* indices submitted in this Run
    repeated    \* an index was submitted twice in one Run

fetchVars == <<ctxDone, sth, optsStart, optsEnd, continuous, cancelSet, run, cctxDone,
               gen, start, end, pc, rStart, rEnd, got, delivered, stopCalled>>
trillianVars == <<stored, root>>
runVars == <<isContinuous, mctxDone, ctl, pos, first, rootSize, outcome>>
submitVars == <<spc, batch, submitted, repeated>>
chanVars == <<batches, closed>>
vars == <<treeSize, fetchVars, trillianVars, runVars, submitVars, chanVars>>

\* fetchTail always uses a Fetcher that is not continuous.
F == INSTANCE Fetcher WITH Modes <- {FALSE}, StartIndex <- 0, EndIndex <- 0

Indices == 0..(MaxTreeSize - 1)
NoBatch == [first |-> 0, len |-> 0]

\* The leaves of a batch: Start + i for its i-th entry.
BatchIndices(b) == b.first..(b.first + b.len - 1)

TypeOK ==
    /\ F!TypeOK
    /\ stored \subseteq Indices
    /\ root \in 0..MaxTreeSize
    /\ isContinuous \in BOOLEAN
    /\ mctxDone \in BOOLEAN
    /\ ctl \in {"begin", "prepare", "verify", "fetch", "wait", "ended"}
    /\ pos \in 0..MaxTreeSize
    /\ first \in BOOLEAN
    /\ rootSize \in 0..MaxTreeSize
    /\ outcome \in {"none", "ok", "err"}
    /\ batches \in Seq([first : Nat, len : Nat]) /\ Len(batches) <= ChannelSize
    /\ closed \in BOOLEAN
    /\ spc \in [Submitters -> {"none", "recv", "add", "done"}]
    /\ batch \in [Submitters -> [first : Nat, len : Nat]]
    /\ submitted \subseteq Indices
    /\ repeated \in BOOLEAN

Init ==
    /\ F!Init
    /\ stored = {} /\ root = 0
    /\ isContinuous \in Modes
    /\ mctxDone = FALSE
    /\ ctl = "begin" /\ pos = 0 /\ first = TRUE /\ rootSize = 0 /\ outcome = "none"
    /\ batches = <<>> /\ closed = FALSE
    /\ spc = [s \in Submitters |-> "none"]
    /\ batch = [s \in Submitters |-> NoBatch]
    /\ submitted = {} /\ repeated = FALSE

---------------------------------------------------------------------------
(* The environment: the source Log, Trillian's sequencer, and the end of   *)
(* mastership, which cancels every context derived from mctx.              *)

LogGrows ==
    /\ F!LogGrows
    /\ UNCHANGED <<trillianVars, runVars, submitVars, chanVars>>

Integrate ==
    /\ root \in stored
    /\ root' = root + 1
    /\ UNCHANGED <<treeSize, fetchVars, stored, runVars, submitVars, chanVars>>

LoseMastership ==
    /\ ctl # "ended"
    /\ mctxDone' = TRUE
    /\ ctxDone' = TRUE
    /\ UNCHANGED <<isContinuous, treeSize, sth, optsStart, optsEnd, continuous, cancelSet,
                   run, cctxDone, gen, start, end,
                   pc, rStart, rEnd, got, delivered, stopCalled, trillianVars,
                   ctl, pos, first, rootSize, outcome, submitVars, chanVars>>

---------------------------------------------------------------------------
(* Run and fetchTail.                                                      *)

RunReturns(res) ==
    /\ ctl' = "ended"
    /\ outcome' = res

\* The range of the Fetcher: from Trillian's root in continuous mode and if no start
\* is given, and never before begin.
FirstIndex ==
    LET from == IF isContinuous \/ FromIndex < 0 THEN root ELSE FromIndex
    IN  IF pos > from THEN pos ELSE from

\* NewFetcher
NewFetcher(from, to) ==
    /\ optsStart' = from /\ optsEnd' = to /\ continuous' = FALSE
    /\ sth' = -1 /\ cancelSet' = FALSE /\ stopCalled' = FALSE
    /\ run' = "idle" /\ cctxDone' = FALSE
    /\ gen' = "none" /\ start' = 0 /\ end' = 0
    /\ pc' = [w \in Workers |-> "none"]
    /\ rStart' = [w \in Workers |-> 0] /\ rEnd' = [w \in Workers |-> 0]
    /\ got' = [w \in Workers |-> 0]
    /\ delivered' = [i \in Indices |-> 0]

\* getRoot, and a new Fetcher.
GetRoot ==
    /\ ctl = "begin"
    /\ ctl' = "prepare"
    /\ rootSize' = root
    /\ NewFetcher(FirstIndex, IF isContinuous THEN 0 ELSE ToIndex)
    /\ ctxDone' = mctxDone
    /\ UNCHANGED <<isContinuous, treeSize, trillianVars, mctxDone, pos, first, outcome,
                   submitVars, chanVars>>

\* Prepare succeeded.  A tree no bigger than begin ends fetchTail at once.
UpToDate(size) == size <= pos
Prepare ==
    /\ ctl = "prepare"
    /\ F!ReadSTH
    /\ \/ /\ UpToDate(treeSize)
          /\ first' = FALSE
          /\ IF isContinuous THEN ctl' = "begin" /\ UNCHANGED outcome ELSE RunReturns("ok")
       \/ /\ ~UpToDate(treeSize)
          /\ ctl' = "verify"
          /\ UNCHANGED <<first, outcome>>
    /\ UNCHANGED <<isContinuous, treeSize, ctxDone, cancelSet, run, cctxDone, gen, start,
                   end, pc, rStart, rEnd,
                   got, delivered, stopCalled, trillianVars, mctxDone, pos, rootSize,
                   submitVars, chanVars>>

\* verifyConsistency succeeded: start the submitters, call Fetcher.Run.
Verify ==
    /\ ctl = "verify"
    /\ ctl' = "fetch"
    /\ run' = "prepare"
    /\ spc' = [s \in Submitters |-> "recv"]
    /\ batches' = <<>> /\ closed' = FALSE
    /\ UNCHANGED <<isContinuous, treeSize, ctxDone, sth, optsStart, optsEnd, continuous,
                   cancelSet, cctxDone, gen, start, end,
                   pc, rStart, rEnd, got, delivered, stopCalled, trillianVars, mctxDone, pos,
                   first, rootSize, outcome, batch, submitted, repeated>>

\* getRoot, Prepare or verifyConsistency fails; with an empty root or
\* NoConsistencyCheck there is nothing to verify.
TailFails ==
    /\ ctl \in {"begin", "prepare", "verify"}
    /\ ctl = "verify" => rootSize > 0 /\ ~NoConsistencyCheck
    /\ RunReturns("err")
    /\ UNCHANGED <<isContinuous, treeSize, fetchVars, trillianVars, mctxDone, pos, first,
                   rootSize, submitVars, chanVars>>

\* Steps of Fetcher.Run and its generator, which has its STH and never waits for
\* another, and of its workers, but for the callback.
InFetcher(A) ==
    /\ ctl = "fetch"
    /\ A
    /\ UNCHANGED <<trillianVars, runVars, submitVars, chanVars>>

FetcherRun == InFetcher(F!PrepareOK \/ F!Start \/ F!Finish)
FetcherGen == InFetcher(F!GenLoop \/ F!GenCancelled \/ \E w \in Workers : F!SendRange(w))
FetcherMove(w) == InFetcher(F!NoMoreRanges(w) \/ F!CheckRange(w))
FetcherGet(w) == InFetcher(\E n \in 1..BatchSize : F!GetOK(w, n))
FetcherRetry(w) == InFetcher(F!GetFails(w))

\* The channel has a buffer of ChannelSize batches.
HasRoom == Len(batches) < ChannelSize

\* handler: case batches <- b, into the buffer or straight to a waiting submitter.
HandlerSends(w) ==
    LET b == [first |-> rStart[w], len |-> got[w]] IN
    /\ F!Callback(w)
    /\ \/ /\ HasRoom
          /\ batches' = Append(batches, b)
          /\ UNCHANGED <<spc, batch>>
       \/ /\ batches = <<>>
          /\ UNCHANGED batches
          /\ \E s \in Submitters :
                /\ spc[s] = "recv"
                /\ spc' = [spc EXCEPT ![s] = "add"]
                /\ batch' = [batch EXCEPT ![s] = b]
    /\ UNCHANGED <<trillianVars, runVars, closed, submitted, repeated>>

\* handler: case <-cctx.Done(), the batch is dropped.
HandlerDropsMutant(w) == FALSE
HandlerDrops(w) ==
    /\ ctxDone
    /\ F!Callback(w)
    /\ UNCHANGED <<trillianVars, runVars, submitVars, chanVars>>

\* Fetcher.Run returned: close(batches).
CloseBatches ==
    /\ ctl = "fetch"
    /\ run = "returned"
    /\ closed' = TRUE
    /\ ctl' = "wait"
    /\ UNCHANGED <<isContinuous, treeSize, fetchVars, trillianVars, mctxDone, pos, first,
                   rootSize, outcome, submitVars, batches>>

\* fetchTail returns an error if cctx was cancelled: "Run may have returned nil
\* despite a cancel() call".
TailIsWhole == ~ctxDone

\* What a successful fetchTail returns: the size of the tree it has copied.
NextPosMutant == treeSize
NextPos == sth

\* wg.Wait is over.
TailReturns ==
    /\ ctl = "wait"
    /\ \A s \in Submitters : spc[s] = "done"
    /\ \/ /\ TailIsWhole
          /\ pos' = NextPos
          /\ first' = FALSE
          /\ IF isContinuous THEN ctl' = "begin" /\ UNCHANGED outcome ELSE RunReturns("ok")
       \/ /\ ~TailIsWhole
          /\ RunReturns("err")
          /\ UNCHANGED <<pos, first>>
    /\ UNCHANGED <<isContinuous, treeSize, fetchVars, trillianVars, mctxDone, rootSize,
                   submitVars, chanVars>>

\* StopAfter has passed: Run returns nil before the next fetchTail.
StopAfter ==
    /\ ctl = "begin"
    /\ ~first
    /\ RunReturns("ok")
    /\ UNCHANGED <<isContinuous, treeSize, fetchVars, trillianVars, mctxDone, pos, first,
                   rootSize, submitVars, chanVars>>

\* The state that a new Run has.
NewRun ==
    /\ pos' = 0 /\ first' = TRUE /\ mctxDone' = FALSE
    /\ submitted' = {} /\ repeated' = FALSE
    /\ spc' = [s \in Submitters |-> "none"]
    /\ batch' = [s \in Submitters |-> NoBatch]
    /\ batches' = <<>> /\ closed' = FALSE

\* runWithRestarts, or another election, or another process after a crash.
Restart ==
    /\ ctl = "ended"
    /\ ctl' = "begin" /\ outcome' = "none"
    /\ NewRun
    /\ UNCHANGED <<isContinuous, treeSize, fetchVars, trillianVars, rootSize>>

\* The process dies, at any time, and its memory is lost.
Crash ==
    /\ ctl # "ended"
    /\ RunReturns("err")
    /\ NewFetcher(0, 0)
    /\ NewRun
    /\ ctxDone' = FALSE /\ rootSize' = 0
    /\ UNCHANGED <<isContinuous, treeSize, trillianVars>>

---------------------------------------------------------------------------
(* runSubmitter and addSequencedLeaves.                                    *)

Submitting == ctl \in {"fetch", "wait"}

Receive(s) ==
    /\ Submitting
    /\ spc[s] = "recv"
    /\ batches # <<>>
    /\ spc' = [spc EXCEPT ![s] = "add"]
    /\ batch' = [batch EXCEPT ![s] = Head(batches)]
    /\ batches' = Tail(batches)
    /\ UNCHANGED <<treeSize, fetchVars, trillianVars, runVars, closed, submitted, repeated>>

\* The channel is closed and drained.
NoMoreBatches(s) ==
    /\ Submitting
    /\ spc[s] = "recv"
    /\ closed /\ batches = <<>>
    /\ spc' = [spc EXCEPT ![s] = "done"]
    /\ UNCHANGED <<treeSize, fetchVars, trillianVars, runVars, chanVars, batch, submitted,
                   repeated>>

Submits(s) ==
    /\ submitted' = submitted \cup BatchIndices(batch[s])
    /\ repeated' = (repeated \/ BatchIndices(batch[s]) \cap submitted # {})

\* Trillian accepts the leaves.
AddOK(s) ==
    /\ Submitting
    /\ spc[s] = "add"
    /\ stored' = stored \cup BatchIndices(batch[s])
    /\ Submits(s)
    /\ spc' = [spc EXCEPT ![s] = "recv"]
    /\ batch' = [batch EXCEPT ![s] = NoBatch]
    /\ UNCHANGED <<treeSize, fetchVars, root, runVars, chanVars>>

\* The context is done before the first attempt: Retry does not call its function, err
\* keeps its zero value, and the batch counts as added.
AddSkipped(s) ==
    /\ Submitting
    /\ spc[s] = "add"
    /\ ctxDone
    /\ spc' = [spc EXCEPT ![s] = "recv"]
    /\ batch' = [batch EXCEPT ![s] = NoBatch]
    /\ UNCHANGED <<treeSize, fetchVars, trillianVars, runVars, chanVars, submitted,
                   repeated>>

\* The request fails for good, having reached Trillian or not; the submitter ends and
\* cancels cctx.
AddFails(s) ==
    /\ Submitting
    /\ spc[s] = "add"
    /\ stored' \in {stored, stored \cup BatchIndices(batch[s])}
    /\ Submits(s)
    /\ spc' = [spc EXCEPT ![s] = "done"]
    /\ ctxDone' = TRUE
    /\ batch' = [batch EXCEPT ![s] = NoBatch]
    /\ UNCHANGED <<treeSize, sth, optsStart, optsEnd, continuous, cancelSet, run, cctxDone,
                   gen, start, end, pc,
                   rStart, rEnd, got, delivered, stopCalled, root, runVars, chanVars>>

---------------------------------------------------------------------------
Handler(w) == ctl = "fetch" /\ (HandlerSends(w) \/ HandlerDrops(w))

TailStep == GetRoot \/ Prepare \/ Verify \/ CloseBatches \/ TailReturns

SubmitterStep(s) ==
    Receive(s) \/ NoMoreBatches(s) \/ AddOK(s) \/ AddSkipped(s) \/ AddFails(s)

Next ==
    \/ LogGrows \/ Integrate \/ LoseMastership \/ Crash
    \/ TailStep \/ TailFails \/ StopAfter \/ Restart
    \/ FetcherRun \/ FetcherGen
    \/ \E w \in Workers : FetcherMove(w) \/ FetcherGet(w) \/ FetcherRetry(w)
    \/ \E w \in Workers : Handler(w)
    \/ \E s \in Submitters : SubmitterStep(s)

\* Every goroutine runs, requests to Trillian come back, and the source Log answers
\* a worker that asks again and again.
Fairness ==
    /\ WF_vars(TailStep) /\ WF_vars(Restart)
    /\ WF_vars(FetcherRun) /\ WF_vars(FetcherGen)
    /\ \A w \in Workers :
        /\ WF_vars(Handler(w)) /\ WF_vars(FetcherMove(w))
        /\ WF_vars(ctxDone /\ FetcherRetry(w))
        /\ SF_vars(FetcherGet(w))
    /\ \A s \in Submitters : WF_vars(SubmitterStep(s))

Spec == Init /\ [][Next]_vars /\ Fairness

---------------------------------------------------------------------------
(* Properties.                                                             *)

\* What a Run has put behind itself: the entries below the position of a continuous one,
\* the whole range of one that has reported success.
Claimed ==
    IF isContinuous THEN 0..(pos - 1)
    ELSE IF outcome = "ok" /\ run = "returned" THEN optsStart..(optsEnd - 1) ELSE {}

\* A Run claims no entry that Trillian does not have: no batch is lost between the
\* Fetcher, the channel, the submitters and Trillian, whichever of them fails
\* (controller.go:330).
NoGaps == Claimed \cap Indices \subseteq stored

\* One Run never submits an entry twice, although Trillian's root lags behind.
NoResubmission == ~repeated

\* One Run transfers every entry it claims, and transfers it once (controller.go:264, 228).
TransfersOnce == NoGaps /\ NoResubmission

\* Every entry of the source Log comes to Trillian unless the Run ends, and no Run hangs
\* instead: whichever submitters have stopped, the handler does not stay blocked on the
\* channel and fetchTail returns (controller.go:293).
Migrates == \A i \in Indices : (treeSize > i) ~> (i \in stored \/ ctl = "ended")
=============================================================================
