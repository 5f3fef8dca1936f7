--------------------------- MODULE FetcherProofs ---------------------------
(***************************************************************************)
(* Proofs about the Fetcher, for any number of workers, any batch size and *)
(* any range.                                                              *)
(*                                                                         *)
(* The argument: the indices below the generator's position are split into *)
(* those delivered and those some worker still has in its range; the       *)
(* ranges of two workers are disjoint, and an abandoned range means that   *)
(* the context is done.  From this it follows that the Fetcher implements  *)
(* its abstract specification, RangeCopy.                                  *)
(***************************************************************************)
EXTENDS Fetcher, TLAPS

\* Index i is in the range that worker w is working on.
Pending(w, i) == pc[w] \in {"check", "get", "deliver"} /\ rStart[w] <= i /\ i <= rEnd[w]

\* What the phases of Run and of the generator say of the rest of the state.
Phases ==
    /\ run \notin {"running", "returned"} =>
        /\ gen = "none"
        /\ ~cctxDone
        /\ ~cancelSet
        /\ \A w \in Workers : pc[w] = "none"
        /\ \A i \in Indices : delivered[i] = 0
    /\ run \in {"start", "running", "returned"} => sth >= 0
    /\ sth >= 0 => optsEnd <= MaxTreeSize
    /\ run \in {"running", "returned"} => gen # "none" /\ end = optsEnd
    /\ \A w \in Workers : pc[w] = "none" => run \notin {"running", "returned"}
    /\ run = "returned" => \A w \in Workers : pc[w] = "done"
    /\ run = "running" /\ cctxDone => stopCalled
    /\ gen = "update" => continuous

\* A pending or delivered index lies behind the generator and is either the one or
\* the other.
Disjoint ==
    /\ \A i \in Indices : delivered[i] <= 1 /\ (delivered[i] = 1 => i < start /\ i < end)
    /\ \A w \in Workers : \A i \in Indices :
        Pending(w, i) => i < start /\ i < end /\ delivered[i] = 0
    /\ \A v, w \in Workers : v # w => \A i \in Indices : ~(Pending(v, i) /\ Pending(w, i))
    /\ \A w \in Workers : pc[w] = "deliver" =>
        got[w] >= 1 /\ rStart[w] + got[w] <= rEnd[w] + 1 /\ rStart[w] + got[w] <= MaxTreeSize

\* Nothing that the generator handed out is forgotten.
Covered ==
    ~ctxDone =>
        /\ run \in {"running", "returned"} =>
            \A i \in Indices : optsStart <= i /\ i < start =>
                delivered[i] = 1 \/ \E w \in Workers : Pending(w, i)
        /\ \A w \in Workers : pc[w] = "done" => gen = "closed"
        /\ gen = "closed" /\ ~stopCalled /\ ~continuous => start >= end

IndInv == TypeOK /\ Phases /\ Disjoint /\ Covered

\* A Run that is not Continuous only ever moves forward from its StartIndex.  (One that
\* is Continuous goes back to the end of the Log if it was started past it.)
AboveStart ==
    ~continuous =>
        /\ gen = "send" => start < end
        /\ run \in {"running", "returned"} => start >= optsStart
        /\ \A w \in Workers : pc[w] \in {"check", "get", "deliver"} => rStart[w] >= optsStart
        /\ \A i \in Indices : delivered[i] = 1 => i >= optsStart

\* All that the proofs use of the set of indices.
LEMMA IndexRange == \A i \in Indices : i \in Nat /\ i < MaxTreeSize
BY TreeSizeAssumption DEF Indices

USE BatchAssumption, RangeAssumption, TreeSizeAssumption, IndexRange

\* NewFetcher establishes the invariant.
LEMMA InitIndInv == Init => IndInv
<1> SUFFICES ASSUME Init PROVE IndInv
  OBVIOUS
<1>1. TypeOK
  <2>1. optsStart \in 0..MaxTreeSize /\ optsEnd \in Nat /\ start \in 0..MaxTreeSize /\ end \in 0..MaxTreeSize
    BY DEF Init
  <2>2. rStart \in [Workers -> 0..MaxTreeSize] /\ rEnd \in [Workers -> Int] /\ got \in [Workers -> 0..BatchSize]
    BY DEF Init
  <2>3. pc \in [Workers -> {"none", "recv", "check", "get", "deliver", "done"}] /\ delivered \in [Indices -> Nat]
    BY DEF Init
  <2>4. /\ treeSize \in 0..MaxTreeSize /\ sth \in Int
        /\ run = "idle" /\ gen = "none"
        /\ ~ctxDone /\ ~cancelSet /\ ~cctxDone /\ ~stopCalled
    BY DEF Init
  <2>5. continuous \in BOOLEAN
    BY ModesAssumption, Zenon DEF Init
  <2>6. ctxDone \in BOOLEAN /\ cancelSet \in BOOLEAN /\ cctxDone \in BOOLEAN /\ stopCalled \in BOOLEAN
    BY Zenon DEF Init
  <2>7. QED
    BY <2>1, <2>2, <2>3, <2>4, <2>5, <2>6 DEF TypeOK
<1>2. Phases
  BY DEF Init, Phases
<1>3. Disjoint
  BY DEF Init, Disjoint, Pending
<1>4. Covered
  BY DEF Init, Covered, Pending
<1>5. QED
  BY <1>1, <1>2, <1>3, <1>4 DEF IndInv

\* The Log, the caller and the steps of Run and of the generator that move no index.
LEMMA OtherSteps ==
    ASSUME IndInv,
           LogGrows \/ CancelContext \/ Stop \/ Invoke \/ PrepareFails \/ Finish
             \/ GenLoop \/ UpdateFails \/ GenCancelled \/ UNCHANGED vars
    PROVE  IndInv'
<1> USE DEF IndInv, vars, callVars, optsVars, genVars, workVars
<1>1. CASE LogGrows
  BY <1>1 DEF LogGrows, TypeOK, Phases, Disjoint, Covered, Pending
<1>2. CASE CancelContext
  BY <1>2 DEF CancelContext, TypeOK, Phases, Disjoint, Covered, Pending
<1>3. CASE Stop
  BY <1>3 DEF Stop, TypeOK, Phases, Disjoint, Covered, Pending
<1>4. CASE Invoke
  BY <1>4 DEF Invoke, TypeOK, Phases, Disjoint, Covered, Pending
<1>5. CASE PrepareFails
  BY <1>5 DEF PrepareFails, TypeOK, Phases, Disjoint, Covered, Pending
<1>6. CASE Finish
  BY <1>6 DEF Finish, TypeOK, Phases, Disjoint, Covered, Pending
<1>7. CASE GenLoop
  BY <1>7 DEF GenLoop, MoreToSend, TypeOK, Phases, Disjoint, Covered, Pending
<1>8. CASE UpdateFails
  BY <1>8 DEF UpdateFails, TypeOK, Phases, Disjoint, Covered, Pending
<1>9. CASE GenCancelled
  <2>1. TypeOK' /\ Phases' /\ Disjoint'
    BY <1>9 DEF GenCancelled, TypeOK, Phases, Disjoint, Pending
  <2>2. Covered'
    BY <1>9, WorkersAssumption DEF GenCancelled, GenDone, TypeOK, Phases, Covered, Pending
  <2>3. QED
    BY <2>1, <2>2
<1>10. CASE UNCHANGED vars
  BY <1>10 DEF TypeOK, Phases, Disjoint, Covered, Pending
<1>11. QED
  BY <1>1, <1>2, <1>3, <1>4, <1>5, <1>6, <1>7, <1>8, <1>9, <1>10

\* Run before it is running, and a new STH.
LEMMA PrepareSteps ==
    ASSUME IndInv, PrepareOK \/ Start \/ \E quick \in BOOLEAN : UpdateSTH(quick)
    PROVE  IndInv'
<1> USE DEF IndInv, callVars, optsVars, genVars, workVars
<1>1. CASE PrepareOK
  BY <1>1 DEF PrepareOK, ReadSTH, TypeOK, Phases, Disjoint, Covered, Pending
<1>2. CASE Start
  BY <1>2 DEF Start, TypeOK, Phases, Disjoint, Covered, Pending
<1>3. CASE \E quick \in BOOLEAN : UpdateSTH(quick)
  BY <1>3 DEF UpdateSTH, BigEnough, TypeOK, Phases, Disjoint, Covered, Pending
<1>4. QED
  BY <1>1, <1>2, <1>3

\* Steps of a worker that deliver nothing.
LEMMA WorkerSteps ==
    ASSUME IndInv, NEW w \in Workers,
           NoMoreRanges(w) \/ CheckRange(w) \/ GetFails(w) \/ \E n \in 1..BatchSize : GetOK(w, n)
    PROVE  IndInv'
<1> USE DEF IndInv, callVars, optsVars, genVars, workVars
<1>1. CASE NoMoreRanges(w)
  BY <1>1 DEF NoMoreRanges, TypeOK, Phases, Disjoint, Covered, Pending
<1>2. CASE CheckRange(w)
  BY <1>2 DEF CheckRange, RangeDone, TypeOK, Phases, Disjoint, Covered, Pending
<1>3. CASE GetFails(w)
  BY <1>3 DEF GetFails, TypeOK, Phases, Disjoint, Covered, Pending
<1>4. CASE \E n \in 1..BatchSize : GetOK(w, n)
  BY <1>4 DEF GetOK, TypeOK, Phases, Disjoint, Covered, Pending
<1>5. QED
  BY <1>1, <1>2, <1>3, <1>4

\* The generator hands a batch to a worker: the new range lies between the old and
\* the new position.
LEMMA SendRangeStep ==
    ASSUME IndInv, NEW w \in Workers, SendRange(w)
    PROVE  IndInv'
<1> USE DEF IndInv, SendRange, callVars, optsVars, genVars, workVars, LastOfBatch, NextStart
<1>1. /\ BatchEnd \in 0..MaxTreeSize
      /\ BatchEnd <= end
      /\ start < end => start < BatchEnd
      /\ start >= end => BatchEnd = end
  BY DEF BatchEnd, Least, TypeOK
<1> HIDE DEF IndInv
<1>2. TypeOK'
  BY <1>1 DEF TypeOK, IndInv
<1>3. Phases'
  BY <1>1 DEF Phases, TypeOK, IndInv
<1>4. \A v \in Workers : \A i \in Indices :
        Pending(v, i)' <=> IF v = w THEN start <= i /\ i < BatchEnd ELSE Pending(v, i)
  BY <1>1 DEF Pending, TypeOK, IndInv
<1>5. Disjoint'
  BY <1>1, <1>4 DEF Disjoint, TypeOK, IndInv, Pending
<1>6. Covered'
  BY <1>1, <1>4 DEF Covered, Phases, TypeOK, IndInv, Pending
<1>7. QED
  BY <1>2, <1>3, <1>5, <1>6 DEF IndInv

\* The callback takes a prefix of the worker's range.
LEMMA CallbackStep ==
    ASSUME IndInv, NEW w \in Workers, Callback(w)
    PROVE  IndInv'
<1> USE DEF Callback, callVars, optsVars, genVars, Advance
<1>1. TypeOK'
  BY DEF TypeOK, IndInv, Disjoint
<1>2. Phases'
  BY DEF Phases, TypeOK, IndInv
<1>3. \A v \in Workers : \A i \in Indices :
        Pending(v, i)' <=> Pending(v, i) /\ (v = w => i >= rStart[w] + got[w])
  BY DEF Pending, TypeOK, IndInv, Disjoint
<1>4. \A i \in Indices :
        /\ rStart[w] <= i /\ i < rStart[w] + got[w] => Pending(w, i) /\ delivered'[i] = 1
        /\ ~(rStart[w] <= i /\ i < rStart[w] + got[w]) => delivered'[i] = delivered[i]
  BY DEF Pending, TypeOK, IndInv, Disjoint
<1>5. Disjoint'
  BY <1>3, <1>4 DEF Disjoint, TypeOK, IndInv
<1>6. Covered'
  BY <1>3, <1>4 DEF Covered, Phases, TypeOK, IndInv, Pending
<1>7. QED
  BY <1>1, <1>2, <1>5, <1>6 DEF IndInv

\* Every step of the Fetcher and of its environment preserves the invariant.
LEMMA NextIndInv == IndInv /\ [Next]_vars => IndInv'
BY OtherSteps, PrepareSteps, WorkerSteps, SendRangeStep, CallbackStep
   DEF Next, RunStep, GenStep, WorkerStep

\* The invariant holds in every behaviour of the Fetcher.
THEOREM IndInvHolds == Spec => []IndInv
BY InitIndInv, NextIndInv, PTL DEF Spec

\* Type correctness: the positions of generator and workers stay within the Log.
THEOREM TypeCorrect == Spec => []TypeOK
<1>1. IndInv => TypeOK
  BY DEF IndInv
<1>2. QED
  BY IndInvHolds, <1>1, PTL

\* No interleaving of short answers makes the callback see an index twice, whatever
\* the number of workers and the batch size.
THEOREM NoDuplicates == Spec => []DeliveredOnce
<1>1. IndInv => DeliveredOnce
  BY DEF IndInv, Disjoint, DeliveredOnce
<1>2. QED
  BY IndInvHolds, <1>1, PTL

\* The callback never sees an index past the EndIndex known at the time.
THEOREM StaysWithinEnd == Spec => []WithinEnd
<1>1. IndInv => WithinEnd
  BY DEF IndInv, TypeOK, Phases, Disjoint, WithinEnd
<1>2. QED
  BY IndInvHolds, <1>1, PTL

\* When Run returns with its context alive, all that the generator handed out has
\* been delivered.
THEOREM NothingStartedIsLost == Spec => []StartedFetchesFinish
<1>1. IndInv => StartedFetchesFinish
  BY WorkersAssumption DEF IndInv, TypeOK, Phases, Covered, Pending, StartedFetchesFinish
<1>2. QED
  BY IndInvHolds, <1>1, PTL

\* A bounded Run that is neither cancelled nor stopped delivers its whole range.
THEOREM RunDeliversRange == Spec => []RunIsComplete
<1>1. IndInv => RunIsComplete
  BY WorkersAssumption DEF IndInv, TypeOK, Phases, Covered, Pending, RunIsComplete
<1>2. QED
  BY IndInvHolds, <1>1, PTL

---------------------------------------------------------------------------
\* The steps that leave the generator, the ranges and what was delivered alone.
LEMMA AboveStartKept ==
    ASSUME IndInv, AboveStart, UNCHANGED <<continuous, optsStart, start, end, rStart, delivered>>,
           gen' = "send" => gen = "send" \/ start < end \/ continuous,
           run' \in {"running", "returned"} => run \in {"running", "returned"},
           \A w \in Workers : pc'[w] \in {"check", "get", "deliver"} => pc[w] \in {"check", "get", "deliver"}
    PROVE  AboveStart'
BY DEF AboveStart

LEMMA NextAboveStart == IndInv /\ AboveStart /\ [Next]_vars => AboveStart'
<1> SUFFICES ASSUME IndInv, AboveStart, [Next]_vars PROVE AboveStart'
  OBVIOUS
<1> USE DEF vars, callVars, optsVars, genVars, workVars
<1>0. pc \in [Workers -> {"none", "recv", "check", "get", "deliver", "done"}]
  BY DEF IndInv, TypeOK
<1>1. CASE LogGrows \/ CancelContext \/ Stop \/ Invoke \/ PrepareFails \/ UNCHANGED vars
  BY <1>1, AboveStartKept DEF LogGrows, CancelContext, Stop, Invoke, PrepareFails
<1>2. CASE PrepareOK \/ Finish
  BY <1>2, AboveStartKept DEF PrepareOK, ReadSTH, Finish
<1>3. CASE GenLoop \/ UpdateFails \/ GenCancelled
  BY <1>3, AboveStartKept DEF GenLoop, MoreToSend, UpdateFails, GenCancelled
<1>4. CASE Start
  BY <1>4 DEF Start, IndInv, TypeOK, Phases, AboveStart
<1>5. CASE \E quick \in BOOLEAN : UpdateSTH(quick)
  BY <1>5 DEF UpdateSTH, IndInv, Phases, AboveStart
<1>6. ASSUME NEW w \in Workers, NoMoreRanges(w) \/ CheckRange(w) \/ GetFails(w) \/ \E n \in 1..BatchSize : GetOK(w, n)
      PROVE  AboveStart'
  BY <1>0, <1>6, AboveStartKept DEF NoMoreRanges, CheckRange, GetFails, GetOK
<1>7. ASSUME NEW w \in Workers, SendRange(w) PROVE AboveStart'
  <2>1. ~continuous => start < end /\ start >= optsStart
    BY <1>7 DEF SendRange, IndInv, Phases, AboveStart
  <2>2. ~continuous => NextStart >= start
    BY <2>1 DEF NextStart, BatchEnd, Least, IndInv, TypeOK
  <2>3. start \in Int /\ optsStart \in Int /\ NextStart \in Int
    BY DEF NextStart, BatchEnd, Least, IndInv, TypeOK
  <2> QED
    BY <1>7, <2>1, <2>2, <2>3 DEF SendRange, IndInv, TypeOK, AboveStart
<1>8. ASSUME NEW w \in Workers, Callback(w) PROVE AboveStart'
  BY <1>8 DEF Callback, Advance, IndInv, TypeOK, Disjoint, AboveStart
<1> QED
  BY <1>1, <1>2, <1>3, <1>4, <1>5, <1>6, <1>7, <1>8 DEF Next, RunStep, GenStep, WorkerStep

\* A bounded Run delivers nothing before its StartIndex, not even if that lies past the
\* end of the Log.
THEOREM NothingBeforeStart ==
    Spec => [](~continuous => \A i \in Indices : delivered[i] > 0 => i >= optsStart)
<1>1. Init => AboveStart
  BY DEF Init, AboveStart
<1>2. IndInv /\ AboveStart => (~continuous => \A i \in Indices : delivered[i] > 0 => i >= optsStart)
  BY DEF IndInv, TypeOK, Disjoint, AboveStart
<1>3. QED
  BY <1>1, <1>2, NextAboveStart, IndInvHolds, PTL DEF Spec

---------------------------------------------------------------------------
(* The Fetcher implements RangeCopy.                                       *)

\* What the mapping needs beyond the invariants: the head is asked for once, and
\* StartIndex stays what it was.
Fitted == optsStart = StartIndex /\ (run \in {"idle", "prepare"} => sth = -1)

LEMMA NextFitted == IndInv /\ Fitted /\ [Next]_vars => Fitted'
<1> SUFFICES ASSUME IndInv, Fitted, [Next]_vars PROVE Fitted'
  OBVIOUS
<1> USE DEF Fitted, vars, callVars, optsVars, genVars, workVars
<1>1. CASE LogGrows \/ CancelContext \/ Stop \/ Invoke \/ UNCHANGED vars
  BY <1>1 DEF LogGrows, CancelContext, Stop, Invoke
<1>2. CASE PrepareOK \/ PrepareFails \/ Start \/ Finish
  BY <1>2 DEF PrepareOK, ReadSTH, PrepareFails, Start, Finish
<1>3. CASE GenLoop \/ UpdateFails \/ GenCancelled \/ \E w \in Workers : SendRange(w)
  BY <1>3 DEF GenLoop, UpdateFails, GenCancelled, SendRange
<1>4. CASE \E quick \in BOOLEAN : UpdateSTH(quick)
  BY <1>4 DEF UpdateSTH, IndInv, Phases
<1>5. ASSUME NEW w \in Workers, WorkerStep(w) PROVE Fitted'
  BY <1>5 DEF WorkerStep, NoMoreRanges, CheckRange, GetFails, GetOK, Callback
<1> QED
  BY <1>1, <1>2, <1>3, <1>4, <1>5 DEF Next, RunStep, GenStep

Seen == {i \in Indices : delivered[i] = 1}

\* A batch that the callback gets is a piece of the range that it has not seen.
LEMMA CallbackCopies ==
    ASSUME IndInv, AboveStart, Fitted, NEW w \in Workers, Callback(w)
    PROVE  Promise!Copy
<1> DEFINE lo == rStart[w]
           hi == rStart[w] + got[w] - 1
<1>1. /\ pc[w] = "deliver" /\ lo \in Nat /\ got[w] \in Nat /\ got[w] >= 1 /\ rEnd[w] \in Int
      /\ lo + got[w] <= rEnd[w] + 1 /\ lo + got[w] <= MaxTreeSize
  BY DEF Callback, IndInv, TypeOK, Disjoint
<1>2. lo \in Nat /\ hi \in Nat /\ lo <= hi /\ lo..hi \subseteq Indices /\ hi <= rEnd[w]
  BY <1>1 DEF Indices
<1>3. run = "running" /\ end = optsEnd /\ end \in Nat
  BY <1>1 DEF IndInv, TypeOK, Phases
<1>4. \A i \in lo..hi : Pending(w, i) /\ i < end /\ delivered[i] = 0
  BY <1>1, <1>2 DEF Pending, IndInv, Disjoint
<1>5. lo \in 0..(optsEnd - 1) /\ hi \in 0..(optsEnd - 1)
  BY <1>2, <1>3, <1>4
<1>6. \A i \in Indices : delivered'[i] = IF i \in lo..hi THEN 1 ELSE delivered[i]
  <2>1. \A i \in Indices : i \in lo..hi <=> rStart[w] <= i /\ i < rStart[w] + got[w]
    BY <1>1, <1>2
  <2> QED
    BY <1>4, <2>1 DEF Callback, IndInv, TypeOK
<1>7. lo..hi \cap Seen = {} /\ Seen' = Seen \cup lo..hi
  BY <1>2, <1>4, <1>6 DEF Seen
<1>8. ~continuous => StartIndex <= lo
  BY <1>1 DEF AboveStart, Fitted
<1>9. UNCHANGED <<treeSize, optsEnd, continuous, run, stopCalled, ctxDone>>
  BY DEF Callback, optsVars, callVars
<1> QED
  BY <1>2, <1>3, <1>5, <1>7, <1>8, <1>9 DEF Promise!Copy, Seen

\* When all workers are done there is no hole.
LEMMA FinishReturns ==
    ASSUME IndInv, AboveStart, Fitted, Finish
    PROVE  Promise!Return
<1> DEFINE most == IF start < optsEnd THEN start ELSE optsEnd
           last == IF most < StartIndex THEN StartIndex ELSE most
<1>1. /\ start \in Nat /\ optsEnd \in Nat /\ StartIndex \in Nat /\ end = optsEnd /\ optsEnd <= MaxTreeSize
      /\ optsStart = StartIndex
  BY DEF Finish, IndInv, TypeOK, Phases, Fitted
<1>2. last \in StartIndex..(StartIndex + optsEnd)
  BY <1>1
<1>3. ASSUME ~ctxDone PROVE {i \in Seen : StartIndex <= i} = StartIndex..(last - 1)
  <2>1. ASSUME NEW i \in Seen, StartIndex <= i PROVE i \in StartIndex..(last - 1)
    BY <1>1, <2>1 DEF Seen, IndInv, Disjoint
  <2>2. ASSUME NEW i \in StartIndex..(last - 1) PROVE i \in Seen /\ StartIndex <= i
    <3>1. i \in Indices /\ optsStart <= i /\ i < start
      BY <1>1, <2>2 DEF Indices
    <3>2. \A w \in Workers : ~Pending(w, i)
      BY DEF Finish, Pending
    <3>3. delivered[i] = 1
      BY <1>3, <3>1, <3>2 DEF Finish, IndInv, Covered
    <3> QED
      BY <1>1, <3>1, <3>3 DEF Seen
  <2> QED
    BY <2>1, <2>2
<1>4. ASSUME ~ctxDone, ~stopCalled, ~continuous PROVE last >= optsEnd
  <2>1. gen = "closed"
    BY <1>4, WorkersAssumption DEF Finish, IndInv, Covered
  <2>2. start >= end
    BY <1>4, <2>1 DEF IndInv, Covered
  <2> QED
    BY <1>1, <2>2
<1>5. UNCHANGED <<treeSize, optsEnd, continuous, delivered, stopCalled, ctxDone>> /\ run = "running" /\ run' = "returned"
  BY DEF Finish, optsVars, workVars
<1>6. ctxDone \/ \E l \in StartIndex..(StartIndex + optsEnd) :
         /\ {i \in Seen : StartIndex <= i} = StartIndex..(l - 1)
         /\ ~stopCalled /\ ~continuous => l >= optsEnd
  <2> HIDE DEF last
  <2> QED
    BY <1>2, <1>3, <1>4
<1> QED
  BY <1>5, <1>6 DEF Promise!Return, Seen

\* Every step is one of RangeCopy, or is hidden.
LEMMA StepsAreCopying ==
    ASSUME IndInv, AboveStart, Fitted, [Next]_vars
    PROVE  [Promise!Next]_Promise!vars
<1> USE DEF vars, callVars, optsVars, genVars, workVars, Promise!vars, Promise!Next
<1>1. CASE LogGrows
  BY <1>1 DEF LogGrows, IndInv, TypeOK, Promise!Grow
<1>2. CASE CancelContext \/ Stop
  BY <1>2 DEF CancelContext, Stop, Promise!Cut
<1>3. CASE Invoke \/ Start
  BY <1>3 DEF Invoke, Start
<1>4. CASE PrepareOK
  BY <1>4 DEF PrepareOK, ReadSTH, Fitted, Promise!Open
<1>5. CASE PrepareFails
  BY <1>5 DEF PrepareFails, Promise!Fail
<1>6. CASE Finish
  BY <1>6, FinishReturns
<1>7. CASE GenLoop \/ UpdateFails \/ GenCancelled \/ \E w \in Workers : SendRange(w)
  BY <1>7 DEF GenLoop, UpdateFails, GenCancelled, SendRange
<1>8. CASE \E quick \in BOOLEAN : UpdateSTH(quick)
  BY <1>8 DEF UpdateSTH, BigEnough, IndInv, TypeOK, Phases, Promise!Extend
<1>9. ASSUME NEW w \in Workers, NoMoreRanges(w) \/ CheckRange(w) \/ GetFails(w) \/ \E n \in 1..BatchSize : GetOK(w, n)
      PROVE  UNCHANGED Promise!vars
  BY <1>9 DEF NoMoreRanges, CheckRange, GetFails, GetOK
<1>10. ASSUME NEW w \in Workers, Callback(w) PROVE Promise!Copy
  BY <1>10, CallbackCopies
<1>11. CASE UNCHANGED vars
  BY <1>11
<1> QED
  BY <1>1, <1>2, <1>3, <1>4, <1>5, <1>6, <1>7, <1>8, <1>9, <1>10, <1>11 DEF Next, RunStep, GenStep, WorkerStep

\* The Fetcher implements RangeCopy, whatever the number of workers, the size of the
\* batches, the range and the answers of the Log.
THEOREM FetcherCopiesRange == Spec => CopiesRange
<1>1. Init => AboveStart /\ Fitted
  BY DEF Init, AboveStart, Fitted
<1>2. Init => Promise!Init
  <2> SUFFICES ASSUME Init PROVE Promise!Init
    OBVIOUS
  <2>1. treeSize \in Nat /\ optsEnd \in Nat /\ Seen = {} /\ run = "idle"
    BY DEF Init, Seen
  <2>2. continuous \in BOOLEAN /\ ~stopCalled /\ ~ctxDone
    BY ModesAssumption, Zenon DEF Init
  <2> QED
    BY <2>1, <2>2 DEF Promise!Init, Seen
<1> QED
  BY <1>1, <1>2, IndInvHolds, NextAboveStart, NextFitted, StepsAreCopying, PTL
     DEF Spec, CopiesRange, Promise!Spec
=============================================================================
