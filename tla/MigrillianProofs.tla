------------------------- MODULE MigrillianProofs -------------------------
(***************************************************************************)
(* Proofs about the migration Controller, for any number of workers and    *)
(* submitters, any channel, any range and any mode.                        *)
(*                                                                         *)
(* The argument: within one fetchTail an index that the Fetcher delivers   *)
(* is in one place: a batch of the channel, the batch of one submitter, or *)
(* among those submitted; it leaves for no other place unless the context  *)
(* is done, and then fetchTail fails.  Across the fetchTails of one Run,   *)
(* everything submitted lies below pos, and the next Fetcher starts there. *)
(* Across Runs, crashes and lost masterships, everything below Trillian's  *)
(* root is stored.                                                         *)
(***************************************************************************)
EXTENDS Migrillian, TLAPS

FP == INSTANCE FetcherProofs WITH Modes <- {FALSE}, StartIndex <- 0, EndIndex <- 0

\* Where an index is that was delivered and not yet submitted.
InBatch(k, i) == i \in BatchIndices(batches[k])
Queued(i) == \E k \in 1..Len(batches) : InBatch(k, i)
Held(s, i) == spc[s] = "add" /\ i \in BatchIndices(batch[s])

Batches == [first : Nat, len : Nat]

Types ==
    /\ stored \subseteq Indices /\ submitted \subseteq Indices
    /\ root \in 0..MaxTreeSize /\ pos \in 0..MaxTreeSize /\ rootSize \in 0..MaxTreeSize
    /\ isContinuous \in BOOLEAN /\ mctxDone \in BOOLEAN /\ first \in BOOLEAN
    /\ closed \in BOOLEAN /\ repeated \in BOOLEAN
    /\ ctl \in {"begin", "prepare", "verify", "fetch", "wait", "ended"}
    /\ outcome \in {"none", "ok", "err"}
    /\ batches \in Seq(Batches) /\ Len(batches) <= ChannelSize
    /\ spc \in [Submitters -> {"none", "recv", "add", "done"}]
    /\ batch \in [Submitters -> Batches]

\* What the phases of Run and fetchTail say of the Fetcher and the channel.
Phases ==
    /\ ~continuous /\ ~stopCalled
    /\ sth <= MaxTreeSize
    /\ ctl # "ended" => outcome = "none" /\ (~isContinuous => first)
    /\ ctl \in {"prepare", "verify", "fetch", "wait"} => optsStart >= pos
    /\ ctl \in {"prepare", "verify"} => run = "idle"
    /\ ctl = "prepare" => sth = -1 /\ (isContinuous => optsEnd = 0)
    /\ ctl \in {"verify", "fetch", "wait"} =>
        sth > pos /\ optsEnd <= sth /\ (isContinuous => optsEnd = sth)
    /\ ctl = "fetch" => ~closed
    /\ ctl = "wait" => closed /\ run = "returned"
    /\ ctl \in {"begin", "prepare", "verify"} =>
        batches = <<>> /\ \A s \in Submitters : spc[s] \in {"none", "done"}
    /\ ctl \in {"fetch", "wait"} /\ ~ctxDone =>
        \A s \in Submitters : spc[s] = "done" => closed /\ batches = <<>>

\* A delivered index is in one place, and was not submitted before.
OnePlace ==
    /\ \A i : Queued(i) => i \in Indices /\ delivered[i] = 1 /\ i \notin submitted
    /\ \A s \in Submitters : \A i : Held(s, i) =>
        i \in Indices /\ delivered[i] = 1 /\ i \notin submitted /\ ~Queued(i)
    /\ \A i : \A j, k \in 1..Len(batches) : InBatch(j, i) /\ InBatch(k, i) => j = k
    /\ \A i : \A s, t \in Submitters : Held(s, i) /\ Held(t, i) => s = t
    /\ ~repeated

\* Before a fetchTail all that was submitted lies below its begin; during it the rest
\* was delivered by its Fetcher.
Behind ==
    \A i \in submitted :
        /\ ctl \in {"begin", "prepare", "verify"} => i < pos
        /\ ctl \in {"fetch", "wait"} => i < pos \/ delivered[i] = 1

\* What Trillian has.
Kept ==
    /\ \A i \in Indices : i < root => i \in stored
    /\ isContinuous /\ ctl \in {"prepare", "verify", "fetch", "wait"} =>
        \A i \in Indices : i < optsStart => i \in stored
    /\ ctl \in {"fetch", "wait"} /\ ~ctxDone =>
        \A i \in Indices : delivered[i] = 1 =>
            i \in stored \/ Queued(i) \/ \E s \in Submitters : Held(s, i)
    /\ NoGaps

IndInv == FP!IndInv /\ FP!AboveStart /\ Types /\ Phases /\ OnePlace /\ Behind /\ Kept

---------------------------------------------------------------------------
(* The Fetcher.                                                            *)

LEMMA SameIndices == F!Indices = Indices /\ FP!Indices = Indices
BY DEF F!Indices, FP!Indices, Indices

LEMMA IndexRange == \A i \in Indices : i \in Nat /\ i < MaxTreeSize
BY FetcherAssumption DEF Indices

\* The steps of the Fetcher that a step of the Controller may be, but for the callback.
FetcherStep ==
    \/ F!PrepareOK \/ F!Start \/ F!Finish
    \/ F!GenLoop \/ F!GenCancelled
    \/ \E w \in Workers :
        \/ F!SendRange(w)
        \/ F!NoMoreRanges(w) \/ F!CheckRange(w) \/ F!GetFails(w)
        \/ \E n \in 1..BatchSize : F!GetOK(w, n)

LEMMA FetcherKeeps ==
    ASSUME FP!IndInv, FP!AboveStart, [FP!Next]_FP!vars
    PROVE  FP!IndInv' /\ FP!AboveStart'
<1>1. {FALSE} \subseteq BOOLEAN
  OBVIOUS
<1>2. FP!IndInv'
  BY <1>1, FetcherAssumption, FP!NextIndInv
<1>3. FP!AboveStart'
  BY <1>1, FetcherAssumption, FP!NextAboveStart
<1> QED
  BY <1>2, <1>3

LEMMA FetcherStepKeeps ==
    ASSUME FP!IndInv, FP!AboveStart, FetcherStep \/ F!LogGrows \/ \E w \in Workers : F!Callback(w)
    PROVE  FP!IndInv' /\ FP!AboveStart'
<1> USE DEF F!optsVars, FP!optsVars, F!callVars, FP!callVars, F!genVars, FP!genVars, F!workVars, FP!workVars
<1>1. F!LogGrows => FP!LogGrows
  BY DEF F!LogGrows, FP!LogGrows
<1>2. F!PrepareOK => FP!PrepareOK
  BY DEF F!PrepareOK, FP!PrepareOK, F!ReadSTH, FP!ReadSTH
<1>3. F!Start => FP!Start
  BY DEF F!Start, FP!Start
<1>4. F!Finish => FP!Finish
  BY DEF F!Finish, FP!Finish
<1>5. F!GenLoop => FP!GenLoop
  BY DEF F!GenLoop, FP!GenLoop, F!MoreToSend, FP!MoreToSend
<1>6. F!GenCancelled => FP!GenCancelled
  BY DEF F!GenCancelled, FP!GenCancelled, F!GenDone, FP!GenDone
<1>7. \A w \in Workers : F!SendRange(w) => FP!SendRange(w)
  BY DEF F!SendRange, FP!SendRange, F!LastOfBatch, FP!LastOfBatch, F!NextStart, FP!NextStart,
     F!BatchEnd, FP!BatchEnd, F!Least, FP!Least
<1>8. \A w \in Workers : F!NoMoreRanges(w) => FP!NoMoreRanges(w)
  BY DEF F!NoMoreRanges, FP!NoMoreRanges
<1>9. \A w \in Workers : F!CheckRange(w) => FP!CheckRange(w)
  BY DEF F!CheckRange, FP!CheckRange, F!RangeDone, FP!RangeDone
<1>10. \A w \in Workers : F!GetFails(w) => FP!GetFails(w)
  BY DEF F!GetFails, FP!GetFails
<1>11. \A w \in Workers : \A n \in 1..BatchSize : F!GetOK(w, n) => FP!GetOK(w, n)
  BY DEF F!GetOK, FP!GetOK
<1>12. \A w \in Workers : F!Callback(w) => FP!Callback(w)
  BY DEF F!Callback, FP!Callback, F!Advance, FP!Advance, F!Indices, FP!Indices
<1>13. FP!Next
  BY <1>1, <1>2, <1>3, <1>4, <1>5, <1>6, <1>7, <1>8, <1>9, <1>10, <1>11, <1>12
  DEF FetcherStep, FP!Next, FP!RunStep, FP!GenStep, FP!WorkerStep
<1> QED
  BY <1>13, FetcherKeeps

\* A step that leaves the Fetcher alone but for its context.
LEMMA FetcherKept ==
    ASSUME FP!IndInv, FP!AboveStart, ctxDone' \in BOOLEAN, ctxDone => ctxDone',
           UNCHANGED <<treeSize, sth, optsStart, optsEnd, continuous, cancelSet, run, cctxDone,
                       gen, start, end, pc, rStart, rEnd, got, delivered, stopCalled>>
    PROVE  FP!IndInv' /\ FP!AboveStart'
<1>1. FP!TypeOK' /\ FP!Phases'
  BY DEF FP!IndInv, FP!TypeOK, FP!Phases, FP!Indices
<1>2. FP!Disjoint' /\ FP!Covered' /\ FP!AboveStart'
  BY DEF FP!IndInv, FP!Disjoint, FP!Covered, FP!AboveStart, FP!Pending, FP!Indices
<1> QED
  BY <1>1, <1>2 DEF FP!IndInv

\* A new Fetcher.
LEMMA NewFetcherInv ==
    ASSUME FP!IndInv, NEW from \in 0..MaxTreeSize, NEW to \in Nat, NewFetcher(from, to),
           treeSize' = treeSize, ctxDone' \in BOOLEAN
    PROVE  FP!IndInv' /\ FP!AboveStart'
<1> USE FetcherAssumption DEF NewFetcher
<1>1. FP!TypeOK'
  <2>1. cancelSet' \in BOOLEAN /\ continuous' \in BOOLEAN /\ cctxDone' \in BOOLEAN /\ stopCalled' \in BOOLEAN
    BY Zenon
  <2>2. 0 \in 0..MaxTreeSize /\ 0 \in 0..BatchSize /\ 0 \in Int /\ 0 \in Nat /\ -1 \in Int
    OBVIOUS
  <2>3. delivered' \in [FP!Indices -> Nat]
    BY <2>2, SameIndices
  <2>4. /\ rStart' \in [Workers -> 0..MaxTreeSize] /\ rEnd' \in [Workers -> Int]
        /\ got' \in [Workers -> 0..BatchSize]
        /\ pc' \in [Workers -> {"none", "recv", "check", "get", "deliver", "done"}]
    BY <2>2
  <2>5. treeSize' \in 0..MaxTreeSize
    BY DEF FP!IndInv, FP!TypeOK
  <2>6. FP!Indices' = FP!Indices
    BY DEF FP!Indices
  <2> QED
    BY <2>1, <2>2, <2>3, <2>4, <2>5, <2>6 DEF FP!TypeOK
<1>2. FP!Phases'
  BY SameIndices DEF FP!Phases
<1>3. FP!Disjoint' /\ FP!Covered' /\ FP!AboveStart'
  BY SameIndices DEF FP!Disjoint, FP!Covered, FP!AboveStart, FP!Pending
<1> QED
  BY <1>1, <1>2, <1>3 DEF FP!IndInv

\* What the callback of worker w delivers: the indices of a batch, none of them before.
LEMMA CallbackDelivers ==
    ASSUME FP!IndInv, FP!AboveStart, ~continuous, NEW w \in Workers, F!Callback(w)
    PROVE  LET b == [first |-> rStart[w], len |-> got[w]]
           IN  /\ b \in Batches
               /\ \A i \in BatchIndices(b) :
                    i \in Indices /\ delivered[i] = 0 /\ delivered'[i] = 1 /\ i >= optsStart
               /\ \A i \in Indices : i \notin BatchIndices(b) => delivered'[i] = delivered[i]
<1> DEFINE b == [first |-> rStart[w], len |-> got[w]]
<1>1. /\ rStart[w] \in Nat /\ got[w] \in Nat /\ rEnd[w] \in Int /\ pc[w] = "deliver"
      /\ rStart[w] + got[w] <= rEnd[w] + 1 /\ rStart[w] + got[w] <= MaxTreeSize
      /\ rStart[w] >= optsStart /\ optsStart \in Nat
      /\ delivered \in [Indices -> Nat]
  BY FetcherAssumption DEF F!Callback, FP!IndInv, FP!TypeOK, FP!Disjoint, FP!AboveStart, FP!Indices, Indices
<1>2. b \in Batches /\ b.first = rStart[w] /\ b.len = got[w]
  BY <1>1 DEF Batches
<1>3. delivered' = [i \in Indices |->
                      IF rStart[w] <= i /\ i < rStart[w] + got[w] THEN delivered[i] + 1 ELSE delivered[i]]
  BY DEF F!Callback, F!Indices, Indices
<1>4. \A i : i \in BatchIndices(b) <=> i \in Int /\ rStart[w] <= i /\ i < rStart[w] + got[w]
  BY <1>1, <1>2 DEF BatchIndices
<1>5. \A i \in BatchIndices(b) : i \in Indices /\ FP!Pending(w, i) /\ i >= optsStart
  BY <1>1, <1>4, FetcherAssumption, SMTT(40) DEF Indices, FP!Pending
<1>6. \A i \in BatchIndices(b) : delivered[i] = 0
  BY <1>5, SameIndices DEF FP!IndInv, FP!Disjoint
<1> HIDE DEF b
<1>7. \A i \in BatchIndices(b) : delivered'[i] = 1
  BY <1>3, <1>4, <1>5, <1>6
<1>8. \A i \in Indices : i \notin BatchIndices(b) => delivered'[i] = delivered[i]
  BY <1>3, <1>4, IndexRange
<1> QED
  BY <1>2, <1>5, <1>6, <1>7, <1>8 DEF b

---------------------------------------------------------------------------
(* Steps that move no batch.                                               *)

\* Every index stays in its place.
LEMMA PlacesKept ==
    ASSUME OnePlace, UNCHANGED <<delivered, batches, batch, submitted, repeated>>,
           \A s \in Submitters : spc'[s] = "add" <=> spc[s] = "add"
    PROVE  /\ OnePlace'
           /\ \A i : Queued(i)' <=> Queued(i)
           /\ \A i : \A s \in Submitters : Held(s, i)' <=> Held(s, i)
<1>1. \A i : \A k : InBatch(k, i)' <=> InBatch(k, i)
  BY DEF InBatch, BatchIndices
<1>2. \A i : Queued(i)' <=> Queued(i)
  BY <1>1 DEF Queued
<1>3. \A i : \A s \in Submitters : Held(s, i)' <=> Held(s, i)
  BY DEF Held, BatchIndices
<1> QED
  BY <1>1, <1>2, <1>3 DEF OnePlace

\* Trillian's leaves are kept, and so is what it has of the current fetchTail.
LEMMA StillKept ==
    ASSUME Kept, stored \subseteq stored', root' = root,
           isContinuous' = isContinuous, optsStart' = optsStart,
           ctl' \in {"prepare", "verify", "fetch", "wait"} => ctl \in {"prepare", "verify", "fetch", "wait"},
           ctl' \in {"fetch", "wait"} /\ ~ctxDone' =>
             \A i \in Indices : delivered'[i] = 1 =>
                i \in stored' \/ Queued(i)' \/ \E s \in Submitters : Held(s, i)',
           NoGaps'
    PROVE  Kept'
BY DEF Kept

LEMMA InitIndInv == Init => IndInv
<1> SUFFICES ASSUME Init PROVE IndInv
  OBVIOUS
<1>1. FP!IndInv /\ FP!AboveStart
  <2>1. FP!Init
    BY DEF Init, F!Init, FP!Init, F!Indices, FP!Indices
  <2>2. {FALSE} \subseteq BOOLEAN
    OBVIOUS
  <2>3. FP!IndInv
    BY <2>1, <2>2, FetcherAssumption, FP!InitIndInv
  <2> QED
    BY <2>1, <2>3 DEF FP!Init, FP!AboveStart
<1>2. /\ run = "idle" /\ sth = -1 /\ continuous = FALSE /\ stopCalled = FALSE
      /\ delivered = [i \in Indices |-> 0]
  BY DEF Init, F!Init, F!Indices, Indices
<1>3. Types
  <2>1. /\ isContinuous \in BOOLEAN /\ mctxDone \in BOOLEAN /\ first \in BOOLEAN
        /\ closed \in BOOLEAN /\ repeated \in BOOLEAN
    BY ModesAssumption, Zenon DEF Init
  <2>2. batches \in Seq(Batches) /\ Len(batches) <= ChannelSize
    BY ChannelAssumption DEF Init
  <2>3. batch \in [Submitters -> Batches] /\ spc \in [Submitters -> {"none", "recv", "add", "done"}]
    BY DEF Init, NoBatch, Batches
  <2> QED
    BY <2>1, <2>2, <2>3, FetcherAssumption DEF Init, Types
<1>4. Phases
  BY <1>2, FetcherAssumption DEF Init, Phases
<1>5. OnePlace
  BY DEF Init, OnePlace, Queued, Held
<1>6. Behind
  BY DEF Init, Behind
<1>7. Kept
  <2>1. NoGaps
    BY DEF Init, NoGaps, Claimed, Indices
  <2> QED
    BY <2>1, IndexRange DEF Init, Kept
<1> QED
  BY <1>1, <1>3, <1>4, <1>5, <1>6, <1>7 DEF IndInv

\* A step of the Fetcher.
LEMMA InFetcherKeeps ==
    ASSUME IndInv, (FetcherStep /\ ctl = "fetch") \/ F!LogGrows,
           UNCHANGED <<trillianVars, runVars, submitVars, chanVars>>
    PROVE  IndInv'
<1> USE DEF trillianVars, runVars, submitVars, chanVars
<1>1. FP!IndInv' /\ FP!AboveStart'
  BY FetcherStepKeeps DEF IndInv
<1>2. /\ UNCHANGED <<ctxDone, sth, optsStart, optsEnd, continuous, stopCalled, delivered>>
      /\ ctl = "fetch" \/ run' = run
  <2>1. sth \in Int /\ (ctl = "fetch" => ~(sth < 0))
    BY FetcherAssumption DEF IndInv, Types, Phases, FP!IndInv, FP!TypeOK
  <2> QED
    BY <2>1 DEF FetcherStep, F!PrepareOK, F!ReadSTH, F!Start, F!Finish, F!GenLoop, F!GenCancelled, F!SendRange,
       F!NoMoreRanges, F!CheckRange, F!GetFails, F!GetOK, F!LogGrows,
       F!optsVars, F!callVars, F!genVars, F!workVars
<1>3. Types'
  BY DEF IndInv, Types
<1>4. Phases'
  BY <1>2 DEF IndInv, Phases
<1>5. /\ OnePlace'
      /\ \A i : Queued(i)' <=> Queued(i)
      /\ \A i : \A s \in Submitters : Held(s, i)' <=> Held(s, i)
  BY <1>2, PlacesKept DEF IndInv
<1>6. Behind'
  BY <1>2 DEF IndInv, Behind
<1>7. Kept'
  <2>1. NoGaps'
    BY <1>2 DEF IndInv, Kept, NoGaps, Claimed, Phases
  <2> QED
    BY <1>2, <1>5, <2>1, StillKept DEF IndInv, Kept
<1> QED
  BY <1>1, <1>3, <1>4, <1>5, <1>6, <1>7 DEF IndInv

\* The end of mastership, the sequencer, and the steps with which fetchTail fails or Run
\* stops, or which only close the channel.
LEMMA ControlSteps ==
    ASSUME IndInv,
           \/ Integrate \/ LoseMastership \/ TailFails \/ StopAfter \/ CloseBatches
           \/ UNCHANGED vars
    PROVE  IndInv'
<1> USE DEF trillianVars, runVars, submitVars, chanVars, fetchVars
<1>1. /\ UNCHANGED <<treeSize, sth, optsStart, optsEnd, continuous, cancelSet, run, cctxDone,
                     gen, start, end, pc, rStart, rEnd, got, delivered, stopCalled>>
      /\ UNCHANGED <<stored, isContinuous, pos, first, rootSize, spc, batch, submitted, repeated, batches>>
  BY DEF Integrate, LoseMastership, TailFails, StopAfter, RunReturns, CloseBatches, vars
<1>2. ctxDone' \in BOOLEAN /\ mctxDone' \in BOOLEAN
  <2>1. CASE LoseMastership
    BY <2>1, Zenon DEF LoseMastership
  <2>2. CASE ~LoseMastership
    BY <2>2 DEF Integrate, TailFails, StopAfter, CloseBatches, vars, IndInv, Types, FP!IndInv, FP!TypeOK
  <2> QED
    BY <2>1, <2>2
<1>3. ctxDone => ctxDone'
  BY DEF Integrate, LoseMastership, TailFails, StopAfter, CloseBatches, vars
<1>4. FP!IndInv' /\ FP!AboveStart'
  BY <1>1, <1>2, <1>3, FetcherKept DEF IndInv
<1>5. /\ OnePlace'
      /\ \A i : Queued(i)' <=> Queued(i)
      /\ \A i : \A s \in Submitters : Held(s, i)' <=> Held(s, i)
  BY <1>1, PlacesKept DEF IndInv
<1>7. CASE Integrate
  <2>1. root' = root + 1 /\ root \in stored /\ UNCHANGED <<ctxDone, ctl, outcome, mctxDone, closed>>
    BY <1>7 DEF Integrate
  <2>2. root' \in 0..MaxTreeSize /\ root \in Nat
    BY <2>1, IndexRange, FetcherAssumption DEF IndInv, Types
  <2>3. Types' /\ Phases' /\ Behind'
    BY <1>1, <2>1, <2>2 DEF IndInv, Types, Phases, Behind
  <2>4. \A i \in Indices : i < root' => i \in stored
    BY <2>1, <2>2, IndexRange DEF IndInv, Kept
  <2>5. NoGaps'
    BY <1>1, <2>1 DEF IndInv, Kept, NoGaps, Claimed
  <2>6. Kept'
    BY <1>1, <1>5, <2>1, <2>4, <2>5 DEF IndInv, Kept
  <2> QED
    BY <1>4, <1>5, <2>3, <2>6 DEF IndInv
<1>8. CASE LoseMastership
  <2>1. ctxDone' = TRUE /\ UNCHANGED <<root, ctl, outcome, closed>>
    BY <1>8 DEF LoseMastership
  <2>2. Types' /\ Phases' /\ Behind'
    BY <1>1, <1>2, <2>1 DEF IndInv, Types, Phases, Behind
  <2>3. NoGaps'
    BY <1>1, <2>1 DEF IndInv, Kept, NoGaps, Claimed
  <2>4. Kept'
    BY <1>1, <2>1, <2>3, StillKept DEF IndInv
  <2> QED
    BY <1>4, <1>5, <2>2, <2>4 DEF IndInv
<1>9. CASE TailFails \/ StopAfter
  <2>1. /\ ctl' = "ended" /\ UNCHANGED <<root, ctxDone, mctxDone, closed>>
        /\ outcome' = "err" \/ (outcome' = "ok" /\ isContinuous)
    BY <1>9 DEF TailFails, StopAfter, RunReturns, IndInv, Types, Phases
  <2>2. Types' /\ Phases' /\ Behind'
    BY <1>1, <1>2, <2>1 DEF IndInv, Types, Phases, Behind
  <2>3. NoGaps'
    BY <1>1, <2>1 DEF IndInv, Kept, NoGaps, Claimed
  <2>4. Kept'
    BY <1>1, <2>1, <2>3, StillKept DEF IndInv
  <2> QED
    BY <1>4, <1>5, <2>2, <2>4 DEF IndInv
<1>10. CASE CloseBatches
  <2>1. /\ ctl = "fetch" /\ run = "returned" /\ ctl' = "wait" /\ closed' = TRUE
        /\ UNCHANGED <<root, ctxDone, mctxDone, outcome>>
    BY <1>10 DEF CloseBatches
  <2>2. closed' \in BOOLEAN
    BY <2>1, Zenon
  <2>3. Types'
    BY <1>1, <2>1, <2>2 DEF IndInv, Types
  <2>4. Phases' /\ Behind'
    BY <1>1, <2>1 DEF IndInv, Phases, Behind
  <2>5. NoGaps'
    BY <1>1, <2>1 DEF IndInv, Kept, NoGaps, Claimed
  <2>6. Kept'
    BY <1>1, <1>5, <2>1, <2>5, StillKept DEF IndInv, Kept
  <2> QED
    BY <1>4, <1>5, <2>3, <2>4, <2>6 DEF IndInv
<1>11. CASE UNCHANGED vars
  <2>1. UNCHANGED <<root, ctxDone, mctxDone, outcome, closed, ctl>>
    BY <1>11 DEF vars
  <2>2. Types' /\ Phases' /\ Behind'
    BY <1>1, <2>1 DEF IndInv, Types, Phases, Behind
  <2>3. NoGaps'
    BY <1>1, <2>1 DEF IndInv, Kept, NoGaps, Claimed
  <2>4. Kept'
    BY <1>1, <1>5, <2>1, <2>3, StillKept DEF IndInv, Kept
  <2> QED
    BY <1>4, <1>5, <2>2, <2>4 DEF IndInv
<1> QED
  BY <1>7, <1>8, <1>9, <1>10, <1>11

---------------------------------------------------------------------------
(* The steps of Run and fetchTail.                                         *)

\* Nothing is in transit.
LEMMA NothingInTransit ==
    ASSUME batches' = <<>>, \A s \in Submitters : spc'[s] # "add", ~repeated'
    PROVE  OnePlace'
BY DEF OnePlace, Queued, Held

\* fetchTail begins: its Fetcher starts where the Run stands, or at Trillian's root.
LEMMA GetRootStep == IndInv /\ GetRoot => IndInv'
<1> SUFFICES ASSUME IndInv, GetRoot PROVE IndInv'
  OBVIOUS
<1> DEFINE to == IF isContinuous THEN 0 ELSE ToIndex
<1>1. /\ ctl = "begin" /\ ctl' = "prepare" /\ rootSize' = root /\ ctxDone' = mctxDone
      /\ NewFetcher(FirstIndex, to)
      /\ UNCHANGED <<isContinuous, treeSize, stored, root, mctxDone, pos, first, outcome,
                     spc, batch, submitted, repeated, batches, closed>>
  BY DEF GetRoot, trillianVars, submitVars, chanVars
<1>2. /\ pos \in 0..MaxTreeSize /\ root \in 0..MaxTreeSize /\ mctxDone \in BOOLEAN /\ MaxTreeSize \in Nat
  BY FetcherAssumption DEF IndInv, Types
<1>3. /\ FirstIndex \in 0..MaxTreeSize /\ to \in Nat /\ FirstIndex >= pos
      /\ isContinuous => FirstIndex = root \/ FirstIndex = pos
  BY <1>2, FromAssumption DEF FirstIndex
<1>4. /\ optsStart' = FirstIndex /\ optsEnd' = to /\ continuous' = FALSE /\ stopCalled' = FALSE
      /\ sth' = -1 /\ run' = "idle"
  BY <1>1 DEF NewFetcher
<1>5. FP!IndInv' /\ FP!AboveStart'
  BY <1>1, <1>2, <1>3, NewFetcherInv DEF IndInv
<1>6. batches = <<>> /\ \A s \in Submitters : spc[s] \in {"none", "done"}
  BY <1>1 DEF IndInv, Phases
<1>7. Types'
  BY <1>1, <1>2 DEF IndInv, Types
<1>8. Phases'
  BY <1>1, <1>2, <1>3, <1>4, <1>6 DEF IndInv, Phases
<1>9. OnePlace'
  BY <1>1, <1>6, NothingInTransit DEF IndInv, OnePlace
<1>10. Behind'
  BY <1>1 DEF IndInv, Behind
<1>11. Kept'
  <2>1. isContinuous => \A i \in Indices : i < FirstIndex => i \in stored
    <3>1. isContinuous => \A i \in Indices : i < pos => i \in stored
      BY <1>2, IndexRange DEF IndInv, Kept, NoGaps, Claimed
    <3> QED
      BY <1>3, <3>1 DEF IndInv, Kept
  <2>2. NoGaps'
    BY <1>1, <1>4 DEF IndInv, Kept, NoGaps, Claimed
  <2> QED
    BY <1>1, <1>4, <2>1, <2>2 DEF IndInv, Kept
<1> QED
  BY <1>5, <1>7, <1>8, <1>9, <1>10, <1>11 DEF IndInv

\* Prepare reads the STH and fits the range to it, or finds that there is nothing to do.
LEMMA PrepareStep == IndInv /\ Prepare => IndInv'
<1> SUFFICES ASSUME IndInv, Prepare PROVE IndInv'
  OBVIOUS
<1>1. /\ ctl = "prepare" /\ F!ReadSTH
      /\ \/ /\ treeSize <= pos /\ first' = FALSE
            /\ \/ isContinuous /\ ctl' = "begin" /\ outcome' = outcome
               \/ ~isContinuous /\ ctl' = "ended" /\ outcome' = "ok"
         \/ ~(treeSize <= pos) /\ ctl' = "verify" /\ first' = first /\ outcome' = outcome
      /\ UNCHANGED <<isContinuous, treeSize, ctxDone, cancelSet, run, cctxDone, gen, start,
                     end, pc, rStart, rEnd, got, delivered, stopCalled, stored, root, mctxDone, pos,
                     rootSize, spc, batch, submitted, repeated, batches, closed>>
  BY DEF Prepare, UpToDate, RunReturns, trillianVars, submitVars, chanVars
<1>2. /\ run = "idle" /\ sth = -1 /\ (isContinuous => optsEnd = 0) /\ outcome = "none"
      /\ optsStart >= pos
  BY <1>1 DEF IndInv, Phases
<1>3. /\ sth' = treeSize /\ optsEnd' = IF optsEnd = 0 \/ optsEnd > treeSize THEN treeSize ELSE optsEnd
      /\ UNCHANGED <<optsStart, continuous>>
  BY <1>1, <1>2 DEF F!ReadSTH, F!optsVars
<1>4. treeSize \in 0..MaxTreeSize /\ MaxTreeSize \in Nat /\ optsEnd \in Nat /\ pos \in 0..MaxTreeSize
  BY FetcherAssumption DEF IndInv, Types, FP!IndInv, FP!TypeOK
<1>5. optsEnd' \in 0..MaxTreeSize /\ optsEnd' <= sth' /\ (isContinuous => optsEnd' = sth')
  BY <1>2, <1>3, <1>4
<1>6. FP!IndInv' /\ FP!AboveStart'
  <2>1. FP!TypeOK'
    BY <1>1, <1>3, <1>4, <1>5 DEF IndInv, FP!IndInv, FP!TypeOK, FP!Indices
  <2>2. FP!Phases'
    BY <1>1, <1>2, <1>3, <1>4, <1>5 DEF IndInv, FP!IndInv, FP!Phases, FP!Indices
  <2>3. FP!Disjoint' /\ FP!Covered' /\ FP!AboveStart'
    BY <1>1, <1>2, <1>3 DEF IndInv, FP!IndInv, FP!Disjoint, FP!Covered, FP!AboveStart, FP!Pending, FP!Indices
  <2> QED
    BY <2>1, <2>2, <2>3 DEF FP!IndInv
<1>7. Types'
  <2>1. first' \in BOOLEAN
    <3>1. first \in BOOLEAN
      BY DEF IndInv, Types
    <3> QED
      BY <1>1, <3>1, Zenon
  <2> QED
    BY <1>1, <2>1 DEF IndInv, Types
<1>8. Phases'
  BY <1>1, <1>2, <1>3, <1>4, <1>5 DEF IndInv, Phases
<1>9. OnePlace'
  BY <1>1, PlacesKept DEF IndInv
<1>10. Behind'
  BY <1>1 DEF IndInv, Behind
<1>11. Kept'
  <2>1. NoGaps'
    BY <1>1, <1>2 DEF IndInv, Kept, NoGaps, Claimed
  <2> QED
    BY <1>1, <1>3, <2>1, StillKept DEF IndInv
<1> QED
  BY <1>6, <1>7, <1>8, <1>9, <1>10, <1>11 DEF IndInv

\* The submitters start, with an empty channel, and the Fetcher runs.
LEMMA VerifyStep == IndInv /\ Verify => IndInv'
<1> SUFFICES ASSUME IndInv, Verify PROVE IndInv'
  OBVIOUS
<1>1. /\ ctl = "verify" /\ ctl' = "fetch" /\ run' = "prepare"
      /\ spc' = [s \in Submitters |-> "recv"] /\ batches' = <<>> /\ closed' = FALSE
      /\ UNCHANGED <<isContinuous, treeSize, ctxDone, sth, optsStart, optsEnd, continuous,
                     cancelSet, cctxDone, gen, start, end,
                     pc, rStart, rEnd, got, delivered, stopCalled, stored, root, mctxDone, pos,
                     first, rootSize, outcome, batch, submitted, repeated>>
  BY DEF Verify, trillianVars
<1>2. run = "idle"
  BY <1>1 DEF IndInv, Phases
<1>3. FP!IndInv' /\ FP!AboveStart'
  <2>1. FP!TypeOK'
    BY <1>1 DEF IndInv, FP!IndInv, FP!TypeOK, FP!Indices
  <2>2. FP!Phases'
    BY <1>1, <1>2 DEF IndInv, FP!IndInv, FP!Phases, FP!Indices
  <2>3. FP!Disjoint' /\ FP!Covered' /\ FP!AboveStart'
    BY <1>1, <1>2 DEF IndInv, FP!IndInv, FP!Disjoint, FP!Covered, FP!AboveStart, FP!Pending, FP!Indices
  <2> QED
    BY <2>1, <2>2, <2>3 DEF FP!IndInv
<1>4. \A i \in Indices : delivered[i] = 0
  BY <1>2, SameIndices DEF IndInv, FP!IndInv, FP!Phases
<1>5. Types'
  <2>1. closed' \in BOOLEAN
    BY <1>1, Zenon
  <2>2. batches' \in Seq(Batches) /\ Len(batches') <= ChannelSize
    BY <1>1, ChannelAssumption
  <2> QED
    BY <1>1, <2>1, <2>2 DEF IndInv, Types
<1>6. Phases'
  BY <1>1 DEF IndInv, Phases
<1>7. OnePlace'
  BY <1>1, NothingInTransit DEF IndInv, OnePlace
<1>8. Behind'
  BY <1>1 DEF IndInv, Behind
<1>9. Kept'
  <2>1. NoGaps'
    BY <1>1 DEF IndInv, Kept, NoGaps, Claimed, Phases
  <2> QED
    BY <1>1, <1>4, <2>1, StillKept DEF IndInv
<1> QED
  BY <1>3, <1>5, <1>6, <1>7, <1>8, <1>9 DEF IndInv

\* A fetchTail that was not cancelled has all of its range in Trillian.
LEMMA WholeTail ==
    ASSUME IndInv, ctl = "wait", ~ctxDone, \A s \in Submitters : spc[s] = "done"
    PROVE  /\ batches = <<>>
           /\ \A i \in Indices : optsStart <= i /\ i < optsEnd => i \in stored
<1>1. /\ ~continuous /\ ~stopCalled /\ closed /\ run = "returned" /\ batches = <<>>
  BY SubmittersAssumption DEF IndInv, Phases
<1>2. \A w \in Workers : pc[w] = "done"
  BY <1>1 DEF IndInv, FP!IndInv, FP!Phases
<1>3. start >= end /\ end = optsEnd /\ start \in Nat /\ end \in Nat /\ optsStart \in Nat
  BY <1>1, <1>2, FetcherAssumption DEF IndInv, FP!IndInv, FP!TypeOK, FP!Phases, FP!Covered
<1>4. \A i \in Indices : optsStart <= i /\ i < optsEnd => delivered[i] = 1
  BY <1>1, <1>2, <1>3, IndexRange, SameIndices DEF IndInv, FP!IndInv, FP!Covered, FP!Pending
<1>5. \A i : ~Queued(i)
  BY <1>1 DEF Queued
<1>6. \A i \in Indices : delivered[i] = 1 => i \in stored
  BY <1>5 DEF IndInv, Kept, Held
<1> QED
  BY <1>1, <1>4, <1>6

\* fetchTail returns.
LEMMA TailReturnsStep == IndInv /\ TailReturns => IndInv'
<1> SUFFICES ASSUME IndInv, TailReturns PROVE IndInv'
  OBVIOUS
<1>1. /\ ctl = "wait" /\ \A s \in Submitters : spc[s] = "done"
      /\ \/ /\ ~ctxDone /\ pos' = sth /\ first' = FALSE
            /\ \/ isContinuous /\ ctl' = "begin" /\ outcome' = outcome
               \/ ~isContinuous /\ ctl' = "ended" /\ outcome' = "ok"
         \/ ctxDone /\ ctl' = "ended" /\ outcome' = "err" /\ pos' = pos /\ first' = first
      /\ UNCHANGED <<isContinuous, treeSize, ctxDone, sth, optsStart, optsEnd, continuous, cancelSet, run,
                     cctxDone, gen, start, end, pc, rStart, rEnd, got, delivered, stopCalled,
                     stored, root, mctxDone, rootSize, spc, batch, submitted, repeated, batches, closed>>
  BY DEF TailReturns, TailIsWhole, NextPos, RunReturns, fetchVars, trillianVars, submitVars, chanVars
<1>2. FP!IndInv' /\ FP!AboveStart'
  BY <1>1, FetcherKept DEF IndInv, FP!IndInv, FP!TypeOK
<1>3. /\ sth > pos /\ sth <= MaxTreeSize /\ optsEnd <= sth /\ (isContinuous => optsEnd = sth)
      /\ pos \in 0..MaxTreeSize /\ sth \in Int /\ optsEnd \in Nat /\ MaxTreeSize \in Nat /\ optsStart \in Nat
      /\ run = "returned" /\ outcome = "none"
  BY <1>1, FetcherAssumption DEF IndInv, Phases, Types, FP!IndInv, FP!TypeOK
<1>4. OnePlace'
  BY <1>1, PlacesKept DEF IndInv
<1>5. CASE ctxDone
  <2>1. Types' /\ Phases' /\ Behind'
    BY <1>1, <1>5 DEF IndInv, Types, Phases, Behind
  <2>2. NoGaps'
    BY <1>1, <1>5 DEF IndInv, Kept, NoGaps, Claimed
  <2>3. Kept'
    BY <1>1, <1>5, <2>2, StillKept DEF IndInv
  <2> QED
    BY <1>2, <1>4, <2>1, <2>3 DEF IndInv
<1>6. CASE ~ctxDone
  <2>1. /\ batches = <<>>
        /\ \A i \in Indices : optsStart <= i /\ i < optsEnd => i \in stored
    BY <1>1, <1>6, WholeTail
  <2>2. /\ pos' = sth /\ first' = FALSE
        /\ \/ isContinuous /\ ctl' = "begin" /\ outcome' = "none"
           \/ ~isContinuous /\ ctl' = "ended" /\ outcome' = "ok"
    BY <1>1, <1>3, <1>6
  <2>3. first' \in BOOLEAN
    BY <2>2, Zenon
  <2>4. Types'
    BY <1>1, <1>3, <2>2, <2>3 DEF IndInv, Types
  <2>5. Phases'
    BY <1>1, <1>3, <2>1, <2>2 DEF IndInv, Phases
  <2>6. Behind'
    <3>1. \A i \in Indices : delivered[i] = 1 => i < optsEnd
      BY <1>3, SameIndices DEF IndInv, FP!IndInv, FP!Phases, FP!Disjoint
    <3>2. \A i \in submitted : i \in Nat /\ i \in Indices
      BY IndexRange DEF IndInv, Types
    <3>3. \A i \in submitted : i < sth
      BY <1>1, <1>3, <3>1, <3>2 DEF IndInv, Behind
    <3> QED
      BY <1>1, <2>2, <3>3 DEF Behind
  <2>7. NoGaps'
    <3>1. CASE isContinuous
      <4>1. \A i \in Indices : i < optsStart => i \in stored
        BY <1>1, <3>1 DEF IndInv, Kept
      <4>2. \A i \in Indices : i < sth => i \in stored
        BY <1>3, <2>1, <3>1, <4>1, IndexRange
      <4> QED
        BY <1>1, <1>3, <2>2, <3>1, <4>2 DEF NoGaps, Claimed
    <3>2. CASE ~isContinuous
      BY <1>1, <1>3, <2>1, <2>2, <3>2 DEF NoGaps, Claimed
    <3> QED
      BY <3>1, <3>2
  <2>8. Kept'
    BY <1>1, <2>2, <2>7, StillKept DEF IndInv
  <2> QED
    BY <1>2, <1>4, <2>4, <2>5, <2>6, <2>8 DEF IndInv
<1> QED
  BY <1>5, <1>6

\* Another Run, after one that has ended.
LEMMA RestartStep == IndInv /\ Restart => IndInv'
<1> SUFFICES ASSUME IndInv, Restart PROVE IndInv'
  OBVIOUS
<1>1. /\ ctl' = "begin" /\ outcome' = "none"
      /\ pos' = 0 /\ first' = TRUE /\ mctxDone' = FALSE
      /\ submitted' = {} /\ repeated' = FALSE
      /\ spc' = [s \in Submitters |-> "none"] /\ batch' = [s \in Submitters |-> NoBatch]
      /\ batches' = <<>> /\ closed' = FALSE
      /\ UNCHANGED <<isContinuous, treeSize, ctxDone, sth, optsStart, optsEnd, continuous, cancelSet, run,
                     cctxDone, gen, start, end, pc, rStart, rEnd, got, delivered, stopCalled,
                     stored, root, rootSize>>
  BY DEF Restart, NewRun, fetchVars, trillianVars
<1>2. FP!IndInv' /\ FP!AboveStart'
  BY <1>1, FetcherKept DEF IndInv, FP!IndInv, FP!TypeOK
<1>3. Types'
  <2>1. first' \in BOOLEAN /\ mctxDone' \in BOOLEAN /\ repeated' \in BOOLEAN /\ closed' \in BOOLEAN
    BY <1>1, Zenon
  <2>2. batches' \in Seq(Batches) /\ Len(batches') <= ChannelSize
    BY <1>1, ChannelAssumption
  <2>3. batch' \in [Submitters -> Batches] /\ pos' \in 0..MaxTreeSize
    BY <1>1, FetcherAssumption DEF NoBatch, Batches
  <2> QED
    BY <1>1, <2>1, <2>2, <2>3 DEF IndInv, Types
<1>4. Phases'
  BY <1>1 DEF IndInv, Phases
<1>5. OnePlace' /\ Behind'
  BY <1>1, NothingInTransit DEF Behind
<1>6. Kept'
  <2>1. NoGaps'
    BY <1>1 DEF NoGaps, Claimed, Indices
  <2> QED
    BY <1>1, <2>1, StillKept DEF IndInv
<1> QED
  BY <1>2, <1>3, <1>4, <1>5, <1>6 DEF IndInv

\* The process dies.
LEMMA CrashStep == IndInv /\ Crash => IndInv'
<1> SUFFICES ASSUME IndInv, Crash PROVE IndInv'
  OBVIOUS
<1>1. /\ ctl' = "ended" /\ outcome' = "err" /\ NewFetcher(0, 0) /\ ctxDone' = FALSE /\ rootSize' = 0
      /\ pos' = 0 /\ first' = TRUE /\ mctxDone' = FALSE
      /\ submitted' = {} /\ repeated' = FALSE
      /\ spc' = [s \in Submitters |-> "none"] /\ batch' = [s \in Submitters |-> NoBatch]
      /\ batches' = <<>> /\ closed' = FALSE
      /\ UNCHANGED <<isContinuous, treeSize, stored, root>>
  BY DEF Crash, NewRun, RunReturns, trillianVars
<1>2. /\ first' \in BOOLEAN /\ mctxDone' \in BOOLEAN /\ repeated' \in BOOLEAN /\ closed' \in BOOLEAN
      /\ ctxDone' \in BOOLEAN
  BY <1>1, Zenon
<1>3. 0 \in 0..MaxTreeSize /\ 0 \in Nat
  BY FetcherAssumption
<1>4. FP!IndInv' /\ FP!AboveStart'
  BY <1>1, <1>2, <1>3, NewFetcherInv DEF IndInv
<1>5. Types'
  <2>1. batches' \in Seq(Batches) /\ Len(batches') <= ChannelSize
    BY <1>1, ChannelAssumption
  <2>2. batch' \in [Submitters -> Batches]
    BY <1>1 DEF NoBatch, Batches
  <2> QED
    BY <1>1, <1>2, <1>3, <2>1, <2>2 DEF IndInv, Types
<1>6. Phases'
  BY <1>1, FetcherAssumption DEF IndInv, Phases, NewFetcher
<1>7. OnePlace' /\ Behind'
  BY <1>1, NothingInTransit DEF Behind
<1>8. Kept'
  <2>1. NoGaps'
    BY <1>1 DEF NoGaps, Claimed, Indices
  <2> QED
    BY <1>1, <2>1 DEF IndInv, Kept
<1> QED
  BY <1>4, <1>5, <1>6, <1>7, <1>8 DEF IndInv

---------------------------------------------------------------------------
(* The handler and the submitters.                                         *)

\* What the callback changes, whatever becomes of its batch b.
LEMMA HandlerEffect ==
    ASSUME IndInv, NEW w \in Workers, ctl = "fetch", F!Callback(w),
           UNCHANGED <<trillianVars, runVars, closed, submitted, repeated>>
    PROVE  LET b == [first |-> rStart[w], len |-> got[w]]
           IN  /\ FP!IndInv' /\ FP!AboveStart'
               /\ UNCHANGED <<treeSize, ctxDone, sth, optsStart, optsEnd, continuous, stopCalled, run>>
               /\ b \in Batches
               /\ \A i \in BatchIndices(b) : i \in Indices /\ delivered[i] = 0 /\ delivered'[i] = 1
                                            /\ i \notin submitted
               /\ \A i \in Indices : i \notin BatchIndices(b) => delivered'[i] = delivered[i]
               /\ Behind' /\ NoGaps'
<1> USE DEF trillianVars, runVars
<1> DEFINE b == [first |-> rStart[w], len |-> got[w]]
<1>1. FP!IndInv' /\ FP!AboveStart'
  BY FetcherStepKeeps DEF IndInv
<1>2. UNCHANGED <<treeSize, ctxDone, sth, optsStart, optsEnd, continuous, stopCalled, run>>
  BY DEF F!Callback, F!optsVars, F!callVars
<1>3. /\ b \in Batches
      /\ \A i \in BatchIndices(b) :
            i \in Indices /\ delivered[i] = 0 /\ delivered'[i] = 1 /\ i >= optsStart
      /\ \A i \in Indices : i \notin BatchIndices(b) => delivered'[i] = delivered[i]
  BY CallbackDelivers DEF IndInv, Phases
<1>4. optsStart \in Nat /\ pos \in Nat /\ optsStart >= pos
  BY FetcherAssumption DEF IndInv, Types, Phases, FP!IndInv, FP!TypeOK
<1> HIDE DEF b
<1>5. \A i \in BatchIndices(b) : i \notin submitted
  BY <1>3, <1>4, IndexRange DEF IndInv, Behind
<1>6. \A i \in Indices : delivered[i] = 1 => delivered'[i] = 1
  BY <1>3
<1>7. Behind'
  BY <1>6 DEF IndInv, Behind, Types
<1>8. NoGaps'
  BY <1>2 DEF IndInv, Kept, NoGaps, Claimed
<1> QED
  BY <1>1, <1>2, <1>3, <1>5, <1>7, <1>8 DEF b

\* An index that is not delivered is nowhere.
LEMMA UndeliveredIsNowhere ==
    ASSUME IndInv, NEW i \in Indices, delivered[i] = 0
    PROVE  ~Queued(i) /\ \A s \in Submitters : ~Held(s, i)
BY DEF IndInv, OnePlace

\* The handler drops its batch: then the context is done.
LEMMA HandlerDropsStep ==
    ASSUME IndInv, NEW w \in Workers, ctl = "fetch", HandlerDrops(w)
    PROVE  IndInv'
<1> DEFINE b == [first |-> rStart[w], len |-> got[w]]
<1>1. /\ ctxDone /\ F!Callback(w)
      /\ UNCHANGED <<trillianVars, runVars, spc, batch, submitted, repeated, batches, closed>>
  BY DEF HandlerDrops, submitVars, chanVars
<1>2. /\ FP!IndInv' /\ FP!AboveStart'
      /\ UNCHANGED <<treeSize, ctxDone, sth, optsStart, optsEnd, continuous, stopCalled, run>>
      /\ \A i \in BatchIndices(b) : delivered'[i] = 1
      /\ \A i \in Indices : i \notin BatchIndices(b) => delivered'[i] = delivered[i]
      /\ Behind' /\ NoGaps'
  BY <1>1, HandlerEffect
<1> HIDE DEF b
<1>3. \A i : \A k : InBatch(k, i)' <=> InBatch(k, i)
  BY <1>1 DEF InBatch, BatchIndices
<1>4. \A i : Queued(i)' <=> Queued(i)
  BY <1>1, <1>3 DEF Queued
<1>5. \A i : \A s \in Submitters : Held(s, i)' <=> Held(s, i)
  BY <1>1 DEF Held, BatchIndices
<1>6. OnePlace'
  BY <1>1, <1>2, <1>3, <1>4, <1>5 DEF IndInv, OnePlace
<1>7. Types' /\ Phases'
  BY <1>1, <1>2 DEF IndInv, Types, Phases, trillianVars, runVars
<1>8. Kept'
  BY <1>1, <1>2, StillKept DEF IndInv, trillianVars, runVars
<1> QED
  BY <1>2, <1>6, <1>7, <1>8 DEF IndInv

\* The handler puts its batch into the channel or hands it to a submitter.
LEMMA HandlerSendsStep ==
    ASSUME IndInv, NEW w \in Workers, ctl = "fetch", HandlerSends(w)
    PROVE  IndInv'
<1> DEFINE b == [first |-> rStart[w], len |-> got[w]]
           n == Len(batches)
<1>1. /\ F!Callback(w)
      /\ UNCHANGED <<trillianVars, runVars, submitted, repeated, closed>>
  BY DEF HandlerSends
<1>2. /\ FP!IndInv' /\ FP!AboveStart'
      /\ UNCHANGED <<treeSize, ctxDone, sth, optsStart, optsEnd, continuous, stopCalled, run>>
      /\ b \in Batches
      /\ \A i \in BatchIndices(b) : i \in Indices /\ delivered[i] = 0 /\ delivered'[i] = 1
                                   /\ i \notin submitted
      /\ \A i \in Indices : i \notin BatchIndices(b) => delivered'[i] = delivered[i]
      /\ Behind' /\ NoGaps'
  BY <1>1, HandlerEffect
<1>3. UNCHANGED <<stored, root, isContinuous, mctxDone, ctl, pos, first, rootSize, outcome>>
  BY <1>1 DEF trillianVars, runVars
<1>4. /\ n \in Nat /\ ChannelSize \in Nat /\ batches \in Seq(Batches) /\ n <= ChannelSize
      /\ spc \in [Submitters -> {"none", "recv", "add", "done"}] /\ batch \in [Submitters -> Batches]
      /\ ~closed
  BY ChannelAssumption DEF IndInv, Types, Phases
<1> HIDE DEF b
<1>5. \A i \in BatchIndices(b) : ~Queued(i) /\ \A s \in Submitters : ~Held(s, i)
  BY <1>2, UndeliveredIsNowhere
<1>6. \A i \in Indices : delivered[i] = 1 => delivered'[i] = 1
  BY <1>2
<1>7. CASE HasRoom /\ batches' = Append(batches, b) /\ UNCHANGED <<spc, batch>>
  <2>1. /\ batches' \in Seq(Batches) /\ Len(batches') = n + 1 /\ n + 1 <= ChannelSize
        /\ \A k \in 1..n : batches'[k] = batches[k]
        /\ batches'[n + 1] = b
        /\ \A k : k \in 1..(n + 1) <=> k \in 1..n \/ k = n + 1
    BY <1>2, <1>4, <1>7 DEF HasRoom
  <2>2. \A i : /\ \A k \in 1..n : InBatch(k, i)' <=> InBatch(k, i)
              /\ \A k : k = n + 1 => (InBatch(k, i)' <=> i \in BatchIndices(b))
    BY <2>1 DEF InBatch, BatchIndices
  <2> HIDE DEF n
  <2>3. \A i : Queued(i)' <=> Queued(i) \/ i \in BatchIndices(b)
    BY <2>1, <2>2 DEF Queued, n
  <2>4. \A i : \A s \in Submitters : Held(s, i)' <=> Held(s, i)
    BY <1>7 DEF Held, BatchIndices
  <2>5. OnePlace'
    <3>1. \A i : Queued(i)' => i \in Indices /\ delivered'[i] = 1 /\ i \notin submitted'
      BY <1>1, <1>2, <1>6, <2>3 DEF IndInv, OnePlace
    <3>2. \A s \in Submitters : \A i : Held(s, i)' =>
            i \in Indices /\ delivered'[i] = 1 /\ i \notin submitted' /\ ~Queued(i)'
      BY <1>1, <1>5, <1>6, <2>3, <2>4 DEF IndInv, OnePlace
    <3>3. \A i : \A j, k \in 1..(n + 1) : InBatch(j, i)' /\ InBatch(k, i)' => j = k
      <4>1. \A i : \A j, k \in 1..n : InBatch(j, i) /\ InBatch(k, i) => j = k
        BY DEF IndInv, OnePlace, n
      <4>2. \A i \in BatchIndices(b) : \A k \in 1..n : ~InBatch(k, i)
        BY <1>5 DEF Queued, n
      <4> QED
        BY <2>1, <2>2, <4>1, <4>2
    <3>4. \A i : \A s, t \in Submitters : Held(s, i)' /\ Held(t, i)' => s = t
      BY <2>4 DEF IndInv, OnePlace
    <3>5. ~repeated'
      BY <1>1 DEF IndInv, OnePlace
    <3> QED
      BY <2>1, <3>1, <3>2, <3>3, <3>4, <3>5 DEF OnePlace
  <2>6. Types'
    BY <1>1, <1>3, <1>7, <2>1 DEF IndInv, Types
  <2>7. Phases'
    BY <1>1, <1>2, <1>3, <1>4, <1>7 DEF IndInv, Phases
  <2>8. Kept'
    <3>1. ~ctxDone => \A i \in Indices : delivered'[i] = 1 =>
            i \in stored' \/ Queued(i)' \/ \E s \in Submitters : Held(s, i)'
      BY <1>2, <1>3, <2>3, <2>4 DEF IndInv, Kept
    <3> QED
      BY <1>2, <1>3, <3>1, StillKept DEF IndInv
  <2> QED
    BY <1>2, <2>5, <2>6, <2>7, <2>8 DEF IndInv
<1>8. ASSUME NEW s \in Submitters, batches = <<>>, batches' = batches, spc[s] = "recv",
             spc' = [spc EXCEPT ![s] = "add"], batch' = [batch EXCEPT ![s] = b]
      PROVE  IndInv'
  <2>1. \A i : \A t \in Submitters :
          Held(t, i)' <=> IF t = s THEN i \in BatchIndices(b) ELSE Held(t, i)
    BY <1>4, <1>8 DEF Held, BatchIndices
  <2>2. \A i : ~Queued(i) /\ ~Queued(i)'
    BY <1>8 DEF Queued
  <2>3. \A i : ~Held(s, i)
    BY <1>8 DEF Held
  <2>4. OnePlace'
    <3>1. \A t \in Submitters : \A i : Held(t, i)' =>
            i \in Indices /\ delivered'[i] = 1 /\ i \notin submitted' /\ ~Queued(i)'
      BY <1>1, <1>2, <1>6, <2>1, <2>2 DEF IndInv, OnePlace
    <3>2. \A i : \A t, u \in Submitters : Held(t, i)' /\ Held(u, i)' => t = u
      BY <1>5, <2>1 DEF IndInv, OnePlace
    <3> QED
      BY <1>1, <1>8, <2>2, <3>1, <3>2 DEF IndInv, OnePlace
  <2>5. Types'
    BY <1>1, <1>2, <1>3, <1>4, <1>8 DEF IndInv, Types
  <2>6. Phases'
    BY <1>1, <1>2, <1>3, <1>4, <1>8 DEF IndInv, Phases
  <2>7. Kept'
    <3>1. ~ctxDone => \A i \in Indices : delivered'[i] = 1 =>
            i \in stored' \/ Queued(i)' \/ \E t \in Submitters : Held(t, i)'
      BY <1>2, <1>3, <2>1, <2>2, <2>3 DEF IndInv, Kept
    <3> QED
      BY <1>2, <1>3, <3>1, StillKept DEF IndInv
  <2> QED
    BY <1>2, <2>4, <2>5, <2>6, <2>7 DEF IndInv
<1> QED
  BY <1>7, <1>8 DEF HandlerSends, b

\* A submitter takes the first batch of the channel.
LEMMA ReceiveStep ==
    ASSUME IndInv, NEW s \in Submitters, Receive(s)
    PROVE  IndInv'
<1> DEFINE n == Len(batches)
           b == Head(batches)
<1>1. /\ ctl \in {"fetch", "wait"} /\ spc[s] = "recv" /\ batches # <<>>
      /\ spc' = [spc EXCEPT ![s] = "add"] /\ batch' = [batch EXCEPT ![s] = b]
      /\ batches' = Tail(batches)
      /\ UNCHANGED <<treeSize, fetchVars, stored, root, runVars, closed, submitted, repeated>>
  BY DEF Receive, Submitting, trillianVars
<1>2. /\ UNCHANGED <<treeSize, ctxDone, sth, optsStart, optsEnd, continuous, cancelSet, run, cctxDone,
                     gen, start, end, pc, rStart, rEnd, got, delivered, stopCalled>>
      /\ UNCHANGED <<isContinuous, mctxDone, ctl, pos, first, rootSize, outcome>>
  BY <1>1 DEF fetchVars, runVars
<1>3. FP!IndInv' /\ FP!AboveStart'
  BY <1>2, FetcherKept DEF IndInv, FP!IndInv, FP!TypeOK
<1>4. /\ n \in Nat /\ n > 0 /\ ChannelSize \in Nat /\ batches \in Seq(Batches) /\ n <= ChannelSize
      /\ spc \in [Submitters -> {"none", "recv", "add", "done"}] /\ batch \in [Submitters -> Batches]
  BY <1>1, ChannelAssumption DEF IndInv, Types
<1>5. /\ b = batches[1] /\ b \in Batches
      /\ batches' \in Seq(Batches) /\ Len(batches') = n - 1
      /\ \A k \in 1..(n - 1) : batches'[k] = batches[k + 1]
  BY <1>1, <1>4
<1>6. /\ \A k \in 1..(n - 1) : k + 1 \in 1..n /\ k + 1 # 1
      /\ \A k \in 1..n : k = 1 \/ k - 1 \in 1..(n - 1)
      /\ 1 \in 1..n
  BY <1>4
<1>7. /\ \A i : InBatch(1, i) <=> i \in BatchIndices(b)
      /\ \A i : \A k \in 1..(n - 1) : InBatch(k, i)' <=> InBatch(k + 1, i)
  BY <1>5 DEF InBatch, BatchIndices
<1> HIDE DEF n, b
<1>8. \A i : \A j, k \in 1..n : InBatch(j, i) /\ InBatch(k, i) => j = k
  BY DEF IndInv, OnePlace, n
<1>9. \A i \in BatchIndices(b) : \A k \in 1..(n - 1) : ~InBatch(k, i)'
  BY <1>6, <1>7, <1>8
<1>10. \A i : Queued(i)' <=> Queued(i) /\ i \notin BatchIndices(b)
  <2>1. \A i : Queued(i)' <=> \E k \in 1..(n - 1) : InBatch(k, i)'
    BY <1>5 DEF Queued
  <2>2. \A i : Queued(i)' => Queued(i) /\ i \notin BatchIndices(b)
    BY <1>6, <1>7, <1>9, <2>1 DEF Queued, n
  <2>3. ASSUME NEW i, Queued(i), i \notin BatchIndices(b) PROVE Queued(i)'
    <3>1. PICK k \in 1..n : InBatch(k, i)
      BY <2>3 DEF Queued, n
    <3>2. k # 1
      BY <1>7, <2>3, <3>1
    <3>3. k - 1 \in 1..(n - 1) /\ (k - 1) + 1 = k
      BY <1>6, <3>1, <3>2
    <3>4. \A j \in 1..(n - 1) : j + 1 = k => InBatch(j, i)'
      BY <1>7, <3>1
    <3> QED
      BY <2>1, <3>3, <3>4
  <2> QED
    BY <2>2, <2>3
<1>11. \A i : i \in BatchIndices(b) => Queued(i)
  BY <1>6, <1>7 DEF Queued, n
<1>12. \A i : \A t \in Submitters :
         Held(t, i)' <=> IF t = s THEN i \in BatchIndices(b) ELSE Held(t, i)
  BY <1>1, <1>4 DEF Held, BatchIndices
<1>13. \A i : ~Held(s, i)
  BY <1>1 DEF Held
<1>14. OnePlace'
  <2>1. \A i : Queued(i)' => i \in Indices /\ delivered'[i] = 1 /\ i \notin submitted'
    BY <1>1, <1>2, <1>10 DEF IndInv, OnePlace
  <2>2. \A t \in Submitters : \A i : Held(t, i)' =>
          i \in Indices /\ delivered'[i] = 1 /\ i \notin submitted' /\ ~Queued(i)'
    BY <1>1, <1>2, <1>10, <1>11, <1>12 DEF IndInv, OnePlace
  <2>3. \A i : \A j, k \in 1..(n - 1) : InBatch(j, i)' /\ InBatch(k, i)' => j = k
    <3>1. \A j, k \in 1..(n - 1) : j + 1 = k + 1 => j = k
      OBVIOUS
    <3> QED
      BY <1>6, <1>7, <1>8, <3>1
  <2>4. \A i : \A t, u \in Submitters : Held(t, i)' /\ Held(u, i)' => t = u
    BY <1>11, <1>12 DEF IndInv, OnePlace
  <2> QED
    BY <1>1, <1>5, <2>1, <2>2, <2>3, <2>4 DEF IndInv, OnePlace
<1>15. Types'
  BY <1>1, <1>2, <1>4, <1>5 DEF IndInv, Types
<1>16. Phases'
  BY <1>1, <1>2, <1>4 DEF IndInv, Phases
<1>17. Behind'
  BY <1>1, <1>2 DEF IndInv, Behind
<1>18. Kept'
  <2>1. NoGaps'
    BY <1>1, <1>2 DEF IndInv, Kept, NoGaps, Claimed
  <2>2. ~ctxDone => \A i \in Indices : delivered'[i] = 1 =>
          i \in stored' \/ Queued(i)' \/ \E t \in Submitters : Held(t, i)'
    BY <1>1, <1>2, <1>10, <1>12, <1>13 DEF IndInv, Kept
  <2> QED
    BY <1>1, <1>2, <2>1, <2>2, StillKept DEF IndInv
<1> QED
  BY <1>3, <1>14, <1>15, <1>16, <1>17, <1>18 DEF IndInv

\* A submitter finds the channel closed and drained.
LEMMA NoMoreBatchesStep ==
    ASSUME IndInv, NEW s \in Submitters, NoMoreBatches(s)
    PROVE  IndInv'
<1>1. /\ spc[s] = "recv" /\ closed /\ batches = <<>> /\ spc' = [spc EXCEPT ![s] = "done"]
      /\ UNCHANGED <<treeSize, fetchVars, stored, root, runVars, batches, closed, batch, submitted, repeated>>
  BY DEF NoMoreBatches, trillianVars, chanVars
<1>2. /\ UNCHANGED <<treeSize, ctxDone, sth, optsStart, optsEnd, continuous, cancelSet, run, cctxDone,
                     gen, start, end, pc, rStart, rEnd, got, delivered, stopCalled>>
      /\ UNCHANGED <<isContinuous, mctxDone, ctl, pos, first, rootSize, outcome>>
  BY <1>1 DEF fetchVars, runVars
<1>3. FP!IndInv' /\ FP!AboveStart'
  BY <1>2, FetcherKept DEF IndInv, FP!IndInv, FP!TypeOK
<1>4. spc \in [Submitters -> {"none", "recv", "add", "done"}]
  BY DEF IndInv, Types
<1>5. /\ OnePlace'
      /\ \A i : Queued(i)' <=> Queued(i)
      /\ \A i : \A t \in Submitters : Held(t, i)' <=> Held(t, i)
  BY <1>1, <1>2, <1>4, PlacesKept DEF IndInv
<1>6. Types'
  BY <1>1, <1>2, <1>4 DEF IndInv, Types
<1>7. Phases'
  BY <1>1, <1>2, <1>4 DEF IndInv, Phases
<1>8. Behind'
  BY <1>1, <1>2 DEF IndInv, Behind
<1>9. Kept'
  <2>1. NoGaps'
    BY <1>1, <1>2 DEF IndInv, Kept, NoGaps, Claimed
  <2> QED
    BY <1>1, <1>2, <1>5, <2>1, StillKept DEF IndInv, Kept
<1> QED
  BY <1>3, <1>5, <1>6, <1>7, <1>8, <1>9 DEF IndInv

\* A submitter is done with its batch: it was submitted, and Trillian has it or the
\* context is done; or it was skipped, and the context is done.
LEMMA AddSteps ==
    ASSUME IndInv, NEW s \in Submitters, AddOK(s) \/ AddSkipped(s) \/ AddFails(s)
    PROVE  IndInv'
<1> DEFINE B == BatchIndices(batch[s])
<1>1. /\ ctl \in {"fetch", "wait"} /\ spc[s] = "add"
      /\ spc' = [spc EXCEPT ![s] = spc'[s]] /\ spc'[s] \in {"recv", "done"}
      /\ batch' = [batch EXCEPT ![s] = NoBatch]
      /\ UNCHANGED <<treeSize, sth, optsStart, optsEnd, continuous, cancelSet, run, cctxDone,
                     gen, start, end, pc, rStart, rEnd, got, delivered, stopCalled>>
      /\ UNCHANGED <<root, isContinuous, mctxDone, ctl, pos, first, rootSize, outcome, batches, closed>>
  BY DEF AddOK, AddSkipped, AddFails, Submitting, IndInv, Types, fetchVars, trillianVars, runVars, chanVars
<1>2. /\ stored \subseteq stored' /\ stored' \subseteq stored \cup B
      /\ B \subseteq stored' \/ ctxDone'
      /\ spc'[s] = "done" => ctxDone'
      /\ ctxDone => ctxDone'
  BY <1>1 DEF AddOK, AddSkipped, AddFails, IndInv, Types, fetchVars, trillianVars
<1>3. \/ submitted' = submitted /\ repeated' = repeated
      \/ submitted' = submitted \cup B /\ repeated' = (repeated \/ B \cap submitted # {})
  BY DEF AddOK, AddSkipped, AddFails, Submits
<1>4. ctxDone' \in BOOLEAN
  <2>1. ctxDone \in BOOLEAN
    BY DEF IndInv, FP!IndInv, FP!TypeOK
  <2>2. CASE ctxDone' = ctxDone
    BY <2>1, <2>2, Zenon
  <2>3. CASE ctxDone' = TRUE
    BY <2>3, Zenon
  <2> QED
    BY <2>2, <2>3 DEF AddOK, AddSkipped, AddFails, fetchVars
<1>5. FP!IndInv' /\ FP!AboveStart'
  BY <1>1, <1>2, <1>4, FetcherKept DEF IndInv
<1>6. /\ spc \in [Submitters -> {"none", "recv", "add", "done"}] /\ batch \in [Submitters -> Batches]
      /\ NoBatch \in Batches
  BY DEF IndInv, Types, NoBatch, Batches
<1> HIDE DEF B
<1>7. /\ \A i : Held(s, i) <=> i \in B
      /\ \A i : \A t \in Submitters : Held(t, i)' <=> t # s /\ Held(t, i)
  BY <1>1, <1>6 DEF Held, B, BatchIndices
<1>8. \A i \in B : i \in Indices /\ delivered[i] = 1 /\ i \notin submitted /\ ~Queued(i)
  BY <1>7 DEF IndInv, OnePlace
<1>9. ~repeated /\ ~repeated'
  <2>1. ~repeated
    BY DEF IndInv, OnePlace
  <2>2. B \cap submitted = {}
    BY <1>8
  <2>3. repeated = FALSE
    <3>1. repeated \in BOOLEAN
      BY DEF IndInv, Types
    <3> QED
      BY <2>1, <3>1, Zenon
  <2>4. CASE repeated' = repeated
    BY <2>1, <2>3, <2>4, Zenon
  <2>5. CASE repeated' = (repeated \/ B \cap submitted # {})
    <3>1. (repeated \/ B \cap submitted # {}) = FALSE
      BY <2>1, <2>2, Zenon
    <3>2. repeated' = FALSE
      BY <2>5, <3>1, Zenon
    <3> QED
      BY <2>1, <3>2, Zenon
  <2> QED
    BY <1>3, <2>4, <2>5
<1>10. /\ \A i : \A k : InBatch(k, i)' <=> InBatch(k, i)
       /\ \A i : Queued(i)' <=> Queued(i)
  BY <1>1 DEF InBatch, Queued, BatchIndices
<1>11. OnePlace'
  <2>1. \A i : Queued(i)' => i \in Indices /\ delivered'[i] = 1 /\ i \notin submitted'
    BY <1>1, <1>3, <1>8, <1>10 DEF IndInv, OnePlace
  <2>2. \A t \in Submitters : \A i : Held(t, i)' =>
          i \in Indices /\ delivered'[i] = 1 /\ i \notin submitted' /\ ~Queued(i)'
    BY <1>1, <1>3, <1>7, <1>10 DEF IndInv, OnePlace
  <2>3. \A i : \A j, k \in 1..Len(batches') : InBatch(j, i)' /\ InBatch(k, i)' => j = k
    BY <1>1, <1>10 DEF IndInv, OnePlace
  <2>4. \A i : \A t, u \in Submitters : Held(t, i)' /\ Held(u, i)' => t = u
    BY <1>7 DEF IndInv, OnePlace
  <2> QED
    BY <1>9, <2>1, <2>2, <2>3, <2>4 DEF OnePlace
<1>12. Types'
  <2>1. repeated' \in BOOLEAN
    <3>1. repeated' = FALSE
      <4>1. repeated \in BOOLEAN
        BY DEF IndInv, Types
      <4> QED
        BY <1>3, <1>9, <4>1, Zenon
    <3> QED
      BY <3>1, Zenon
  <2>2. stored' \subseteq Indices /\ submitted' \subseteq Indices
    BY <1>2, <1>3, <1>8 DEF IndInv, Types
  <2> QED
    BY <1>1, <1>6, <2>1, <2>2 DEF IndInv, Types
<1>13. Phases'
  BY <1>1, <1>2, <1>6 DEF IndInv, Phases
<1>14. Behind'
  BY <1>1, <1>3, <1>8 DEF IndInv, Behind
<1>15. Kept'
  <2>1. NoGaps'
    BY <1>1, <1>2 DEF IndInv, Kept, NoGaps, Claimed
  <2>2. ~ctxDone' => \A i \in Indices : delivered'[i] = 1 =>
          i \in stored' \/ Queued(i)' \/ \E t \in Submitters : Held(t, i)'
    BY <1>1, <1>2, <1>7, <1>10 DEF IndInv, Kept
  <2> QED
    BY <1>1, <1>2, <2>1, <2>2, StillKept DEF IndInv
<1> QED
  BY <1>5, <1>11, <1>12, <1>13, <1>14, <1>15 DEF IndInv

---------------------------------------------------------------------------
\* Every step of the Controller and of its environment preserves the invariant.
LEMMA NextIndInv == IndInv /\ [Next]_vars => IndInv'
<1> SUFFICES ASSUME IndInv, [Next]_vars PROVE IndInv'
  OBVIOUS
<1>1. CASE LogGrows \/ FetcherRun \/ FetcherGen
  BY <1>1, InFetcherKeeps DEF LogGrows, FetcherRun, FetcherGen, InFetcher, FetcherStep
<1>2. CASE \E w \in Workers : FetcherMove(w) \/ FetcherGet(w) \/ FetcherRetry(w)
  BY <1>2, InFetcherKeeps DEF FetcherMove, FetcherGet, FetcherRetry, InFetcher, FetcherStep
<1>3. CASE Integrate \/ LoseMastership \/ TailFails \/ StopAfter \/ CloseBatches \/ UNCHANGED vars
  BY <1>3, ControlSteps
<1>4. CASE GetRoot \/ Prepare \/ Verify \/ TailReturns \/ Restart \/ Crash
  BY <1>4, GetRootStep, PrepareStep, VerifyStep, TailReturnsStep, RestartStep, CrashStep
<1>5. CASE \E w \in Workers : Handler(w)
  BY <1>5, HandlerSendsStep, HandlerDropsStep DEF Handler
<1>6. CASE \E s \in Submitters : SubmitterStep(s)
  BY <1>6, ReceiveStep, NoMoreBatchesStep, AddSteps DEF SubmitterStep
<1> QED
  BY <1>1, <1>2, <1>3, <1>4, <1>5, <1>6 DEF Next, TailStep

\* The invariant holds in every behaviour of the Controller.
THEOREM IndInvHolds == Spec => []IndInv
BY InitIndInv, NextIndInv, PTL DEF Spec

\* Type correctness: the channel stays within its capacity, Run within the Log.
THEOREM TypeCorrect == Spec => []TypeOK
<1>1. IndInv => TypeOK
  <2> SUFFICES ASSUME IndInv PROVE TypeOK
    OBVIOUS
  <2>1. F!TypeOK
    BY DEF IndInv, FP!IndInv, FP!TypeOK, F!TypeOK, F!Indices, FP!Indices
  <2> QED
    BY <2>1 DEF IndInv, Types, TypeOK, Batches
<1> QED
  BY <1>1, IndInvHolds, PTL

\* Whatever fails, is lost, cancelled, restarted or crashes, and however many workers and
\* submitters there are: a Run claims no entry that Trillian does not have, and submits no
\* entry twice (controller.go:228, 264, 330).
THEOREM MigratesOnce == Spec => []TransfersOnce
<1>1. IndInv => TransfersOnce
  BY DEF IndInv, OnePlace, Kept, TransfersOnce, NoResubmission
<1> QED
  BY <1>1, IndInvHolds, PTL

\* Trillian never loses a leaf and its root never goes back, so that a Run that starts
\* from the root again misses nothing: all below the root is stored (controller.go:237).
THEOREM RootIsStored == Spec => [](\A i \in Indices : i < root => i \in stored)
<1>1. IndInv => \A i \in Indices : i < root => i \in stored
  BY DEF IndInv, Kept
<1> QED
  BY <1>1, IndInvHolds, PTL
===========================================================================
