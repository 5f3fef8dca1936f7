--------------------------- MODULE ScannerProofs ---------------------------
(***************************************************************************)
(* Proofs about the Scanner, for any number of workers and matchers, any   *)
(* buffer, any Log and any matcher.                                        *)
(*                                                                         *)
(* The argument: what FetcherProofs shows of the Fetcher holds of the one  *)
(* in the Scanner, for flatten only divides its callback into steps.  An   *)
(* index that flatten has sent is then in one place: the channel, the      *)
(* hands of one matcher, or among those processed; close and the matchers' *)
(* return empty all but the last.                                          *)
(***************************************************************************)
EXTENDS Scanner, FiniteSetTheorems, TLAPS

FP == INSTANCE FetcherProofs

\* flatten has sent index i: in the batch that worker w has in hand, or in one before.
SentBy(w, i) == pc[w] = "deliver" /\ rStart[w] <= i /\ i < rStart[w] + sent[w]
Sent(i) == delivered[i] = 1 \/ \E w \in Workers : SentBy(w, i)

\* Where an index is that was sent.
Buffered(i) == \E k \in 1..Len(entries) : entries[k] = i
Held(m, i) == mpc[m] = "process" /\ cur[m] = i
Processed == {i \in Indices : processed[i] > 0}
Found == {i \in Indices : found[i] > 0}

Types ==
    /\ log \in [Indices -> Kinds]
    /\ scan \in {"prepare", "running", "wait", "returned"}
    /\ result \in -1..MaxTreeSize
    /\ sent \in [Workers -> 0..BatchSize]
    /\ entries \in Seq(Indices) /\ Len(entries) <= BufferSize
    /\ closed \in BOOLEAN
    /\ mpc \in [Matchers -> {"none", "recv", "process", "done"}]
    /\ cur \in [Matchers -> Nat]
    /\ processed \in [Indices -> Nat] /\ found \in [Indices -> Nat]

\* What the phases of ScanLog say of the Fetcher, the channel and the matchers.
Phases ==
    /\ ~stopCalled
    /\ run # "idle" => sth >= 0
    /\ run # "failed"
    /\ scan \in {"running", "wait"} <=> result = -1 /\ run # "idle"
    /\ scan = "prepare" => run = "idle" /\ result = -1
    /\ scan = "running" => ~closed
    /\ result >= 0 => scan = "returned" /\ closed
    /\ scan = "wait" => closed
    /\ closed => run = "returned"
    /\ result >= 0 => \A m \in Matchers : mpc[m] = "done"
    /\ \A m \in Matchers : mpc[m] = "done" => closed /\ entries = <<>>
    /\ run = "idle" => \A m \in Matchers : mpc[m] = "none"

\* flatten sends no more than it was given.
Batches ==
    \A w \in Workers : sent[w] <= got[w] /\ (pc[w] # "deliver" => sent[w] = 0)

\* An index that was sent is in one place, and one that was not is in none.
OnePlace ==
    /\ \A i \in Indices : Sent(i) =>
        processed[i] = 1 \/ Buffered(i) \/ \E m \in Matchers : Held(m, i)
    /\ \A i \in Indices : processed[i] <= 1 /\ (processed[i] = 1 => Sent(i))
    /\ \A k \in 1..Len(entries) : Sent(entries[k]) /\ processed[entries[k]] = 0
    /\ \A j, k \in 1..Len(entries) : entries[j] = entries[k] => j = k
    /\ \A m \in Matchers : mpc[m] = "process" =>
        /\ cur[m] \in Indices /\ Sent(cur[m]) /\ processed[cur[m]] = 0
        /\ \A k \in 1..Len(entries) : entries[k] # cur[m]
    /\ \A m, n \in Matchers :
        m # n /\ mpc[m] = "process" /\ mpc[n] = "process" => cur[m] # cur[n]

\* The callbacks that the entries processed so far gave, and the counters.
Counts ==
    /\ \A i \in Indices : found[i] = IF processed[i] > 0 /\ HandedOver(log[i]) THEN 1 ELSE 0
    /\ certsProcessed = Cardinality(Processed)
    /\ certsMatched = IF MatcherType = "Matcher" THEN Cardinality(Found) ELSE 0
    /\ precertsSeen \in 0..certsProcessed
    /\ unparsableEntries \in 0..certsProcessed
    /\ entriesWithNonFatalErrors \in 0..certsProcessed

IndInv == FP!IndInv /\ Types /\ Phases /\ Batches /\ OnePlace /\ Counts

----------------------------------------------------------------------------
(***************************************************************************)
(* The Fetcher.                                                            *)
(***************************************************************************)
LEMMA SameIndices == F!Indices = Indices /\ FP!Indices = Indices
BY DEF F!Indices, FP!Indices, Indices

LEMMA IndexRange == \A i \in Indices : i \in Nat /\ i < MaxTreeSize
BY FetcherAssumption DEF Indices

\* The steps of the Fetcher that a step of the Scanner may be, but for the callback.
FetcherStep ==
    \/ F!LogGrows \/ F!CancelContext
    \/ F!PrepareOK \/ F!Start \/ F!Finish
    \/ F!GenStep
    \/ \E w \in Workers :
        F!NoMoreRanges(w) \/ F!CheckRange(w) \/ F!GetFails(w) \/ \E n \in 1..BatchSize : F!GetOK(w, n)

LEMMA FetcherStepKeeps == FP!IndInv /\ FetcherStep => FP!IndInv'
<1> SUFFICES ASSUME FP!IndInv, FetcherStep PROVE FP!IndInv'
  OBVIOUS
<1>1. FP!Next => FP!IndInv'
  BY FetcherAssumption, FP!NextIndInv
<1> USE DEF F!optsVars, FP!optsVars, F!callVars, FP!callVars, F!genVars, FP!genVars, F!workVars, FP!workVars
<1>2. F!LogGrows => FP!LogGrows
  BY DEF F!LogGrows, FP!LogGrows
<1>3. F!CancelContext => FP!CancelContext
  BY DEF F!CancelContext, FP!CancelContext
<1>4. F!PrepareOK => FP!PrepareOK
  BY DEF F!PrepareOK, FP!PrepareOK, F!ReadSTH, FP!ReadSTH
<1>5. F!Start => FP!Start
  BY DEF F!Start, FP!Start
<1>6. F!Finish => FP!Finish
  BY DEF F!Finish, FP!Finish
<1>7. F!GenStep => FP!GenStep
  <2>1. F!GenLoop => FP!GenLoop
    BY DEF F!GenLoop, FP!GenLoop, F!MoreToSend, FP!MoreToSend
  <2>2. \A q \in BOOLEAN : F!UpdateSTH(q) => FP!UpdateSTH(q)
    BY DEF F!UpdateSTH, FP!UpdateSTH, F!BigEnough, FP!BigEnough
  <2>3. F!UpdateFails => FP!UpdateFails
    BY DEF F!UpdateFails, FP!UpdateFails
  <2>4. \A w \in Workers : F!SendRange(w) => FP!SendRange(w)
    BY DEF F!SendRange, FP!SendRange, F!LastOfBatch, FP!LastOfBatch, F!NextStart, FP!NextStart,
       F!BatchEnd, FP!BatchEnd, F!Least, FP!Least
  <2>5. F!GenCancelled => FP!GenCancelled
    BY DEF F!GenCancelled, FP!GenCancelled, F!GenDone, FP!GenDone
  <2> QED
    BY <2>1, <2>2, <2>3, <2>4, <2>5 DEF F!GenStep, FP!GenStep
<1>8. ASSUME NEW w \in Workers
      PROVE  /\ F!NoMoreRanges(w) => FP!NoMoreRanges(w)
             /\ F!CheckRange(w) => FP!CheckRange(w)
             /\ F!GetFails(w) => FP!GetFails(w)
             /\ \A n \in 1..BatchSize : F!GetOK(w, n) => FP!GetOK(w, n)
  <2>1. F!NoMoreRanges(w) => FP!NoMoreRanges(w)
    BY DEF F!NoMoreRanges, FP!NoMoreRanges
  <2>2. F!CheckRange(w) => FP!CheckRange(w)
    BY DEF F!CheckRange, FP!CheckRange, F!RangeDone, FP!RangeDone
  <2>3. F!GetFails(w) => FP!GetFails(w)
    BY DEF F!GetFails, FP!GetFails
  <2>4. \A n \in 1..BatchSize : F!GetOK(w, n) => FP!GetOK(w, n)
    BY DEF F!GetOK, FP!GetOK
  <2> QED
    BY <2>1, <2>2, <2>3, <2>4
<1>9. FetcherStep => FP!Next
  BY <1>2, <1>3, <1>4, <1>5, <1>6, <1>7, <1>8
  DEF FetcherStep, FP!Next, FP!RunStep, FP!WorkerStep
<1> QED
  BY <1>1, <1>9

\* The callback, of which flatten is the first part.
LEMMA CallbackKeeps ==
    ASSUME FP!IndInv, NEW w \in Workers, F!Callback(w)
    PROVE  FP!IndInv'
<1>1. FP!Callback(w)
  BY DEF F!Callback, FP!Callback, F!Advance, FP!Advance, F!Indices, FP!Indices,
     F!optsVars, FP!optsVars, F!callVars, FP!callVars, F!genVars, FP!genVars
<1> QED
  BY <1>1, FetcherAssumption, FP!CallbackStep

\* What the proofs below use of the Fetcher's state.
LEMMA FetcherTypes ==
    ASSUME FP!IndInv
    PROVE  /\ F!TypeOK
           /\ rStart \in [Workers -> 0..MaxTreeSize] /\ got \in [Workers -> 0..BatchSize]
           /\ delivered \in [Indices -> Nat]
           /\ pc \in [Workers -> {"none", "recv", "check", "get", "deliver", "done"}]
           /\ \A i \in Indices : delivered[i] <= 1
<1>1. FP!TypeOK /\ FP!Disjoint
  BY DEF FP!IndInv
<1>2. F!TypeOK
  BY <1>1 DEF FP!TypeOK, F!TypeOK, F!Indices, FP!Indices
<1> QED
  BY <1>1, <1>2 DEF FP!TypeOK, FP!Disjoint, FP!Indices, Indices

\* Such a step neither takes a batch from flatten nor gives it one that is partly sent.
LEMMA FetcherEffect ==
    ASSUME FP!IndInv, Types, Phases, Batches, FetcherStep, sent' = sent
    PROVE  /\ Batches'
           /\ delivered' = delivered
           /\ \A i \in Indices : Sent(i)' <=> Sent(i)
           /\ stopCalled' = stopCalled
           /\ run # "idle" => sth' >= 0
           /\ \/ run' = run
              \/ <<run, run'>> \in {<<"prepare", "start">>, <<"start", "running">>, <<"running", "returned">>}
<1> USE FetcherAssumption, FetcherTypes
    DEF F!optsVars, F!callVars, F!genVars, F!workVars
<1> DEFINE Runs == \/ run' = run
                   \/ <<run, run'>> \in {<<"prepare", "start">>, <<"start", "running">>, <<"running", "returned">>}
           Same == UNCHANGED <<pc, rStart, got, delivered, stopCalled>>
           Kept(w) == /\ pc' = [pc EXCEPT ![w] = pc'[w]]
                      /\ pc'[w] \in {"recv", "check", "get", "done"}
                      /\ pc[w] # "deliver"
                      /\ rStart' = [rStart EXCEPT ![w] = rStart'[w]]
                      /\ UNCHANGED <<got, delivered, stopCalled>>
<1>0. treeSize \in Nat /\ sth \in Int
  BY DEF F!TypeOK
<1>1. ASSUME Same PROVE Batches' /\ \A i \in Indices : Sent(i)' <=> Sent(i)
  BY <1>1 DEF Batches, Sent, SentBy
<1>2. ASSUME NEW w \in Workers, Kept(w) PROVE Batches' /\ \A i \in Indices : Sent(i)' <=> Sent(i)
  <2>1. \A v \in Workers : (pc'[v] = pc[v] /\ rStart'[v] = rStart[v]) \/ v = w
    BY <1>2
  <2>2. \A v \in Workers : \A i \in Indices : SentBy(v, i)' <=> SentBy(v, i)
    BY <1>2, <2>1 DEF SentBy
  <2>3. Batches'
    BY <1>2, <2>1 DEF Batches
  <2> QED
    BY <1>2, <2>2, <2>3 DEF Sent
<1>3. CASE F!LogGrows \/ F!CancelContext
  <2>1. Same /\ run' = run /\ sth' = sth
    BY <1>3 DEF F!LogGrows, F!CancelContext
  <2> QED
    BY <1>1, <2>1 DEF Phases
<1>4. CASE F!PrepareOK
  <2>1. Same /\ Runs /\ sth' >= 0
    BY <1>0, <1>4 DEF F!PrepareOK, F!ReadSTH
  <2> QED
    BY <1>1, <2>1
<1>5. CASE F!Start
  <2>1. /\ pc' = [w \in Workers |-> "recv"] /\ UNCHANGED <<rStart, got, delivered, stopCalled, sth>>
        /\ Runs /\ run = "start"
    BY <1>5 DEF F!Start
  <2>2. \A w \in Workers : pc[w] = "none"
    BY <2>1 DEF FP!IndInv, FP!Phases
  <2>3. Batches'
    BY <2>1, <2>2 DEF Batches
  <2>4. \A i \in Indices : Sent(i)' <=> Sent(i)
    BY <2>1, <2>2 DEF Sent, SentBy
  <2> QED
    BY <2>1, <2>3, <2>4 DEF Phases
<1>6. CASE F!Finish
  <2>1. Same /\ Runs /\ sth' = sth
    BY <1>6 DEF F!Finish
  <2> QED
    BY <1>1, <2>1 DEF Phases
<1>7. CASE F!GenLoop \/ F!UpdateFails \/ F!GenCancelled
  <2>1. Same /\ run' = run /\ sth' = sth
    BY <1>7 DEF F!GenLoop, F!UpdateFails, F!GenCancelled
  <2> QED
    BY <1>1, <2>1 DEF Phases
<1>8. CASE \E quick \in BOOLEAN : F!UpdateSTH(quick)
  <2>1. Same /\ run' = run /\ sth' = treeSize
    BY <1>8 DEF F!UpdateSTH
  <2> QED
    BY <1>0, <1>1, <2>1
<1>9. ASSUME NEW w \in Workers,
             F!SendRange(w) \/ F!NoMoreRanges(w) \/ F!CheckRange(w) \/ F!GetFails(w)
      PROVE  Kept(w) /\ run' = run /\ sth' = sth
  BY <1>9 DEF F!SendRange, F!NoMoreRanges, F!CheckRange, F!GetFails
<1>10. ASSUME NEW w \in Workers, NEW n \in 1..BatchSize, F!GetOK(w, n)
       PROVE  /\ Batches' /\ \A i \in Indices : Sent(i)' <=> Sent(i)
              /\ UNCHANGED <<delivered, stopCalled, run, sth>>
  <2>1. /\ pc[w] = "get" /\ pc' = [pc EXCEPT ![w] = "deliver"] /\ got' = [got EXCEPT ![w] = n]
        /\ UNCHANGED <<rStart, delivered, stopCalled, run, sth>>
    BY <1>10 DEF F!GetOK
  <2>2. sent[w] = 0
    BY <2>1 DEF Batches
  <2>3. Batches'
    BY <2>1, <2>2 DEF Batches
  <2>4. \A v \in Workers : \A i \in Indices : SentBy(v, i)' <=> SentBy(v, i)
    BY <2>1, <2>2, IndexRange DEF SentBy
  <2> QED
    BY <2>1, <2>3, <2>4 DEF Sent
<1>11. ASSUME NEW w \in Workers, Kept(w), run' = run, sth' = sth
       PROVE  /\ Batches' /\ delivered' = delivered /\ \A i \in Indices : Sent(i)' <=> Sent(i)
              /\ stopCalled' = stopCalled /\ (run # "idle" => sth' >= 0) /\ Runs
  BY <1>2, <1>11 DEF Phases
<1> HIDE DEF Kept, Same
<1>12. CASE \E w \in Workers : F!SendRange(w) \/ F!NoMoreRanges(w) \/ F!CheckRange(w) \/ F!GetFails(w)
  BY <1>9, <1>11, <1>12
<1>13. CASE \E w \in Workers : \E n \in 1..BatchSize : F!GetOK(w, n)
  BY <1>10, <1>13 DEF Phases
<1> QED
  BY <1>3, <1>4, <1>5, <1>6, <1>7, <1>8, <1>12, <1>13 DEF FetcherStep, F!GenStep

\* A step of the Fetcher within the Scanner.
LEMMA InFetcherKeeps ==
    ASSUME IndInv, FetcherStep, UNCHANGED <<log, scanVars, sent, chanVars, matchVars>>
    PROVE  IndInv'
<1> USE DEF IndInv, scanVars, chanVars, matchVars, counters
<1>1. FP!IndInv'
  BY FetcherStepKeeps
<1>2. /\ Batches'
      /\ \A i \in Indices : Sent(i)' <=> Sent(i)
      /\ stopCalled' = stopCalled
      /\ run # "idle" => sth' >= 0
      /\ \/ run' = run
         \/ <<run, run'>> \in {<<"prepare", "start">>, <<"start", "running">>, <<"running", "returned">>}
  BY FetcherEffect
<1>3. Types'
  BY DEF Types
<1>4. Phases'
  BY <1>2 DEF Phases
<1>5. OnePlace'
  <2>1. \A k \in 1..Len(entries) : entries[k] \in Indices
    BY DEF Types
  <2>2. \A i : (Buffered(i)' <=> Buffered(i)) /\ \A m : Held(m, i)' <=> Held(m, i)
    BY DEF Buffered, Held
  <2> QED
    BY <1>2, <2>1, <2>2 DEF OnePlace
<1>6. Counts'
  BY DEF Counts, Processed, Found
<1> QED
  BY <1>1, <1>2, <1>3, <1>4, <1>5, <1>6

----------------------------------------------------------------------------
(***************************************************************************)
(* ScanLog and flatten.                                                    *)
(***************************************************************************)
LEMMA InitIndInv == Init => IndInv
<1> SUFFICES ASSUME Init PROVE IndInv
  OBVIOUS
<1>1. FP!IndInv
  <2>1. FP!Init
    BY DEF Init, F!Init, FP!Init, F!Indices, FP!Indices
  <2> QED
    BY <2>1, FetcherAssumption, FP!InitIndInv
<1>2. /\ pc = [w \in Workers |-> "none"] /\ delivered = [i \in Indices |-> 0] /\ stopCalled = FALSE
      /\ run = "idle" /\ got = [w \in Workers |-> 0]
  BY DEF Init, F!Init, F!Indices, Indices
<1>3. Types
  <2>1. closed \in BOOLEAN
    BY Zenon DEF Init
  <2>2. entries \in Seq(Indices) /\ Len(entries) <= BufferSize
    BY MatchersAssumption DEF Init
  <2>3. sent \in [Workers -> 0..BatchSize] /\ result \in -1..MaxTreeSize
    BY FetcherAssumption DEF Init
  <2> QED
    BY <2>1, <2>2, <2>3 DEF Init, Types
<1>4. Phases
  BY <1>2 DEF Init, Phases
<1>5. Batches
  BY <1>2 DEF Init, Batches
<1>6. OnePlace
  BY <1>2 DEF Init, OnePlace, Sent, SentBy
<1>7. Counts
  <2>1. Processed = {} /\ Found = {}
    BY DEF Init, Processed, Found
  <2>2. Cardinality({}) = 0
    BY FS_EmptySet
  <2> QED
    BY <2>1, <2>2 DEF Init, Counts
<1> QED
  BY <1>1, <1>3, <1>4, <1>5, <1>6, <1>7 DEF IndInv

\* The steps that move no index keep every index in its place.
LEMMA PlacesKept ==
    ASSUME IndInv, UNCHANGED <<delivered, pc, rStart, got, sent, entries, cur, processed>>,
           \A m \in Matchers : mpc'[m] = "process" <=> mpc[m] = "process"
    PROVE  Batches' /\ OnePlace'
<1>1. \A i : (Sent(i)' <=> Sent(i)) /\ (Buffered(i)' <=> Buffered(i))
  BY DEF Sent, SentBy, Buffered
<1>2. \A i : \A m \in Matchers : Held(m, i)' <=> Held(m, i)
  BY DEF Held
<1> QED
  BY <1>1, <1>2 DEF IndInv, OnePlace, Batches

\* ScanLog prepares the Fetcher, starts the matchers and calls Run.
LEMMA ScanStartsStep == IndInv /\ ScanStarts => IndInv'
<1> SUFFICES ASSUME IndInv, ScanStarts PROVE IndInv'
  OBVIOUS
<1>1. /\ scan = "prepare" /\ scan' = "running" /\ run' = "prepare" /\ F!ReadSTH
      /\ mpc' = [m \in Matchers |-> "recv"]
      /\ UNCHANGED <<treeSize, ctxDone, cancelSet, cctxDone, gen, start, end, pc, rStart, rEnd, got,
                     delivered, stopCalled, log, result, sent, entries, closed, cur,
                     certsProcessed, certsMatched, precertsSeen, unparsableEntries,
                     entriesWithNonFatalErrors, processed, found>>
  BY DEF ScanStarts, chanVars, counters
<1>2. run = "idle" /\ result = -1 /\ \A m \in Matchers : mpc[m] = "none"
  BY <1>1 DEF IndInv, Phases
<1>3. sth' >= 0 /\ FP!IndInv'
  <2> USE <1>1, <1>2, FetcherAssumption DEF F!ReadSTH, F!optsVars
  <2>1. FP!TypeOK' /\ sth' >= 0
    BY SMTT(40) DEF IndInv, FP!IndInv, FP!TypeOK, FP!Indices
  <2>2. FP!Phases'
    BY DEF IndInv, FP!IndInv, FP!TypeOK, FP!Phases, FP!Indices
  <2>3. FP!Disjoint' /\ FP!Covered'
    BY DEF IndInv, FP!IndInv, FP!TypeOK, FP!Phases, FP!Disjoint, FP!Covered, FP!Pending, FP!Indices
  <2> QED
    BY <2>1, <2>2, <2>3 DEF FP!IndInv
<1>4. Types'
  BY <1>1 DEF IndInv, Types
<1>5. Phases'
  BY <1>1, <1>2, <1>3 DEF IndInv, Phases
<1>6. Batches' /\ OnePlace'
  BY <1>1, <1>2, PlacesKept
<1>7. Counts'
  BY <1>1 DEF IndInv, Counts, Processed, Found
<1> QED
  BY <1>3, <1>4, <1>5, <1>6, <1>7 DEF IndInv

\* The other steps of ScanLog, and a matcher that finds the channel closed.
LEMMA ScanSteps ==
    ASSUME IndInv,
           \/ ScanFails \/ CloseEntries \/ ScanReturns \/ UNCHANGED vars
           \/ \E m \in Matchers : NoMoreEntries(m)
    PROVE  IndInv'
<1> USE DEF fetchVars, scanVars, chanVars, matchVars, counters
<1>1. UNCHANGED <<fetchVars, log, sent, entries, cur, counters, processed, found>>
  BY DEF ScanFails, CloseEntries, ScanReturns, vars, NoMoreEntries
<1>2. FP!IndInv'
  BY <1>1 DEF IndInv, FP!IndInv, FP!TypeOK, FP!Phases, FP!Disjoint, FP!Covered, FP!Pending, FP!Indices
<1>3. Counts'
  BY <1>1 DEF IndInv, Counts, Processed, Found
<1>4. \A m \in Matchers : mpc'[m] = "process" <=> mpc[m] = "process"
  BY DEF IndInv, Types, ScanFails, CloseEntries, ScanReturns, vars, NoMoreEntries
<1>5. Batches' /\ OnePlace'
  BY <1>1, <1>4, PlacesKept
<1>6. CASE ScanFails
  BY <1>2, <1>3, <1>5, <1>6 DEF ScanFails, IndInv, Types, Phases
<1>7. CASE CloseEntries
  BY <1>2, <1>3, <1>5, <1>7 DEF CloseEntries, FetchOver, IndInv, Types, Phases
<1>8. CASE ScanReturns
  <2>1. optsEnd \in 0..MaxTreeSize
    <3>1. sth >= 0
      BY <1>8 DEF ScanReturns, IndInv, Phases
    <3> QED
      BY <3>1 DEF IndInv, FP!IndInv, FP!TypeOK, FP!Phases
  <2> QED
    BY <1>2, <1>3, <1>5, <1>8, <2>1, FetcherAssumption DEF ScanReturns, MatchersOver, IndInv, Types, Phases
<1>9. CASE UNCHANGED vars
  BY <1>2, <1>3, <1>5, <1>9 DEF vars, IndInv, Types, Phases
<1>10. CASE \E m \in Matchers : NoMoreEntries(m)
  BY <1>2, <1>3, <1>5, <1>10 DEF NoMoreEntries, IndInv, Types, Phases
<1> QED
  BY <1>6, <1>7, <1>8, <1>9, <1>10

\* The fields of the Fetcher are left alone.
LEMMA FetcherKept == FP!IndInv /\ UNCHANGED fetchVars => FP!IndInv'
BY DEF fetchVars, FP!IndInv, FP!TypeOK, FP!Phases, FP!Disjoint, FP!Covered, FP!Pending, FP!Indices

\* flatten sends an index that was not sent before: it is pending at its worker, so no
\* other worker has it and it is not delivered.
LEMMA SendNew ==
    ASSUME IndInv, NEW w \in Workers, pc[w] = "deliver", sent[w] < got[w],
           sent' = [sent EXCEPT ![w] = @ + 1], UNCHANGED <<pc, rStart, delivered>>
    PROVE  /\ rStart[w] + sent[w] \in Indices
           /\ ~Sent(rStart[w] + sent[w])
           /\ \A j \in Indices : Sent(j)' <=> Sent(j) \/ j = rStart[w] + sent[w]
<1> DEFINE i == rStart[w] + sent[w]
<1>1. /\ sent \in [Workers -> 0..BatchSize] /\ rStart \in [Workers -> 0..MaxTreeSize]
      /\ got \in [Workers -> 0..BatchSize] /\ MaxTreeSize \in Nat /\ BatchSize \in Nat
  BY FetcherAssumption, FetcherTypes DEF IndInv, Types
<1>2. rStart[w] + got[w] <= rEnd[w] + 1 /\ rStart[w] + got[w] <= MaxTreeSize /\ rEnd[w] \in Int
  BY DEF IndInv, FP!IndInv, FP!Disjoint, FP!TypeOK
<1>3. i \in Indices
  BY <1>1, <1>2 DEF Indices
<1>4. \A v \in Workers : \A j \in Indices : SentBy(v, j) => FP!Pending(v, j)
  <2> SUFFICES ASSUME NEW v \in Workers, NEW j \in Indices, SentBy(v, j) PROVE FP!Pending(v, j)
    OBVIOUS
  <2>1. pc[v] = "deliver" /\ rStart[v] <= j /\ j < rStart[v] + sent[v] /\ sent[v] <= got[v]
    BY DEF SentBy, IndInv, Batches
  <2>2. rStart[v] + got[v] <= rEnd[v] + 1 /\ rEnd[v] \in Int
    BY <2>1 DEF IndInv, FP!IndInv, FP!Disjoint, FP!TypeOK
  <2> QED
    BY <1>1, <2>1, <2>2, IndexRange DEF FP!Pending
<1>5. FP!Pending(w, i)
  BY <1>1, <1>2 DEF FP!Pending
<1>6. delivered[i] = 0 /\ \A v \in Workers : v # w => ~FP!Pending(v, i)
  BY <1>3, <1>5, SameIndices DEF IndInv, FP!IndInv, FP!Disjoint
<1>7. ~Sent(i)
  <2>1. ~SentBy(w, i)
    BY <1>1 DEF SentBy
  <2> QED
    BY <1>3, <1>4, <1>6, <2>1 DEF Sent
<1>8. \A v \in Workers : \A j \in Indices : SentBy(v, j)' <=> SentBy(v, j) \/ (v = w /\ j = i)
  BY <1>1, IndexRange DEF SentBy
<1> HIDE DEF i
<1>9. \A j \in Indices : Sent(j)' <=> Sent(j) \/ j = i
  BY <1>8 DEF Sent
<1> QED
  BY <1>3, <1>7, <1>9 DEF i

\* An index that was not sent is nowhere.
LEMMA UnsentIsNowhere ==
    ASSUME IndInv, NEW i \in Indices, ~Sent(i)
    PROVE  /\ processed[i] = 0
           /\ \A k \in 1..Len(entries) : entries[k] # i
           /\ \A m \in Matchers : mpc[m] = "process" => cur[m] # i
BY DEF IndInv, OnePlace, Types

LEMMA FlattenSendsStep ==
    ASSUME IndInv, NEW w \in Workers, FlattenSends(w)
    PROVE  IndInv'
<1> DEFINE i == rStart[w] + sent[w]
           n == Len(entries)
<1>1. /\ pc[w] = "deliver" /\ sent[w] < got[w] /\ sent' = [sent EXCEPT ![w] = @ + 1]
      /\ UNCHANGED <<fetchVars, log, scan, result, closed, counters, processed, found>>
  BY DEF FlattenSends, scanVars
<1>2. UNCHANGED <<pc, rStart, got, delivered, run, sth, stopCalled>>
  BY <1>1 DEF fetchVars
<1>3. /\ i \in Indices /\ ~Sent(i)
      /\ \A j \in Indices : Sent(j)' <=> Sent(j) \/ j = i
  BY <1>1, <1>2, SendNew
<1>4. FP!IndInv'
  BY <1>1, FetcherKept DEF IndInv
<1>5. Counts'
  BY <1>1 DEF IndInv, Counts, counters, Processed, Found
<1>6. sent' \in [Workers -> 0..BatchSize] /\ Batches'
  <2>1. sent \in [Workers -> 0..BatchSize] /\ got \in [Workers -> 0..BatchSize] /\ BatchSize \in Nat
    BY FetcherAssumption, FetcherTypes DEF IndInv, Types
  <2> QED
    BY <1>1, <1>2, <2>1 DEF IndInv, Batches
<1>7. run # "returned" /\ ~closed /\ result = -1
  <2>1. run # "returned"
    BY <1>1 DEF IndInv, FP!IndInv, FP!Phases
  <2> QED
    BY <2>1 DEF IndInv, Phases, Types
<1>8. /\ n \in Nat /\ entries \in Seq(Indices) /\ \A k \in 1..n : entries[k] \in Indices
      /\ processed[i] = 0
      /\ \A k \in 1..n : entries[k] # i
      /\ \A m \in Matchers : mpc[m] = "process" => cur[m] # i
  BY <1>3, UnsentIsNowhere DEF IndInv, Types
<1> HIDE DEF i
<1>9. CASE HasRoom /\ entries' = Append(entries, i) /\ UNCHANGED <<mpc, cur>>
  <2>1. /\ n < BufferSize /\ entries' \in Seq(Indices) /\ Len(entries') = n + 1
        /\ \A k \in 1..n : entries'[k] = entries[k]
        /\ entries'[n + 1] = i
    BY <1>3, <1>8, <1>9 DEF HasRoom
  <2>2. \A k : k \in 1..(n + 1) <=> k \in 1..n \/ k = n + 1
    BY <1>8
  <2>3. Types'
    BY <1>1, <1>6, <1>9, <2>1, MatchersAssumption, SMTT(40) DEF IndInv, Types
  <2>4. Phases'
    BY <1>1, <1>2, <1>7, <1>9 DEF IndInv, Phases
  <2>5. \A j : Buffered(j)' <=> Buffered(j) \/ j = i
    BY <2>1, <2>2 DEF Buffered
  <2>6. \A j : \A m \in Matchers : Held(m, j)' <=> Held(m, j)
    BY <1>9 DEF Held
  <2>7. OnePlace'
    <3>1. \A j \in Indices : Sent(j)' =>
            processed'[j] = 1 \/ Buffered(j)' \/ \E m \in Matchers : Held(m, j)'
      BY <1>1, <1>3, <2>5, <2>6 DEF IndInv, OnePlace
    <3>2. \A j \in Indices : processed'[j] <= 1 /\ (processed'[j] = 1 => Sent(j)')
      BY <1>1, <1>3 DEF IndInv, OnePlace
    <3>3. \A k \in 1..(n + 1) : Sent(entries[k])' /\ processed'[entries'[k]] = 0
      BY <1>1, <1>3, <1>8, <2>1, <2>2 DEF IndInv, OnePlace
    <3>4. \A j, k \in 1..(n + 1) : entries'[j] = entries'[k] => j = k
      BY <1>8, <2>1, <2>2 DEF IndInv, OnePlace
    <3>5. \A m \in Matchers : mpc'[m] = "process" =>
            /\ cur'[m] \in Indices /\ Sent(cur[m])' /\ processed'[cur'[m]] = 0
            /\ \A k \in 1..(n + 1) : entries'[k] # cur'[m]
      BY <1>1, <1>3, <1>8, <1>9, <2>1, <2>2 DEF IndInv, OnePlace
    <3>6. \A l, m \in Matchers :
            l # m /\ mpc'[l] = "process" /\ mpc'[m] = "process" => cur'[l] # cur'[m]
      BY <1>9 DEF IndInv, OnePlace
    <3> HIDE DEF n
    <3> QED
      BY <2>1, <3>1, <3>2, <3>3, <3>4, <3>5, <3>6 DEF OnePlace
  <2> QED
    BY <1>4, <1>5, <1>6, <2>3, <2>4, <2>7 DEF IndInv
<1>10. ASSUME NEW m \in Matchers, entries = <<>>, entries' = entries, mpc[m] = "recv",
              mpc' = [mpc EXCEPT ![m] = "process"], cur' = [cur EXCEPT ![m] = i]
       PROVE  IndInv'
  <2>1. /\ mpc \in [Matchers -> {"none", "recv", "process", "done"}] /\ cur \in [Matchers -> Nat]
        /\ i \in Nat
    BY <1>3, IndexRange DEF IndInv, Types
  <2>2. Types'
    BY <1>1, <1>6, <1>10, <2>1 DEF IndInv, Types
  <2>3. Phases'
    BY <1>1, <1>2, <1>7, <1>10, <2>1 DEF IndInv, Phases
  <2>4. \A j : \A l \in Matchers : Held(l, j)' <=> IF l = m THEN j = i ELSE Held(l, j)
    BY <1>10, <2>1 DEF Held
  <2>5. \A j : ~Buffered(j) /\ ~Buffered(j)'
    BY <1>10 DEF Buffered
  <2>6. OnePlace'
    <3>1. \A j \in Indices : Sent(j)' =>
            processed'[j] = 1 \/ Buffered(j)' \/ \E l \in Matchers : Held(l, j)'
      <4>1. \A j : ~Held(m, j)
        BY <1>10 DEF Held
      <4> QED
        BY <1>1, <1>3, <2>4, <2>5, <4>1 DEF IndInv, OnePlace
    <3>2. \A j \in Indices : processed'[j] <= 1 /\ (processed'[j] = 1 => Sent(j)')
      BY <1>1, <1>3 DEF IndInv, OnePlace
    <3>3. \A l \in Matchers : mpc'[l] = "process" =>
            cur'[l] \in Indices /\ Sent(cur[l])' /\ processed'[cur'[l]] = 0
      BY <1>1, <1>3, <1>8, <1>10, <2>1 DEF IndInv, OnePlace
    <3>4. \A l, k \in Matchers :
            l # k /\ mpc'[l] = "process" /\ mpc'[k] = "process" => cur'[l] # cur'[k]
      BY <1>8, <1>10, <2>1 DEF IndInv, OnePlace
    <3> QED
      BY <1>10, <3>1, <3>2, <3>3, <3>4 DEF OnePlace
  <2> QED
    BY <1>4, <1>5, <1>6, <2>2, <2>3, <2>6 DEF IndInv
<1> QED
  BY <1>9, <1>10 DEF FlattenSends, i

\* flatten returns, and the callback is over: what was sent is what is delivered.
LEMMA FlattenReturnsStep ==
    ASSUME IndInv, NEW w \in Workers, FlattenReturns(w)
    PROVE  IndInv'
<1>1. /\ sent[w] = got[w] /\ F!Callback(w) /\ sent' = [sent EXCEPT ![w] = 0]
      /\ UNCHANGED <<log, scan, result, entries, closed, mpc, cur, certsProcessed, certsMatched,
                     precertsSeen, unparsableEntries, entriesWithNonFatalErrors, processed, found>>
  BY DEF FlattenReturns, scanVars, chanVars, matchVars, counters
<1>2. FP!IndInv'
  BY <1>1, CallbackKeeps DEF IndInv
<1>3. /\ pc[w] = "deliver" /\ pc' = [pc EXCEPT ![w] = "check"]
      /\ delivered' = [i \in Indices |->
                          IF rStart[w] <= i /\ i < rStart[w] + got[w] THEN delivered[i] + 1 ELSE delivered[i]]
      /\ rStart' = [rStart EXCEPT ![w] = rStart[w] + got[w]]
      /\ UNCHANGED <<got, run, sth, stopCalled>>
  BY <1>1 DEF F!Callback, F!Advance, F!Indices, Indices, F!optsVars, F!callVars
<1>4. /\ sent \in [Workers -> 0..BatchSize] /\ got \in [Workers -> 0..BatchSize] /\ BatchSize \in Nat
      /\ rStart \in [Workers -> 0..MaxTreeSize] /\ delivered \in [Indices -> Nat]
      /\ pc \in [Workers -> {"none", "recv", "check", "get", "deliver", "done"}]
      /\ \A i \in Indices : delivered[i] <= 1
      /\ \A i \in Indices : delivered'[i] <= 1
  BY <1>2, FetcherAssumption, FetcherTypes DEF IndInv, Types, FP!IndInv, FP!Disjoint, FP!Indices, Indices
<1>5. sent' \in [Workers -> 0..BatchSize] /\ Batches'
  BY <1>1, <1>3, <1>4 DEF IndInv, Batches
<1>6. \A i \in Indices : Sent(i)' <=> Sent(i)
  <2>1. \A v \in Workers : \A i \in Indices : SentBy(v, i)' <=> SentBy(v, i) /\ v # w
    BY <1>1, <1>3, <1>4 DEF SentBy
  <2>2. \A i \in Indices : SentBy(w, i) <=> rStart[w] <= i /\ i < rStart[w] + got[w]
    BY <1>1, <1>3 DEF SentBy
  <2>3. \A i \in Indices : delivered'[i] = 1 <=> delivered[i] = 1 \/ SentBy(w, i)
    BY <1>3, <1>4, <2>2
  <2> QED
    BY <2>1, <2>3 DEF Sent
<1>7. Types'
  BY <1>1, <1>5 DEF IndInv, Types
<1>8. Phases'
  BY <1>1, <1>3 DEF IndInv, Phases
<1>9. OnePlace'
  <2>1. \A k \in 1..Len(entries) : entries[k] \in Indices
    BY DEF IndInv, Types
  <2>2. \A i : (Buffered(i)' <=> Buffered(i)) /\ \A m : Held(m, i)' <=> Held(m, i)
    BY <1>1 DEF Buffered, Held
  <2> QED
    BY <1>1, <1>6, <2>1, <2>2 DEF IndInv, OnePlace
<1>10. Counts'
  BY <1>1 DEF IndInv, Counts, Processed, Found
<1> QED
  BY <1>2, <1>5, <1>7, <1>8, <1>9, <1>10 DEF IndInv

----------------------------------------------------------------------------
(***************************************************************************)
(* The matchers.                                                           *)
(***************************************************************************)
\* A matcher takes the first entry of the channel.
LEMMA ReceiveStep ==
    ASSUME IndInv, NEW m \in Matchers, Receive(m)
    PROVE  IndInv'
<1> DEFINE n == Len(entries)
           i == Head(entries)
<1>1. /\ mpc[m] = "recv" /\ entries # <<>> /\ entries' = Tail(entries)
      /\ mpc' = [mpc EXCEPT ![m] = "process"] /\ cur' = [cur EXCEPT ![m] = i]
      /\ UNCHANGED <<fetchVars, log, scan, result, sent, closed, counters, processed, found>>
  BY DEF Receive, scanVars
<1>2. UNCHANGED <<pc, rStart, got, delivered, run, sth, stopCalled>>
  BY <1>1 DEF fetchVars
<1>3. /\ n \in Nat /\ n > 0 /\ n <= BufferSize /\ BufferSize \in Nat /\ entries \in Seq(Indices)
      /\ mpc \in [Matchers -> {"none", "recv", "process", "done"}] /\ cur \in [Matchers -> Nat]
  BY <1>1, MatchersAssumption DEF IndInv, Types
<1>4. /\ i = entries[1] /\ i \in Indices /\ i \in Nat
      /\ entries' \in Seq(Indices) /\ Len(entries') = n - 1
      /\ \A k \in 1..(n - 1) : entries'[k] = entries[k + 1]
  BY <1>1, <1>3, IndexRange
<1>5. \A j \in Indices : Sent(j)' <=> Sent(j)
  BY <1>1, <1>2 DEF Sent, SentBy
<1>6. FP!IndInv'
  BY <1>1, FetcherKept DEF IndInv
<1>7. Counts'
  BY <1>1 DEF IndInv, Counts, counters, Processed, Found
<1>8. Batches'
  BY <1>1, <1>2 DEF IndInv, Batches
<1>9. Sent(i) /\ processed[i] = 0 /\ \A l \in Matchers : mpc[l] = "process" => cur[l] # i
  <2>1. 1 \in 1..n
    BY <1>3
  <2> QED
    BY <1>4, <2>1 DEF IndInv, OnePlace
<1>10. \A k \in 1..(n - 1) : k + 1 \in 1..n /\ k + 1 # 1 /\ entries[k + 1] # i
  <2>1. \A k \in 1..(n - 1) : k + 1 \in 1..n /\ k + 1 # 1
    BY <1>3
  <2>2. 1 \in 1..n
    BY <1>3
  <2> QED
    BY <1>4, <2>1, <2>2 DEF IndInv, OnePlace
<1>11. \A k \in 1..n : k = 1 \/ (k - 1 \in 1..(n - 1) /\ entries[k] = entries'[k - 1])
  BY <1>3, <1>4
<1> HIDE DEF i
<1>12. Types'
  BY <1>1, <1>3, <1>4 DEF IndInv, Types
<1>13. Phases'
  BY <1>1, <1>2, <1>3 DEF IndInv, Phases
<1>14. \A j : \A l \in Matchers : Held(l, j)' <=> IF l = m THEN j = i ELSE Held(l, j)
  BY <1>1, <1>3 DEF Held
<1>15. \A j : Buffered(j) => Buffered(j)' \/ j = i
  BY <1>4, <1>11 DEF Buffered
<1>16. OnePlace'
  <2>1. \A j \in Indices : Sent(j)' =>
          processed'[j] = 1 \/ Buffered(j)' \/ \E l \in Matchers : Held(l, j)'
    <3>1. \A j : ~Held(m, j)
      BY <1>1 DEF Held
    <3> QED
      BY <1>1, <1>5, <1>14, <1>15, <3>1 DEF IndInv, OnePlace
  <2>2. \A j \in Indices : processed'[j] <= 1 /\ (processed'[j] = 1 => Sent(j)')
    BY <1>1, <1>5 DEF IndInv, OnePlace
  <2>3. \A k \in 1..(n - 1) : Sent(entries[k])' /\ processed'[entries'[k]] = 0
    <3>1. \A k \in 1..(n - 1) : entries'[k] \in Indices
      BY <1>4
    <3>2. \A k \in 1..n : entries[k] \in Indices /\ Sent(entries[k]) /\ processed[entries[k]] = 0
      BY <1>3 DEF IndInv, OnePlace
    <3> QED
      BY <1>1, <1>4, <1>5, <1>10, <3>1, <3>2
  <2>4. \A j, k \in 1..(n - 1) : entries'[j] = entries'[k] => j = k
    BY <1>3, <1>4, <1>10, SMTT(40) DEF IndInv, OnePlace
  <2>5. \A l \in Matchers : mpc'[l] = "process" =>
          /\ cur'[l] \in Indices /\ Sent(cur[l])' /\ processed'[cur'[l]] = 0
          /\ \A k \in 1..(n - 1) : entries'[k] # cur'[l]
    BY <1>1, <1>3, <1>4, <1>5, <1>9, <1>10 DEF IndInv, OnePlace
  <2>6. \A l, k \in Matchers :
          l # k /\ mpc'[l] = "process" /\ mpc'[k] = "process" => cur'[l] # cur'[k]
    BY <1>1, <1>3, <1>9 DEF IndInv, OnePlace
  <2> HIDE DEF n
  <2> QED
    BY <1>4, <2>1, <2>2, <2>3, <2>4, <2>5, <2>6 DEF OnePlace
<1> QED
  BY <1>6, <1>7, <1>8, <1>12, <1>13, <1>16 DEF IndInv

\* processEntry calls a callback for the entries that the scan is for, and no other.
LEMMA OutcomeIsRight == \A k : Outcome(k) = "found" <=> HandedOver(k)
BY MatcherAssumption DEF Outcome, MatcherOutcome, LeafMatcherOutcome, Interesting, HandedOver

\* One more index in a set of indices.
LEMMA CountOneMore ==
    ASSUME NEW S \in SUBSET Indices, NEW i \in Indices, i \notin S
    PROVE  /\ Cardinality(S) \in Nat
           /\ Cardinality(S \cup {i}) = Cardinality(S) + 1
<1>1. IsFiniteSet(Indices)
  BY FetcherAssumption, FS_Interval DEF Indices
<1>2. IsFiniteSet(S)
  BY <1>1, FS_Subset
<1> QED
  BY <1>2, FS_AddElement, FS_CardinalityType

\* An entry is processed: it leaves its matcher, is counted, and its callback called.
LEMMA ProcessEntryStep ==
    ASSUME IndInv, NEW m \in Matchers, ProcessEntry(m)
    PROVE  IndInv'
<1> DEFINE i == cur[m]
<1>1. /\ mpc[m] = "process"
      /\ certsProcessed' = certsProcessed + 1
      /\ certsMatched' = Plus(certsMatched, CountsMatch(log[i]))
      /\ precertsSeen' = Plus(precertsSeen, CountsPrecert(log[i]))
      /\ unparsableEntries' = Plus(unparsableEntries, CountsError(log[i]))
      /\ entriesWithNonFatalErrors' = Plus(entriesWithNonFatalErrors, CountsNonFatal(log[i]))
      /\ processed' = [processed EXCEPT ![i] = @ + 1]
      /\ found' = [found EXCEPT ![i] = Plus(@, Outcome(log[i]) = "found")]
      /\ mpc' = [mpc EXCEPT ![m] = "recv"] /\ cur' = [cur EXCEPT ![m] = 0]
      /\ UNCHANGED <<fetchVars, log, scan, result, sent, entries, closed>>
  BY DEF ProcessEntry, scanVars, chanVars
<1>2. UNCHANGED <<pc, rStart, got, delivered, run, sth, stopCalled>>
  BY <1>1 DEF fetchVars
<1>3. /\ i \in Indices /\ Sent(i) /\ processed[i] = 0
      /\ \A k \in 1..Len(entries) : entries[k] # i
      /\ \A l \in Matchers : l # m /\ mpc[l] = "process" => cur[l] # i
  BY <1>1 DEF IndInv, OnePlace
<1>4. /\ mpc \in [Matchers -> {"none", "recv", "process", "done"}] /\ cur \in [Matchers -> Nat]
      /\ processed \in [Indices -> Nat] /\ found \in [Indices -> Nat] /\ entries \in Seq(Indices)
  BY DEF IndInv, Types
<1>5. \A j \in Indices : Sent(j)' <=> Sent(j)
  BY <1>1, <1>2 DEF Sent, SentBy
<1>6. FP!IndInv'
  BY <1>1, FetcherKept DEF IndInv
<1>7. Batches'
  BY <1>1, <1>2 DEF IndInv, Batches
<1> HIDE DEF i
<1>8. /\ processed' \in [Indices -> Nat] /\ processed'[i] = 1
      /\ \A j \in Indices : j # i => processed'[j] = processed[j]
  BY <1>1, <1>3, <1>4
<1>9. /\ found[i] = 0 /\ found' \in [Indices -> Nat]
      /\ found'[i] = IF HandedOver(log[i]) THEN 1 ELSE 0
      /\ \A j \in Indices : j # i => found'[j] = found[j]
  <2>1. found[i] = 0
    BY <1>3 DEF IndInv, Counts
  <2> QED
    BY <1>1, <1>3, <1>4, <2>1, OutcomeIsRight DEF Plus
<1>10. Types'
  BY <1>1, <1>4, <1>8, <1>9 DEF IndInv, Types
<1>11. Phases'
  BY <1>1, <1>2, <1>4 DEF IndInv, Phases
<1>12. OnePlace'
  <2>1. \A j : \A l \in Matchers : Held(l, j)' <=> l # m /\ Held(l, j)
    BY <1>1, <1>4 DEF Held
  <2>2. \A j : Held(m, j) => j = i
    BY DEF Held, i
  <2>3. \A j : Buffered(j)' <=> Buffered(j)
    BY <1>1 DEF Buffered
  <2>4. \A j \in Indices : Sent(j)' =>
          processed'[j] = 1 \/ Buffered(j)' \/ \E l \in Matchers : Held(l, j)'
    BY <1>5, <1>8, <2>1, <2>2, <2>3 DEF IndInv, OnePlace
  <2>5. \A j \in Indices : processed'[j] <= 1 /\ (processed'[j] = 1 => Sent(j)')
    BY <1>3, <1>5, <1>8 DEF IndInv, OnePlace
  <2>6. \A k \in 1..Len(entries) : Sent(entries[k])' /\ processed'[entries[k]] = 0
    <3>1. \A k \in 1..Len(entries) : entries[k] \in Indices
      BY <1>4
    <3> QED
      BY <1>1, <1>3, <1>5, <1>8, <3>1 DEF IndInv, OnePlace
  <2>7. \A l \in Matchers : mpc'[l] = "process" =>
          /\ cur'[l] \in Indices /\ Sent(cur[l])' /\ processed'[cur'[l]] = 0
          /\ \A k \in 1..Len(entries) : entries[k] # cur'[l]
    BY <1>1, <1>3, <1>4, <1>5, <1>8 DEF IndInv, OnePlace
  <2>8. \A l, k \in Matchers :
          l # k /\ mpc'[l] = "process" /\ mpc'[k] = "process" => cur'[l] # cur'[k]
    BY <1>1, <1>4 DEF IndInv, OnePlace
  <2>9. \A j, k \in 1..Len(entries) : entries[j] = entries[k] => j = k
    BY DEF IndInv, OnePlace
  <2> QED
    BY <1>1, <2>4, <2>5, <2>6, <2>7, <2>8, <2>9 DEF OnePlace
<1>13. Counts'
  <2>1. \A j \in Indices : found'[j] = IF processed'[j] > 0 /\ HandedOver(log'[j]) THEN 1 ELSE 0
    BY <1>1, <1>8, <1>9 DEF IndInv, Counts, HandedOver
  <2>2. Processed' = Processed \cup {i} /\ i \notin Processed
    BY <1>3, <1>4, <1>8 DEF Processed
  <2>3. Cardinality(Processed) \in Nat /\ Cardinality(Processed') = Cardinality(Processed) + 1
    <3>1. Processed \in SUBSET Indices
      BY DEF Processed
    <3> QED
      BY <1>3, <2>2, <3>1, CountOneMore
  <2>4. /\ Found' = IF HandedOver(log[i]) THEN Found \cup {i} ELSE Found
        /\ i \notin Found
    BY <1>3, <1>9 DEF Found
  <2>5. /\ Cardinality(Found) \in Nat
        /\ Cardinality(Found') = IF HandedOver(log[i]) THEN Cardinality(Found) + 1 ELSE Cardinality(Found)
    <3>1. Found \in SUBSET Indices
      BY DEF Found
    <3> QED
      BY <1>3, <2>4, <3>1, CountOneMore
  <2>6. certsProcessed \in Nat /\ certsProcessed' = Cardinality(Processed')
    BY <1>1, <2>3 DEF IndInv, Counts
  <2>7. certsMatched' = IF MatcherType = "Matcher" THEN Cardinality(Found') ELSE 0
    BY <1>1, <2>5, OutcomeIsRight DEF IndInv, Counts, CountsMatch, Plus
  <2>8. /\ precertsSeen' \in 0..certsProcessed'
        /\ unparsableEntries' \in 0..certsProcessed'
        /\ entriesWithNonFatalErrors' \in 0..certsProcessed'
    BY <1>1, <2>6 DEF IndInv, Counts, Plus
  <2> QED
    BY <2>1, <2>6, <2>7, <2>8 DEF Counts, HandedOver
<1> QED
  BY <1>6, <1>7, <1>10, <1>11, <1>12, <1>13 DEF IndInv

----------------------------------------------------------------------------
\* Every step preserves the invariant.
LEMMA NextIndInv == IndInv /\ [Next]_vars => IndInv'
<1> SUFFICES ASSUME IndInv, [Next]_vars PROVE IndInv'
  OBVIOUS
<1>1. CASE LogGrows \/ CancelContext \/ FetcherRun \/ FetcherGen
  BY <1>1, InFetcherKeeps DEF LogGrows, CancelContext, FetcherRun, FetcherGen, InFetcher, FetcherStep
<1>2. CASE \E w \in Workers : FetcherWorker(w)
  BY <1>2, InFetcherKeeps DEF FetcherWorker, InFetcher, FetcherStep
<1>3. CASE ScanStarts
  BY <1>3, ScanStartsStep
<1>4. CASE ScanFails \/ CloseEntries \/ ScanReturns \/ UNCHANGED vars \/ \E m \in Matchers : NoMoreEntries(m)
  BY <1>4, ScanSteps
<1>5. CASE \E w \in Workers : FlattenSends(w) \/ FlattenReturns(w)
  BY <1>5, FlattenSendsStep, FlattenReturnsStep
<1>6. CASE \E m \in Matchers : Receive(m) \/ ProcessEntry(m)
  BY <1>6, ReceiveStep, ProcessEntryStep
<1> QED
  BY <1>1, <1>2, <1>3, <1>4, <1>5, <1>6 DEF Next, ScanStep, WorkerStep, MatcherStep

\* The invariant holds in every behaviour of the Scanner.
THEOREM IndInvHolds == Spec => []IndInv
BY InitIndInv, NextIndInv, PTL DEF Spec

\* Type correctness: the channel stays within its buffer and no counter exceeds the Log.
THEOREM TypeCorrect == Spec => []TypeOK
<1>1. IndInv => TypeOK
  <2> SUFFICES ASSUME IndInv PROVE TypeOK
    OBVIOUS
  <2>1. IsFiniteSet(Indices) /\ Cardinality(Indices) = MaxTreeSize
    BY FetcherAssumption, FS_Interval DEF Indices
  <2>2. /\ Cardinality(Processed) \in Nat /\ Cardinality(Processed) <= MaxTreeSize
        /\ Cardinality(Found) \in Nat /\ Cardinality(Found) <= MaxTreeSize
    <3>1. Processed \in SUBSET Indices /\ Found \in SUBSET Indices
      BY DEF Processed, Found
    <3>2. IsFiniteSet(Processed) /\ IsFiniteSet(Found)
      BY <2>1, <3>1, FS_Subset
    <3> QED
      BY <2>1, <3>1, <3>2, FS_Subset, FS_CardinalityType
  <2>3. {certsProcessed, certsMatched, precertsSeen, unparsableEntries, entriesWithNonFatalErrors}
            \subseteq 0..MaxTreeSize
    BY <2>2, FetcherAssumption DEF IndInv, Counts
  <2> QED
    BY <2>3, FetcherTypes DEF IndInv, Types, TypeOK
<1> QED
  BY <1>1, IndInvHolds, PTL

\* For any number of workers and matchers, any buffer and any matcher: the channel is
\* closed when nobody sends any more, and when ScanLog returns, cancelled or not, what was
\* fetched was processed once, each callback was called once for what the matcher wants,
\* the counter is right, and a scan that was not cancelled covers its range
\* (scanner.go:248, 301).
THEOREM ScansAreRight == Spec => []ScanIsRight
<1>1. IndInv => NoSendAfterClose
  BY DEF IndInv, Phases, FP!IndInv, FP!Phases, NoSendAfterClose
<1>2. IndInv => AllMatchesFound
  <2> SUFFICES ASSUME IndInv, Returned PROVE AllMatchesFound
    BY DEF AllMatchesFound
  <2>1. /\ closed /\ run = "returned" /\ \A m \in Matchers : mpc[m] = "done"
    BY DEF IndInv, Phases, Returned
  <2>2. entries = <<>>
    BY <2>1, MatchersAssumption DEF IndInv, Phases
  <2>3. \A w \in Workers : pc[w] = "done"
    BY <2>1 DEF IndInv, FP!IndInv, FP!Phases
  <2>4. \A i \in Indices : processed[i] = 1 <=> delivered[i] = 1
    BY <2>1, <2>2, <2>3 DEF IndInv, OnePlace, Sent, SentBy, Buffered, Held
  <2>5. processed = delivered
    <3>1. /\ processed \in [Indices -> Nat] /\ delivered \in [Indices -> Nat]
          /\ \A i \in Indices : processed[i] <= 1 /\ delivered[i] <= 1
      BY FetcherTypes DEF IndInv, Types, OnePlace
    <3>2. \A i \in Indices : processed[i] = delivered[i]
      BY <2>4, <3>1
    <3> QED
      BY <3>1, <3>2
  <2>6. found = [i \in Indices |-> IF processed[i] > 0 /\ HandedOver(log[i]) THEN 1 ELSE 0]
    BY DEF IndInv, Types, Counts
  <2>7. MatcherType = "Matcher" => certsMatched = Cardinality({i \in Indices : found[i] > 0})
    BY DEF IndInv, Counts, Found
  <2>8. ~ctxDone /\ ~continuous => \A i \in optsStart..(optsEnd - 1) : processed[i] = 1
    <3> SUFFICES ASSUME ~ctxDone, ~continuous, NEW i \in optsStart..(optsEnd - 1) PROVE processed[i] = 1
      OBVIOUS
    <3>1. /\ optsStart \in Nat /\ optsEnd \in Nat /\ optsEnd <= MaxTreeSize /\ ~stopCalled
          /\ start \in Nat /\ end = optsEnd
      BY <2>1 DEF IndInv, Phases, FP!IndInv, FP!Phases, FP!TypeOK
    <3>2. i \in Indices /\ i >= optsStart /\ i < optsEnd /\ i \in Nat
      BY <3>1, FetcherAssumption DEF Indices
    <3>3. start >= end
      BY <2>1, <2>3, <3>1, FetcherAssumption DEF IndInv, FP!IndInv, FP!Covered
    <3>4. delivered[i] = 1
      BY <2>1, <2>3, <3>1, <3>2, <3>3 DEF IndInv, FP!IndInv, FP!Covered, FP!Pending, FP!Indices, Indices
    <3> QED
      BY <2>5, <3>4
  <2> QED
    BY <2>5, <2>6, <2>7, <2>8 DEF AllMatchesFound
<1>3. IndInv => ScanIsRight
  BY <1>1, <1>2 DEF ScanIsRight
<1> QED
  BY <1>3, IndInvHolds, PTL
============================================================================
