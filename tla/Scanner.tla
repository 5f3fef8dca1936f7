------------------------------ MODULE Scanner ------------------------------
(***************************************************************************)
(* The Scanner of scanner/scanner.go: a pipeline that looks at every entry *)
(* in a range of a CT Log.  A Fetcher (module Fetcher) reads batches; its  *)
(* callback flattens them into the channel entries; matcher goroutines     *)
(* take entries out, parse them and call foundCert or foundPrecert for     *)
(* those that match.  One call of ScanLog is modelled.                     *)
(***************************************************************************)
EXTENDS Integers, Sequences, FiniteSets

CONSTANTS
    Workers, BatchSize, Modes, StartIndex, EndIndex, MaxTreeSize,  \* of the Fetcher
    Matchers,       \* goroutines running matcherJob (NumWorkers of them)
    BufferSize,     \* ScannerOptions.BufferSize
    MatcherType,    \* of ScannerOptions.Matcher: "Matcher", "LeafMatcher" or "nil"
    PrecertOnly,    \* ScannerOptions.PrecertOnly
    Kinds,          \* kinds of entries the Log holds
    Wanted          \* kinds of entries the matcher accepts

AllKinds == {"cert", "precert", "oddCert", "badCert", "unreadable"}

ASSUME FetcherAssumption ==
    /\ BatchSize \in Nat \ {0} /\ MaxTreeSize \in Nat
    /\ StartIndex \in 0..MaxTreeSize /\ EndIndex \in Nat
    /\ Modes \subseteq BOOLEAN /\ Workers # {}
ASSUME KindsAssumption == Kinds \subseteq AllKinds /\ Wanted \subseteq AllKinds
ASSUME MatchersAssumption == Matchers # {} /\ BufferSize \in Nat
ASSUME MatcherAssumption == MatcherType \in {"Matcher", "LeafMatcher", "nil"} /\ PrecertOnly \in BOOLEAN

VARIABLES
    \* the Fetcher
    treeSize, ctxDone, sth, optsStart, optsEnd, continuous, cancelSet, run, cctxDone,
    gen, start, end, pc, rStart, rEnd, got, delivered, stopCalled,
    log,                \* the kind of each entry of the Log
    scan, result,       \* where ScanLog is; what it returned (-1 with an error)
    sent,               \* flatten: how many entries of its batch each worker has sent
    entries, closed,    \* the channel
    mpc, cur,           \* matcherJob: where each matcher is, the index it has
    certsProcessed, certsMatched, precertsSeen, unparsableEntries, entriesWithNonFatalErrors,
    \* history
    processed, found    \* how often each index was processed, and passed to a callback

fetchVars == <<treeSize, ctxDone, sth, optsStart, optsEnd, continuous, cancelSet, run, cctxDone,
               gen, start, end, pc, rStart, rEnd, got, delivered, stopCalled>>
scanVars == <<scan, result>>
chanVars == <<entries, closed>>
counters == <<certsProcessed, certsMatched, precertsSeen, unparsableEntries, entriesWithNonFatalErrors>>
matchVars == <<mpc, cur, counters, processed, found>>
vars == <<fetchVars, log, scanVars, sent, chanVars, matchVars>>

F == INSTANCE Fetcher

Indices == 0..(MaxTreeSize - 1)

TypeOK ==
    /\ F!TypeOK
    /\ log \in [Indices -> Kinds]
    /\ scan \in {"prepare", "running", "wait", "returned"}
    /\ result \in -1..MaxTreeSize
    /\ sent \in [Workers -> 0..BatchSize]
    /\ entries \in Seq(Indices) /\ Len(entries) <= BufferSize
    /\ closed \in BOOLEAN
    /\ mpc \in [Matchers -> {"none", "recv", "process", "done"}]
    /\ cur \in [Matchers -> Nat]
    /\ {certsProcessed, certsMatched, precertsSeen, unparsableEntries, entriesWithNonFatalErrors}
            \subseteq 0..MaxTreeSize
    /\ processed \in [Indices -> Nat] /\ found \in [Indices -> Nat]

Init ==
    /\ F!Init
    /\ log \in [Indices -> Kinds]
    /\ scan = "prepare" /\ result = -1
    /\ sent = [w \in Workers |-> 0]
    /\ entries = <<>> /\ closed = FALSE
    /\ mpc = [m \in Matchers |-> "none"]
    /\ cur = [m \in Matchers |-> 0]
    /\ certsProcessed = 0 /\ certsMatched = 0 /\ precertsSeen = 0 /\ unparsableEntries = 0
    /\ entriesWithNonFatalErrors = 0
    /\ processed = [i \in Indices |-> 0] /\ found = [i \in Indices |-> 0]

----------------------------------------------------------------------------
(* ScanLog.                                                                *)

\* Prepare, the matchers, and the call of Fetcher.Run.
ScanStarts ==
    /\ scan = "prepare"
    /\ F!ReadSTH
    /\ scan' = "running"
    /\ run' = "prepare"
    /\ mpc' = [m \in Matchers |-> "recv"]
    /\ UNCHANGED <<treeSize, ctxDone, cancelSet, cctxDone, gen, start, end, pc, rStart, rEnd, got,
                   delivered, stopCalled, log, result, sent, chanVars, cur, counters, processed, found>>

\* Prepare fails.
ScanFails ==
    /\ scan = "prepare"
    /\ scan' = "returned"
    /\ UNCHANGED <<fetchVars, log, result, sent, chanVars, matchVars>>

\* Steps of the Fetcher but for its callback, and of its surroundings.
InFetcher(A) ==
    /\ A
    /\ UNCHANGED <<log, scanVars, sent, chanVars, matchVars>>

LogGrows == InFetcher(F!LogGrows)
CancelContext == InFetcher(F!CancelContext)
FetcherRun == InFetcher(F!PrepareOK \/ F!Start \/ F!Finish)
FetcherGen == InFetcher(F!GenStep)
FetcherWorker(w) ==
    InFetcher(F!NoMoreRanges(w) \/ F!CheckRange(w) \/ F!GetFails(w) \/ \E n \in 1..BatchSize : F!GetOK(w, n))

\* The channel has a buffer of BufferSize entries.
HasRoom == Len(entries) < BufferSize

\* flatten: entries <- entryInfo{...}, into the buffer or straight to a waiting matcher.
FlattenSends(w) ==
    LET i == rStart[w] + sent[w] IN
    /\ pc[w] = "deliver" /\ sent[w] < got[w]
    /\ sent' = [sent EXCEPT ![w] = @ + 1]
    /\ \/ /\ HasRoom
          /\ entries' = Append(entries, i)
          /\ UNCHANGED <<mpc, cur>>
       \/ /\ entries = <<>>
          /\ UNCHANGED entries
          /\ \E m \in Matchers :
                /\ mpc[m] = "recv"
                /\ mpc' = [mpc EXCEPT ![m] = "process"]
                /\ cur' = [cur EXCEPT ![m] = i]
    /\ UNCHANGED <<fetchVars, log, scanVars, closed, counters, processed, found>>

\* flatten returns.
FlattenReturns(w) ==
    /\ sent[w] = got[w]
    /\ F!Callback(w)
    /\ sent' = [sent EXCEPT ![w] = 0]
    /\ UNCHANGED <<log, scanVars, chanVars, matchVars>>

\* Fetcher.Run returned: close(entries).
FetchOverMutant == gen = "closed"
FetchOver == run = "returned"
CloseEntriesMutant ==
    /\ scan = "running"
    /\ FetchOver
    /\ scan' = "wait"
    /\ UNCHANGED <<fetchVars, log, result, sent, chanVars, matchVars>>
CloseEntries ==
    /\ scan = "running"
    /\ FetchOver
    /\ scan' = "wait"
    /\ closed' = TRUE
    /\ UNCHANGED <<fetchVars, log, result, sent, entries, matchVars>>

\* wg.Wait is over.
MatchersOver == \A m \in Matchers : mpc[m] = "done"
ScanReturns ==
    /\ scan = "wait"
    /\ MatchersOver
    /\ scan' = "returned"
    /\ result' = optsEnd
    /\ UNCHANGED <<fetchVars, log, sent, chanVars, matchVars>>

----------------------------------------------------------------------------
(* matcherJob and processEntry.                                            *)

Receive(m) ==
    /\ mpc[m] = "recv" /\ entries # <<>>
    /\ mpc' = [mpc EXCEPT ![m] = "process"]
    /\ cur' = [cur EXCEPT ![m] = Head(entries)]
    /\ entries' = Tail(entries)
    /\ UNCHANGED <<fetchVars, log, scanVars, sent, closed, counters, processed, found>>

NoMoreEntries(m) ==
    /\ mpc[m] = "recv" /\ entries = <<>> /\ closed
    /\ mpc' = [mpc EXCEPT ![m] = "done"]
    /\ UNCHANGED <<fetchVars, log, scanVars, sent, chanVars, cur, counters, processed, found>>

\* What processing an entry of kind k comes to: an error, no callback, or a callback.
\* A Matcher needs the parsed certificate, whose non-fatal errors ("oddCert") do not
\* matter.  A LeafMatcher sees the bytes of the entry, which need not parse.
Interesting(k) == k \in Wanted /\ (PrecertOnly => k = "precert")
MatcherOutcome(k) ==
    IF k \in {"badCert", "unreadable"} THEN "error"
    ELSE IF Interesting(k) THEN "found" ELSE "skipped"
LeafMatcherOutcome(k) ==
    IF k \notin Wanted THEN "skipped"
    ELSE IF k = "unreadable" THEN "error"
    ELSE IF Interesting(k) THEN "found" ELSE "skipped"
Outcome(k) ==
    CASE MatcherType = "Matcher" -> MatcherOutcome(k)
      [] MatcherType = "LeafMatcher" -> LeafMatcherOutcome(k)
      [] OTHER -> "error"

\* The counters that processing an entry of kind k increments: a Matcher counts matches,
\* and every precertificate it sees; a LeafMatcher the precertificates it passes on.
CountsMatch(k) == MatcherType = "Matcher" /\ Outcome(k) = "found"
CountsPrecert(k) == k = "precert" /\ (MatcherType = "Matcher" \/ Outcome(k) = "found")
CountsError(k) == Outcome(k) = "error"
CountsNonFatal(k) == MatcherType = "Matcher" /\ k = "oddCert"

Plus(n, b) == IF b THEN n + 1 ELSE n

\* An error is counted, and the matcher takes the next entry.
ProcessEntry(m) ==
    LET i == cur[m] IN
    /\ mpc[m] = "process"
    /\ certsProcessed' = certsProcessed + 1
    /\ certsMatched' = Plus(certsMatched, CountsMatch(log[i]))
    /\ precertsSeen' = Plus(precertsSeen, CountsPrecert(log[i]))
    /\ unparsableEntries' = Plus(unparsableEntries, CountsError(log[i]))
    /\ entriesWithNonFatalErrors' = Plus(entriesWithNonFatalErrors, CountsNonFatal(log[i]))
    /\ processed' = [processed EXCEPT ![i] = @ + 1]
    /\ found' = [found EXCEPT ![i] = Plus(@, Outcome(log[i]) = "found")]
    /\ mpc' = [mpc EXCEPT ![m] = "recv"]
    /\ cur' = [cur EXCEPT ![m] = 0]
    /\ UNCHANGED <<fetchVars, log, scanVars, sent, chanVars>>

----------------------------------------------------------------------------
WorkerStep(w) == FetcherWorker(w) \/ FlattenSends(w) \/ FlattenReturns(w)
MatcherStep(m) == Receive(m) \/ NoMoreEntries(m) \/ ProcessEntry(m)
ScanStep == ScanStarts \/ ScanFails \/ CloseEntries \/ ScanReturns

Next ==
    \/ LogGrows \/ CancelContext
    \/ ScanStep \/ FetcherRun \/ FetcherGen
    \/ \E w \in Workers : WorkerStep(w)
    \/ \E m \in Matchers : MatcherStep(m)

\* As for the Fetcher: goroutines run, and a Log that is asked again and again answers.
Fairness ==
    /\ WF_vars(ScanStep) /\ WF_vars(FetcherRun) /\ WF_vars(FetcherGen)
    /\ \A w \in Workers :
        /\ WF_vars(InFetcher(F!NoMoreRanges(w) \/ F!CheckRange(w)))
        /\ WF_vars(ctxDone /\ InFetcher(F!GetFails(w)))
        /\ SF_vars(InFetcher(\E n \in 1..BatchSize : F!GetOK(w, n)))
        /\ SF_vars(FlattenSends(w)) /\ WF_vars(FlattenReturns(w))
    /\ \A m \in Matchers : WF_vars(Receive(m) \/ NoMoreEntries(m) \/ ProcessEntry(m))

Spec == Init /\ [][Next]_vars /\ Fairness

----------------------------------------------------------------------------
(***************************************************************************)
(* Properties.                                                             *)
(***************************************************************************)
Returned == scan = "returned" /\ result >= 0

\* The channel is closed only when nobody will send any more: a send on a closed
\* channel panics (scanner.go:300).
NoSendAfterClose == closed => \A w \in Workers : pc[w] # "deliver"

\* The entries a scan is for; without a matcher it is for none.
HandedOver(k) ==
    /\ MatcherType # "nil" /\ k \in Wanted
    /\ k # "unreadable" /\ (MatcherType = "Matcher" => k # "badCert")
    /\ PrecertOnly => k = "precert"

\* When ScanLog returns, cancelled or not, all that was fetched has been processed, and
\* once; there was one callback for each processed entry that the matcher wants and that
\* can be handed over, and for no other (with PrecertOnly, precertificates only), and
\* the counter says how many; and a scan that was not cancelled has processed its range
\* (scanner.go:301, 248, 39, 64).
AllMatchesFound ==
    Returned =>
        /\ processed = delivered
        /\ found = [i \in Indices |-> IF processed[i] > 0 /\ HandedOver(log[i]) THEN 1 ELSE 0]
        /\ MatcherType = "Matcher" => certsMatched = Cardinality({i \in Indices : found[i] > 0})
        /\ ~ctxDone /\ ~continuous => \A i \in optsStart..(optsEnd - 1) : processed[i] = 1

\* A scan neither panics nor misses, repeats or miscounts anything.
ScanIsRight == NoSendAfterClose /\ AllMatchesFound

\* A scan of a finite range comes to its end, however slow the matchers are
\* (scanner.go:296).
ScanEnds == ~continuous ~> scan = "returned"
============================================================================
