----------------------------- MODULE MCClients -----------------------------
(***************************************************************************)
(* The parts that work on the client's side of a Log, each on its own, are *)
(* model-checked together: TemporalLog, JSONClient (J!), CTPolicy (P!),    *)
(* FixChain (X!) and Preloader (L!).  In a behaviour one of them works,    *)
(* while the others are in a state in which they have nothing to do.       *)
(***************************************************************************)
EXTENDS TemporalLog

CONSTANTS
    Callers, MaxMultiplier, RetryAfters, MaxTime,
    Logs, GoogleLogs, Months, Days, Threads,
    Files, Issuers, URLs, Content, Raw32,
    Replacements, AcceptedRoots, Fixers, Posters, MaxChainLength, NoCert,
    Batches, Matchers, Submitters, BufferSize,
    SameBeginning       \* the certificates to be fixed that begin with the same 32 bytes

VARIABLES
    works,      \* which of the parts does
    now, multiplier, notBefore, jpc, wakeAt, ctxDone, result, jasked,
    approved, cert, logWeights, lock, ppc, local, session,
    file, read, queueing, phase, done, fixer, cached, forward, waiting, poster,
    postCertCache, postChainCache, taken, errors,
    found, left, matcher, queue, submitter, addedCerts, sctFile, sent, stage

J == INSTANCE JSONClient WITH pc <- jpc, asked <- jasked
P == INSTANCE CTPolicy WITH pc <- ppc

X == INSTANCE FixChain WITH Roots <- AcceptedRoots, accepted <- taken

L == INSTANCE Preloader WITH file <- sctFile

\* Certificates to be fixed: leaf and other are issued by mid, mid by two roots, one of
\* which the other has signed; other leads to mid by way of a URL that is replaced; the
\* URL of lost leads nowhere.
MCIssuers ==
    [leaf |-> {"mid"}, other |-> {"mid"}, mid |-> {"root", "root2"},
     root |-> {"root", "root2"}, root2 |-> {"root2"}, lost |-> {}]
MCURLs ==
    [leaf |-> <<"m">>, other |-> <<"r", "m">>, lost |-> <<"bad">>,
     mid |-> <<>>, root |-> <<>>, root2 |-> <<>>]
MCContent == [bad |-> NoCert, m |-> "mid", r |-> "root"]
MCRaw32 == [c \in DOMAIN MCIssuers |-> IF c \in SameBeginning THEN "same" ELSE c]
MCFiles ==
    {<< <<"leaf", "lost">> >>, << <<"mid">>, <<"mid", "mid">> >>, << <<"mid">>, <<"other">> >>}

\* Entries to be preloaded: one that cannot be parsed, and more of a kind than the
\* channel and the submitters of that kind can hold.
Entry(kind, i) == [kind |-> kind, parses |-> i > 0, index |-> i]
MCBatches == {{Entry("cert", 0), Entry("cert", 1), Entry("precert", 1), Entry("precert", 2)},
              {Entry("cert", 1), Entry("cert", 2), Entry("cert", 3)}}

----------------------------------------------------------------------------
\* What the proofs use of the constants (ClientsProofs).
ASSUME JSONAssumption ==
    /\ MaxMultiplier \in Nat \ {0} /\ MaxTime \in Nat /\ RetryAfters \subseteq Nat
    /\ \A n \in 1..MaxMultiplier : 2 ^ (n - 1) \in Nat
ASSUME PolicyAssumption ==
    /\ IsFiniteSet(Logs) /\ Months \subseteq Int /\ Days \subseteq Int
    /\ P!NoThread \notin Threads
ASSUME PreloaderAssumption ==
    \A b \in Batches : IsFiniteSet(b) /\ \A e \in b : e.kind \in L!Kinds /\ e.parses \in BOOLEAN
ASSUME FixAssumption ==
    /\ IsFiniteSet(X!Certs) /\ NoCert \notin X!Certs /\ MaxChainLength \in Nat
    /\ \A f \in Files : f \in Seq(Seq(X!Certs))
    /\ URLs \in [X!Certs -> Seq(DOMAIN Content)]
    /\ \A u \in DOMAIN Content : Content[u] \in X!Certs \cup {NoCert}
    /\ \A u \in Replacements \cap DOMAIN Content : Content[u] # NoCert

----------------------------------------------------------------------------
jVars == <<now, multiplier, notBefore, jpc, wakeAt, ctxDone, result, jasked>>
pVars == <<approved, cert, logWeights, lock, ppc, local, session>>
xVars == <<file, read, queueing, phase, done, fixer, cached, forward, waiting, poster,
           postCertCache, postChainCache, taken, errors>>
lVars == <<found, left, matcher, queue, submitter, addedCerts, sctFile, sent, stage>>
allVars == <<works, vars, jVars, pVars, xVars, lVars>>

\* A configuration without shards has been refused.
TemporalIdle ==
    /\ cfg = <<>> /\ build = "failed" /\ overall = NoInterval /\ intervals = <<>>
    /\ adding = Nil /\ routed = 0
    /\ accepted = [i \in 1..MaxShards |-> {}] /\ fails = {}
    /\ call = "idle" /\ asked = {} /\ results = <<>> /\ received = 0
    /\ seen = {} /\ nRoots = 0

\* Every caller has cancelled its call.
JSONIdle ==
    /\ now = MaxTime /\ multiplier = 0 /\ notBefore = 0
    /\ jpc = [c \in Callers |-> "done"] /\ wakeAt = [c \in Callers |-> 0]
    /\ ctxDone = [c \in Callers |-> TRUE] /\ result = [c \in Callers |-> "canceled"]
    /\ jasked = [c \in Callers |-> 0]

\* No Logs are approved.
PolicyIdle ==
    LET date == CHOOSE d \in P!CalendarDates : TRUE IN
    approved = {} /\ cert = [notBefore |-> date, notAfter |-> date] /\ P!Init

\* The file was empty.
FixIdle ==
    /\ file = <<>> /\ read = 0 /\ queueing = <<>> /\ phase = "ended" /\ done = {}
    /\ fixer = [f \in Fixers |-> X!Idle] /\ cached = {} /\ forward = <<>> /\ waiting = FALSE
    /\ poster = [p \in Posters |-> X!Idle]
    /\ postCertCache = {} /\ postChainCache = {} /\ taken = {} /\ errors = {}

\* The preloader has found nothing.
PreloaderIdle ==
    /\ found = {} /\ left = {} /\ matcher = [m \in Matchers |-> L!None]
    /\ queue = [k \in L!Kinds |-> <<>>] /\ submitter = [k \in L!Kinds |-> [s \in Submitters |-> L!None]]
    /\ addedCerts = <<>> /\ sctFile = <<>> /\ sent = {} /\ stage = "ended"

FixInit == works = "fixchain" /\ X!Init /\ TemporalIdle /\ JSONIdle /\ PolicyIdle /\ PreloaderIdle
FixNext == works = "fixchain" /\ X!Next /\ UNCHANGED <<works, vars, jVars, pVars, lVars>>

MCInit ==
    \/ works = "temporal" /\ Init /\ JSONIdle /\ PolicyIdle /\ FixIdle /\ PreloaderIdle
    \/ works = "json" /\ J!Init /\ TemporalIdle /\ PolicyIdle /\ FixIdle /\ PreloaderIdle
    \/ works = "policy" /\ P!Init /\ TemporalIdle /\ JSONIdle /\ FixIdle /\ PreloaderIdle
    \/ works = "preloader" /\ L!Init /\ TemporalIdle /\ JSONIdle /\ PolicyIdle /\ FixIdle
    \/ FixInit

MCNext ==
    \/ works = "temporal" /\ Next /\ UNCHANGED <<works, jVars, pVars, xVars, lVars>>
    \/ works = "json" /\ J!Next /\ UNCHANGED <<works, vars, pVars, xVars, lVars>>
    \/ works = "policy" /\ P!Next /\ UNCHANGED <<works, vars, jVars, xVars, lVars>>
    \/ works = "preloader" /\ L!Next /\ UNCHANGED <<works, vars, jVars, pVars, xVars>>
    \/ FixNext

MCSpec == MCInit /\ [][MCNext]_allVars /\ X!Fairness /\ L!Fairness

\* chainfix alone, to find out what the beginnings of certificates do to it.
FixSpec == FixInit /\ [][FixNext]_allVars /\ X!Fairness

----------------------------------------------------------------------------
\* JSONClient: a caller that was told to come back after some time does not come
\* back earlier, whatever the other callers do to the common backoff
\* (jsonclient/client.go:305, backoff.go:38).
RetryAfterHonoured == J!RetryAfterHonoured

\* CTPolicy: SCTs that complete every group comply with the policy, and conversely, and
\* LogsByGroup fails exactly when no choice of approved Logs complies; and no sequence
\* of weight changes, overlapping or not, leaves the group unable to reach its minimum
\* once the writers are done (ctpolicy/applepolicy.go:28, chromepolicy.go:28,
\* ctpolicy.go:110).
GroupsAreReachable == P!GroupsMeanCompliance /\ P!WeightsReachMin

\* FixChain and Preloader: when chainfix ends, every certificate of every chain in its
\* file is in the log, or an error says why not (fixchain/fix_and_log.go:94,
\* logger.go:65); when the preloader ends, its file has one true record of every entry
\* found (preload/preloader/preloader.go:245).
EveryCertIsAccounted == X!EveryCertIsAccounted /\ L!EveryEntryIsRecorded

\* FixChain: "IsPosted tells the caller whether a chain for the given certificate has
\* already been successfully posted to the log by this Logger" (fixchain/logger.go:65).
IsPostedIsTrue ==
    \A c \in DOMAIN Issuers : X!IsPosted(c) => \E chain \in taken : chain[1] = c

\* FixChain and Preloader: FixAndLog.Wait returns, with whichever fixers and posters
\* still at work when it is called (fixchain/fix_and_log.go:94), and so do the waits of
\* the preloader behind its bounded channels (preload/preloader/preloader.go:247).
WaitReturns == X!WaitReturns /\ L!PreloaderEnds
============================================================================
