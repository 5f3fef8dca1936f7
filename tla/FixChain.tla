----------------------------- MODULE FixChain -----------------------------
(***************************************************************************)
(* Package fixchain, as the command chainfix runs it: every certificate of *)
(* every chain read is queued; a pool of fixers completes its chain with   *)
(* the certificates that its own and its issuers' URLs lead to; a          *)
(* goroutine hands the chains to a logger, whose pool posts them.          *)
(*                                                                         *)
(* All channels are unbuffered: a send is one step of sender and receiver. *)
(* Certificate.Verify is modelled by the paths it finds (ChainValidation   *)
(* has the verifier in detail), a certificate by its name.                 *)
(***************************************************************************)
EXTENDS Integers, Sequences, SequencesExt, FiniteSets

CONSTANTS
    Files,              \* the sequences of chains chainfix may be given
    Issuers,            \* for each certificate, those that signed it
    URLs,               \* for each certificate, the URLs of its AIA extension
    Content,            \* what is at each URL: a certificate, or NoCert
    Replacements,       \* the URLs whose content is built in
    Raw32,              \* for each certificate, the first 32 bytes of its encoding
    Roots,              \* the roots the log accepts
    Fixers, Posters,    \* the pools
    MaxChainLength,     \* maxChainLength
    NoCert

VARIABLES
    file, read,         \* chainfix: the chains in the file, and how many were read
    queueing,           \* the certificates of the last one that are still to be queued
    phase,              \* where chainfix is: "reading", or what it waits for, or "ended"
    done,               \* FixAndLog.done
    fixer,              \* each fixer: what it is doing
    cached,             \* urlCache: the URLs it has the content of
    forward, waiting,   \* the chain the goroutine of NewFixAndLog holds, and if it waits for a poster
    poster,             \* each poster: what it is doing
    postCertCache, postChainCache,
    accepted, errors    \* the chains the log took, the errors reported

mainVars == <<file, read, queueing, phase, done>>
fwdVars == <<forward, waiting>>
logVars == <<postCertCache, postChainCache, accepted>>
vars == <<mainVars, fixer, cached, fwdVars, poster, logVars, errors>>

Certs == DOMAIN Issuers
----------------------------------------------------------------------------
(* hash.go and containers.go.                                              *)

\* Sum appends the hash of nothing to its argument, and 32 bytes are copied
\* of what that gives: of a certificate, those it begins with.
hash(c) == Raw32[c]

\* The hash of a chain is one of all its bytes, and the bag is sorted first.
hashChain(chain) == chain
hashBag(chain) == ToSet(chain)

\* What is left has every certificate where it is found first.
newDedupedChain(chain) ==
    LET firsts == {i \in DOMAIN chain : \A j \in 1..(i - 1) : chain[j] # chain[i]}
        kept == CHOOSE f \in [1..Cardinality(firsts) -> firsts] : \A i, j \in DOMAIN f : i < j => f[i] < f[j]
    IN [i \in DOMAIN kept |-> chain[kept[i]]]
addCertToFront(d, c) == IF Contains(d, c) THEN d ELSE <<c>> \o d

----------------------------------------------------------------------------
(* The chains Verify finds: paths of different certificates from the       *)
(* certificate through the pool to a root.                                 *)

Verify(cert, pool) ==
    LET Paths == UNION {[1..n -> pool \cup Roots \cup {cert}] : n \in 1..MaxChainLength}
    IN {p \in Paths :
          /\ p[1] = cert /\ p[Len(p)] \in Roots
          /\ \A i \in 2..Len(p) : p[i] \in Issuers[p[i - 1]] /\ \A j \in 1..(i - 1) : p[i] # p[j]
          /\ \A i \in 2..(Len(p) - 1) : p[i] \in pool}

\* Chains with another as their beginning go, and one of equal chains stays.
removeSuperChains(chains) == {c \in chains : \A d \in chains : d = c \/ ~IsPrefix(d, c)}

----------------------------------------------------------------------------
Idle == [at |-> "idle"]

Init ==
    /\ file \in Files /\ read = 0 /\ queueing = <<>> /\ phase = "reading" /\ done = {}
    /\ fixer = [f \in Fixers |-> Idle] /\ cached = {} /\ forward = <<>> /\ waiting = FALSE
    /\ poster = [p \in Posters |-> Idle]
    /\ postCertCache = {} /\ postChainCache = {}
    /\ accepted = {} /\ errors = {}

(* processChains reads a chain and calls FixAndLog.QueueAllCertsInChain.   *)

QueueAllCertsInChain(chain) ==
    LET dchain == newDedupedChain(chain)
    IN /\ queueing' = IF hashBag(dchain) \in done THEN <<>>
                      ELSE [i \in DOMAIN dchain |-> [cert |-> dchain[i], chain |-> dchain, checked |-> FALSE]]
       /\ done' = done \cup {hashBag(dchain)}

processChains ==
    /\ phase = "reading" /\ queueing = <<>> /\ read < Len(file)
    /\ read' = read + 1 /\ QueueAllCertsInChain(file[read + 1])
    /\ UNCHANGED <<file, phase, fixer, cached, fwdVars, poster, logVars, errors>>

IsPosted(c) == hash(c) \in postCertCache

\* The certificate is looked up, and may be posted while it waits.
CheckPosted ==
    /\ queueing # <<>> /\ ~queueing[1].checked
    /\ queueing' = IF IsPosted(queueing[1].cert) THEN Tail(queueing) ELSE [queueing EXCEPT ![1].checked = TRUE]
    /\ UNCHANGED <<file, read, phase, done, fixer, cached, fwdVars, poster, logVars, errors>>

\* A toFix, and what its methods keep while they work on it: the pool of intermediates,
\* the certificates of the chain that are still to be explored, the explored ones and
\* those seen since the last of them, what is to be augmented, and what is returned.
ToFix(cert, chain) ==
    [at |-> "construct", cert |-> cert, chain |-> chain, pool |-> {}, rest |-> <<>>, explored |-> {}, seen |-> {},
     stack |-> <<>>, out |-> {}, errs |-> {}]

\* Fixer.QueueChain meets an idle fixer.
QueueChain(f) ==
    /\ queueing # <<>> /\ queueing[1].checked /\ fixer[f] = Idle
    /\ fixer' = [fixer EXCEPT ![f] = ToFix(queueing[1].cert, queueing[1].chain)]
    /\ queueing' = Tail(queueing)
    /\ UNCHANGED <<file, read, phase, done, cached, fwdVars, poster, logVars, errors>>

----------------------------------------------------------------------------
(* A fixer: toFix.handleChain, one step per certificate and URL.           *)

Become(f, x) == fixer' = [fixer EXCEPT ![f] = x]

constructChain(f) ==
    LET x == fixer[f]
        chains == Verify(x.cert, ToSet(x.chain))
    IN /\ x.at = "construct"
       /\ Become(f, IF chains # {} THEN [x EXCEPT !.at = "send", !.out = removeSuperChains(chains)]
                    ELSE [x EXCEPT !.at = "next", !.pool = ToSet(x.chain), !.rest = addCertToFront(x.chain, x.cert),
                                   !.errs = {[type |-> "VerifyFailed", cert |-> x.cert]}])
       /\ UNCHANGED <<mainVars, cached, fwdVars, poster, logVars, errors>>

\* fixChain: the next certificate of the chain that was not yet seen, with a
\* fresh set of seen ones.
fixChain(f) ==
    LET x == fixer[f]
        explored == x.explored \cup x.seen
    IN /\ x.at = "next"
       /\ Become(f, IF x.rest = <<>>
                      THEN [x EXCEPT !.at = "send", !.errs = @ \cup {[type |-> "FixFailed", cert |-> x.cert]}]
                    ELSE IF hash(Head(x.rest)) \in explored
                      THEN [x EXCEPT !.rest = Tail(@), !.explored = explored]
                    ELSE [x EXCEPT !.at = "augment", !.rest = Tail(@), !.explored = explored, !.seen = {},
                                   !.stack = <<[type |-> "cert", name |-> Head(x.rest), length |-> 1]>>])
       /\ UNCHANGED <<mainVars, cached, fwdVars, poster, logVars, errors>>

\* augmentIntermediates: what is on the stack is a certificate to be added,
\* or a URL of one that was.
augmentIntermediates(f) ==
    LET x == fixer[f]
        top == Head(x.stack)
        pool == x.pool \cup {top.name}
        chains == Verify(x.cert, pool)
        below == [i \in DOMAIN URLs[top.name] |-> [type |-> "url", name |-> URLs[top.name][i], length |-> top.length]]
    IN /\ x.at = "augment" /\ x.stack # <<>> /\ top.type = "cert"
       /\ Become(f, IF top.length > MaxChainLength \/ hash(top.name) \in x.seen
                      THEN [x EXCEPT !.stack = Tail(@)]
                    ELSE IF chains # {}
                      THEN [x EXCEPT !.at = "send", !.out = removeSuperChains(chains)]
                    ELSE [x EXCEPT !.seen = @ \cup {hash(top.name)}, !.pool = pool, !.stack = below \o Tail(@)])
       /\ UNCHANGED <<mainVars, cached, fwdVars, poster, logVars, errors>>

Augmented(f) ==
    /\ fixer[f].at = "augment" /\ fixer[f].stack = <<>>
    /\ Become(f, [fixer[f] EXCEPT !.at = "next"])
    /\ UNCHANGED <<mainVars, cached, fwdVars, poster, logVars, errors>>

urlReplacement(url) == url \in Replacements

\* urlCache.getURL: from the cache, or fetched, which may fail.
getURL(url, ok) ==
    /\ ok \/ url \notin cached
    /\ cached' = IF ok THEN cached \cup {url} ELSE cached

getIntermediates(f) ==
    LET x == fixer[f]
        top == Head(x.stack)
        Failed(type) == Become(f, [x EXCEPT !.stack = Tail(@), !.errs = @ \cup {[type |-> type, url |-> top.name]}])
        Got == Become(f, [x EXCEPT !.stack =
                            <<[type |-> "cert", name |-> Content[top.name], length |-> top.length + 1]>> \o Tail(@)])
    IN /\ x.at = "augment" /\ x.stack # <<>> /\ top.type = "url"
       /\ \/ urlReplacement(top.name) /\ Got /\ UNCHANGED cached
          \/ /\ ~urlReplacement(top.name)
             /\ \/ getURL(top.name, TRUE) /\ IF Content[top.name] = NoCert THEN Failed("ParseFailure") ELSE Got
                \/ getURL(top.name, FALSE) /\ Failed("CannotFetchURL")
       /\ UNCHANGED <<mainVars, fwdVars, poster, logVars, errors>>

\* fixServer: errors are sent, then the chains, one at a time.
Report(f) ==
    /\ fixer[f].at = "send" /\ fixer[f].errs # {}
    /\ errors' = errors \cup fixer[f].errs
    /\ Become(f, [fixer[f] EXCEPT !.errs = {}])
    /\ UNCHANGED <<mainVars, cached, fwdVars, poster, logVars>>

Send(f) ==
    /\ fixer[f].at = "send" /\ fixer[f].errs = {}
    /\ \/ fixer[f].out = {} /\ Become(f, Idle) /\ UNCHANGED forward
       \/ /\ forward = <<>>
          /\ \E chain \in fixer[f].out :
               /\ forward' = chain
               /\ Become(f, [fixer[f] EXCEPT !.out = @ \ {chain}])
    /\ UNCHANGED <<mainVars, cached, waiting, poster, logVars, errors>>

----------------------------------------------------------------------------
(* The logger.                                                             *)

\* Logger.QueueChain: a chain of a certificate that was posted, or a chain
\* that was tried, is dropped; another waits for a poster.
LoggerQueueChain ==
    /\ forward # <<>> /\ ~waiting
    /\ IF IsPosted(forward[1]) \/ hashChain(forward) \in postChainCache
         THEN forward' = <<>> /\ UNCHANGED <<waiting, postChainCache>>
         ELSE postChainCache' = postChainCache \cup {hashChain(forward)} /\ waiting' = TRUE /\ UNCHANGED forward
    /\ UNCHANGED <<mainVars, fixer, cached, poster, postCertCache, accepted, errors>>

postToLog(p) ==
    /\ waiting /\ poster[p] = Idle
    /\ poster' = [poster EXCEPT ![p] = [at |-> "check", chain |-> forward]]
    /\ forward' = <<>> /\ waiting' = FALSE
    /\ UNCHANGED <<mainVars, fixer, cached, logVars, errors>>

\* Mutant: the early return is not counted as done.
postChainMutant(p) ==
    /\ poster[p].at = "check"
    /\ poster' = [poster EXCEPT ![p].at = IF IsPosted(poster[p].chain[1]) THEN "skipped" ELSE "add"]
    /\ UNCHANGED <<mainVars, fixer, cached, fwdVars, logVars, errors>>

\* postChain looks again, waits for the limiter and calls the log.
postChain(p) ==
    /\ poster[p].at = "check"
    /\ poster' = [poster EXCEPT ![p] = IF IsPosted(@.chain[1]) THEN Idle ELSE [@ EXCEPT !.at = "add"]]
    /\ UNCHANGED <<mainVars, fixer, cached, fwdVars, logVars, errors>>

AddChain(p) ==
    LET chain == poster[p].chain
    IN /\ poster[p].at = "add"
       /\ \/ /\ accepted' = accepted \cup {chain} /\ poster' = [poster EXCEPT ![p].at = "set"] /\ UNCHANGED errors
          \/ /\ errors' = errors \cup {[type |-> "LogPostFailed", cert |-> chain[1]]}
             /\ poster' = [poster EXCEPT ![p] = Idle] /\ UNCHANGED accepted
       /\ UNCHANGED <<mainVars, fixer, cached, fwdVars, postCertCache, postChainCache>>

SetPosted(p) ==
    /\ poster[p].at = "set"
    /\ postCertCache' = postCertCache \cup {hash(poster[p].chain[1])}
    /\ poster' = [poster EXCEPT ![p] = Idle]
    /\ UNCHANGED <<mainVars, fixer, cached, fwdVars, postChainCache, accepted, errors>>

----------------------------------------------------------------------------
\* Mutant: the posters are waited for before the goroutine that feeds them.
WaitMutant ==
    LET next == [reading |-> "fixers", fixers |-> "posters", posters |-> "forwarder", forwarder |-> "ended"]
    IN /\ phase # "ended"
       /\ phase = "reading" => read = Len(file) /\ queueing = <<>>
       /\ phase = "fixers" => \A f \in Fixers : fixer[f] = Idle
       /\ phase = "forwarder" => forward = <<>>
       /\ phase = "posters" => \A p \in Posters : poster[p] = Idle
       /\ phase' = next[phase]
       /\ UNCHANGED <<file, read, queueing, done, fixer, cached, fwdVars, poster, logVars, errors>>

\* FixAndLog.Wait: the fixers, then the goroutine between, then the posters;
\* after that chainfix closes the channel of errors.
Wait ==
    LET next == [reading |-> "fixers", fixers |-> "forwarder", forwarder |-> "posters", posters |-> "ended"]
    IN /\ phase # "ended"
       /\ phase = "reading" => read = Len(file) /\ queueing = <<>>
       /\ phase = "fixers" => \A f \in Fixers : fixer[f] = Idle
       /\ phase = "forwarder" => forward = <<>>
       /\ phase = "posters" => \A p \in Posters : poster[p] = Idle
       /\ phase' = next[phase]
       /\ UNCHANGED <<file, read, queueing, done, fixer, cached, fwdVars, poster, logVars, errors>>

FixerStep(f) ==
    \/ constructChain(f) \/ fixChain(f) \/ augmentIntermediates(f) \/ Augmented(f) \/ getIntermediates(f)
    \/ Report(f) \/ Send(f)
PosterStep(p) == postToLog(p) \/ postChain(p) \/ AddChain(p) \/ SetPosted(p)

Next ==
    \/ processChains \/ CheckPosted \/ LoggerQueueChain \/ Wait
    \/ \E f \in Fixers : QueueChain(f) \/ FixerStep(f)
    \/ \E p \in Posters : PosterStep(p)

\* Every goroutine goes on as long as it can; a fetch or a post ends.
Fairness ==
    /\ WF_vars(processChains \/ CheckPosted \/ Wait \/ \E f \in Fixers : QueueChain(f))
    /\ WF_vars(LoggerQueueChain)
    /\ \A f \in Fixers : WF_vars(FixerStep(f))
    /\ \A p \in Posters : WF_vars(PosterStep(p))

Spec == Init /\ [][Next]_vars /\ Fairness
----------------------------------------------------------------------------
\* The certificates that Fix can know of: the chain's, and what their URLs
\* lead to.
Complete(S) == {Content[u] : u \in UNION {ToSet(URLs[c]) : c \in S}} \ {NoCert} \subseteq S
Known(S) ==
    {c \in DOMAIN Issuers :
        \A T \in SUBSET DOMAIN Issuers : S \subseteq T /\ Complete(T) => c \in T}

\* When chainfix closes the channel of errors no one is left to send on it,
\* and every certificate of every chain in the file is in the log or an error
\* says why not; a fix was given up only if there is no chain in all that
\* could be fetched, or a fetch failed.
EveryCertIsAccounted ==
    phase = "ended" =>
      /\ \A f \in Fixers : fixer[f] = Idle
      /\ \A p \in Posters : poster[p] = Idle
      /\ \A chain \in ToSet(file) : \A c \in ToSet(chain) :
           \/ \E p \in accepted : p[1] = c
           \/ [type |-> "LogPostFailed", cert |-> c] \in errors
           \/ /\ [type |-> "FixFailed", cert |-> c] \in errors
              /\ \/ Verify(c, Known(ToSet(chain) \cup {c})) = {}
                 \/ \E e \in errors : e.type = "CannotFetchURL"

\* FixAndLog.Wait returns.
WaitReturns == <>(phase = "ended")
=============================================================================
