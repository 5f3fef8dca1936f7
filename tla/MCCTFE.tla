------------------------------- MODULE MCCTFE -------------------------------
(***************************************************************************)
(* Two personalities are model-checked together: a Log (CTFE), and a       *)
(* mirror of a Log (M!), which is asked for everything that can be read    *)
(* and whose backend may answer nonsense.  In a behaviour one of them      *)
(* serves requests; of the other, nobody has asked anything yet.           *)
(***************************************************************************)
EXTENDS CTFE

CONSTANTS MirrorHandlers, MirrorCerts, MirrorEndpoints

\* Of the mirror, the numbers in requests leave room for the sums in the handlers.
ASSUME MirrorAssumption == MaxInt - 2 \in Nat

VARIABLES
    works,      \* which of the two serves requests: a value of Kind
    mqueue, mlog, mroots, msourceSTHs, mcacheInput, mcacheSig, mpc, mreq, mrsp, mans, mscts, mseen

M == INSTANCE CTFE WITH
    Kind <- "mirror", Handlers <- MirrorHandlers, Certs <- MirrorCerts, Precerts <- {},
    Accepted <- {}, Times <- {1}, Endpoints <- MirrorEndpoints, FaultyBackend <- TRUE,
    MaxParam <- MaxInt - 2, MaxRefresh <- 0,
    queue <- mqueue, log <- mlog, roots <- mroots, sourceSTHs <- msourceSTHs,
    cacheInput <- mcacheInput, cacheSig <- mcacheSig, pc <- mpc, req <- mreq, rsp <- mrsp,
    ans <- mans, scts <- mscts, seen <- mseen

mVars == <<mqueue, mlog, mroots, msourceSTHs, mcacheInput, mcacheSig, mpc, mreq, mrsp, mans,
           mscts, mseen>>
allVars == <<works, vars, mVars>>

MCInit == works \in {"log", "mirror"} /\ Init /\ M!Init

MCNext ==
    \/ works = "log" /\ Next /\ UNCHANGED <<works, mVars>>
    \/ works = "mirror" /\ M!Next /\ UNCHANGED <<works, vars>>

\* Fairness is about the Log; it asks nothing of a Log that has no requests.
MCSpec == MCInit /\ [][MCNext]_allVars /\ Fairness

----------------------------------------------------------------------------
\* What clients see of the personality: who handles which request, the backend's queue
\* and the signature cache are hidden.
Log ==
    INSTANCE CTLog
        WITH Clients <- Handlers, Nothing <- None,
             promised <- queue \cup Range(log), tree <- log, heads <- Range(roots), asked <- seen,
             told <- [h \in Handlers |->
                        IF OK(h, "get-sth") THEN [head |-> ans[h].sth, signature |-> ans[h].sig] ELSE None]

\* The personality in front of Trillian is a Log: however requests are interleaved and
\* RPCs fail, a certificate has one leaf, SCTs are for leaves the backend has, the tree
\* only grows, and heads are published ones, rightly signed and never older than those
\* told before (handlers.go:422, sth.go:69).
IsCTLog == Log!Spec

\* "the mirror doesn't expose a 'future' state of the log before it is properly stored
\* in Trillian": whatever the order in which the source's heads and its entries reach
\* the mirror, a head that is served has all its entries (trillian/ctfe/sth.go).
MirrorHeadsAreStored == M!HeadsAreStored

\* What is read is right, although the backend answers nonsense now and then and the
\* tree grows between the request and the answer: the proofs answered are those that
\* their tree sizes call for, in a tree that exists; the entries answered are those of
\* the Log from the start of the range, no more than allowed, aligned if ranges are
\* (trillian/ctfe/handlers.go, getSTHConsistency, getProofByHash, getEntries).
ReadsAreRight == M!ProofsHold /\ M!EntriesHold
=============================================================================
