-------------------------------- MODULE CTFE --------------------------------
(***************************************************************************)
(* The CT personality of Trillian (trillian/ctfe): the HTTP entry points   *)
(* of RFC 6962 in front of a Trillian log.  Every entry point parses its   *)
(* parameters, makes one RPC, checks what the backend says and answers;    *)
(* get-sth also signs, with a cache of one signature.  Requests are served *)
(* concurrently, each by a handler of its own.                             *)
(*                                                                         *)
(* The backend is external: it queues leaves, at most one per identity     *)
(* hash, integrates queued leaves and publishes roots.  An RPC may fail    *)
(* before or after the backend has acted.                                  *)
(*                                                                         *)
(* A certificate is a value, a leaf its certificate and timestamp, a proof *)
(* what JSON makes of it: the nodes that the two tree sizes call for,      *)
(* "empty" (an empty list), "null", or nodes that are not hashes.          *)
(* Certificate validation is the constant Accepted.                        *)
(***************************************************************************)
EXTENDS Integers, Sequences, Functions

CONSTANTS
    Handlers,       \* the requests being served (one AppHandler call each)
    Certs,          \* the certificates and precertificates that clients submit
    Precerts,       \* those of them with the CT poison extension
    Accepted,       \* those with a chain that ValidateChain accepts, of which a leaf can be built
    Times,          \* what TimeSource.Now may say, in milliseconds
    Endpoints,      \* the entry points that clients call
    Kind,           \* which STHGetter newLogInfo chose: "log" or "mirror"
    IsReadonly,     \* LogConfig.is_readonly
    MaxGetEntries,  \* MaxGetEntriesAllowed
    Align,          \* the flag align_getentries
    FaultyBackend,  \* the backend may answer nonsense
    MaxInt,         \* the largest int64
    MaxParam,       \* bound on the numbers in requests
    MaxTreeSize,    \* bound on the size of a mirrored log
    MaxRefresh      \* bound on the roots published without new leaves

ASSUME CertAssumption == Precerts \subseteq Certs /\ Accepted \subseteq Certs
ASSUME KindAssumption == Kind \in {"log", "mirror"} /\ IsReadonly \in BOOLEAN
ASSUME EntriesAssumption == MaxGetEntries \in Nat \ {0} /\ Align \in BOOLEAN
ASSUME BoundAssumption ==
    MaxInt \in Nat /\ MaxParam \in 0..MaxInt /\ MaxTreeSize \in Nat /\ MaxRefresh \in Nat

VARIABLES
    \* Trillian
    queue,      \* leaves queued and not yet integrated
    log,        \* the integrated leaves
    roots,      \* the roots published so far, the latest last
    sourceSTHs, \* for a mirror: tree sizes of the source log's known STHs
    \* LogSTHGetter.cache
    cacheInput, cacheSig,
    \* the handlers
    pc,         \* where each handler is
    req,        \* its parsed request
    rsp,        \* the backend's response
    ans,        \* its last answer
    \* history
    scts,       \* the SCTs issued
    seen        \* timestamp of a head that had been served when the request arrived

trillianVars == <<queue, log, roots, sourceSTHs>>
cacheVars == <<cacheInput, cacheSig>>
vars == <<trillianVars, cacheVars, pc, req, rsp, ans, scts, seen>>

None == [ep |-> "none"]
Leaf == [cert : Certs, ts : Times]

\* Signed integers of the width whose largest value is MaxInt.
Wrap(n) == ((n + MaxInt + 1) % (2 * (MaxInt + 1))) - (MaxInt + 1)

\* The remainder of Go, which has the sign of the dividend.
Rem(a, b) == IF a >= 0 THEN a % b ELSE -((-a) % b)

LatestRoot == roots[Len(roots)]

TypeOK ==
    /\ queue \subseteq Leaf
    /\ log \in Seq(Leaf)
    /\ \A i \in 1..Len(roots) : roots[i] \in [size : 0..Len(log), ts : Nat]
    /\ sourceSTHs \subseteq 0..MaxTreeSize
    /\ pc \in [Handlers -> {"idle", "rpc", "reply", "mirror", "lookup", "sign", "store"}]
    /\ scts \subseteq [timestamp : Times, signed : Leaf]
    /\ seen \in [Handlers -> Nat]
    /\ \A h \in Handlers : 
         /\ pc[h] # "idle" => req[h].ep \in Endpoints
         /\ ans[h] # None => ans[h].status \in {200, 400, 401, 403, 404, 405, 408, 409, 412, 500, 501, 503}

\* newLogInfo
Init ==
    /\ queue = {} /\ log = <<>>
    /\ roots = <<[size |-> 0, ts |-> 0]>>
    /\ sourceSTHs = {0}
    /\ cacheInput = None /\ cacheSig = None
    /\ pc = [h \in Handlers |-> "idle"]
    /\ req = [h \in Handlers |-> None]
    /\ rsp = [h \in Handlers |-> None]
    /\ ans = [h \in Handlers |-> None]
    /\ scts = {}
    /\ seen = [h \in Handlers |-> 0]

---------------------------------------------------------------------------
(* Trillian.                                                               *)

Publish(size) == roots' = Append(roots, [size |-> size, ts |-> LatestRoot.ts + 1])

\* The sequencer integrates a queued leaf.
Integrate ==
    /\ Kind # "mirror"
    /\ \E l \in queue : queue' = queue \ {l} /\ log' = Append(log, l)
    /\ Publish(Len(log) + 1)
    /\ UNCHANGED <<sourceSTHs, cacheVars, pc, req, rsp, ans, scts, seen>>

\* A root with a new timestamp and no new leaves.
Refresh ==
    /\ LatestRoot.ts < MaxRefresh
    /\ Publish(Len(log))
    /\ UNCHANGED <<queue, log, sourceSTHs, cacheVars, pc, req, rsp, ans, scts, seen>>

\* A mirror is fed by the migration tool, and so are its source's STHs, which may be
\* ahead of the entries.
MirrorGrows ==
    /\ Kind = "mirror"
    /\ \/ /\ Len(log) < MaxTreeSize
          /\ \E l \in Leaf \ Range(log) : log' = Append(log, l)
          /\ Publish(Len(log) + 1)
          /\ UNCHANGED sourceSTHs
       \/ /\ \E n \in (0..MaxTreeSize) \ sourceSTHs : sourceSTHs' = sourceSTHs \cup {n}
          /\ UNCHANGED <<log, roots>>
    /\ UNCHANGED <<queue, cacheVars, pc, req, rsp, ans, scts, seen>>

---------------------------------------------------------------------------
(* Receiving a request.                                                    *)

\* A handler's last answer was a success.
OK(h, ep) == ans[h].ep = ep /\ ans[h].status = 200

\* Timestamps of heads that clients have got.
HeadTimes == {ans[h].sth.ts : h \in {g \in Handlers : OK(g, "get-sth")}}

Offered == IF Kind = "mirror" \/ IsReadonly THEN Endpoints \ {"add-chain", "add-pre-chain"} ELSE Endpoints

Fail(status) == [ep |-> "error", status |-> status]

Answer(h, a) ==
    /\ pc' = [pc EXCEPT ![h] = "idle"]
    /\ req' = [req EXCEPT ![h] = None]
    /\ rsp' = [rsp EXCEPT ![h] = None]
    /\ ans' = [ans EXCEPT ![h] = a]

\* ServeHTTP calls the handler, which got as far as its RPC.
Call(h, r) ==
    /\ pc' = [pc EXCEPT ![h] = "rpc"]
    /\ req' = [req EXCEPT ![h] = r]
    /\ ans' = [ans EXCEPT ![h] = None]
    /\ UNCHANGED rsp

\* ServeHTTP: a wrong method, or parameters that do not parse.
Refuse(h) ==
    /\ pc[h] = "idle"
    /\ \E status \in {400, 405} : Answer(h, Fail(status))
    /\ UNCHANGED <<trillianVars, cacheVars, scts, seen>>

\* verifyAddChain: the chain validates, and its first certificate is of the type that
\* the entry point expects.
VerifyAddChain(c, expectingPrecert) == c \in Accepted /\ (c \in Precerts <=> expectingPrecert)

\* The entry type and the issuer of a precertificate depend on the certificate.
MerkleTreeLeafFromChain(c, timeMillis) == [cert |-> c, ts |-> timeMillis]

\* addChainInternal up to its RPC.
AddChain(h) ==
    /\ pc[h] = "idle"
    /\ \E ep \in Offered \cap {"add-chain", "add-pre-chain"}, c \in Certs :
         IF VerifyAddChain(c, ep = "add-pre-chain")
         THEN \E t \in Times : Call(h, [ep |-> ep, leaf |-> MerkleTreeLeafFromChain(c, t)])
         ELSE Answer(h, Fail(400))
    /\ UNCHANGED <<trillianVars, cacheVars, scts, seen>>

GetSTH(h) ==
    /\ pc[h] = "idle"
    /\ "get-sth" \in Offered
    /\ \E t \in HeadTimes \cup {0} : seen' = [seen EXCEPT ![h] = t]
    /\ Call(h, [ep |-> "get-sth"])
    /\ UNCHANGED <<trillianVars, cacheVars, scts>>

\* parseGetSTHConsistencyRange accepts the numbers.
IsConsistencyRange(first, second) == ~(second < first)

\* getSTHConsistency up to its RPC.
GetSTHConsistency(h) ==
    /\ pc[h] = "idle"
    /\ "get-sth-consistency" \in Offered
    /\ \E first, second \in 0..MaxParam :
         LET r == [ep |-> "get-sth-consistency", first |-> first, second |-> second] IN
         IF ~IsConsistencyRange(first, second) THEN Answer(h, Fail(400))
         ELSE IF first = 0 THEN Answer(h, [ep |-> r.ep, status |-> 200, req |-> r, proof |-> "empty"])
         ELSE Call(h, r)
    /\ UNCHANGED <<trillianVars, cacheVars, scts, seen>>

GetProofByHash(h) ==
    /\ pc[h] = "idle"
    /\ "get-proof-by-hash" \in Offered
    /\ \E l \in Leaf, treeSize \in 0..MaxParam :
         IF treeSize < 1 THEN Answer(h, Fail(400))
         ELSE Call(h, [ep |-> "get-proof-by-hash", leaf |-> l, treeSize |-> treeSize])
    /\ UNCHANGED <<trillianVars, cacheVars, scts, seen>>

\* The end of the range that parseGetEntriesRange makes of start and end.
EntriesEndMutant(start, end) ==
    LET count == Wrap(end - start + 1)
        last == IF count > MaxGetEntries THEN Wrap(start + MaxGetEntries - 1) ELSE end
    IN IF Align /\ count >= MaxGetEntries
       THEN Wrap(last - Rem(last, MaxGetEntries))
       ELSE last
EntriesEnd(start, end) ==
    LET count == Wrap(end - start + 1)
        last == IF count > MaxGetEntries THEN Wrap(start + MaxGetEntries - 1) ELSE end
    IN IF Align /\ count >= MaxGetEntries
       THEN Wrap(last - Rem(Wrap(last + 1), MaxGetEntries))
       ELSE last

\* getEntries up to its RPC.
GetEntries(h) ==
    /\ pc[h] = "idle"
    /\ "get-entries" \in Offered
    /\ \E start, end \in 0..MaxParam :
         IF start > end THEN Answer(h, Fail(400))
         ELSE Call(h, [ep |-> "get-entries", start |-> start, asked |-> end,
                       count |-> Wrap(EntriesEnd(start, end) + 1 - start)])
    /\ UNCHANGED <<trillianVars, cacheVars, scts, seen>>

\* parseGetEntryAndProofParams accepts the numbers.
IsLeafOfTree(leafIndex, treeSize) == ~(treeSize <= 0) /\ ~(leafIndex >= treeSize)

\* getEntryAndProof up to its RPC.
GetEntryAndProof(h) ==
    /\ pc[h] = "idle"
    /\ "get-entry-and-proof" \in Offered
    /\ \E leafIndex, treeSize \in 0..MaxParam :
         IF ~IsLeafOfTree(leafIndex, treeSize) THEN Answer(h, Fail(400))
         ELSE Call(h, [ep |-> "get-entry-and-proof", index |-> leafIndex, treeSize |-> treeSize])
    /\ UNCHANGED <<trillianVars, cacheVars, scts, seen>>

---------------------------------------------------------------------------
(* The RPC.                                                                *)

\* toHTTPStatus
ToHTTPStatus(code) ==
    CASE code \in {"Canceled", "DeadlineExceeded"} -> 408
      [] code \in {"InvalidArgument", "OutOfRange", "AlreadyExists"} -> 400
      [] code = "NotFound" -> 404
      [] code \in {"PermissionDenied", "ResourceExhausted"} -> 403
      [] code = "Unauthenticated" -> 401
      [] code = "FailedPrecondition" -> 412
      [] code = "Aborted" -> 409
      [] code = "Unimplemented" -> 501
      [] code = "Unavailable" -> 503
      [] OTHER -> 500

\* Failures that need not be the backend's own verdict on the request.
FailureCodes == {"DeadlineExceeded", "Unavailable"}

\* LeafIdentityHash of BuildLogLeaf
Identity(l) == l.cert

Known(l) == {k \in queue \cup Range(log) : Identity(k) = Identity(l)}

\* The backend queues the leaf, unless it has one with the same identity hash, and
\* returns the leaf it has.
QueueLeaf(h) ==
    /\ pc[h] = "rpc"
    /\ req[h].ep \in {"add-chain", "add-pre-chain"}
    /\ LET l == req[h].leaf
           kept == IF Known(l) = {} THEN l ELSE CHOOSE k \in Known(l) : TRUE
       IN /\ queue' = IF Known(l) = {} THEN queue \cup {l} ELSE queue
          /\ \/ /\ rsp' = [rsp EXCEPT ![h] = [ep |-> req[h].ep, leaf |-> kept]]
                /\ pc' = [pc EXCEPT ![h] = "reply"]
                /\ UNCHANGED <<req, ans>>
             \/ \E code \in FailureCodes : Answer(h, Fail(ToHTTPStatus(code)))
    /\ UNCHANGED <<log, roots, sourceSTHs, cacheVars, scts, seen>>

\* A request that the backend did not act upon.
RPCFails(h) ==
    /\ pc[h] = "rpc"
    /\ \E code \in FailureCodes : Answer(h, Fail(ToHTTPStatus(code)))
    /\ UNCHANGED <<trillianVars, cacheVars, scts, seen>>

Min2(a, b) == IF a < b THEN a ELSE b
Nodes(needed) == IF needed THEN {"nodes"} ELSE {"nil"}
Faulty(S) == IF FaultyBackend THEN S ELSE {}

\* Indices and leaves of the count leaves from start, as far as there are any.
LeavesFrom(start, count) ==
    [i \in 1..Min2(count, Len(log) - start) |-> [index |-> start + i - 1, leaf |-> log[start + i]]]

\* What the backend may say to the requests that only read.  The root says how large
\* its tree is; a request about a larger tree gets the root and nothing else.
Responses(r) ==
    LET size == Len(log) IN
    CASE r.ep = "get-sth" -> {[root |-> LatestRoot]}
      [] r.ep = "get-sth-consistency" ->
           {[size |-> size, proof |-> p] : p \in
               IF size < r.second THEN {"nil"}
               ELSE Nodes(r.first < r.second) \cup Faulty({"malformed"})}
      [] r.ep = "get-proof-by-hash" ->
           LET at == {i \in 1..Min2(size, r.treeSize) : log[i] = r.leaf} IN
           IF size < r.treeSize \/ at = {} THEN {[size |-> size, proof |-> "none"]}
           ELSE {[size |-> size, index |-> (CHOOSE i \in at : \A j \in at : i <= j) - 1, proof |-> p] :
                   p \in Nodes(r.treeSize > 1) \cup Faulty({"malformed"})}
      [] r.ep = "get-entries" ->
           IF size <= r.start THEN {[size |-> size, leaves |-> <<>>]}
           ELSE {[size |-> size, leaves |-> LeavesFrom(r.start, n)] : n \in 1..r.count}
                \cup Faulty({[size |-> size, leaves |-> LeavesFrom(r.start, r.count + 1)],
                             [size |-> size, leaves |-> LeavesFrom(0, r.count)]})
      [] r.ep = "get-entry-and-proof" ->
           IF size < r.treeSize THEN {[size |-> size, leaf |-> None, proof |-> "none"]}
           ELSE {[size |-> size, leaf |-> log[r.index + 1], proof |-> p] : p \in Nodes(r.treeSize > 1)}
                \cup Faulty({[size |-> size, leaf |-> None, proof |-> "none"]})

\* The backend refuses a range with a count below one.
BadCount(r) == r.ep = "get-entries" /\ r.count < 1

Read(h) ==
    /\ pc[h] = "rpc"
    /\ req[h].ep \notin {"add-chain", "add-pre-chain"}
    /\ IF BadCount(req[h])
       THEN Answer(h, Fail(ToHTTPStatus("InvalidArgument")))
       ELSE /\ \E b \in Responses(req[h]) : rsp' = [rsp EXCEPT ![h] = b]
            /\ pc' = [pc EXCEPT ![h] = IF req[h].ep # "get-sth" THEN "reply"
                                       ELSE IF Kind = "mirror" THEN "mirror" ELSE "lookup"]
            /\ UNCHANGED <<req, ans>>
    /\ UNCHANGED <<trillianVars, cacheVars, scts, seen>>

---------------------------------------------------------------------------
(* Answering.                                                              *)

\* buildV1SCT: a timestamp, and a signature over it and the leaf.
BuildV1SCT(l) == [timestamp |-> l.ts, signed |-> l]

\* addChainInternal after its RPC: the SCT is for the leaf that the backend returned,
\* if there is one and it can be parsed, signed and sent.
ReplySCTMutant(h) ==
    /\ pc[h] = "reply"
    /\ req[h].ep \in {"add-chain", "add-pre-chain"}
    /\ \/ /\ scts' = scts \cup {BuildV1SCT(req[h].leaf)}
          /\ Answer(h, [ep |-> req[h].ep, status |-> 200, sct |-> BuildV1SCT(req[h].leaf)])
       \/ UNCHANGED scts /\ Answer(h, Fail(500))
    /\ UNCHANGED <<trillianVars, cacheVars, seen>>
ReplySCTOther(h) ==
    LET l == [rsp[h].leaf EXCEPT !.cert = CHOOSE c \in Certs : c # @] IN
    /\ pc[h] = "reply"
    /\ req[h].ep \in {"add-chain", "add-pre-chain"}
    /\ scts' = scts \cup {BuildV1SCT(l)}
    /\ Answer(h, [ep |-> req[h].ep, status |-> 200, sct |-> BuildV1SCT(l)])
    /\ UNCHANGED <<trillianVars, cacheVars, seen>>
ReplySCT(h) ==
    /\ pc[h] = "reply"
    /\ req[h].ep \in {"add-chain", "add-pre-chain"}
    /\ \/ /\ scts' = scts \cup {BuildV1SCT(rsp[h].leaf)}
          /\ Answer(h, [ep |-> req[h].ep, status |-> 200, sct |-> BuildV1SCT(rsp[h].leaf)])
       \/ UNCHANGED scts /\ Answer(h, Fail(500))
    /\ UNCHANGED <<trillianVars, cacheVars, seen>>

\* All nodes are hashes.
CheckAuditPath(p) == p # "malformed"

EmptyProof(p) == IF p = "nil" THEN "empty" ELSE p

ConsistencyReply(r, b) ==
    IF b.size < r.second THEN Fail(400)
    ELSE IF ~CheckAuditPath(b.proof) THEN Fail(500)
    ELSE [ep |-> r.ep, status |-> 200, req |-> r, proof |-> EmptyProof(b.proof)]

ProofByHashReply(r, b) ==
    IF b.size < r.treeSize THEN Fail(404)
    ELSE IF b.proof = "none" THEN Fail(404)
    ELSE IF ~CheckAuditPath(b.proof) THEN Fail(500)
    ELSE [ep |-> r.ep, status |-> 200, req |-> r, index |-> b.index, proof |-> EmptyProof(b.proof)]

MarshalGetEntriesResponse(leaves) == [i \in DOMAIN leaves |-> leaves[i].leaf]

EntriesReply(r, b) ==
    IF b.size <= r.start THEN Fail(400)
    ELSE IF Len(b.leaves) > r.count THEN Fail(500)
    ELSE IF \E i \in DOMAIN b.leaves : b.leaves[i].index # r.start + i - 1 THEN Fail(500)
    ELSE [ep |-> r.ep, status |-> 200, req |-> r,
          entries |-> MarshalGetEntriesResponse(b.leaves)]

EntryAndProofReply(r, b) ==
    IF b.size < r.treeSize THEN Fail(400)
    ELSE IF b.leaf = None \/ b.proof = "none" THEN Fail(500)
    ELSE IF r.treeSize > 1 /\ b.proof = "nil" THEN Fail(500)
    ELSE [ep |-> r.ep, status |-> 200, req |-> r, leaf |-> b.leaf,
          proof |-> IF b.proof = "nil" THEN "null" ELSE b.proof]

Reply(h) ==
    /\ pc[h] = "reply"
    /\ LET r == req[h]  b == rsp[h] IN
       \/ r.ep = "get-sth-consistency" /\ Answer(h, ConsistencyReply(r, b))
       \/ r.ep = "get-proof-by-hash" /\ Answer(h, ProofByHashReply(r, b))
       \/ r.ep = "get-entries" /\ Answer(h, EntriesReply(r, b))
       \/ r.ep = "get-entry-and-proof" /\ Answer(h, EntryAndProofReply(r, b))
    /\ UNCHANGED <<trillianVars, cacheVars, scts, seen>>

ReplySTH(h, sth, sig) == Answer(h, [ep |-> "get-sth", status |-> 200, sth |-> sth, sig |-> sig])

\* MirrorSTHGetter.GetSTH: GetMirrorSTH returns an STH of at most the size it is given.
GetMirrorSTHMutant(h) ==
    /\ pc[h] = "mirror"
    /\ \/ \E n \in sourceSTHs :
            LET sth == [size |-> n, ts |-> n] IN ReplySTH(h, sth, sth)
       \/ Answer(h, Fail(500))
    /\ UNCHANGED <<trillianVars, cacheVars, scts, seen>>
GetMirrorSTH(h) ==
    /\ pc[h] = "mirror"
    /\ \/ \E n \in {m \in sourceSTHs : m <= rsp[h].root.size} :
            LET sth == [size |-> n, ts |-> n] IN ReplySTH(h, sth, sth)
       \/ Answer(h, Fail(500))
    /\ UNCHANGED <<trillianVars, cacheVars, scts, seen>>

\* signV1TreeHead: SignatureCache.GetSignature.
LookupSignatureMutant(h) ==
    /\ pc[h] = "lookup"
    /\ IF cacheInput # None /\ cacheSig.size = rsp[h].root.size
       THEN ReplySTH(h, rsp[h].root, cacheSig)
       ELSE pc' = [pc EXCEPT ![h] = "sign"] /\ UNCHANGED <<req, rsp, ans>>
    /\ UNCHANGED <<trillianVars, cacheVars, scts, seen>>
LookupSignature(h) ==
    /\ pc[h] = "lookup"
    /\ IF cacheInput = rsp[h].root
       THEN ReplySTH(h, rsp[h].root, cacheSig)
       ELSE pc' = [pc EXCEPT ![h] = "sign"] /\ UNCHANGED <<req, rsp, ans>>
    /\ UNCHANGED <<trillianVars, cacheVars, scts, seen>>

\* signer.Sign
Sign(h) ==
    /\ pc[h] = "sign"
    /\ \/ pc' = [pc EXCEPT ![h] = "store"] /\ UNCHANGED <<req, rsp, ans>>
       \/ Answer(h, Fail(500))
    /\ UNCHANGED <<trillianVars, cacheVars, scts, seen>>

\* SignatureCache.SetSignature, and the answer.
SetSignature(h) ==
    /\ pc[h] = "store"
    /\ cacheInput' = rsp[h].root
    /\ cacheSig' = rsp[h].root
    /\ ReplySTH(h, rsp[h].root, rsp[h].root)
    /\ UNCHANGED <<trillianVars, scts, seen>>

---------------------------------------------------------------------------

HandlerStep(h) ==
    \/ QueueLeaf(h) \/ RPCFails(h) \/ Read(h) \/ ReplySCT(h) \/ Reply(h)
    \/ GetMirrorSTH(h) \/ LookupSignature(h) \/ Sign(h) \/ SetSignature(h)

Receive(h) ==
    \/ Refuse(h) \/ AddChain(h) \/ GetSTH(h) \/ GetSTHConsistency(h)
    \/ GetProofByHash(h) \/ GetEntries(h) \/ GetEntryAndProof(h)

Next ==
    \/ Integrate \/ Refresh \/ MirrorGrows
    \/ \E h \in Handlers : Receive(h) \/ HandlerStep(h)

\* Trillian integrates what it has queued, and handlers run: an RPC ends by its deadline.
Fairness == WF_vars(Integrate) /\ \A h \in Handlers : WF_vars(HandlerStep(h))

Spec == Init /\ [][Next]_vars /\ Fairness

---------------------------------------------------------------------------
(* Properties.                                                             *)

\* All SCTs issued for one certificate carry one timestamp, however often and however
\* concurrently it is submitted, and whichever of the calls failed after the backend
\* had queued the leaf.
SCTsAgree == \A k, l \in scts : k.signed.cert = l.signed.cert => k = l

\* No certificate is logged twice.
OneEntryPerCert ==
    \A k, l \in queue \cup Range(log) : k.cert = l.cert => k = l

\* An SCT is a promise that the Log keeps: the very leaf it was issued for gets into
\* a tree whose root is published.
SCTsAreMerged ==
    \A l \in Leaf : BuildV1SCT(l) \in scts ~> \E i \in 1..LatestRoot.size : log[i] = l

\* The signature that get-sth returns is over the head that it returns, and that head
\* is one the backend published.
HeadsAreGenuine ==
    \A h \in Handlers : OK(h, "get-sth") /\ Kind = "log" =>
        /\ ans[h].sig = ans[h].sth
        /\ ans[h].sth \in Range(roots)

\* A client that asks again after it got an answer is not given an older head.
HeadsMoveForward ==
    \A h \in Handlers : OK(h, "get-sth") /\ Kind = "log" => ans[h].sth.ts >= seen[h]

\* "the mirror doesn't expose a 'future' state of the log before it is properly stored
\* in Trillian".
HeadsAreStored ==
    \A h \in Handlers : OK(h, "get-sth") => ans[h].sth.size <= Len(log)

\* What get-sth tells of the Log is true, is stored, and is not older than what was told
\* before (trillian/ctfe/sth.go:69, serialize.go:60).
HeadsAreHonest == HeadsAreGenuine /\ HeadsMoveForward /\ HeadsAreStored

\* The proofs that are answered, to be cached by whoever likes, are the proofs that
\* their tree sizes call for, in a tree that exists, for the leaf asked about.
ProofsHold ==
    \A h \in Handlers :
        /\ OK(h, "get-sth-consistency") /\ ans[h].req.first > 0 =>
             /\ ans[h].req.second <= Len(log)
             /\ ans[h].proof = IF ans[h].req.first < ans[h].req.second THEN "nodes" ELSE "empty"
        /\ OK(h, "get-proof-by-hash") =>
             /\ ans[h].req.treeSize <= Len(log)
             /\ ans[h].index < ans[h].req.treeSize
             /\ log[ans[h].index + 1] = ans[h].req.leaf
             /\ ans[h].proof = IF ans[h].req.treeSize > 1 THEN "nodes" ELSE "empty"

\* get-entries answers with entries of the Log from start on, at least one and no more
\* than asked for or allowed, and a request for as many as are allowed ends before a
\* multiple of that number when ranges are aligned.
EntriesHold ==
    \A h \in Handlers : OK(h, "get-entries") =>
        LET r == ans[h].req  n == Len(ans[h].entries) IN
        /\ n >= 1
        /\ n <= MaxGetEntries
        /\ r.start + n - 1 <= r.asked
        /\ ans[h].entries = SubSeq(log, r.start + 1, r.start + n)
        /\ Align /\ r.asked - r.start + 1 >= MaxGetEntries =>
             (r.start + r.count) % MaxGetEntries = 0
=============================================================================
