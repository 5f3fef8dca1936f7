----------------------------- MODULE CTFEProofs -----------------------------
(***************************************************************************)
(* Proofs about the CT personality: one entry and one SCT per certificate, *)
(* and heads of a log that are genuine, are stored and never go back, for  *)
(* any number of concurrent requests, certificates and clock readings.     *)
(*                                                                         *)
(* The invariant for SCTs says that a leaf which the backend has returned, *)
(* or which was signed, stays known to the backend (Stored only grows),    *)
(* and that the backend knows at most one leaf per certificate.  The       *)
(* invariant for heads says that the root a handler has read is one that   *)
(* was published, and no older than any head served before its request.    *)
(*                                                                         *)
(* Together they show that the personality implements the abstract CTLog.  *)
(***************************************************************************)
EXTENDS MCCTFE, SequenceTheorems, FiniteSetTheorems, WellFoundedInduction, TLAPS

Stored == queue \cup Range(log)
AddEndpoints == {"add-chain", "add-pre-chain"}
Root == [size : Nat, ts : Nat]

Types ==
    /\ queue \subseteq Leaf
    /\ log \in Seq(Leaf)
    /\ DOMAIN pc = Handlers /\ DOMAIN req = Handlers
    /\ DOMAIN rsp = Handlers /\ DOMAIN ans = Handlers

\* A submission on its way carries a leaf, and a leaf that came back is stored.
Submissions ==
    \A h \in Handlers : req[h].ep \in AddEndpoints =>
        /\ pc[h] = "rpc" => req[h].leaf \in Leaf
        /\ pc[h] = "reply" => rsp[h].leaf \in Stored

Promises == \A s \in scts : s.signed \in Stored /\ s = BuildV1SCT(s.signed)

SCTInv == Types /\ Submissions /\ OneEntryPerCert /\ Promises

---------------------------------------------------------------------------

\* Appending a leaf adds it to the stored ones and keeps the others.
LEMMA RangeAppend ==
    ASSUME NEW S, NEW s \in Seq(S), NEW e
    PROVE  Range(Append(s, e)) = Range(s) \cup {e}
<1>1. DOMAIN Append(s, e) = 1..(Len(s) + 1) /\ DOMAIN s = 1..Len(s) /\ Len(s) \in Nat
  OBVIOUS
<1>2. \A i \in 1..Len(s) : Append(s, e)[i] = s[i]
  OBVIOUS
<1>3. Append(s, e)[Len(s) + 1] = e
  OBVIOUS
<1>4. QED
  BY <1>1, <1>2, <1>3 DEF Range

LEMMA InitSCTInv == Init => SCTInv
<1> SUFFICES ASSUME Init PROVE SCTInv
  OBVIOUS
<1>1. Stored = {} /\ scts = {}
  BY DEF Init, Stored, Range
<1>2. Types /\ Submissions
  BY DEF Init, Types, Submissions, AddEndpoints, None
<1>3. QED
  BY <1>1, <1>2 DEF SCTInv, OneEntryPerCert, Promises, Stored

\* Steps that leave what the backend stores, the SCTs and submissions alone.
LEMMA ReadSteps ==
    ASSUME SCTInv, NEW h \in Handlers,
           Refuse(h) \/ GetSTH(h) \/ GetSTHConsistency(h) \/ GetProofByHash(h) \/ GetEntries(h)
             \/ GetEntryAndProof(h) \/ RPCFails(h) \/ Read(h) \/ Reply(h) \/ GetMirrorSTH(h)
             \/ LookupSignature(h) \/ Sign(h) \/ SetSignature(h)
    PROVE  SCTInv'
<1> USE DEF Answer, Call
<1>1. UNCHANGED <<queue, log, scts>>
  BY DEF Refuse, GetSTH, GetSTHConsistency, GetProofByHash, GetEntries, GetEntryAndProof, RPCFails,
         Read, Reply, GetMirrorSTH, LookupSignature, Sign, SetSignature, trillianVars, ReplySTH
<1>2. Stored' = Stored
  BY <1>1 DEF Stored
<1>3. /\ \A g \in Handlers \ {h} : /\ pc'[g] = pc[g] /\ req'[g] = req[g] /\ rsp'[g] = rsp[g]
      /\ DOMAIN pc' = Handlers /\ DOMAIN req' = Handlers /\ DOMAIN rsp' = Handlers /\ DOMAIN ans' = Handlers
      /\ pc'[h] \notin {"rpc", "reply"} \/ req'[h].ep \notin AddEndpoints
  BY DEF SCTInv, Types, Refuse, GetSTH, GetSTHConsistency, GetProofByHash, GetEntries, GetEntryAndProof, RPCFails,
         Read, Reply, GetMirrorSTH, LookupSignature, Sign, SetSignature, ReplySTH, AddEndpoints
<1>4. QED
  BY <1>1, <1>2, <1>3 DEF SCTInv, Types, Submissions, OneEntryPerCert, Promises, Stored

\* The submission steps.
LEMMA SubmissionSteps ==
    ASSUME SCTInv, NEW h \in Handlers, AddChain(h) \/ QueueLeaf(h) \/ ReplySCT(h)
    PROVE  SCTInv'
<1> USE DEF Answer, Call
<1>1. CASE AddChain(h)
  <2>1. UNCHANGED <<queue, log, scts>> /\ Stored' = Stored
    BY <1>1 DEF AddChain, trillianVars, Stored
  <2>2. /\ \A g \in Handlers \ {h} : /\ pc'[g] = pc[g] /\ req'[g] = req[g] /\ rsp'[g] = rsp[g]
        /\ DOMAIN pc' = Handlers /\ DOMAIN req' = Handlers /\ DOMAIN rsp' = Handlers /\ DOMAIN ans' = Handlers
        /\ pc'[h] \in {"rpc", "idle"}
        /\ pc'[h] = "rpc" => req'[h].leaf \in Leaf
    BY <1>1 DEF SCTInv, Types, AddChain, Leaf, MerkleTreeLeafFromChain
  <2>3. QED
    BY <2>1, <2>2 DEF SCTInv, Types, Submissions, OneEntryPerCert, Promises, Stored
<1>2. CASE QueueLeaf(h)
  <2> DEFINE l == req[h].leaf
             kept == IF Known(l) = {} THEN l ELSE CHOOSE k \in Known(l) : TRUE
  <2>1. l \in Leaf /\ UNCHANGED <<log, scts>>
    BY <1>2 DEF QueueLeaf, SCTInv, Submissions, AddEndpoints
  <2>2. /\ queue' = IF Known(l) = {} THEN queue \cup {l} ELSE queue
        /\ Stored' = IF Known(l) = {} THEN Stored \cup {l} ELSE Stored
    BY <1>2, <2>1 DEF QueueLeaf, Stored
  <2>3. kept \in Stored'
    <3>1. CASE Known(l) = {}
      BY <2>2, <3>1
    <3>2. CASE Known(l) # {}
      <4>1. (CHOOSE k \in Known(l) : TRUE) \in Known(l)
        BY <3>2
      <4>2. Known(l) \subseteq Stored
        BY DEF Known, Stored
      <4>3. QED
        BY <2>2, <3>2, <4>1, <4>2
    <3>3. QED
      BY <3>1, <3>2
  <2>4. OneEntryPerCert'
    <3>1. CASE Known(l) = {}
      <4>1. \A k \in Stored : k.cert # l.cert
        BY <3>1 DEF Known, Identity, Stored
      <4>2. Stored' = Stored \cup {l}
        BY <2>2, <3>1
      <4>3. QED
        BY <4>1, <4>2 DEF SCTInv, OneEntryPerCert, Stored
    <3>2. CASE Known(l) # {}
      BY <2>2, <3>2 DEF SCTInv, OneEntryPerCert, Stored
    <3>3. QED
      BY <3>1, <3>2
  <2>5. /\ \A g \in Handlers \ {h} : /\ pc'[g] = pc[g] /\ req'[g] = req[g] /\ rsp'[g] = rsp[g]
        /\ DOMAIN pc' = Handlers /\ DOMAIN req' = Handlers /\ DOMAIN rsp' = Handlers /\ DOMAIN ans' = Handlers
        /\ \/ pc'[h] = "reply" /\ rsp'[h].leaf = kept
           \/ pc'[h] = "idle"
    <3>1. \/ /\ rsp' = [rsp EXCEPT ![h] = [ep |-> req[h].ep, leaf |-> kept]]
             /\ pc' = [pc EXCEPT ![h] = "reply"]
             /\ UNCHANGED <<req, ans>>
          \/ \E a : Answer(h, a)
      BY <1>2, Zenon DEF QueueLeaf
    <3> HIDE DEF kept
    <3>2. QED
      BY <3>1 DEF SCTInv, Types
  <2>6. Types'
    BY <2>1, <2>2, <2>5 DEF SCTInv, Types
  <2>7. Submissions'
    BY <2>2, <2>3, <2>5 DEF SCTInv, Submissions
  <2>8. QED
    BY <2>1, <2>2, <2>4, <2>6, <2>7 DEF SCTInv, Promises
<1>3. CASE ReplySCT(h)
  <2>1. UNCHANGED <<queue, log>> /\ Stored' = Stored
    BY <1>3 DEF ReplySCT, trillianVars, Stored
  <2>2. /\ \A g \in Handlers \ {h} : /\ pc'[g] = pc[g] /\ req'[g] = req[g] /\ rsp'[g] = rsp[g]
        /\ DOMAIN pc' = Handlers /\ DOMAIN req' = Handlers /\ DOMAIN rsp' = Handlers /\ DOMAIN ans' = Handlers
        /\ pc'[h] = "idle"
    BY <1>3 DEF SCTInv, Types, ReplySCT
  <2>3. rsp[h].leaf \in Stored
    BY <1>3 DEF ReplySCT, SCTInv, Submissions, AddEndpoints
  <2>4. scts' = scts \/ scts' = scts \cup {BuildV1SCT(rsp[h].leaf)}
    BY <1>3 DEF ReplySCT
  <2>5. Promises'
    BY <2>1, <2>3, <2>4 DEF SCTInv, Promises, BuildV1SCT
  <2>6. QED
    BY <2>1, <2>2, <2>5 DEF SCTInv, Types, Submissions, OneEntryPerCert, Stored
<1>4. QED
  BY <1>1, <1>2, <1>3

\* The backend's own steps: what is stored stays stored, and nothing is stored twice.
LEMMA BackendSteps ==
    ASSUME SCTInv, Integrate \/ Refresh
    PROVE  SCTInv'
<1>1. UNCHANGED <<pc, req, rsp, ans, scts>>
  BY DEF Integrate, Refresh
<1>2. Stored' = Stored /\ queue' \subseteq Leaf /\ log' \in Seq(Leaf)
  <2>1. CASE Integrate
    <3>1. PICK l \in queue : queue' = queue \ {l} /\ log' = Append(log, l)
      BY <2>1 DEF Integrate
    <3>2. Range(log') = Range(log) \cup {l}
      BY <3>1, RangeAppend DEF SCTInv, Types
    <3>3. l \in Leaf
      BY DEF SCTInv, Types
    <3>4. log' \in Seq(Leaf)
      BY <3>1, <3>3 DEF SCTInv, Types
    <3>5. QED
      BY <3>1, <3>2, <3>4 DEF Stored, SCTInv, Types
  <2>2. CASE Refresh
    BY <2>2 DEF Refresh, Stored, SCTInv, Types
  <2>3. QED
    BY <2>1, <2>2
<1>3. QED
  BY <1>1, <1>2 DEF SCTInv, Types, Submissions, OneEntryPerCert, Promises, Stored

\* Every step of a log (a mirror takes no submissions) preserves the invariant.
LEMMA NextSCTInv == Kind = "log" /\ SCTInv /\ [Next]_vars => SCTInv'
<1> SUFFICES ASSUME Kind = "log", SCTInv, [Next]_vars PROVE SCTInv'
  OBVIOUS
<1>1. CASE Next
  BY <1>1, BackendSteps, ReadSteps, SubmissionSteps DEF Next, MirrorGrows, Receive, HandlerStep
<1>2. CASE UNCHANGED vars
  BY <1>2 DEF vars, trillianVars, SCTInv, Types, Submissions, OneEntryPerCert, Promises, Stored
<1>3. QED
  BY <1>1, <1>2

\* The invariant about submissions holds in every behaviour of a log.
THEOREM SCTInvHolds == ASSUME Kind = "log" PROVE Spec => []SCTInv
<1>1. SCTInv /\ [Next]_vars => SCTInv'
  BY NextSCTInv
<1>2. QED
  BY InitSCTInv, <1>1, PTL DEF Spec

\* However often and concurrently a certificate is submitted, and whatever fails on the
\* way, addChainInternal issues SCTs for it with one timestamp only.
THEOREM SubmittersAgree == ASSUME Kind = "log" PROVE Spec => []SCTsAgree
<1>1. SCTInv => SCTsAgree
  BY DEF SCTInv, OneEntryPerCert, Promises, SCTsAgree, Stored, BuildV1SCT
<1>2. QED
  BY SCTInvHolds, <1>1, PTL

\* The identity hash of BuildLogLeaf keeps every certificate to one entry.
THEOREM NothingLoggedTwice == ASSUME Kind = "log" PROVE Spec => []OneEntryPerCert
<1>1. SCTInv => OneEntryPerCert
  BY DEF SCTInv
<1>2. QED
  BY SCTInvHolds, <1>1, PTL

---------------------------------------------------------------------------
(* Heads.                                                                  *)

Handling == {"lookup", "sign", "store"}

\* The backend's roots cover what is integrated, the latest being the newest.
RootInv ==
    /\ log \in Seq(Leaf)
    /\ roots \in Seq(Root) /\ roots # <<>>
    /\ \A r \in Range(roots) : r.size <= Len(log) /\ r.ts <= LatestRoot.ts
    /\ sourceSTHs \subseteq Nat

HandlerTypes ==
    /\ DOMAIN pc = Handlers /\ DOMAIN req = Handlers
    /\ DOMAIN rsp = Handlers /\ DOMAIN ans = Handlers
    /\ seen \in [Handlers -> Nat]

\* The root in a handler's hands.
InHand ==
    \A h \in Handlers :
        /\ pc[h] = "mirror" => Kind = "mirror" /\ rsp[h].root \in Range(roots)
        /\ pc[h] \in Handling =>
             Kind = "log" /\ rsp[h].root \in Range(roots) /\ seen[h] <= rsp[h].root.ts
        /\ Kind = "log" => seen[h] <= LatestRoot.ts

\* The head in a handler's last answer.
Served ==
    \A h \in Handlers : OK(h, "get-sth") =>
        /\ ans[h].sth \in Root
        /\ ans[h].sth.size <= Len(log)
        /\ Kind = "log" => /\ ans[h].sth \in Range(roots)
                           /\ ans[h].sig = ans[h].sth
                           /\ ans[h].sth.ts >= seen[h]

HeadInv == RootInv /\ HandlerTypes /\ InHand /\ Served /\ cacheSig = cacheInput

LEMMA LatestIsRoot == ASSUME RootInv PROVE LatestRoot \in Range(roots) /\ LatestRoot \in Root
<1>1. Len(roots) \in 1..Len(roots)
  BY DEF RootInv
<1>2. QED
  BY <1>1 DEF RootInv, LatestRoot, Range

LEMMA InitHeadInv == Init => HeadInv
<1> SUFFICES ASSUME Init PROVE HeadInv
  OBVIOUS
<1>1. RootInv
  <2>1. roots = <<[size |-> 0, ts |-> 0]>> /\ log = <<>> /\ sourceSTHs = {0}
    BY DEF Init
  <2>2. roots \in Seq(Root) /\ Len(roots) = 1 /\ roots # <<>> /\ log \in Seq(Leaf) /\ Len(log) = 0
    BY <2>1 DEF Root
  <2>3. Range(roots) = {[size |-> 0, ts |-> 0]} /\ LatestRoot = [size |-> 0, ts |-> 0]
    BY <2>1, <2>2 DEF Range, LatestRoot
  <2>4. QED
    BY <2>1, <2>2, <2>3 DEF RootInv
<1>2. LatestRoot.ts = 0
  <2>1. roots = <<[size |-> 0, ts |-> 0]>> /\ Len(roots) = 1
    BY DEF Init
  <2>2. QED
    BY <2>1 DEF LatestRoot
<1>3. HandlerTypes /\ InHand /\ Served
  BY <1>2 DEF Init, HandlerTypes, InHand, Served, OK, None, Handling
<1>4. QED
  BY <1>1, <1>3 DEF HeadInv, Init

\* A new root, of a log at least as large, keeps everything said about the old ones.
LEMMA PublishStep ==
    ASSUME HeadInv, log' \in Seq(Leaf), Len(log') >= Len(log), Publish(Len(log')),
           sourceSTHs' = sourceSTHs, UNCHANGED <<cacheVars, pc, req, rsp, ans, seen>>
    PROVE  HeadInv'
<1> DEFINE new == [size |-> Len(log'), ts |-> LatestRoot.ts + 1]
<1>1. new \in Root /\ LatestRoot.ts \in Nat /\ Len(log) \in Nat /\ Len(log') \in Nat
  BY LatestIsRoot DEF HeadInv, RootInv, Root
<1>2. roots' = Append(roots, new)
  BY DEF Publish
<1>3. roots' \in Seq(Root) /\ roots' # <<>> /\ LatestRoot' = new
  <2>1. roots' \in Seq(Root) /\ Len(roots') = Len(roots) + 1 /\ roots'[Len(roots) + 1] = new
    BY <1>1, <1>2 DEF HeadInv, RootInv
  <2>2. QED
    BY <2>1 DEF LatestRoot, HeadInv, RootInv
<1>4. Range(roots') = Range(roots) \cup {new}
  BY <1>2, RangeAppend DEF HeadInv, RootInv
<1>5. Range(roots) \subseteq Root
  BY DEF HeadInv, RootInv, Range
<1>6. RootInv'
  <2>1. ASSUME NEW r \in Range(roots') PROVE r.size <= Len(log') /\ r.ts <= new.ts
    <3>1. CASE r \in Range(roots)
      BY <3>1, <1>1, <1>5 DEF HeadInv, RootInv, Root
    <3>2. CASE r = new
      BY <3>2, <1>1
    <3>3. QED
      BY <3>1, <3>2, <1>4
  <2>2. QED
    BY <2>1, <1>3 DEF HeadInv, RootInv
<1> HIDE DEF new
<1>7. LatestRoot'.ts = LatestRoot.ts + 1
  BY <1>3 DEF new
<1>8. InHand'
  BY <1>1, <1>4, <1>7 DEF HeadInv, InHand, HandlerTypes
<1>9. Served'
  BY <1>1, <1>4 DEF HeadInv, Served, OK, HandlerTypes, Root
<1>10. QED
  BY <1>6, <1>8, <1>9 DEF HeadInv, HandlerTypes, cacheVars

\* Steps of the backend.
LEMMA BackendHeads ==
    ASSUME HeadInv, Integrate \/ Refresh \/ MirrorGrows, Kind = "log" => queue \subseteq Leaf
    PROVE  HeadInv'
<1>1. CASE Integrate
  <2>1. PICK l \in queue : log' = Append(log, l)
    BY <1>1 DEF Integrate
  <2>2. log' \in Seq(Leaf) /\ Len(log') = Len(log) + 1 /\ Len(log) \in Nat
    BY <1>1, <2>1, KindAssumption DEF HeadInv, RootInv, Integrate
  <2>3. QED
    BY <1>1, <2>2, PublishStep DEF Integrate
<1>2. CASE Refresh
  <2>1. log' = log /\ Len(log) \in Nat /\ log \in Seq(Leaf)
    BY <1>2 DEF Refresh, HeadInv, RootInv
  <2>2. QED
    BY <1>2, <2>1, PublishStep DEF Refresh
<1>3. CASE MirrorGrows
  <2>1. CASE \E l \in Leaf \ Range(log) : log' = Append(log, l)
    <3>1. log' \in Seq(Leaf) /\ Len(log') = Len(log) + 1 /\ Len(log) \in Nat
      BY <2>1 DEF HeadInv, RootInv
    <3>2. QED
      BY <1>3, <3>1, PublishStep DEF MirrorGrows
  <2>2. CASE log' = log /\ roots' = roots /\ sourceSTHs' \subseteq Nat
    BY <1>3, <2>2 DEF MirrorGrows, HeadInv, RootInv, LatestRoot, HandlerTypes, InHand, Served, OK, cacheVars
  <2>3. \A n \in 0..MaxTreeSize : n \in Nat
    BY BoundAssumption
  <2>4. QED
    BY <1>3, <2>1, <2>2, <2>3 DEF MirrorGrows, HeadInv, RootInv
<1>4. QED
  BY <1>1, <1>2, <1>3

\* No error of the backend is reported as a success.
LEMMA ErrorsAreNotOK == \A code \in FailureCodes : ToHTTPStatus(code) # 200
BY DEF ToHTTPStatus, FailureCodes

\* Steps of a handler that leave the heads it has in hand and has served alone, or
\* make it forget them.
LEMMA OtherHeads ==
    ASSUME HeadInv, NEW h \in Handlers,
           Refuse(h) \/ AddChain(h) \/ GetSTHConsistency(h) \/ GetProofByHash(h) \/ GetEntries(h)
             \/ GetEntryAndProof(h) \/ QueueLeaf(h) \/ RPCFails(h) \/ ReplySCT(h) \/ Reply(h) \/ Sign(h)
    PROVE  HeadInv'
<1> USE DEF Answer, Call
<1>1. UNCHANGED <<log, roots, sourceSTHs, cacheInput, cacheSig, seen>>
  BY DEF Refuse, AddChain, GetSTHConsistency, GetProofByHash, GetEntries, GetEntryAndProof, QueueLeaf,
         RPCFails, ReplySCT, Reply, Sign, trillianVars, cacheVars
<1>2. /\ DOMAIN pc' = Handlers /\ DOMAIN req' = Handlers /\ DOMAIN rsp' = Handlers /\ DOMAIN ans' = Handlers
      /\ \A g \in Handlers \ {h} : pc'[g] = pc[g] /\ rsp'[g] = rsp[g] /\ ans'[g] = ans[g]
  BY DEF Refuse, AddChain, GetSTHConsistency, GetProofByHash, GetEntries, GetEntryAndProof, QueueLeaf,
         RPCFails, ReplySCT, Reply, Sign, HeadInv, HandlerTypes
<1>3. \/ pc'[h] \notin Handling \cup {"mirror"}
      \/ pc[h] \in Handling /\ pc'[h] \in Handling /\ rsp' = rsp
  BY DEF Refuse, AddChain, GetSTHConsistency, GetProofByHash, GetEntries, GetEntryAndProof, QueueLeaf,
         RPCFails, ReplySCT, Reply, Sign, HeadInv, HandlerTypes, Handling
<1>4. ans'[h] = ans[h] \/ ~OK(h, "get-sth")'
  <2> USE DEF HeadInv, HandlerTypes, OK, Fail
  <2>1. CASE Refuse(h) \/ AddChain(h) \/ GetSTHConsistency(h) \/ GetProofByHash(h) \/ GetEntries(h)
               \/ GetEntryAndProof(h)
    BY <2>1 DEF Refuse, AddChain, GetSTHConsistency, GetProofByHash, GetEntries, GetEntryAndProof, None
  <2>2. CASE QueueLeaf(h) \/ RPCFails(h)
    BY <2>2, ErrorsAreNotOK DEF QueueLeaf, RPCFails
  <2>3. CASE ReplySCT(h) \/ Sign(h)
    BY <2>3 DEF ReplySCT, Sign
  <2>4. CASE Reply(h)
    BY <2>4 DEF Reply, ConsistencyReply, ProofByHashReply, EntriesReply, EntryAndProofReply
  <2>5. QED
    BY <2>1, <2>2, <2>3, <2>4
<1>5. RootInv' /\ HandlerTypes' /\ LatestRoot' = LatestRoot
  BY <1>1, <1>2 DEF HeadInv, RootInv, LatestRoot, HandlerTypes
<1>6. InHand'
  <2> SUFFICES ASSUME NEW g \in Handlers
               PROVE  /\ pc'[g] = "mirror" => Kind = "mirror" /\ rsp'[g].root \in Range(roots)
                      /\ pc'[g] \in Handling =>
                           Kind = "log" /\ rsp'[g].root \in Range(roots) /\ seen[g] <= rsp'[g].root.ts
                      /\ Kind = "log" => seen[g] <= LatestRoot.ts
    BY <1>1, <1>5 DEF InHand, Handling
  <2>1. CASE g # h
    BY <2>1, <1>2 DEF HeadInv, InHand
  <2>2. CASE g = h
    BY <2>2, <1>3 DEF HeadInv, InHand, Handling
  <2>3. QED
    BY <2>1, <2>2
<1>7. Served'
  BY <1>1, <1>2, <1>4 DEF HeadInv, Served, OK
<1>8. QED
  BY <1>1, <1>5, <1>6, <1>7 DEF HeadInv

\* A request for the head, and the root that the backend answers it with.
LEMMA RequestHeads ==
    ASSUME HeadInv, NEW h \in Handlers, GetSTH(h) \/ Read(h)
    PROVE  HeadInv'
<1> USE DEF Answer, Call
<1>1. /\ UNCHANGED <<log, roots, sourceSTHs, cacheInput, cacheSig>>
      /\ LatestRoot' = LatestRoot /\ RootInv'
  BY DEF GetSTH, Read, trillianVars, cacheVars, HeadInv, RootInv, LatestRoot
<1>2. /\ DOMAIN pc' = Handlers /\ DOMAIN req' = Handlers /\ DOMAIN rsp' = Handlers /\ DOMAIN ans' = Handlers
      /\ \A g \in Handlers \ {h} : /\ pc'[g] = pc[g] /\ rsp'[g] = rsp[g] /\ ans'[g] = ans[g]
                                  /\ seen'[g] = seen[g]
  BY DEF GetSTH, Read, HeadInv, HandlerTypes
<1>3. CASE GetSTH(h)
  <2>1. PICK t \in HeadTimes \cup {0} : seen' = [seen EXCEPT ![h] = t]
    BY <1>3 DEF GetSTH
  <2>2. t \in Nat /\ (Kind = "log" => t <= LatestRoot.ts)
    <3>1. CASE t = 0
      BY <3>1, LatestIsRoot DEF HeadInv, Root
    <3>2. CASE t \in HeadTimes
      <4>1. PICK g \in Handlers : OK(g, "get-sth") /\ t = ans[g].sth.ts
        BY <3>2 DEF HeadTimes
      <4>2. QED
        BY <4>1 DEF HeadInv, Served, RootInv, Root
    <3>3. QED
      BY <2>1, <3>1, <3>2
  <2>3. seen' \in [Handlers -> Nat] /\ seen'[h] = t
    BY <2>1, <2>2 DEF HeadInv, HandlerTypes
  <2>4. pc'[h] = "rpc" /\ ans'[h] = None
    BY <1>3 DEF GetSTH, HeadInv, HandlerTypes
  <2>5. InHand'
    <3> SUFFICES ASSUME NEW g \in Handlers
                 PROVE  /\ pc'[g] = "mirror" => Kind = "mirror" /\ rsp'[g].root \in Range(roots)
                        /\ pc'[g] \in Handling =>
                             Kind = "log" /\ rsp'[g].root \in Range(roots) /\ seen'[g] <= rsp'[g].root.ts
                        /\ Kind = "log" => seen'[g] <= LatestRoot.ts
      BY <1>1 DEF InHand, Handling
    <3>1. CASE g # h
      BY <3>1, <1>2 DEF HeadInv, InHand
    <3>2. CASE g = h
      BY <3>2, <2>2, <2>3, <2>4 DEF Handling
    <3>3. QED
      BY <3>1, <3>2
  <2>6. Served'
    BY <1>1, <1>2, <2>4 DEF HeadInv, Served, OK, None
  <2>7. QED
    BY <1>1, <1>2, <2>3, <2>5, <2>6 DEF HeadInv, HandlerTypes
<1>4. CASE Read(h)
  <2>1. seen' = seen
    BY <1>4 DEF Read
  <2>2. \/ pc'[h] \in {"idle", "reply"}
        \/ pc'[h] = "mirror" /\ Kind = "mirror" /\ rsp'[h].root = LatestRoot
        \/ pc'[h] = "lookup" /\ Kind = "log" /\ rsp'[h].root = LatestRoot
    <3>1. CASE BadCount(req[h])
      BY <1>4, <3>1 DEF Read, HeadInv, HandlerTypes
    <3>2. CASE ~BadCount(req[h]) /\ req[h].ep # "get-sth"
      BY <1>4, <3>2 DEF Read, HeadInv, HandlerTypes
    <3>3. CASE ~BadCount(req[h]) /\ req[h].ep = "get-sth"
      <4>1. Responses(req[h]) = {[root |-> LatestRoot]}
        BY <3>3 DEF Responses
      <4>2. rsp'[h] = [root |-> LatestRoot] /\ pc'[h] = IF Kind = "mirror" THEN "mirror" ELSE "lookup"
        BY <1>4, <3>3, <4>1 DEF Read, HeadInv, HandlerTypes
      <4>3. QED
        BY <4>2, KindAssumption
    <3>4. QED
      BY <3>1, <3>2, <3>3
  <2>3. ans'[h] = ans[h] \/ ~OK(h, "get-sth")'
    <3>1. ToHTTPStatus("InvalidArgument") = 400
      BY DEF ToHTTPStatus
    <3>2. QED
      BY <1>4, <3>1 DEF Read, Fail, OK, HeadInv, HandlerTypes
  <2>4. InHand'
    <3> SUFFICES ASSUME NEW g \in Handlers
                 PROVE  /\ pc'[g] = "mirror" => Kind = "mirror" /\ rsp'[g].root \in Range(roots)
                        /\ pc'[g] \in Handling =>
                             Kind = "log" /\ rsp'[g].root \in Range(roots) /\ seen[g] <= rsp'[g].root.ts
                        /\ Kind = "log" => seen[g] <= LatestRoot.ts
      BY <1>1, <2>1 DEF InHand, Handling
    <3>1. CASE g # h
      BY <3>1, <1>2 DEF HeadInv, InHand
    <3>2. CASE g = h
      BY <3>2, <2>2, LatestIsRoot DEF Handling, HeadInv, InHand
    <3>3. QED
      BY <3>1, <3>2
  <2>5. Served'
    BY <1>1, <1>2, <2>1, <2>3 DEF HeadInv, Served, OK
  <2>6. QED
    BY <1>1, <1>2, <2>1, <2>4, <2>5 DEF HeadInv, HandlerTypes
<1>5. QED
  BY <1>3, <1>4

\* The answers to get-sth.
LEMMA AnswerHeads ==
    ASSUME HeadInv, NEW h \in Handlers, GetMirrorSTH(h) \/ LookupSignature(h) \/ SetSignature(h)
    PROVE  HeadInv'
<1> USE DEF Answer, ReplySTH
<1>1. /\ UNCHANGED <<log, roots, sourceSTHs, seen>>
      /\ LatestRoot' = LatestRoot /\ RootInv'
  BY DEF GetMirrorSTH, LookupSignature, SetSignature, trillianVars, HeadInv, RootInv, LatestRoot
<1>2. /\ DOMAIN pc' = Handlers /\ DOMAIN req' = Handlers /\ DOMAIN rsp' = Handlers /\ DOMAIN ans' = Handlers
      /\ \A g \in Handlers \ {h} : pc'[g] = pc[g] /\ rsp'[g] = rsp[g] /\ ans'[g] = ans[g]
  BY DEF GetMirrorSTH, LookupSignature, SetSignature, HeadInv, HandlerTypes
<1>3. cacheSig' = cacheInput'
  BY DEF GetMirrorSTH, LookupSignature, SetSignature, cacheVars, HeadInv
<1>4. pc'[h] = "idle" \/ (pc[h] \in Handling /\ pc'[h] \in Handling /\ rsp' = rsp)
  BY DEF GetMirrorSTH, LookupSignature, SetSignature, HeadInv, HandlerTypes, Handling
<1>5. InHand'
  <2> SUFFICES ASSUME NEW g \in Handlers
               PROVE  /\ pc'[g] = "mirror" => Kind = "mirror" /\ rsp'[g].root \in Range(roots)
                      /\ pc'[g] \in Handling =>
                           Kind = "log" /\ rsp'[g].root \in Range(roots) /\ seen[g] <= rsp'[g].root.ts
                      /\ Kind = "log" => seen[g] <= LatestRoot.ts
    BY <1>1 DEF InHand, Handling
  <2>1. CASE g # h
    BY <2>1, <1>2 DEF HeadInv, InHand
  <2>2. CASE g = h
    BY <2>2, <1>4 DEF HeadInv, InHand, Handling
  <2>3. QED
    BY <2>1, <2>2
<1>6. Range(roots) \subseteq Root /\ Len(log) \in Nat
  BY DEF HeadInv, RootInv, Range
<1>7. ASSUME OK(h, "get-sth")'
      PROVE  /\ ans'[h].sth \in Root
             /\ ans'[h].sth.size <= Len(log)
             /\ Kind = "log" => /\ ans'[h].sth \in Range(roots)
                                /\ ans'[h].sig = ans'[h].sth
                                /\ ans'[h].sth.ts >= seen[h]
  <2>1. CASE GetMirrorSTH(h)
    <3>1. Kind = "mirror" /\ rsp[h].root \in Range(roots)
      BY <2>1 DEF GetMirrorSTH, HeadInv, InHand
    <3>2. PICK n \in sourceSTHs : n <= rsp[h].root.size /\ ans'[h].sth = [size |-> n, ts |-> n]
      BY <2>1, <1>7 DEF GetMirrorSTH, OK, Fail, HeadInv, HandlerTypes
    <3>3. n \in Nat /\ rsp[h].root.size \in Nat /\ rsp[h].root.size <= Len(log)
      BY <3>1, <1>6 DEF HeadInv, RootInv, Root
    <3>4. n <= Len(log)
      BY <1>6, <3>2, <3>3
    <3>5. QED
      BY <3>1, <3>2, <3>3, <3>4 DEF Root
  <2>2. CASE LookupSignature(h) \/ SetSignature(h)
    <3>1. rsp[h].root \in Range(roots) /\ seen[h] <= rsp[h].root.ts
      BY <2>2 DEF LookupSignature, SetSignature, HeadInv, InHand, Handling
    <3>2. \/ ans' = ans
          \/ ans'[h].sth = rsp[h].root /\ ans'[h].sig = rsp[h].root
      BY <2>2 DEF LookupSignature, SetSignature, HeadInv, HandlerTypes
    <3>3. CASE ans' = ans
      BY <3>3, <1>7 DEF HeadInv, Served, OK
    <3>4. CASE ans'[h].sth = rsp[h].root /\ ans'[h].sig = rsp[h].root
      BY <3>1, <3>4, <1>6 DEF HeadInv, RootInv
    <3>5. QED
      BY <3>2, <3>3, <3>4
  <2>3. QED
    BY <2>1, <2>2
<1>8. Served'
  BY <1>1, <1>2, <1>7 DEF HeadInv, Served, OK
<1>9. QED
  BY <1>1, <1>2, <1>3, <1>5, <1>8 DEF HeadInv, HandlerTypes

\* What the proof about submissions contributes.
Queued == Kind = "log" => SCTInv

LEMMA NextHeadInv == Queued /\ HeadInv /\ [Next]_vars => HeadInv'
<1> SUFFICES ASSUME Queued, HeadInv, [Next]_vars PROVE HeadInv'
  OBVIOUS
<1>1. Kind = "log" => queue \subseteq Leaf
  BY DEF Queued, SCTInv, Types
<1>2. CASE Next
  BY <1>1, <1>2, BackendHeads, OtherHeads, RequestHeads, AnswerHeads DEF Next, Receive, HandlerStep
<1>3. CASE UNCHANGED vars
  BY <1>3 DEF vars, trillianVars, cacheVars, HeadInv, RootInv, LatestRoot, HandlerTypes, InHand, Served, OK
<1>4. QED
  BY <1>2, <1>3

\* The invariant about heads holds for logs and mirrors.
THEOREM HeadInvHolds == Spec => []HeadInv
<1>1. Init => Queued
  BY InitSCTInv DEF Queued
<1>2. Queued /\ [Next]_vars => Queued'
  BY NextSCTInv DEF Queued
<1>3. QED
  BY InitHeadInv, NextHeadInv, <1>1, <1>2, PTL DEF Spec

\* The one-entry signature cache never pairs a head with another head's signature.
THEOREM SignaturesMatch == Spec => []HeadsAreGenuine
<1>1. HeadInv => HeadsAreGenuine
  BY DEF HeadInv, Served, HeadsAreGenuine
<1>2. QED
  BY HeadInvHolds, <1>1, PTL

\* get-sth of a log never answers with a head older than one it served before the request.
THEOREM HeadsNeverGoBack == Spec => []HeadsMoveForward
<1>1. HeadInv => HeadsMoveForward
  BY DEF HeadInv, Served, HeadsMoveForward
<1>2. QED
  BY HeadInvHolds, <1>1, PTL

\* A log or mirror serves no head of a tree that its backend does not store.
THEOREM NoFutureHeads == Spec => []HeadsAreStored
<1>1. HeadInv => HeadsAreStored
  BY DEF HeadInv, Served, HeadsAreStored
<1>2. QED
  BY HeadInvHolds, <1>1, PTL

\* All of it for a log, and what concerns it for a mirror.
THEOREM HeadsHold == Spec => []HeadsAreHonest
<1>1. HeadsAreGenuine /\ HeadsMoveForward /\ HeadsAreStored => HeadsAreHonest
  BY DEF HeadsAreHonest
<1>2. QED
  BY SignaturesMatch, HeadsNeverGoBack, NoFutureHeads, <1>1, PTL

---------------------------------------------------------------------------
(* The personality as a Log.  The leaves that are promised are those the   *)
(* backend stores, queued or merged; a step of the sequencer moves one of  *)
(* them into the tree, which is new there because nothing is in both       *)
(* (Apart), and a submission promises one without telling anyone a head,   *)
(* because a handler at work has not answered (Busy).                      *)

\* The head that an answer tells, and what all the handlers have told.
HeadIn(a) == IF a.ep = "get-sth" /\ a.status = 200 THEN [head |-> a.sth, signature |-> a.sig] ELSE None
Told == [h \in Handlers |-> HeadIn(ans[h])]

Apart == queue \cap Range(log) = {}
Busy == \A h \in Handlers : pc[h] # "idle" => Told[h] = None
LogInv == SCTInv /\ HeadInv /\ Apart /\ Busy

LEMMA InitLogInv == Init => LogInv
<1> SUFFICES ASSUME Init PROVE LogInv
  OBVIOUS
<1>1. Apart /\ Busy
  BY DEF Init, Apart, Busy
<1> QED
  BY <1>1, InitSCTInv, InitHeadInv DEF LogInv

\* An answer changes what its handler has told and no more.
LEMMA AnswerTells ==
    ASSUME HandlerTypes, NEW h \in Handlers, NEW a, ans' = [ans EXCEPT ![h] = a]
    PROVE  Told' = [Told EXCEPT ![h] = HeadIn(a)]
<1>1. \A g \in Handlers : ans'[g] = IF g = h THEN a ELSE ans[g]
  BY DEF HandlerTypes
<1>2. Told' = [g \in Handlers |-> HeadIn(ans'[g])]
  BY DEF Told, HeadIn
<1>3. Told = [g \in Handlers |-> HeadIn(ans[g])]
  BY DEF Told
<1>4. [Told EXCEPT ![h] = HeadIn(a)] = [g \in Handlers |-> IF g = h THEN HeadIn(a) ELSE HeadIn(ans[g])]
  BY <1>3
<1>5. \A g \in Handlers : HeadIn(ans'[g]) = IF g = h THEN HeadIn(a) ELSE HeadIn(ans[g])
  BY <1>1
<1> QED
  BY <1>2, <1>4, <1>5

\* Errors, and the answers of other entry points, tell no head.
LEMMA ErrorsTellNothing == \A status : HeadIn(Fail(status)) = None
BY DEF HeadIn, Fail

LEMMA OthersTellNothing == \A a : a.ep # "get-sth" => HeadIn(a) = None
BY DEF HeadIn

LEMMA NothingTellsNothing == HeadIn(None) = None
BY DEF HeadIn, None

\* What a handler does that changes neither the backend nor the SCTs.
Quiet == UNCHANGED <<queue, log, roots, scts, seen>>
Silent(h) == \E a : ans' = [ans EXCEPT ![h] = a] /\ HeadIn(a) = None

LEMMA SilenceForgets ==
    ASSUME HandlerTypes, NEW h \in Handlers, Quiet, Silent(h)
    PROVE  Log!Forget(h)
<1>1. PICK a : ans' = [ans EXCEPT ![h] = a] /\ HeadIn(a) = None
  BY DEF Silent
<1>2. Told' = [Told EXCEPT ![h] = HeadIn(a)]
  BY <1>1, AnswerTells
<1>3. Told' = [Told EXCEPT ![h] = None]
  BY <1>1, <1>2
<1> QED
  BY <1>3 DEF Log!Forget, Quiet, Told, HeadIn, OK

\* Receiving a request.
LEMMA RequestsAsk ==
    ASSUME LogInv, NEW h \in Handlers, Receive(h)
    PROVE  Log!Forget(h) \/ Log!Ask(h)
<1> USE ErrorsTellNothing, NothingTellsNothing DEF Answer, Call, trillianVars
<1>1. HandlerTypes
  BY DEF LogInv, HeadInv
<1>2. CASE Refuse(h)
  <2>1. Quiet /\ Silent(h)
    BY <1>2 DEF Refuse, Quiet, Silent
  <2> QED
    BY <1>1, <2>1, SilenceForgets
<1>3. CASE AddChain(h)
  <2>1. Quiet /\ Silent(h)
    BY <1>3 DEF AddChain, Quiet, Silent
  <2> QED
    BY <1>1, <2>1, SilenceForgets
<1>4. CASE GetSTHConsistency(h)
  <2>1. PICK first, second \in 0..MaxParam :
          LET r == [ep |-> "get-sth-consistency", first |-> first, second |-> second] IN
          \/ Answer(h, Fail(400))
          \/ Answer(h, [ep |-> r.ep, status |-> 200, req |-> r, proof |-> "empty"])
          \/ Call(h, r)
    BY <1>4 DEF GetSTHConsistency
  <2>2. HeadIn([ep |-> "get-sth-consistency", status |-> 200,
                req |-> [ep |-> "get-sth-consistency", first |-> first, second |-> second], proof |-> "empty"]) = None
    BY DEF HeadIn
  <2>3. Quiet /\ Silent(h)
    BY <1>4, <2>1, <2>2 DEF GetSTHConsistency, Quiet, Silent
  <2> QED
    BY <1>1, <2>3, SilenceForgets
<1>5. CASE GetProofByHash(h) \/ GetEntries(h) \/ GetEntryAndProof(h)
  <2>1. Quiet /\ Silent(h)
    BY <1>5 DEF GetProofByHash, GetEntries, GetEntryAndProof, Quiet, Silent
  <2> QED
    BY <1>1, <2>1, SilenceForgets
<1>6. CASE GetSTH(h)
  <2>1. PICK t \in HeadTimes \cup {0} : seen' = [seen EXCEPT ![h] = t]
    BY <1>6 DEF GetSTH
  <2>2. \A g \in Handlers : OK(g, "get-sth") => Told[g] # None /\ Told[g].head.ts = ans[g].sth.ts
    BY DEF Told, HeadIn, OK, None
  <2>3. t \in {0} \cup {Told[d].head.ts : d \in {e \in Handlers : Told[e] # None}}
    BY <2>2 DEF HeadTimes
  <2>4. Told' = [Told EXCEPT ![h] = None]
    <3>1. ans' = [ans EXCEPT ![h] = None]
      BY <1>6 DEF GetSTH
    <3>2. Told' = [Told EXCEPT ![h] = HeadIn(None)]
      BY <1>1, <3>1, AnswerTells
    <3> QED
      BY <3>2
  <2>5. UNCHANGED <<queue, log, roots, scts>>
    BY <1>6 DEF GetSTH
  <2> QED
    BY <2>1, <2>3, <2>4, <2>5 DEF Log!Ask, Told, HeadIn, OK
<1> QED
  BY <1>2, <1>3, <1>4, <1>5, <1>6 DEF Receive

\* A submission promises a leaf, if the backend has none of its certificate.
LEMMA QueueLeafPromises ==
    ASSUME LogInv, NEW h \in Handlers, QueueLeaf(h)
    PROVE  Log!Promise \/ UNCHANGED Log!vars
<1> DEFINE l == req[h].leaf
<1>1. l \in Leaf
  BY DEF LogInv, SCTInv, Submissions, QueueLeaf, AddEndpoints
<1>2. /\ queue' = IF Known(l) = {} THEN queue \cup {l} ELSE queue
      /\ UNCHANGED <<log, roots, scts, seen>>
  BY DEF QueueLeaf
<1>3. UNCHANGED ans \/ \E code \in FailureCodes : ans' = [ans EXCEPT ![h] = Fail(ToHTTPStatus(code))]
  BY DEF QueueLeaf, Answer
<1>4. Told[h] = None
  BY DEF LogInv, Busy, QueueLeaf
<1>5. Told' = Told
  <2>1. CASE UNCHANGED ans
    BY <2>1 DEF Told, HeadIn
  <2>2. ASSUME NEW code \in FailureCodes, ans' = [ans EXCEPT ![h] = Fail(ToHTTPStatus(code))] PROVE Told' = Told
    <3>1. Told' = [Told EXCEPT ![h] = HeadIn(Fail(ToHTTPStatus(code)))]
      BY <2>2, AnswerTells DEF LogInv, HeadInv
    <3>2. HeadIn(Fail(ToHTTPStatus(code))) = Told[h]
      BY <1>4, ErrorsTellNothing
    <3> QED
      BY <3>1, <3>2 DEF Told
  <2> QED
    BY <1>3, <2>1, <2>2
<1>6. CASE Known(l) = {}
  <2>1. \A k \in queue \cup Range(log) : k.cert # l.cert
    BY <1>6 DEF Known, Identity
  <2>2. (queue \cup Range(log))' = (queue \cup Range(log)) \cup {l}
    BY <1>2, <1>6
  <2> HIDE DEF l
  <2> QED
    BY <1>1, <1>2, <1>5, <2>1, <2>2 DEF Log!Promise, Leaf, Told, HeadIn, OK
<1>7. CASE Known(l) # {}
  BY <1>2, <1>5, <1>7 DEF Log!vars, Told, HeadIn, OK
<1> QED
  BY <1>6, <1>7

\* The SCT in an answer is for a leaf that the backend stores.
LEMMA ReplySCTIssues ==
    ASSUME LogInv, NEW h \in Handlers, ReplySCT(h)
    PROVE  Log!Issue \/ UNCHANGED Log!vars
<1> DEFINE l == rsp[h].leaf
           sct == BuildV1SCT(l)
<1>1. l \in queue \cup Range(log) /\ UNCHANGED <<queue, log, roots, seen>>
  BY DEF LogInv, SCTInv, Submissions, ReplySCT, AddEndpoints, Stored, trillianVars
<1>2. Told[h] = None /\ HandlerTypes
  BY DEF LogInv, HeadInv, Busy, ReplySCT
<1>3. \/ scts' = scts \cup {sct} /\ ans' = [ans EXCEPT ![h] = [ep |-> req[h].ep, status |-> 200, sct |-> sct]]
      \/ scts' = scts /\ ans' = [ans EXCEPT ![h] = Fail(500)]
  BY DEF ReplySCT, Answer
<1>4. Told' = Told
  <2>1. PICK a : ans' = [ans EXCEPT ![h] = a] /\ (a = Fail(500) \/ a = [ep |-> req[h].ep, status |-> 200, sct |-> sct])
    BY <1>3
  <2>2. HeadIn(a) = None
    <3>1. req[h].ep # "get-sth"
      BY DEF ReplySCT
    <3> HIDE DEF sct
    <3> QED
      BY <2>1, <3>1, ErrorsTellNothing DEF HeadIn
  <2>3. Told' = [Told EXCEPT ![h] = HeadIn(a)]
    BY <1>2, <2>1, AnswerTells
  <2> QED
    BY <1>2, <2>2, <2>3 DEF Told
<1> HIDE DEF l
<1>5. CASE scts' = scts \cup {sct}
  BY <1>1, <1>4, <1>5 DEF Log!Issue, BuildV1SCT, Told, HeadIn, OK
<1>6. CASE scts' = scts
  BY <1>1, <1>4, <1>6 DEF Log!vars, Told, HeadIn, OK
<1> QED
  BY <1>3, <1>5, <1>6

\* A published root that is not older than what the client knew may be told.
LEMMA RootsAreTold ==
    ASSUME LogInv, NEW h \in Handlers, pc[h] \in Handling, Quiet,
           ReplySTH(h, rsp[h].root, rsp[h].root)
    PROVE  Log!Tell(h)
<1> DEFINE root == rsp[h].root
           a == [ep |-> "get-sth", status |-> 200, sth |-> root, sig |-> root]
<1>1. root \in Range(roots) /\ root.ts >= seen[h]
  <2>1. root \in Root /\ seen[h] \in Nat
    BY DEF LogInv, HeadInv, InHand, RootInv, HandlerTypes, Range
  <2> QED
    BY <2>1 DEF LogInv, HeadInv, InHand, Root
<1>2. \E b : b = a /\ ans' = [ans EXCEPT ![h] = b]
  BY DEF ReplySTH, Answer
<1>3. PICK b : b = a /\ ans' = [ans EXCEPT ![h] = b]
  BY <1>2
<1>4. Told' = [Told EXCEPT ![h] = HeadIn(b)]
  BY <1>3, AnswerTells DEF LogInv, HeadInv
<1>5. HeadIn(b) = [head |-> root, signature |-> root]
  BY <1>3 DEF HeadIn
<1> HIDE DEF root, a
<1>6. Told' = [Told EXCEPT ![h] = [head |-> root, signature |-> root]]
  BY <1>4, <1>5
<1> QED
  BY <1>1, <1>6 DEF Log!Tell, Quiet, Told, HeadIn, OK

\* The other steps of a handler.
LEMMA HandlersTell ==
    ASSUME LogInv, Kind = "log", NEW h \in Handlers,
           RPCFails(h) \/ Read(h) \/ Reply(h) \/ GetMirrorSTH(h) \/ LookupSignature(h) \/ Sign(h) \/ SetSignature(h)
    PROVE  Log!Forget(h) \/ Log!Tell(h) \/ UNCHANGED Log!vars
<1> USE ErrorsTellNothing DEF Answer, trillianVars
<1>1. HandlerTypes /\ Quiet
  BY DEF LogInv, HeadInv, Quiet, RPCFails, Read, Reply, GetMirrorSTH, LookupSignature, Sign, SetSignature, ReplySTH
<1>2. ASSUME UNCHANGED ans PROVE UNCHANGED Log!vars
  BY <1>1, <1>2 DEF Quiet, Log!vars, OK
<1>3. CASE RPCFails(h)
  <2>1. Silent(h)
    BY <1>3 DEF RPCFails, Silent
  <2> QED
    BY <1>1, <2>1, SilenceForgets
<1>4. CASE Read(h)
  <2>1. UNCHANGED ans \/ Silent(h)
    BY <1>4 DEF Read, Silent
  <2> QED
    BY <1>1, <1>2, <2>1, SilenceForgets
<1>5. CASE Reply(h)
  <2>1. PICK a : ans' = [ans EXCEPT ![h] = a] /\ a.ep # "get-sth"
    BY <1>5 DEF Reply, ConsistencyReply, ProofByHashReply, EntriesReply, EntryAndProofReply, Fail
  <2>2. Silent(h)
    BY <2>1, OthersTellNothing DEF Silent
  <2> QED
    BY <1>1, <2>2, SilenceForgets
<1>6. ~GetMirrorSTH(h)
  BY DEF GetMirrorSTH, LogInv, HeadInv, InHand
<1>7. CASE LookupSignature(h)
  <2>1. CASE cacheInput = rsp[h].root
    <3>1. ReplySTH(h, rsp[h].root, rsp[h].root) /\ pc[h] \in Handling
      BY <1>7, <2>1 DEF LookupSignature, LogInv, HeadInv, Handling
    <3> QED
      BY <1>1, <3>1, RootsAreTold
  <2>2. CASE cacheInput # rsp[h].root
    BY <1>2, <1>7, <2>2 DEF LookupSignature
  <2> QED
    BY <2>1, <2>2
<1>8. CASE Sign(h)
  <2>1. UNCHANGED ans \/ Silent(h)
    BY <1>8 DEF Sign, Silent
  <2> QED
    BY <1>1, <1>2, <2>1, SilenceForgets
<1>9. CASE SetSignature(h)
  <2>1. ReplySTH(h, rsp[h].root, rsp[h].root) /\ pc[h] \in Handling
    BY <1>9 DEF SetSignature, Handling
  <2> QED
    BY <1>1, <2>1, RootsAreTold
<1> QED
  BY <1>3, <1>4, <1>5, <1>6, <1>7, <1>8, <1>9

\* A new root is published as a head, with or without a leaf.
LEMMA RootIsPublished ==
    ASSUME LogInv, log' \in Seq(Leaf), Publish(Len(log')), (queue \cup Range(log))' = queue \cup Range(log),
           UNCHANGED <<ans, scts, seen>>
    PROVE  Log!Publish
<1> DEFINE new == [size |-> Len(log'), ts |-> LatestRoot.ts + 1]
<1>1. LatestRoot.ts \in Nat /\ \A r \in Range(roots) : r.ts \in Nat /\ r.ts <= LatestRoot.ts
  <2>1. Range(roots) \subseteq Root /\ LatestRoot \in Root
    BY LatestIsRoot DEF LogInv, HeadInv, RootInv, Range
  <2> QED
    BY <2>1 DEF LogInv, HeadInv, RootInv, Root
<1>2. Range(roots') = Range(roots) \cup {new}
  BY RangeAppend DEF LogInv, HeadInv, RootInv, Publish
<1>3. new.size = Len(log') /\ \A r \in Range(roots) : r.ts < new.ts
  BY <1>1
<1>4. Range(roots)' = Range(roots')
  BY DEF Range
<1> HIDE DEF new
<1> QED
  BY <1>2, <1>3, <1>4 DEF Log!Publish, OK

LEMMA BackendMerges ==
    ASSUME LogInv, Integrate \/ Refresh
    PROVE  Log!Merge \/ Log!Refresh
<1>1. CASE Integrate
  <2>1. PICK l \in queue : queue' = queue \ {l} /\ log' = Append(log, l)
    BY <1>1 DEF Integrate
  <2>2. log \in Seq(Leaf) /\ l \in Leaf /\ l \notin Range(log)
    BY DEF LogInv, SCTInv, Types, Apart
  <2>3. log' \in Seq(Leaf) /\ Len(log') = Len(log) + 1
    BY <2>1, <2>2
  <2>4. Range(log)' = Range(log) \cup {l}
    BY <2>1, <2>2, RangeAppend DEF Range
  <2>5. Log!Publish
    <3>1. (queue \cup Range(log))' = queue \cup Range(log)
      BY <2>1, <2>4
    <3>2. Publish(Len(log')) /\ UNCHANGED <<ans, scts, seen>>
      BY <1>1, <2>3 DEF Integrate
    <3> QED
      BY <2>3, <3>1, <3>2, RootIsPublished
  <2>6. l \in (queue \cup Range(log)) \ Range(log) /\ log' = Append(log, l)
    BY <2>1, <2>2
  <2>7. Log!Merge
    BY <2>5, <2>6 DEF Log!Merge, Log!Range, Range
  <2> QED
    BY <2>7
<1>2. CASE Refresh
  <2>1. log' = log /\ queue' = queue /\ log \in Seq(Leaf)
    BY <1>2 DEF Refresh, LogInv, SCTInv, Types
  <2>2. (queue \cup Range(log))' = queue \cup Range(log)
    BY <2>1 DEF Range
  <2>3. Log!Publish
    BY <1>2, <2>1, <2>2, RootIsPublished DEF Refresh
  <2> QED
    BY <2>1, <2>3 DEF Log!Refresh
<1> QED
  BY <1>1, <1>2

\* No leaf is both queued and merged.
LEMMA NextApart ==
    ASSUME LogInv, Kind = "log", [Next]_vars
    PROVE  Apart'
<1>1. CASE Integrate
  <2>1. PICK l \in queue : queue' = queue \ {l} /\ log' = Append(log, l)
    BY <1>1 DEF Integrate
  <2>2. Range(log)' = Range(log) \cup {l}
    BY <2>1, RangeAppend DEF LogInv, SCTInv, Types, Range
  <2> QED
    BY <2>1, <2>2 DEF LogInv, Apart
<1>2. ASSUME NEW h \in Handlers, QueueLeaf(h) PROVE Apart'
  <2>1. log' = log /\ (queue' = queue \/ (Known(req[h].leaf) = {} /\ queue' = queue \cup {req[h].leaf}))
    BY <1>2 DEF QueueLeaf
  <2>2. Known(req[h].leaf) = {} => req[h].leaf \notin Range(log)
    BY DEF Known
  <2>3. Range(log)' = Range(log)
    BY <2>1 DEF Range
  <2> QED
    BY <2>1, <2>2, <2>3 DEF LogInv, Apart
<1>3. ASSUME UNCHANGED <<queue, log>> PROVE Apart'
  BY <1>3 DEF LogInv, Apart, Range
<1>4. ASSUME NEW h \in Handlers, Receive(h) \/ HandlerStep(h), ~QueueLeaf(h) PROVE UNCHANGED <<queue, log>>
  BY <1>4 DEF Receive, HandlerStep, Refuse, AddChain, GetSTH, GetSTHConsistency, GetProofByHash, GetEntries,
              GetEntryAndProof, RPCFails, Read, ReplySCT, Reply, GetMirrorSTH, LookupSignature, Sign, SetSignature,
              trillianVars
<1>5. Refresh \/ UNCHANGED vars => UNCHANGED <<queue, log>>
  BY DEF Refresh, vars, trillianVars
<1>6. ~MirrorGrows
  BY DEF MirrorGrows
<1> QED
  BY <1>1, <1>2, <1>3, <1>4, <1>5, <1>6 DEF Next

\* A handler at work has told nothing.
LEMMA NextBusy ==
    ASSUME LogInv, [Next]_vars
    PROVE  Busy'
<1> USE DEF Answer, Call
<1>1. HandlerTypes
  BY DEF LogInv, HeadInv
<1>2. ASSUME UNCHANGED <<pc, ans>> PROVE Busy'
  BY <1>2 DEF LogInv, Busy, Told, HeadIn
<1>3. Integrate \/ Refresh \/ MirrorGrows \/ UNCHANGED vars => UNCHANGED <<pc, ans>>
  BY DEF Integrate, Refresh, MirrorGrows, vars
<1>4. ASSUME NEW h \in Handlers, Receive(h) \/ HandlerStep(h) PROVE Busy'
  <2>1. \E p, a : /\ pc' = [pc EXCEPT ![h] = p]
                  /\ \/ ans' = ans /\ pc[h] # "idle"
                     \/ ans' = [ans EXCEPT ![h] = a] /\ (p = "idle" \/ a = None)
    BY <1>4 DEF Receive, HandlerStep, Refuse, AddChain, GetSTH, GetSTHConsistency, GetProofByHash, GetEntries,
                GetEntryAndProof, QueueLeaf, RPCFails, Read, ReplySCT, Reply, GetMirrorSTH, LookupSignature, Sign,
                SetSignature, ReplySTH
  <2>2. PICK p, a : /\ pc' = [pc EXCEPT ![h] = p]
                    /\ \/ ans' = ans /\ pc[h] # "idle"
                       \/ ans' = [ans EXCEPT ![h] = a] /\ (p = "idle" \/ a = None)
    BY <2>1
  <2>3. CASE ans' = ans /\ pc[h] # "idle"
    BY <1>1, <2>2, <2>3 DEF LogInv, HandlerTypes, Busy, Told, HeadIn
  <2>4. CASE ans' = [ans EXCEPT ![h] = a] /\ (p = "idle" \/ a = None)
    <3>1. Told' = [Told EXCEPT ![h] = HeadIn(a)]
      BY <1>1, <2>4, AnswerTells
    <3>2. \A g \in Handlers : Told'[g] = IF g = h THEN HeadIn(a) ELSE Told[g]
      BY <3>1 DEF Told
    <3>3. \A g \in Handlers : pc'[g] = IF g = h THEN p ELSE pc[g]
      BY <1>1, <2>2 DEF HandlerTypes
    <3> QED
      BY <2>4, <3>2, <3>3, NothingTellsNothing DEF LogInv, Busy
  <2> QED
    BY <2>2, <2>3, <2>4
<1> QED
  BY <1>2, <1>3, <1>4 DEF Next

\* Every step of the personality is one of the Log, or is hidden.
LEMMA StepsAreLogSteps ==
    ASSUME LogInv, Kind = "log", [Next]_vars
    PROVE  [Log!Next]_Log!vars
<1>1. CASE Integrate \/ Refresh
  BY <1>1, BackendMerges DEF Log!Next
<1>2. ~MirrorGrows
  BY DEF MirrorGrows
<1>3. ASSUME NEW h \in Handlers, Receive(h) PROVE [Log!Next]_Log!vars
  BY <1>3, RequestsAsk DEF Log!Next
<1>4. ASSUME NEW h \in Handlers, HandlerStep(h) PROVE [Log!Next]_Log!vars
  BY <1>4, QueueLeafPromises, ReplySCTIssues, HandlersTell DEF HandlerStep, Log!Next
<1>5. CASE UNCHANGED vars
  BY <1>5 DEF vars, trillianVars, Log!vars, OK, Range
<1> QED
  BY <1>1, <1>2, <1>3, <1>4, <1>5 DEF Next

\* The personality is a Log, for any number of concurrent requests, certificates and
\* clock readings and whatever calls of the backend fail: addChainInternal promises one
\* leaf per certificate and issues SCTs for nothing else, and get-sth tells heads in the
\* order of their publication.
THEOREM PersonalityIsCTLog == ASSUME Kind = "log" PROVE Spec => IsCTLog
<1>1. LogInv /\ [Next]_vars => LogInv'
  BY NextSCTInv, NextHeadInv, NextApart, NextBusy DEF LogInv, Queued
<1>2. Init => Log!Init
  <2> SUFFICES ASSUME Init PROVE Log!Init
    OBVIOUS
  <2>1. queue \cup Range(log) = {} /\ log = <<>> /\ scts = {} /\ seen = [h \in Handlers |-> 0]
    BY DEF Init, Range
  <2>2. Range(roots) = {[size |-> 0, ts |-> 0]}
    <3>1. roots = <<[size |-> 0, ts |-> 0]>> /\ DOMAIN roots = {1}
      BY DEF Init
    <3> QED
      BY <3>1 DEF Range
  <2>3. \A h \in Handlers : ~OK(h, "get-sth")
    BY DEF Init, OK, None
  <2> QED
    BY <2>1, <2>2, <2>3 DEF Log!Init
<1> QED
  BY <1>1, <1>2, InitLogInv, StepsAreLogSteps, PTL DEF Spec, IsCTLog, Log!Spec

---------------------------------------------------------------------------
(* What is read.  The invariant is about the mirror of MCCTFE, which grows *)
(* by any leaves at any time and whose backend may answer nonsense.        *)

MirrorTree ==
    /\ mlog \in Seq(M!Leaf)
    /\ mroots \in Seq(Root) /\ mroots # <<>>
    /\ \A i \in 1..Len(mroots) : mroots[i].size <= Len(mlog)
    /\ msourceSTHs \subseteq Nat
    /\ DOMAIN mpc = MirrorHandlers /\ DOMAIN mreq = MirrorHandlers
    /\ DOMAIN mrsp = MirrorHandlers /\ DOMAIN mans = MirrorHandlers

\* The proof that a pair of sizes calls for.
ProofFor(needed, empty) == IF needed THEN "nodes" ELSE empty

\* A request that got past the checks of its parameters.
RequestIsRight(r) ==
    /\ r.ep = "get-sth-consistency" =>
         r.first \in Nat \ {0} /\ r.second \in Nat /\ r.first <= r.second
    /\ r.ep = "get-proof-by-hash" => r.treeSize \in Nat \ {0}
    /\ r.ep = "get-entries" =>
         /\ r.start \in Nat /\ r.asked \in Nat /\ r.count \in Int
         /\ r.count <= MaxGetEntries
         /\ r.start + r.count - 1 <= r.asked
         /\ Align /\ r.asked - r.start + 1 >= MaxGetEntries =>
              (r.start + r.count) % MaxGetEntries = 0

\* A response is about the tree, which may have grown since.
ResponseIsRight(r, b) ==
    /\ r.ep = "get-sth-consistency" =>
         /\ b.size \in Nat /\ b.size <= Len(mlog)
         /\ b.size >= r.second => b.proof \in {"malformed", ProofFor(r.first < r.second, "nil")}
    /\ r.ep = "get-proof-by-hash" =>
         /\ b.size \in Nat /\ b.size <= Len(mlog)
         /\ b.size >= r.treeSize /\ b.proof # "none" =>
              /\ b.index \in Nat /\ b.index < r.treeSize
              /\ mlog[b.index + 1] = r.leaf
              /\ b.proof \in {"malformed", ProofFor(r.treeSize > 1, "nil")}
    /\ r.ep = "get-entries" =>
         /\ b.size \in Nat /\ b.size <= Len(mlog)
         /\ b.size > r.start =>
              /\ Len(b.leaves) \in Nat \ {0} /\ DOMAIN b.leaves = 1..Len(b.leaves)
              /\ \A i \in 1..Len(b.leaves) :
                   /\ b.leaves[i].index \in Nat /\ b.leaves[i].index < Len(mlog)
                   /\ b.leaves[i].leaf = mlog[b.leaves[i].index + 1]

AnswerIsRight(a) ==
    /\ a.ep = "get-sth" /\ a.status = 200 => a.sth.size \in Nat /\ a.sth.size <= Len(mlog)
    /\ a.ep = "get-sth-consistency" /\ a.status = 200 /\ a.req.first > 0 =>
         /\ a.req.second \in Nat /\ a.req.second <= Len(mlog)
         /\ a.proof = ProofFor(a.req.first < a.req.second, "empty")
    /\ a.ep = "get-proof-by-hash" /\ a.status = 200 =>
         /\ a.req.treeSize \in Nat /\ a.req.treeSize <= Len(mlog)
         /\ a.index \in Nat /\ a.index < a.req.treeSize
         /\ mlog[a.index + 1] = a.req.leaf
         /\ a.proof = ProofFor(a.req.treeSize > 1, "empty")
    /\ a.ep = "get-entries" /\ a.status = 200 =>
         /\ a.req.start \in Nat /\ Len(a.entries) \in Nat \ {0}
         /\ a.req.start + Len(a.entries) <= Len(mlog)
         /\ Len(a.entries) <= MaxGetEntries
         /\ a.req.start + Len(a.entries) - 1 <= a.req.asked
         /\ a.entries = [i \in 1..Len(a.entries) |-> mlog[a.req.start + i]]
         /\ Align /\ a.req.asked - a.req.start + 1 >= MaxGetEntries =>
              (a.req.start + a.req.count) % MaxGetEntries = 0

HandlerIsRight(p, r, b, a) ==
    /\ p \in {"idle", "rpc", "reply", "mirror"}
    /\ p \in {"rpc", "reply"} => RequestIsRight(r)
    /\ p = "reply" => ResponseIsRight(r, b)
    /\ p = "mirror" => b.root.size \in Nat /\ b.root.size <= Len(mlog)
    /\ AnswerIsRight(a)

MirrorInv ==
    /\ MirrorTree
    /\ \A h \in MirrorHandlers : HandlerIsRight(mpc[h], mreq[h], mrsp[h], mans[h])

---------------------------------------------------------------------------
(* The arithmetic of parseGetEntriesRange.                                 *)

LEMMA SmallRemainder == \A a, b \in Nat : a < b => a % b = a
OBVIOUS

LEMMA Aligned ==
    \A n \in Nat, b \in Nat \ {0} :
        n % b \in Nat /\ n % b < b /\ n % b <= n /\ (n - (n % b)) % b = 0
OBVIOUS

\* Numbers within the width are not changed by wrapping.
LEMMA NoOverflow == \A n \in Int : -MaxInt <= n /\ n <= MaxInt => M!Wrap(n) = n
<1> SUFFICES ASSUME NEW n \in Int, -MaxInt <= n, n <= MaxInt PROVE M!Wrap(n) = n
  OBVIOUS
<1>1. n + MaxInt + 1 \in Nat /\ 2 * (MaxInt + 1) \in Nat /\ n + MaxInt + 1 < 2 * (MaxInt + 1)
  BY BoundAssumption
<1>2. (n + MaxInt + 1) % (2 * (MaxInt + 1)) = n + MaxInt + 1
  BY <1>1, SmallRemainder
<1> QED
  BY <1>2, BoundAssumption DEF M!Wrap

\* What parseGetEntriesRange makes of a range is no longer than allowed, does not go
\* beyond what was asked for, and is aligned when it should be.
LEMMA RangeIsRight ==
    ASSUME NEW start \in 0..(MaxInt - 2), NEW end \in 0..(MaxInt - 2), start <= end
    PROVE  LET number == M!Wrap(M!EntriesEnd(start, end) + 1 - start) IN
           /\ number \in Int
           /\ number <= MaxGetEntries
           /\ start + number - 1 <= end
           /\ Align /\ end - start + 1 >= MaxGetEntries => (start + number) % MaxGetEntries = 0
<1> DEFINE asked == end - start + 1
           last == IF asked > MaxGetEntries THEN start + MaxGetEntries - 1 ELSE end
           over == (last + 1) % MaxGetEntries
<1>1. /\ MaxInt \in Nat /\ MaxGetEntries \in Nat \ {0}
      /\ start \in Nat /\ end \in Nat /\ start <= MaxInt - 2 /\ end <= MaxInt - 2
  BY BoundAssumption, EntriesAssumption
<1>2. asked \in Nat /\ asked <= MaxInt /\ M!Wrap(asked) = asked
  BY <1>1, NoOverflow
<1>3. last \in Nat /\ last <= end /\ last <= start + MaxGetEntries - 1 /\ start <= last
  BY <1>1, <1>2
<1>4. M!Wrap(start + MaxGetEntries - 1) = start + MaxGetEntries - 1 \/ ~(asked > MaxGetEntries)
  BY <1>1, NoOverflow
<1>5. /\ over \in Nat /\ over < MaxGetEntries /\ over <= last + 1
      /\ (last + 1 - over) % MaxGetEntries = 0
  <2>1. PICK n \in Nat : n = last + 1
    BY <1>3
  <2>2. /\ n % MaxGetEntries \in Nat /\ n % MaxGetEntries < MaxGetEntries /\ n % MaxGetEntries <= n
        /\ (n - (n % MaxGetEntries)) % MaxGetEntries = 0
    BY <1>1, Aligned
  <2>3. over = n % MaxGetEntries
    BY <2>1
  <2>4. last \in Nat /\ over \in Nat
    BY <1>3, <2>2, <2>3
  <2> HIDE DEF last, over
  <2>5. last + 1 - over = n - (n % MaxGetEntries)
    BY <2>1, <2>2, <2>3, <2>4
  <2> QED
    BY <2>1, <2>2, <2>3, <2>5
<1>6. M!Wrap(last + 1) = last + 1 /\ M!Rem(last + 1, MaxGetEntries) = over
  BY <1>1, <1>3, NoOverflow DEF M!Rem
<1>7. M!Wrap(last - over) = last - over
  BY <1>1, <1>3, <1>5, NoOverflow
<1>8. M!EntriesEnd(start, end) = IF Align /\ asked >= MaxGetEntries THEN last - over ELSE last
  <2>1. M!EntriesEnd(start, end) =
          LET l == IF asked > MaxGetEntries THEN M!Wrap(start + MaxGetEntries - 1) ELSE end
          IN IF Align /\ asked >= MaxGetEntries
             THEN M!Wrap(l - M!Rem(M!Wrap(l + 1), MaxGetEntries)) ELSE l
    BY <1>2 DEF M!EntriesEnd
  <2>2. (IF asked > MaxGetEntries THEN M!Wrap(start + MaxGetEntries - 1) ELSE end) = last
    BY <1>4
  <2> HIDE DEF last, asked, over
  <2> QED
    BY <1>6, <1>7, <2>1, <2>2
<1> HIDE DEF over, last
<1>9. CASE Align /\ asked >= MaxGetEntries
  <2>1. M!Wrap(last - over + 1 - start) = last - over + 1 - start
    BY <1>1, <1>3, <1>5, NoOverflow
  <2>2. start + (last - over + 1 - start) = last + 1 - over
    BY <1>1, <1>3, <1>5
  <2> QED
    BY <1>1, <1>3, <1>5, <1>8, <1>9, <2>1, <2>2
<1>10. CASE ~(Align /\ asked >= MaxGetEntries)
  <2>1. M!Wrap(last + 1 - start) = last + 1 - start
    BY <1>1, <1>3, NoOverflow
  <2> QED
    BY <1>1, <1>3, <1>8, <1>10, <2>1
<1> QED
  BY <1>9, <1>10

---------------------------------------------------------------------------
(* Requests, responses and answers of the mirror.                          *)

\* What a response or an answer says of the tree remains true of a larger one.
LEMMA TreeGrows ==
    ASSUME mlog \in Seq(M!Leaf), mlog' \in Seq(M!Leaf), Len(mlog) <= Len(mlog'),
           \A i \in 1..Len(mlog) : mlog'[i] = mlog[i]
    PROVE  \A p, r, b, a : HandlerIsRight(p, r, b, a) => HandlerIsRight(p, r, b, a)'
<1> SUFFICES ASSUME NEW p, NEW r, NEW b, NEW a, HandlerIsRight(p, r, b, a)
             PROVE  HandlerIsRight(p, r, b, a)'
  OBVIOUS
<1>1. Len(mlog) \in Nat /\ Len(mlog') \in Nat
  OBVIOUS
<1>2. RequestIsRight(r) => RequestIsRight(r)'
  BY DEF RequestIsRight
<1>3. ASSUME RequestIsRight(r), ResponseIsRight(r, b) PROVE ResponseIsRight(r, b)'
  <2>1. CASE r.ep = "get-sth-consistency"
    BY <1>1, <1>3, <2>1 DEF ResponseIsRight
  <2>2. CASE r.ep = "get-proof-by-hash"
    <3>1. ASSUME b.size >= r.treeSize, b.proof # "none"
          PROVE  mlog'[b.index + 1] = mlog[b.index + 1]
      <4>1. b.index \in Nat /\ b.index < r.treeSize /\ b.size \in Nat /\ b.size <= Len(mlog)
        BY <1>3, <2>2, <3>1 DEF ResponseIsRight
      <4>2. b.index + 1 \in 1..Len(mlog)
        BY <1>1, <1>3, <2>2, <3>1, <4>1 DEF RequestIsRight
      <4> QED
        BY <4>2
    <3> QED
      BY <1>1, <1>3, <2>2, <3>1 DEF ResponseIsRight
  <2>3. CASE r.ep = "get-entries"
    <3>1. ASSUME NEW i \in 1..Len(b.leaves), b.size > r.start
          PROVE  /\ b.leaves[i].index \in Nat /\ b.leaves[i].index < Len(mlog')
                 /\ b.leaves[i].leaf = mlog'[b.leaves[i].index + 1]
      <4>1. /\ b.leaves[i].index \in Nat /\ b.leaves[i].index < Len(mlog)
            /\ b.leaves[i].leaf = mlog[b.leaves[i].index + 1]
        BY <1>3, <2>3, <3>1 DEF ResponseIsRight
      <4>2. b.leaves[i].index + 1 \in 1..Len(mlog)
        BY <1>1, <4>1
      <4> QED
        BY <1>1, <4>1, <4>2
    <3> QED
      BY <1>1, <1>3, <2>3, <3>1 DEF ResponseIsRight
  <2> QED
    BY <2>1, <2>2, <2>3 DEF ResponseIsRight
<1>4. AnswerIsRight(a)'
  <2>1. AnswerIsRight(a)
    BY DEF HandlerIsRight
  <2>2. CASE a.ep = "get-proof-by-hash"
    <3>1. ASSUME a.status = 200 PROVE mlog'[a.index + 1] = mlog[a.index + 1]
      <4>1. /\ a.req.treeSize \in Nat /\ a.req.treeSize <= Len(mlog)
            /\ a.index \in Nat /\ a.index < a.req.treeSize
        BY <2>1, <2>2, <3>1 DEF AnswerIsRight
      <4>2. a.index + 1 \in 1..Len(mlog)
        BY <1>1, <4>1
      <4> QED
        BY <4>2
    <3> QED
      BY <1>1, <2>1, <2>2, <3>1 DEF AnswerIsRight
  <2>3. CASE a.ep = "get-entries"
    <3>1. ASSUME a.status = 200
          PROVE  [i \in 1..Len(a.entries) |-> mlog'[a.req.start + i]] =
                     [i \in 1..Len(a.entries) |-> mlog[a.req.start + i]]
      <4>1. /\ a.req.start \in Nat /\ Len(a.entries) \in Nat
            /\ a.req.start + Len(a.entries) <= Len(mlog)
        BY <2>1, <2>3, <3>1 DEF AnswerIsRight
      <4>2. \A i \in 1..Len(a.entries) : a.req.start + i \in 1..Len(mlog)
        BY <1>1, <4>1, SMTT(40)
      <4> QED
        BY <4>2
    <3>2. ASSUME a.status = 200
          PROVE  /\ a.req.start \in Nat /\ Len(a.entries) \in Nat \ {0}
                 /\ a.req.start + Len(a.entries) <= Len(mlog')
                 /\ Len(a.entries) <= MaxGetEntries
                 /\ a.req.start + Len(a.entries) - 1 <= a.req.asked
                 /\ a.entries = [i \in 1..Len(a.entries) |-> mlog'[a.req.start + i]]
      <4>1. a.entries = [i \in 1..Len(a.entries) |-> mlog[a.req.start + i]]
        BY <2>1, <2>3, <3>2 DEF AnswerIsRight
      <4>2. a.entries = [i \in 1..Len(a.entries) |-> mlog'[a.req.start + i]]
        BY <3>1, <3>2, <4>1
      <4> QED
        BY <1>1, <2>1, <2>3, <3>2, <4>2 DEF AnswerIsRight
    <3> QED
      BY <2>1, <2>3, <3>2 DEF AnswerIsRight
  <2>4. CASE a.ep \notin {"get-proof-by-hash", "get-entries"}
    BY <1>1, <2>1, <2>4 DEF AnswerIsRight
  <2> QED
    BY <2>2, <2>3, <2>4
<1>5. p = "mirror" => b.root.size \in Nat /\ b.root.size <= Len(mlog')
  BY <1>1 DEF HandlerIsRight
<1> QED
  BY <1>2, <1>3, <1>4, <1>5 DEF HandlerIsRight

\* A handler's step leaves the tree and the other handlers alone.
LEMMA OneHandler ==
    ASSUME MirrorInv, NEW h \in MirrorHandlers, UNCHANGED <<mlog, mroots, msourceSTHs>>,
           DOMAIN mpc' = MirrorHandlers, DOMAIN mreq' = MirrorHandlers,
           DOMAIN mrsp' = MirrorHandlers, DOMAIN mans' = MirrorHandlers,
           \A g \in MirrorHandlers \ {h} :
               mpc'[g] = mpc[g] /\ mreq'[g] = mreq[g] /\ mrsp'[g] = mrsp[g] /\ mans'[g] = mans[g],
           HandlerIsRight(mpc[h], mreq[h], mrsp[h], mans[h])'
    PROVE  MirrorInv'
<1>1. MirrorTree'
  BY DEF MirrorInv, MirrorTree
<1>2. \A p, r, b, a : HandlerIsRight(p, r, b, a) => HandlerIsRight(p, r, b, a)'
  BY TreeGrows DEF MirrorInv, MirrorTree
<1>3. ASSUME NEW g \in MirrorHandlers \ {h}
      PROVE  HandlerIsRight(mpc[g], mreq[g], mrsp[g], mans[g])'
  <2>1. PICK p, r, b, a : p = mpc[g] /\ r = mreq[g] /\ b = mrsp[g] /\ a = mans[g]
    OBVIOUS
  <2>2. HandlerIsRight(p, r, b, a)
    BY <2>1 DEF MirrorInv
  <2>3. HandlerIsRight(p, r, b, a)'
    BY <1>2, <2>2
  <2>4. mpc'[g] = p /\ mreq'[g] = r /\ mrsp'[g] = b /\ mans'[g] = a
    BY <2>1
  <2> QED
    BY <2>3, <2>4 DEF HandlerIsRight, RequestIsRight, ResponseIsRight, AnswerIsRight
<1> QED
  BY <1>1, <1>3 DEF MirrorInv

LEMMA AnswerStep ==
    ASSUME MirrorInv, NEW h \in MirrorHandlers, UNCHANGED <<mlog, mroots, msourceSTHs>>,
           NEW a, M!Answer(h, a), AnswerIsRight(a)
    PROVE  MirrorInv'
<1>1. /\ mpc' = [mpc EXCEPT ![h] = "idle"] /\ mreq' = [mreq EXCEPT ![h] = M!None]
      /\ mrsp' = [mrsp EXCEPT ![h] = M!None] /\ mans' = [mans EXCEPT ![h] = a]
  BY DEF M!Answer
<1>2. /\ DOMAIN mpc = MirrorHandlers /\ DOMAIN mreq = MirrorHandlers
      /\ DOMAIN mrsp = MirrorHandlers /\ DOMAIN mans = MirrorHandlers
  BY DEF MirrorInv, MirrorTree
<1>3. AnswerIsRight(a)'
  BY DEF AnswerIsRight
<1>4. mpc'[h] = "idle" /\ mans'[h] = a
  BY <1>1, <1>2
<1>5. HandlerIsRight(mpc[h], mreq[h], mrsp[h], mans[h])'
  BY <1>3, <1>4 DEF HandlerIsRight, AnswerIsRight
<1> QED
  BY <1>1, <1>2, <1>5, OneHandler

LEMMA CallStep ==
    ASSUME MirrorInv, NEW h \in MirrorHandlers, UNCHANGED <<mlog, mroots, msourceSTHs>>,
           NEW r, M!Call(h, r), RequestIsRight(r)
    PROVE  MirrorInv'
<1>1. /\ mpc' = [mpc EXCEPT ![h] = "rpc"] /\ mreq' = [mreq EXCEPT ![h] = r]
      /\ mrsp' = mrsp /\ mans' = [mans EXCEPT ![h] = M!None]
  BY DEF M!Call
<1>2. /\ DOMAIN mpc = MirrorHandlers /\ DOMAIN mreq = MirrorHandlers
      /\ DOMAIN mrsp = MirrorHandlers /\ DOMAIN mans = MirrorHandlers
  BY DEF MirrorInv, MirrorTree
<1>3. mpc'[h] = "rpc" /\ mreq'[h] = r /\ mans'[h] = M!None
  BY <1>1, <1>2
<1>4. HandlerIsRight(mpc[h], mreq[h], mrsp[h], mans[h])'
  BY <1>3 DEF HandlerIsRight, RequestIsRight, AnswerIsRight, M!None
<1> QED
  BY <1>1, <1>2, <1>4, OneHandler

\* No error is a right or a wrong answer.
LEMMA ErrorsAreRight == \A status : AnswerIsRight(M!Fail(status))
BY DEF AnswerIsRight, M!Fail

\* Every response that the backend can give, the faulty ones included, is about leaves of
\* the tree.
LEMMA LeavesAreRight ==
    ASSUME mlog \in Seq(M!Leaf), NEW start \in Nat, start < Len(mlog), NEW number \in Nat \ {0}
    PROVE  LET leaves == M!LeavesFrom(start, number) IN
           /\ Len(leaves) \in Nat \ {0} /\ DOMAIN leaves = 1..Len(leaves)
           /\ \A i \in 1..Len(leaves) :
                /\ leaves[i].index \in Nat /\ leaves[i].index < Len(mlog)
                /\ leaves[i].leaf = mlog[leaves[i].index + 1]
<1> DEFINE n == M!Min2(number, Len(mlog) - start)
           leaves == [i \in 1..n |-> [index |-> start + i - 1, leaf |-> mlog[start + i]]]
<1>1. Len(mlog) \in Nat
  OBVIOUS
<1>2. n \in Nat \ {0} /\ start + n <= Len(mlog)
  BY <1>1 DEF M!Min2
<1>3. M!LeavesFrom(start, number) = leaves
  BY DEF M!LeavesFrom
<1> HIDE DEF n
<1>4. leaves \in Seq([index : Nat, leaf : M!Leaf]) /\ Len(leaves) = n /\ DOMAIN leaves = 1..n
  <2>1. ASSUME NEW i \in 1..n PROVE start + i - 1 \in Nat /\ mlog[start + i] \in M!Leaf
    BY <1>1, <1>2
  <2> QED
    BY <1>2, <2>1
<1>5. \A i \in 1..n : leaves[i] = [index |-> start + i - 1, leaf |-> mlog[start + i]]
  OBVIOUS
<1> HIDE DEF leaves
<1>6. ASSUME NEW i \in 1..n
      PROVE  /\ leaves[i].index \in Nat /\ leaves[i].index < Len(mlog)
             /\ leaves[i].leaf = mlog[leaves[i].index + 1]
  <2>1. leaves[i].index = start + i - 1 /\ leaves[i].leaf = mlog[start + i]
    <3>1. leaves[i] = [index |-> start + i - 1, leaf |-> mlog[start + i]]
      BY <1>5
    <3> QED
      BY <1>2, <3>1, SMT
  <2>2. start + i - 1 \in Nat /\ start + i - 1 < Len(mlog) /\ start + i - 1 + 1 = start + i
    BY <1>1, <1>2
  <2> QED
    BY <2>1, <2>2
<1> QED
  BY <1>2, <1>3, <1>4, <1>6

\* A part of a sequence as a function.
LEMMA Slice ==
    ASSUME NEW T, NEW s \in Seq(T), NEW a \in Nat, NEW n \in Nat, a + n <= Len(s)
    PROVE  SubSeq(s, a + 1, a + n) = [i \in 1..n |-> s[a + i]]
<1>1. /\ SubSeq(s, a + 1, a + n) \in Seq(T)
      /\ Len(SubSeq(s, a + 1, a + n)) = n
      /\ \A i \in 1..n : SubSeq(s, a + 1, a + n)[i] = s[a + i]
  OBVIOUS
<1>2. PICK u : u = SubSeq(s, a + 1, a + n)
  OBVIOUS
<1>3. u \in Seq(T) /\ Len(u) = n /\ \A i \in 1..n : u[i] = s[a + i]
  BY <1>1, <1>2
<1>4. u \in [1..n -> T]
  BY <1>3
<1>5. u = [i \in 1..n |-> s[a + i]]
  BY <1>3, <1>4
<1> QED
  BY <1>2, <1>5

\* A non-empty set of positions has a first one.
LEMMA FirstPosition ==
    ASSUME NEW S \in SUBSET Nat, S # {}
    PROVE  \E i \in S : \A j \in S : i <= j
<1>1. PICK i \in S : \A j \in S : <<j, i>> \notin OpToRel(<, Nat)
  BY NatLessThanWellFounded, WFMin
<1>2. \A j \in S : ~(j < i)
  BY <1>1 DEF OpToRel
<1> QED
  BY <1>2

LEMMA RightResponses ==
    ASSUME mlog \in Seq(M!Leaf), NEW r, RequestIsRight(r), ~M!BadCount(r), NEW b \in M!Responses(r)
    PROVE  ResponseIsRight(r, b)
<1>1. Len(mlog) \in Nat
  OBVIOUS
<1>2. CASE r.ep = "get-sth-consistency"
  <2>1. b \in {[size |-> Len(mlog), proof |-> p] : p \in
               IF Len(mlog) < r.second THEN {"nil"}
               ELSE M!Nodes(r.first < r.second) \cup M!Faulty({"malformed"})}
    BY <1>2 DEF M!Responses
  <2>2. PICK p \in IF Len(mlog) < r.second THEN {"nil"}
               ELSE M!Nodes(r.first < r.second) \cup M!Faulty({"malformed"}) :
               b = [size |-> Len(mlog), proof |-> p]
    BY <2>1
  <2>3. b.size = Len(mlog) /\ b.proof = p
    BY <2>2
  <2>4. Len(mlog) >= r.second => p \in {"malformed", ProofFor(r.first < r.second, "nil")}
    BY <1>1, <1>2, <2>2 DEF M!Nodes, M!Faulty, ProofFor, RequestIsRight
  <2> QED
    BY <1>1, <1>2, <2>3, <2>4 DEF ResponseIsRight
<1>3. CASE r.ep = "get-proof-by-hash"
  <2> DEFINE at == {i \in 1..M!Min2(Len(mlog), r.treeSize) : mlog[i] = r.leaf}
  <2>1. b \in IF Len(mlog) < r.treeSize \/ at = {} THEN {[size |-> Len(mlog), proof |-> "none"]}
              ELSE {[size |-> Len(mlog), index |-> (CHOOSE i \in at : \A j \in at : i <= j) - 1,
                     proof |-> p] : p \in M!Nodes(r.treeSize > 1) \cup M!Faulty({"malformed"})}
    BY <1>3 DEF M!Responses
  <2>2. r.treeSize \in Nat \ {0}
    BY <1>3 DEF RequestIsRight
  <2>3. CASE Len(mlog) < r.treeSize \/ at = {}
    <3>1. b.size = Len(mlog) /\ b.proof = "none"
      BY <2>1, <2>3
    <3> QED
      BY <1>1, <1>3, <3>1 DEF ResponseIsRight
  <2>4. CASE ~(Len(mlog) < r.treeSize \/ at = {})
    <3>1. at \in SUBSET Nat /\ at # {} /\ \A i \in at : 1 <= i /\ i <= r.treeSize /\ mlog[i] = r.leaf
      BY <1>1, <2>2, <2>4 DEF M!Min2
    <3> HIDE DEF at
    <3> DEFINE first == CHOOSE i \in at : \A j \in at : i <= j
    <3>2. first \in at
      BY <3>1, FirstPosition
    <3>3. PICK p \in M!Nodes(r.treeSize > 1) \cup M!Faulty({"malformed"}) :
                b = [size |-> Len(mlog), index |-> first - 1, proof |-> p]
      BY <2>1, <2>4
    <3> HIDE DEF first
    <3>4. b.size = Len(mlog) /\ b.index = first - 1 /\ b.proof = p
      BY <3>3
    <3>5. p \in {"malformed", ProofFor(r.treeSize > 1, "nil")}
      BY <3>3 DEF M!Nodes, M!Faulty, ProofFor
    <3>6. first - 1 \in Nat /\ first - 1 < r.treeSize /\ first - 1 + 1 = first /\ mlog[first] = r.leaf
      BY <2>2, <3>1, <3>2
    <3> QED
      BY <1>1, <1>3, <3>4, <3>5, <3>6 DEF ResponseIsRight
  <2> QED
    BY <2>3, <2>4
<1>4. CASE r.ep = "get-entries"
  <2>1. r.start \in Nat /\ r.count \in Nat \ {0}
    BY <1>4 DEF RequestIsRight, M!BadCount
  <2>2. b \in IF Len(mlog) <= r.start THEN {[size |-> Len(mlog), leaves |-> <<>>]}
              ELSE {[size |-> Len(mlog), leaves |-> M!LeavesFrom(r.start, n)] : n \in 1..r.count}
                   \cup M!Faulty({[size |-> Len(mlog), leaves |-> M!LeavesFrom(r.start, r.count + 1)],
                                  [size |-> Len(mlog), leaves |-> M!LeavesFrom(0, r.count)]})
    BY <1>4 DEF M!Responses
  <2>3. CASE Len(mlog) <= r.start
    <3>1. b.size = Len(mlog)
      BY <2>2, <2>3
    <3> QED
      BY <1>1, <1>4, <2>1, <2>3, <3>1 DEF ResponseIsRight
  <2>4. CASE r.start < Len(mlog)
    <3>1. PICK s \in Nat, n \in Nat \ {0} :
              s < Len(mlog) /\ b = [size |-> Len(mlog), leaves |-> M!LeavesFrom(s, n)]
      <4>1. ~(Len(mlog) <= r.start)
        BY <1>1, <2>1, <2>4
      <4>2. CASE \E n \in 1..r.count : b = [size |-> Len(mlog), leaves |-> M!LeavesFrom(r.start, n)]
        <5>1. PICK n \in 1..r.count : b = [size |-> Len(mlog), leaves |-> M!LeavesFrom(r.start, n)]
          BY <4>2
        <5>2. n \in Nat \ {0}
          BY <2>1
        <5> QED
          BY <2>1, <2>4, <5>1, <5>2
      <4>3. CASE b = [size |-> Len(mlog), leaves |-> M!LeavesFrom(r.start, r.count + 1)]
        <5>1. r.count + 1 \in Nat \ {0}
          BY <2>1
        <5> QED
          BY <2>1, <2>4, <4>3, <5>1
      <4>4. CASE b = [size |-> Len(mlog), leaves |-> M!LeavesFrom(0, r.count)]
        <5>1. 0 < Len(mlog)
          BY <1>1, <2>1, <2>4
        <5> QED
          BY <2>1, <4>4, <5>1
      <4> QED
        BY <2>2, <4>1, <4>2, <4>3, <4>4 DEF M!Faulty
    <3>2. b.size = Len(mlog) /\ b.leaves = M!LeavesFrom(s, n)
      BY <3>1
    <3> QED
      BY <1>1, <1>4, <3>1, <3>2, LeavesAreRight DEF ResponseIsRight
  <2> QED
    BY <1>1, <2>1, <2>3, <2>4
<1> QED
  BY <1>2, <1>3, <1>4 DEF ResponseIsRight

---------------------------------------------------------------------------
(* The steps of the mirror.                                                *)

LEMMA InitMirrorInv == M!Init => MirrorInv
<1> SUFFICES ASSUME M!Init PROVE MirrorInv
  OBVIOUS
<1>1. mlog = <<>> /\ mroots = <<[size |-> 0, ts |-> 0]>> /\ msourceSTHs = {0}
  BY DEF M!Init
<1>2. mlog \in Seq(M!Leaf) /\ Len(mlog) = 0 /\ mroots \in Seq(Root) /\ Len(mroots) = 1
  BY <1>1 DEF Root
<1>3. mroots # <<>> /\ \A i \in 1..Len(mroots) : mroots[i].size <= Len(mlog)
  BY <1>1, <1>2
<1>4. MirrorTree
  BY <1>1, <1>2, <1>3 DEF MirrorTree, M!Init
<1>5. \A h \in MirrorHandlers : mpc[h] = "idle" /\ mans[h] = M!None
  BY DEF M!Init
<1>6. AnswerIsRight(M!None)
  BY DEF AnswerIsRight, M!None
<1> QED
  BY <1>4, <1>5, <1>6 DEF MirrorInv, HandlerIsRight

\* The tree grows, or only gets a new root.
LEMMA MirrorPublishes ==
    ASSUME MirrorInv, UNCHANGED <<msourceSTHs, mpc, mreq, mrsp, mans>>,
           NEW l \in M!Leaf, mlog' = mlog \/ mlog' = Append(mlog, l), M!Publish(Len(mlog'))
    PROVE  MirrorInv'
<1>1. mlog \in Seq(M!Leaf) /\ mroots \in Seq(Root) /\ mroots # <<>>
  BY DEF MirrorInv, MirrorTree
<1>2. /\ mlog' \in Seq(M!Leaf) /\ Len(mlog) <= Len(mlog') /\ Len(mlog) \in Nat /\ Len(mlog') \in Nat
      /\ \A i \in 1..Len(mlog) : mlog'[i] = mlog[i]
  BY <1>1, SMTT(40)
<1>3. PICK new \in Root : new.size = Len(mlog') /\ mroots' = Append(mroots, new)
  <2>1. mroots[Len(mroots)] \in Root
    BY <1>1
  <2>2. M!LatestRoot.ts + 1 \in Nat
    BY <2>1 DEF M!LatestRoot, Root
  <2>3. [size |-> Len(mlog'), ts |-> M!LatestRoot.ts + 1] \in Root
    BY <1>2, <2>2 DEF Root
  <2> QED
    BY <2>3 DEF M!Publish
<1>4. MirrorTree'
  <2>1. /\ mroots' \in Seq(Root) /\ mroots' # <<>> /\ Len(mroots') = Len(mroots) + 1
        /\ \A i \in 1..Len(mroots) : mroots'[i] = mroots[i]
        /\ mroots'[Len(mroots) + 1] = new
    BY <1>1, <1>3
  <2>2. ASSUME NEW i \in 1..Len(mroots') PROVE mroots'[i].size <= Len(mlog')
    <3>1. CASE i \in 1..Len(mroots)
      <4>1. mroots[i] \in Root /\ mroots[i].size <= Len(mlog)
        BY <1>1, <3>1 DEF MirrorInv, MirrorTree
      <4>2. mroots'[i] = mroots[i]
        BY <2>1, <3>1
      <4>3. mroots[i].size \in Nat
        BY <4>1 DEF Root
      <4>4. mroots[i].size <= Len(mlog')
        <5>1. \A a, b, c \in Nat : a <= b /\ b <= c => a <= c
          OBVIOUS
        <5> QED
          BY <1>2, <4>1, <4>3, <5>1
      <4> QED
        BY <4>2, <4>4
    <3>2. CASE i = Len(mroots) + 1
      BY <1>2, <1>3, <2>1, <3>2
    <3> QED
      BY <1>1, <2>1, <3>1, <3>2
  <2> QED
    BY <1>2, <2>1, <2>2 DEF MirrorInv, MirrorTree
<1>5. \A p, r, b, a : HandlerIsRight(p, r, b, a) => HandlerIsRight(p, r, b, a)'
  BY <1>1, <1>2, TreeGrows
<1>6. ASSUME NEW h \in MirrorHandlers PROVE HandlerIsRight(mpc[h], mreq[h], mrsp[h], mans[h])'
  <2>1. PICK p, r, b, a : p = mpc[h] /\ r = mreq[h] /\ b = mrsp[h] /\ a = mans[h]
    OBVIOUS
  <2>2. HandlerIsRight(p, r, b, a)'
    BY <1>5, <2>1 DEF MirrorInv
  <2> QED
    BY <2>1, <2>2 DEF HandlerIsRight, RequestIsRight, ResponseIsRight, AnswerIsRight
<1> QED
  BY <1>4, <1>6 DEF MirrorInv

LEMMA MirrorBackend ==
    ASSUME MirrorInv, M!Integrate \/ M!Refresh \/ M!MirrorGrows
    PROVE  MirrorInv'
<1>1. CASE M!Integrate
  BY <1>1 DEF M!Integrate
<1>2. CASE M!Refresh
  <2>1. M!LatestRoot \in Root
    BY DEF MirrorInv, MirrorTree, M!LatestRoot
  <2> QED
    BY <1>2, <2>1 DEF M!Refresh, Root
<1>3. CASE M!MirrorGrows
  <2>0. \/ /\ \E l \in M!Leaf \ Range(mlog) : mlog' = Append(mlog, l)
           /\ M!Publish(Len(mlog) + 1) /\ msourceSTHs' = msourceSTHs
        \/ /\ \E n \in 0..MaxTreeSize : msourceSTHs' = msourceSTHs \cup {n}
           /\ mlog' = mlog /\ mroots' = mroots
    <3>1. M!Leaf \ M!Range(mlog) = M!Leaf \ Range(mlog)
      BY DEF Range, M!Range
    <3> QED
      BY <1>3, <3>1 DEF M!MirrorGrows
  <2>1. CASE /\ \E n \in 0..MaxTreeSize : msourceSTHs' = msourceSTHs \cup {n}
             /\ mlog' = mlog /\ mroots' = mroots
    <3>1. msourceSTHs' \subseteq Nat
      <4>1. \A n \in 0..MaxTreeSize : n \in Nat
        BY BoundAssumption
      <4> QED
        BY <2>1, <4>1 DEF MirrorInv, MirrorTree
    <3>2. MirrorTree'
      BY <1>3, <2>1, <3>1 DEF MirrorInv, MirrorTree, M!MirrorGrows
    <3>3. UNCHANGED <<mpc, mreq, mrsp, mans>>
      BY <1>3 DEF M!MirrorGrows
    <3> QED
      BY <2>1, <3>2, <3>3 DEF MirrorInv, HandlerIsRight, RequestIsRight, ResponseIsRight, AnswerIsRight
  <2>2. CASE (\E l \in M!Leaf \ Range(mlog) : mlog' = Append(mlog, l)) /\ M!Publish(Len(mlog) + 1)
                /\ msourceSTHs' = msourceSTHs
    <3>1. PICK l \in M!Leaf : mlog' = Append(mlog, l)
      BY <2>2
    <3>2. Len(mlog') = Len(mlog) + 1
      BY <3>1 DEF MirrorInv, MirrorTree
    <3> QED
      BY <1>3, <2>2, <3>1, <3>2, MirrorPublishes DEF M!MirrorGrows
  <2> QED
    BY <2>0, <2>1, <2>2
<1> QED
  BY <1>1, <1>2, <1>3

\* A request arrives.
LEMMA MirrorReceives ==
    ASSUME MirrorInv, NEW h \in MirrorHandlers, M!Receive(h)
    PROVE  MirrorInv'
<1>1. UNCHANGED <<mlog, mroots, msourceSTHs>>
  BY DEF M!Receive, M!Refuse, M!AddChain, M!GetSTH, M!GetSTHConsistency, M!GetProofByHash,
         M!GetEntries, M!GetEntryAndProof, M!trillianVars
<1>2. CASE M!Refuse(h)
  BY <1>1, <1>2, AnswerStep, ErrorsAreRight DEF M!Refuse
<1>3. CASE M!AddChain(h)
  BY <1>3 DEF M!AddChain, M!Offered
<1>4. CASE M!GetSTH(h)
  <2>1. RequestIsRight([ep |-> "get-sth"])
    BY DEF RequestIsRight
  <2> QED
    BY <1>1, <1>4, <2>1, CallStep DEF M!GetSTH
<1>5. CASE M!GetSTHConsistency(h)
  <2>1. PICK first \in 0..(MaxInt - 2), second \in 0..(MaxInt - 2) :
          LET r == [ep |-> "get-sth-consistency", first |-> first, second |-> second] IN
          IF ~M!IsConsistencyRange(first, second) THEN M!Answer(h, M!Fail(400))
          ELSE IF first = 0 THEN M!Answer(h, [ep |-> r.ep, status |-> 200, req |-> r, proof |-> "empty"])
          ELSE M!Call(h, r)
    BY <1>5 DEF M!GetSTHConsistency
  <2>2. first \in Nat /\ second \in Nat
    BY BoundAssumption
  <2>3. PICK r : r = [ep |-> "get-sth-consistency", first |-> first, second |-> second]
    OBVIOUS
  <2>4. CASE ~M!IsConsistencyRange(first, second)
    BY <1>1, <2>1, <2>4, AnswerStep, ErrorsAreRight
  <2>5. CASE first = 0 /\ M!IsConsistencyRange(first, second)
    <3>1. AnswerIsRight([ep |-> r.ep, status |-> 200, req |-> r, proof |-> "empty"])
      BY <2>3, <2>5 DEF AnswerIsRight
    <3> QED
      BY <1>1, <2>1, <2>3, <2>5, <3>1, AnswerStep
  <2>6. CASE first # 0 /\ M!IsConsistencyRange(first, second)
    <3>1. RequestIsRight(r)
      BY <2>2, <2>3, <2>6 DEF RequestIsRight, M!IsConsistencyRange
    <3> QED
      BY <1>1, <2>1, <2>3, <2>6, <3>1, CallStep
  <2> QED
    BY <2>4, <2>5, <2>6
<1>6. CASE M!GetProofByHash(h)
  <2>1. PICK l \in M!Leaf, treeSize \in 0..(MaxInt - 2) :
          IF treeSize < 1 THEN M!Answer(h, M!Fail(400))
          ELSE M!Call(h, [ep |-> "get-proof-by-hash", leaf |-> l, treeSize |-> treeSize])
    BY <1>6 DEF M!GetProofByHash
  <2>2. treeSize \in Nat
    BY BoundAssumption
  <2>3. CASE treeSize < 1
    BY <1>1, <2>1, <2>3, AnswerStep, ErrorsAreRight
  <2>4. CASE ~(treeSize < 1)
    <3>1. RequestIsRight([ep |-> "get-proof-by-hash", leaf |-> l, treeSize |-> treeSize])
      BY <2>2, <2>4 DEF RequestIsRight
    <3> QED
      BY <1>1, <2>1, <2>4, <3>1, CallStep
  <2> QED
    BY <2>3, <2>4
<1>7. CASE M!GetEntries(h)
  <2>1. PICK start \in 0..(MaxInt - 2), end \in 0..(MaxInt - 2) :
          IF start > end THEN M!Answer(h, M!Fail(400))
          ELSE M!Call(h, [ep |-> "get-entries", start |-> start, asked |-> end,
                          count |-> M!Wrap(M!EntriesEnd(start, end) + 1 - start)])
    BY <1>7 DEF M!GetEntries
  <2>2. start \in Nat /\ end \in Nat
    BY BoundAssumption
  <2>3. CASE start > end
    BY <1>1, <2>1, <2>3, AnswerStep, ErrorsAreRight
  <2>4. CASE ~(start > end)
    <3>1. PICK number : number = M!Wrap(M!EntriesEnd(start, end) + 1 - start)
      OBVIOUS
    <3>2. /\ number \in Int
          /\ number <= MaxGetEntries
          /\ start + number - 1 <= end
          /\ Align /\ end - start + 1 >= MaxGetEntries => (start + number) % MaxGetEntries = 0
      BY <2>2, <2>4, <3>1, RangeIsRight
    <3>3. RequestIsRight([ep |-> "get-entries", start |-> start, asked |-> end, count |-> number])
      BY <2>2, <3>2 DEF RequestIsRight
    <3> QED
      BY <1>1, <2>1, <2>4, <3>1, <3>3, CallStep
  <2> QED
    BY <2>3, <2>4
<1>8. CASE M!GetEntryAndProof(h)
  <2>1. \A i, n : RequestIsRight([ep |-> "get-entry-and-proof", index |-> i, treeSize |-> n])
    BY DEF RequestIsRight
  <2> QED
    BY <1>1, <1>8, <2>1, CallStep, AnswerStep, ErrorsAreRight DEF M!GetEntryAndProof
<1> QED
  BY <1>2, <1>3, <1>4, <1>5, <1>6, <1>7, <1>8 DEF M!Receive

\* The RPC, and the answer.
LEMMA MirrorReads ==
    ASSUME MirrorInv, NEW h \in MirrorHandlers, M!Read(h)
    PROVE  MirrorInv'
<1>1. UNCHANGED <<mlog, mroots, msourceSTHs>>
  BY DEF M!Read, M!trillianVars
<1>2. /\ mpc[h] = "rpc" /\ RequestIsRight(mreq[h]) /\ AnswerIsRight(mans[h])
      /\ mlog \in Seq(M!Leaf)
      /\ DOMAIN mpc = MirrorHandlers /\ DOMAIN mreq = MirrorHandlers
      /\ DOMAIN mrsp = MirrorHandlers /\ DOMAIN mans = MirrorHandlers
  BY DEF M!Read, MirrorInv, MirrorTree, HandlerIsRight
<1>3. CASE M!BadCount(mreq[h])
  BY <1>1, <1>3, AnswerStep, ErrorsAreRight DEF M!Read
<1>4. CASE ~M!BadCount(mreq[h])
  <2>1. PICK b \in M!Responses(mreq[h]) : mrsp' = [mrsp EXCEPT ![h] = b]
    BY <1>4 DEF M!Read
  <2>2. /\ mpc' = [mpc EXCEPT ![h] = IF mreq[h].ep # "get-sth" THEN "reply" ELSE "mirror"]
        /\ mreq' = mreq /\ mans' = mans
    BY <1>4 DEF M!Read
  <2>3. PICK r, a : r = mreq[h] /\ a = mans[h]
    OBVIOUS
  <2>4. /\ mreq'[h] = r /\ mans'[h] = a /\ mrsp'[h] = b
        /\ mpc'[h] = IF r.ep # "get-sth" THEN "reply" ELSE "mirror"
    BY <1>2, <2>1, <2>2, <2>3
  <2>5. ResponseIsRight(r, b)
    BY <1>2, <1>4, <2>1, <2>3, RightResponses
  <2>6. r.ep = "get-sth" => b.root.size \in Nat /\ b.root.size <= Len(mlog)
    <3>1. Len(mroots) \in 1..Len(mroots) /\ M!LatestRoot \in Root /\ M!LatestRoot.size <= Len(mlog)
      BY DEF MirrorInv, MirrorTree, M!LatestRoot
    <3>2. r.ep = "get-sth" => b = [root |-> M!LatestRoot]
      BY <2>1, <2>3 DEF M!Responses
    <3> QED
      BY <3>1, <3>2 DEF Root
  <2>7. HandlerIsRight(IF r.ep # "get-sth" THEN "reply" ELSE "mirror", r, b, a)
    BY <1>2, <2>3, <2>5, <2>6 DEF HandlerIsRight
  <2>8. HandlerIsRight(mpc[h], mreq[h], mrsp[h], mans[h])'
    BY <1>1, <2>4, <2>7 DEF HandlerIsRight, RequestIsRight, ResponseIsRight, AnswerIsRight
  <2> QED
    BY <1>1, <1>2, <2>1, <2>2, <2>8, OneHandler
<1> QED
  BY <1>3, <1>4

\* What the handlers make of a right response is a right answer, or an error.
LEMMA RightReplies ==
    ASSUME mlog \in Seq(M!Leaf), NEW r, NEW b, RequestIsRight(r), ResponseIsRight(r, b)
    PROVE  /\ r.ep = "get-sth-consistency" => AnswerIsRight(M!ConsistencyReply(r, b))
           /\ r.ep = "get-proof-by-hash" => AnswerIsRight(M!ProofByHashReply(r, b))
           /\ r.ep = "get-entries" => AnswerIsRight(M!EntriesReply(r, b))
           /\ r.ep = "get-entry-and-proof" => AnswerIsRight(M!EntryAndProofReply(r, b))
<1>1. Len(mlog) \in Nat
  OBVIOUS
<1>2. ASSUME r.ep = "get-sth-consistency" PROVE AnswerIsRight(M!ConsistencyReply(r, b))
  <2> DEFINE a == [ep |-> r.ep, status |-> 200, req |-> r, proof |-> M!EmptyProof(b.proof)]
  <2>1. CASE b.size >= r.second /\ b.proof # "malformed"
    <3>1. /\ r.second \in Nat /\ r.second <= Len(mlog)
          /\ b.proof = ProofFor(r.first < r.second, "nil")
      BY <1>1, <1>2, <2>1 DEF RequestIsRight, ResponseIsRight
    <3>2. M!EmptyProof(b.proof) = ProofFor(r.first < r.second, "empty")
      BY <3>1 DEF M!EmptyProof, ProofFor
    <3>3. AnswerIsRight(a)
      BY <1>2, <3>1, <3>2 DEF AnswerIsRight
    <3>4. M!ConsistencyReply(r, b) = a
      BY <1>2, <2>1 DEF M!ConsistencyReply, M!CheckAuditPath, RequestIsRight, ResponseIsRight
    <3> QED
      BY <3>3, <3>4
  <2>2. CASE ~(b.size >= r.second /\ b.proof # "malformed")
    <3>1. M!ConsistencyReply(r, b) \in {M!Fail(400), M!Fail(500)}
      BY <1>2, <2>2 DEF M!ConsistencyReply, M!CheckAuditPath, RequestIsRight, ResponseIsRight
    <3> QED
      BY <3>1, ErrorsAreRight
  <2> QED
    BY <2>1, <2>2
<1>3. ASSUME r.ep = "get-proof-by-hash" PROVE AnswerIsRight(M!ProofByHashReply(r, b))
  <2> DEFINE a == [ep |-> r.ep, status |-> 200, req |-> r, index |-> b.index,
                   proof |-> M!EmptyProof(b.proof)]
  <2>1. CASE b.size >= r.treeSize /\ b.proof \notin {"none", "malformed"}
    <3>1. /\ r.treeSize \in Nat /\ r.treeSize <= Len(mlog)
          /\ b.index \in Nat /\ b.index < r.treeSize /\ mlog[b.index + 1] = r.leaf
          /\ b.proof = ProofFor(r.treeSize > 1, "nil")
      BY <1>1, <1>3, <2>1 DEF RequestIsRight, ResponseIsRight
    <3>2. M!EmptyProof(b.proof) = ProofFor(r.treeSize > 1, "empty")
      BY <3>1 DEF M!EmptyProof, ProofFor
    <3>3. AnswerIsRight(a)
      BY <1>3, <3>1, <3>2 DEF AnswerIsRight
    <3>4. M!ProofByHashReply(r, b) = a
      BY <1>3, <2>1 DEF M!ProofByHashReply, M!CheckAuditPath, RequestIsRight, ResponseIsRight
    <3> QED
      BY <3>3, <3>4
  <2>2. CASE ~(b.size >= r.treeSize /\ b.proof \notin {"none", "malformed"})
    <3>1. M!ProofByHashReply(r, b) \in {M!Fail(404), M!Fail(500)}
      BY <1>3, <2>2 DEF M!ProofByHashReply, M!CheckAuditPath, RequestIsRight, ResponseIsRight
    <3> QED
      BY <3>1, ErrorsAreRight
  <2> QED
    BY <2>1, <2>2
<1>4. ASSUME r.ep = "get-entries" PROVE AnswerIsRight(M!EntriesReply(r, b))
  <2> DEFINE ok == /\ b.size > r.start /\ Len(b.leaves) <= r.count
                   /\ \A i \in DOMAIN b.leaves : b.leaves[i].index = r.start + i - 1
             page == [i \in DOMAIN b.leaves |-> b.leaves[i].leaf]
             a == [ep |-> r.ep, status |-> 200, req |-> r, entries |-> page]
  <2>1. CASE ok
    <3>1. /\ r.start \in Nat /\ r.asked \in Nat /\ r.count \in Int /\ r.count <= MaxGetEntries
          /\ r.start + r.count - 1 <= r.asked
          /\ Align /\ r.asked - r.start + 1 >= MaxGetEntries =>
               (r.start + r.count) % MaxGetEntries = 0
      BY <1>4 DEF RequestIsRight
    <3>2. PICK n \in Nat \ {0} : n = Len(b.leaves) /\ DOMAIN b.leaves = 1..n /\ n <= r.count
      BY <1>4, <2>1 DEF ResponseIsRight
    <3>3. \A i \in 1..n : /\ r.start + i - 1 < Len(mlog)
                          /\ b.leaves[i].leaf = mlog[r.start + i - 1 + 1]
      BY <1>4, <2>1, <3>2 DEF ResponseIsRight
    <3>4. \A i \in 1..n : b.leaves[i].leaf = mlog[r.start + i] /\ r.start + i \in 1..Len(mlog)
      <4> SUFFICES ASSUME NEW i \in 1..n
                   PROVE  b.leaves[i].leaf = mlog[r.start + i] /\ r.start + i \in 1..Len(mlog)
        OBVIOUS
      <4>1. r.start + i - 1 + 1 = r.start + i /\ r.start + i - 1 < Len(mlog)
        BY <3>1, <3>2, <3>3
      <4>2. b.leaves[i].leaf = mlog[r.start + i]
        <5>1. b.leaves[i].leaf = mlog[r.start + i - 1 + 1]
          BY <3>3
        <5> QED
          BY <4>1, <5>1
      <4>3. r.start + i \in 1..Len(mlog)
        BY <1>1, <3>1, <3>2, <4>1
      <4> QED
        BY <4>2, <4>3
    <3>5. page = [i \in 1..n |-> mlog[r.start + i]]
      BY <3>2, <3>4
    <3>6. Len(page) = n
      <4>1. \A i \in 1..n : mlog[r.start + i] \in M!Leaf
        BY <3>4
      <4>2. [i \in 1..n |-> mlog[r.start + i]] \in Seq(M!Leaf)
        BY <3>2, <4>1
      <4>3. DOMAIN [i \in 1..n |-> mlog[r.start + i]] = 1..n
        OBVIOUS
      <4> HIDE DEF page
      <4> QED
        BY <3>2, <3>5, <4>2, <4>3
    <3>7. r.start + n <= Len(mlog)
      <4>1. n \in 1..n
        BY <3>2
      <4>2. r.start + n \in 1..Len(mlog)
        BY <3>4, <4>1
      <4> QED
        BY <1>1, <4>2
    <3> HIDE DEF page
    <3>8. AnswerIsRight(a)
      BY <1>1, <1>4, <3>1, <3>2, <3>5, <3>6, <3>7, EntriesAssumption, SMTT(40) DEF AnswerIsRight
    <3>9. M!EntriesReply(r, b) = a
      BY <1>4, <2>1, <3>1, <3>2 DEF M!EntriesReply, M!MarshalGetEntriesResponse, ResponseIsRight, page
    <3> QED
      BY <3>8, <3>9
  <2>2. CASE ~ok
    <3>1. M!EntriesReply(r, b) \in {M!Fail(400), M!Fail(500)}
      BY <1>1, <1>4, <2>2 DEF M!EntriesReply, RequestIsRight, ResponseIsRight
    <3> QED
      BY <3>1, ErrorsAreRight
  <2> QED
    BY <2>1, <2>2
<1>5. ASSUME r.ep = "get-entry-and-proof" PROVE AnswerIsRight(M!EntryAndProofReply(r, b))
  BY <1>5, ErrorsAreRight DEF M!EntryAndProofReply, AnswerIsRight
<1> QED
  BY <1>2, <1>3, <1>4, <1>5

\* The other steps of a handler; those that sign are not a mirror's.
LEMMA MirrorAnswers ==
    ASSUME MirrorInv, NEW h \in MirrorHandlers, M!HandlerStep(h), ~M!Read(h)
    PROVE  MirrorInv'
<1>1. UNCHANGED <<mlog, mroots, msourceSTHs>>
  BY DEF M!HandlerStep, M!QueueLeaf, M!RPCFails, M!ReplySCT, M!Reply, M!GetMirrorSTH,
         M!LookupSignature, M!Sign, M!SetSignature, M!trillianVars
<1>2. /\ HandlerIsRight(mpc[h], mreq[h], mrsp[h], mans[h]) /\ mlog \in Seq(M!Leaf)
      /\ DOMAIN mpc = MirrorHandlers /\ DOMAIN mreq = MirrorHandlers
      /\ DOMAIN mrsp = MirrorHandlers /\ DOMAIN mans = MirrorHandlers
  BY DEF MirrorInv, MirrorTree
<1>3. CASE M!QueueLeaf(h)
  <2>1. CASE \E code \in M!FailureCodes : M!Answer(h, M!Fail(M!ToHTTPStatus(code)))
    BY <1>1, <2>1, AnswerStep, ErrorsAreRight
  <2>2. CASE /\ mpc' = [mpc EXCEPT ![h] = "reply"] /\ mreq' = mreq /\ mans' = mans
             /\ \E b : mrsp' = [mrsp EXCEPT ![h] = b]
    <3>1. PICK b : mrsp' = [mrsp EXCEPT ![h] = b]
      BY <2>2
    <3>2. PICK r, a : r = mreq[h] /\ a = mans[h]
      OBVIOUS
    <3>3. mpc'[h] = "reply" /\ mreq'[h] = r /\ mrsp'[h] = b /\ mans'[h] = a
      BY <1>2, <2>2, <3>1, <3>2
    <3>4. r.ep \in AddEndpoints /\ AnswerIsRight(a)
      BY <1>2, <1>3, <3>2 DEF M!QueueLeaf, HandlerIsRight, AddEndpoints
    <3>5. HandlerIsRight("reply", r, b, a)
      BY <3>4 DEF HandlerIsRight, RequestIsRight, ResponseIsRight, AddEndpoints
    <3>6. HandlerIsRight(mpc[h], mreq[h], mrsp[h], mans[h])'
      BY <1>1, <3>3, <3>5 DEF HandlerIsRight, RequestIsRight, ResponseIsRight, AnswerIsRight
    <3> QED
      BY <1>1, <1>2, <2>2, <3>1, <3>6, OneHandler
  <2> QED
    BY <1>3, <2>1, <2>2 DEF M!QueueLeaf
<1>4. CASE M!RPCFails(h)
  BY <1>1, <1>4, AnswerStep, ErrorsAreRight DEF M!RPCFails
<1>5. CASE M!ReplySCT(h)
  <2>1. mreq[h].ep \in AddEndpoints
    BY <1>5 DEF M!ReplySCT, AddEndpoints
  <2>2. \A sct : AnswerIsRight([ep |-> mreq[h].ep, status |-> 200, sct |-> sct])
    BY <2>1 DEF AnswerIsRight, AddEndpoints
  <2> QED
    BY <1>1, <1>5, <2>2, AnswerStep, ErrorsAreRight DEF M!ReplySCT
<1>6. CASE M!Reply(h)
  <2>1. RequestIsRight(mreq[h]) /\ ResponseIsRight(mreq[h], mrsp[h])
    BY <1>2, <1>6 DEF M!Reply, HandlerIsRight
  <2>2. PICK a : M!Answer(h, a) /\ AnswerIsRight(a)
    BY <1>2, <1>6, <2>1, RightReplies DEF M!Reply
  <2> QED
    BY <1>1, <2>2, AnswerStep
<1>7. CASE M!GetMirrorSTH(h)
  <2>1. CASE M!Answer(h, M!Fail(500))
    BY <1>1, <2>1, AnswerStep, ErrorsAreRight
  <2>2. CASE \E n \in {m \in msourceSTHs : m <= mrsp[h].root.size} :
               M!ReplySTH(h, [size |-> n, ts |-> n], [size |-> n, ts |-> n])
    <3>1. PICK n \in msourceSTHs : /\ n <= mrsp[h].root.size
                                   /\ M!ReplySTH(h, [size |-> n, ts |-> n], [size |-> n, ts |-> n])
      BY <2>2
    <3>2. mrsp[h].root.size \in Nat /\ mrsp[h].root.size <= Len(mlog) /\ n \in Nat /\ Len(mlog) \in Nat
      BY <1>2, <1>7 DEF M!GetMirrorSTH, HandlerIsRight, MirrorInv, MirrorTree
    <3>3. n <= Len(mlog)
      BY <3>1, <3>2
    <3>4. AnswerIsRight([ep |-> "get-sth", status |-> 200, sth |-> [size |-> n, ts |-> n],
                         sig |-> [size |-> n, ts |-> n]])
      BY <3>2, <3>3 DEF AnswerIsRight
    <3> QED
      BY <1>1, <3>1, <3>4, AnswerStep DEF M!ReplySTH
  <2> QED
    BY <1>7, <2>1, <2>2 DEF M!GetMirrorSTH
<1>8. CASE M!LookupSignature(h) \/ M!Sign(h) \/ M!SetSignature(h)
  BY <1>2, <1>8 DEF M!LookupSignature, M!Sign, M!SetSignature, HandlerIsRight
<1> QED
  BY <1>3, <1>4, <1>5, <1>6, <1>7, <1>8 DEF M!HandlerStep

LEMMA NextMirrorInv == MirrorInv /\ [M!Next]_(M!vars) => MirrorInv'
<1> SUFFICES ASSUME MirrorInv, [M!Next]_(M!vars) PROVE MirrorInv'
  OBVIOUS
<1>1. CASE M!Next
  BY <1>1, MirrorBackend, MirrorReceives, MirrorReads, MirrorAnswers DEF M!Next, M!HandlerStep
<1>2. CASE UNCHANGED M!vars
  <2>1. UNCHANGED <<mlog, mroots, msourceSTHs, mpc, mreq, mrsp, mans>>
    BY <1>2 DEF M!vars, M!trillianVars
  <2> QED
    BY <2>1 DEF MirrorInv, MirrorTree, HandlerIsRight, RequestIsRight, ResponseIsRight, AnswerIsRight
<1> QED
  BY <1>1, <1>2

\* The invariant about what is read holds of every mirror.
THEOREM MirrorInvHolds == M!Spec => []MirrorInv
BY InitMirrorInv, NextMirrorInv, PTL DEF M!Spec

\* A mirror serves no head whose entries it does not store yet, in whatever order the
\* heads and the entries of its source arrive (sth.go, MirrorSTHGetter.GetSTH).
THEOREM MirrorServesWhatItStores == M!Spec => []MirrorHeadsAreStored
<1>1. MirrorInv => MirrorHeadsAreStored
  BY DEF MirrorInv, HandlerIsRight, AnswerIsRight, MirrorHeadsAreStored, M!HeadsAreStored, M!OK
<1> QED
  BY <1>1, MirrorInvHolds, PTL

\* Proofs and entries that are answered are right for any number of concurrent requests
\* of any parameters, any limit on get-entries, aligned or not, and a backend that
\* answers nonsense now and then (handlers.go: getSTHConsistency, getProofByHash,
\* parseGetEntriesRange, getEntries).
THEOREM MirrorReadsAreRight == M!Spec => []ReadsAreRight
<1>1. ASSUME MirrorInv PROVE ReadsAreRight
  <2>1. ASSUME NEW h \in MirrorHandlers PROVE AnswerIsRight(mans[h])
    BY <1>1 DEF MirrorInv, HandlerIsRight
  <2>2. M!ProofsHold
    BY <2>1 DEF M!ProofsHold, M!OK, AnswerIsRight, ProofFor
  <2>3. M!EntriesHold
    <3> SUFFICES ASSUME NEW h \in MirrorHandlers, M!OK(h, "get-entries")
                 PROVE  LET r == mans[h].req  n == Len(mans[h].entries) IN
                        /\ n >= 1
                        /\ n <= MaxGetEntries
                        /\ r.start + n - 1 <= r.asked
                        /\ mans[h].entries = SubSeq(mlog, r.start + 1, r.start + n)
                        /\ Align /\ r.asked - r.start + 1 >= MaxGetEntries =>
                             (r.start + r.count) % MaxGetEntries = 0
      BY DEF M!EntriesHold
    <3> DEFINE start == mans[h].req.start
               n == Len(mans[h].entries)
    <3>1. /\ start \in Nat /\ n \in Nat \ {0} /\ start + n <= Len(mlog)
          /\ mans[h].entries = [i \in 1..n |-> mlog[start + i]]
      BY <2>1 DEF AnswerIsRight, M!OK
    <3>2. mlog \in Seq(M!Leaf)
      BY <1>1 DEF MirrorInv, MirrorTree
    <3>3. mans[h].entries = SubSeq(mlog, start + 1, start + n)
      <4> HIDE DEF start, n
      <4>1. SubSeq(mlog, start + 1, start + n) = [i \in 1..n |-> mlog[start + i]]
        BY <3>1, <3>2, Slice
      <4> QED
        BY <3>1, <4>1
    <3> QED
      BY <2>1, <3>1, <3>3 DEF AnswerIsRight, M!OK
  <2> QED
    BY <2>2, <2>3 DEF ReadsAreRight
<1> QED
  BY <1>1, MirrorInvHolds, PTL
=============================================================================
