------------------------------- MODULE Hammer -------------------------------
(***************************************************************************)
(* The load test of trillian/integration: HammerCTLog performs random      *)
(* operations on a Log and complains about every answer a Log should not   *)
(* give (hammer.go), and CopyChainGenerator feeds it with chains from      *)
(* another Log that goes on growing (copier.go).                           *)
(*                                                                         *)
(* The Log under test is external and keeps its promises: what it signed   *)
(* an SCT for is in its tree head MMD later, heads only grow, a chain it   *)
(* has already is answered with the SCT it got first, and requests are     *)
(* answered as the personality does (module CTFE).  Requests may fail.     *)
(***************************************************************************)
EXTENDS Integers, Sequences, SequencesExt

CONSTANTS
    Source,             \* entries of the source Log, repeated for ever
    TargetRoots, NotAfterStart, NotAfterLimit,  \* what the Log under test accepts
    Existing,           \* trees it may begin with
    MMD, SctCount, SthCount, InvalidStretch,
    MaxParallelChains, GetEntriesCounts,        \* and MinGetEntries..(MaxGetEntries - 1)
    Bias, InvalidChance,    \* entrypoints with a bias, with a chance of invalid requests
    DuplicateChance, StrictSTHConsistencySize, OversizedGetEntries,
    Operations,
    MaxRetries,         \* tries before MaxRetryDuration is over; 0 without IgnoreErrors
    MaxTime,            \* bound: the clock of the Log under test
    Nil                 \* no chain, no STH

VARIABLES
    pos, drained,       \* CopyChainGenerator, for each kind: the next entry, the end of the chains
    now, entries, size, \* the Log: its clock, what it gave SCTs for, the size of its head
    firstChain, firstChainIntegrated, sth, pending, nextOp,     \* hammerState
    op, tries, adders,  \* the operation under way, its tries, the goroutines of addMultiple
    count, cancelled, outcome,  \* HammerCTLog: its loop, the context, what it returned
    complaint           \* an error that is not one of a request that failed

genVars == <<pos, drained>>
logVars == <<now, entries, size>>
chainVars == <<firstChain, firstChainIntegrated>>
opVars == <<op, tries, adders>>
endVars == <<count, cancelled, outcome>>
vars == <<genVars, logVars, chainVars, sth, pending, nextOp, opVars, endVars, complaint>>

Kinds == {"cert", "precert"}
KindOf == [AddChain |-> "cert", AddPreChain |-> "precert"]
Idle == [at |-> "idle"]
Entrypoints ==
    {"AddChain", "AddPreChain", "GetSTH", "GetSTHConsistency", "GetProofByHash", "GetEntries", "GetRoots", "GetEntryAndProof"}

\* What the hammer relies on: its operations are those of the personality, chains of the
\* source have an intermediate that the root did not issue or none, and the source has
\* fewer entries than the hammer goes beyond the tree for requests out of range.
Known == UNION {Range(tree) : tree \in Existing}
WellFormed ==
    /\ Source \in Seq(Range(Source)) /\ Len(Source) <= InvalidStretch - 4
    /\ \A j \in DOMAIN Source : Source[j].chain \in Nat \ {1}
    /\ Existing \subseteq Seq(Known) /\ \A leaf \in Known : leaf.timestamp \in Nat
    /\ {MMD, InvalidStretch, SthCount} \subseteq Nat /\ SthCount > 0 /\ GetEntriesCounts \subseteq Nat
    /\ Bias \subseteq Entrypoints

Init ==
    /\ pos = [k \in Kinds |-> 0] /\ drained = [k \in Kinds |-> FALSE]
    /\ now = 0 /\ entries \in Existing /\ size = Len(entries)
    /\ firstChain = [k \in Kinds |-> Nil] /\ firstChainIntegrated = [k \in Kinds |-> 0]
    /\ sth = [i \in 1..SthCount |-> Nil] /\ pending = <<>> /\ nextOp = <<>>
    /\ op = Idle /\ tries = 0 /\ adders = <<>>
    /\ count = 1 /\ cancelled = FALSE /\ outcome = "running" /\ complaint = FALSE

----------------------------------------------------------------------------
(* CopyChainGenerator.                                                     *)

Entry(i) == Source[(i % Len(Source)) + 1]

\* Mutant: a certificate that expires at the limit is copied.
SuitableMutant(e, kind) ==
    /\ e.decodes /\ e.kind = kind
    /\ e.rootParses /\ e.root \in TargetRoots
    /\ e.leafParses /\ e.notAfter >= NotAfterStart /\ e.notAfter <= NotAfterLimit

\* What processBatch skips; an entry without a chain makes it panic.
Suitable(e, kind) ==
    /\ e.decodes /\ e.kind = kind
    /\ e.rootParses /\ e.root \in TargetRoots
    /\ e.leafParses /\ e.notAfter >= NotAfterStart /\ e.notAfter < NotAfterLimit

ChainOf(e) == [cert |-> e.cert, kind |-> e.kind, root |-> e.root, notAfter |-> e.notAfter, len |-> e.chain + 1]

\* A Fetcher's callback skips entries up to one that is suitable, and its
\* chain is in the channel or on its way there until the Fetcher has ended.
processBatch(kind) ==
    CHOOSE i \in pos[kind]..(pos[kind] + Len(Source) - 1) :
        /\ Suitable(Entry(i), kind)
        /\ \A j \in pos[kind]..(i - 1) : ~Suitable(Entry(j), kind)

NextChain(kind) == ChainOf(Entry(processBatch(kind)))

\* CertChain and PreCertChain wait for a chain: the channels are never closed.
Generates(kind) == ~drained[kind] /\ \E j \in DOMAIN Source : Suitable(Source[j], kind)
Generate(kind) == pos' = [pos EXCEPT ![kind] = (processBatch(kind) + 1) % Len(Source)] /\ UNCHANGED drained

\* The Fetcher has seen that the context is done, and the channel is empty.
Drain(kind) ==
    /\ outcome = "running" /\ cancelled /\ ~drained[kind]
    /\ drained' = [drained EXCEPT ![kind] = TRUE]
    /\ UNCHANGED <<pos, logVars, chainVars, sth, pending, nextOp, opVars, endVars, complaint>>

----------------------------------------------------------------------------
(* The Log under test.                                                     *)

Accepts(kind, chain) ==
    chain.kind = kind /\ chain.root \in TargetRoots /\ chain.notAfter >= NotAfterStart /\ chain.notAfter < NotAfterLimit

Logged(cert) == {i \in DOMAIN entries : entries[i].cert = cert}
AnswersConsistency(first, second) == 0 <= first /\ first <= second /\ second <= size
AnswersProof(leaf, treeSize) == treeSize <= size /\ \E i \in 1..treeSize : entries[i] = leaf
AnswersEntries(first, last) == 0 <= first /\ first <= last /\ first < size

Merge ==
    /\ outcome = "running" /\ ~cancelled /\ size < Len(entries) /\ size' = size + 1
    /\ UNCHANGED <<genVars, now, entries, chainVars, sth, pending, nextOp, opVars, endVars, complaint>>

\* Time goes on when nothing is overdue.
Tick ==
    /\ outcome = "running" /\ ~cancelled /\ now < MaxTime /\ \A i \in (size + 1)..Len(entries) : now < entries[i].timestamp + MMD
    /\ now' = now + 1
    /\ UNCHANGED <<genVars, entries, size, chainVars, sth, pending, nextOp, opVars, endVars, complaint>>

Cancel ==
    /\ outcome = "running" /\ ~cancelled /\ cancelled' = TRUE
    /\ UNCHANGED <<genVars, logVars, chainVars, sth, pending, nextOp, opVars, count, outcome, complaint>>

----------------------------------------------------------------------------
(* pendingCerts: the array is dense from its beginning.                    *)

canAppend ==
    /\ Len(pending) < SctCount
    /\ pending # <<>> => now > Last(pending).leaf.timestamp + MMD \div SctCount

oldestIfMMDPassed == IF pending # <<>> /\ now > pending[1].integrateBy THEN pending[1] ELSE Nil

----------------------------------------------------------------------------
(* retryOneOp.  An operation ends with nil or errSkip, or with an error.   *)

Done == op' = Idle /\ tries' = 0 /\ adders' = <<>> /\ UNCHANGED <<outcome, complaint>>
Stops == op' = Idle /\ tries' = 0 /\ adders' = <<>> /\ outcome' = "error" /\ UNCHANGED complaint

\* An error ends HammerCTLog, or the operation is tried again until the
\* deadline has passed.
Fails(ep, isComplaint) ==
    /\ complaint' = (complaint \/ isComplaint)
    /\ adders' = <<>>
    /\ \/ op' = Idle /\ outcome' = "error" /\ UNCHANGED tries
       \/ tries < MaxRetries /\ ~cancelled /\ op' = [at |-> ep] /\ tries' = tries + 1 /\ UNCHANGED outcome

\* A call with a context that is done returns its error, another may fail.
RequestFails(ep) == Fails(ep, FALSE)

chooseOp ==
    /\ op = Idle /\ outcome = "running" /\ ~cancelled /\ count < Operations
    /\ count' = count + 1
    /\ nextOp' = IF nextOp = <<>> THEN <<>> ELSE Tail(nextOp)
    /\ \/ /\ nextOp # <<>> /\ Head(nextOp) \in Bias
          /\ op' = [at |-> Head(nextOp)]
       \/ /\ nextOp # <<>> => Head(nextOp) \notin Bias
          /\ \E ep \in Bias : op' = [at |-> ep] \/ (ep \in InvalidChance /\ op' = [at |-> "invalid", ep |-> ep])
    /\ UNCHANGED <<genVars, logVars, chainVars, sth, pending, tries, adders, cancelled, outcome, complaint>>

\* After an operation the context is looked at.
Return ==
    /\ op = Idle /\ outcome = "running" /\ (cancelled \/ count = Operations)
    /\ outcome' = IF cancelled THEN "error" ELSE "completed"
    /\ UNCHANGED <<genVars, logVars, chainVars, sth, pending, nextOp, opVars, count, cancelled, complaint>>

\* Before every try the context is looked at, too.
ContextDone ==
    /\ op.at \in Bias /\ cancelled /\ Stops
    /\ UNCHANGED <<genVars, logVars, chainVars, sth, pending, nextOp, count, cancelled>>

\* get-roots changes nothing; get-entry-and-proof is not implemented.
getRoots ==
    /\ op.at \in {"GetRoots", "GetEntryAndProof"}
    /\ \/ ~cancelled /\ Done
       \/ op.at = "GetRoots" /\ RequestFails(op.at)
    /\ UNCHANGED <<genVars, logVars, chainVars, sth, pending, nextOp, count, cancelled>>

----------------------------------------------------------------------------
(* addChain and addPreChain, several at a time.                            *)

addMultiple ==
    /\ op.at \in DOMAIN KindOf
    /\ \E n \in 1..MaxParallelChains : adders' = [i \in 1..n |-> [at |-> "get"]]
    /\ op' = [at |-> "adding", ep |-> op.at, kind |-> KindOf[op.at]]
    /\ UNCHANGED <<genVars, logVars, chainVars, sth, pending, nextOp, tries, endVars, complaint>>

\* getChain and getPreChain: the first chain is sent again only when it
\* should be in the tree.
GetAny(i, k) ==
    /\ op.at = "adding" /\ op.kind = k /\ adders[i].at = "get"
    /\ \/ /\ Generates(k) /\ Generate(k)
          /\ firstChain' = [firstChain EXCEPT ![k] = IF @ = Nil THEN NextChain(k) ELSE @]
          /\ firstChainIntegrated' = [firstChainIntegrated EXCEPT ![k] = IF firstChain[k] = Nil THEN now + MMD ELSE @]
          /\ adders' = [adders EXCEPT ![i] = [at |-> "post", chain |-> NextChain(k)]]
       \/ /\ DuplicateChance /\ firstChain[k] # Nil /\ now >= firstChainIntegrated[k]
          /\ adders' = [adders EXCEPT ![i] = [at |-> "post", chain |-> firstChain[k]]]
          /\ UNCHANGED <<genVars, chainVars>>
    /\ UNCHANGED <<logVars, sth, pending, nextOp, op, tries, endVars, complaint>>

getChain(i) == GetAny(i, "cert")
getPreChain(i) == GetAny(i, "precert")

\* The Log answers with the SCT of the entry it has, or makes one.
AddAny(i, kind) ==
    LET chain == adders[i].chain
        old == Logged(chain.cert)
        Got(leaf) == adders' = [adders EXCEPT ![i] = [at |-> "append", leaf |-> leaf]]
        leaf == [cert |-> chain.cert, timestamp |-> now]
    IN /\ op.at = "adding" /\ op.kind = kind /\ adders[i].at = "post"
       /\ \/ /\ ~cancelled /\ Accepts(kind, chain) /\ old # {}
             /\ Got(entries[CHOOSE j \in old : TRUE]) /\ UNCHANGED entries
          \/ /\ ~cancelled /\ Accepts(kind, chain) /\ old = {}
             /\ Got(leaf) /\ entries' = Append(entries, leaf)
          \/ /\ adders' = [adders EXCEPT ![i] = [at |-> "failed", refused |-> ~Accepts(kind, chain)]]
             /\ UNCHANGED entries
       /\ UNCHANGED <<genVars, now, size, chainVars, sth, pending, nextOp, op, tries, endVars, complaint>>

addChain(i) == AddAny(i, "cert")
addPreChain(i) == AddAny(i, "precert")

tryAppendCert(i) ==
    LET leaf == adders[i].leaf
    IN /\ op.at = "adding" /\ adders[i].at = "append"
       /\ pending' = IF canAppend THEN Append(pending, [leaf |-> leaf, integrateBy |-> leaf.timestamp + MMD]) ELSE pending
       /\ adders' = [adders EXCEPT ![i] = [at |-> "ok"]]
       /\ UNCHANGED <<genVars, logVars, chainVars, sth, nextOp, op, tries, endVars, complaint>>

\* The first error, if any, is returned.
AddsDone ==
    /\ op.at = "adding" /\ \A i \in DOMAIN adders : adders[i].at \in {"ok", "failed"}
    /\ \/ (\A i \in DOMAIN adders : adders[i].at = "ok") /\ Done
       \/ \E i \in DOMAIN adders : adders[i].at = "failed" /\ Fails(op.ep, adders[i].refused)
    /\ UNCHANGED <<genVars, logVars, chainVars, sth, pending, nextOp, count, cancelled>>

----------------------------------------------------------------------------
(* Tree heads and proofs.                                                  *)

\* The heads are shuffled along before the request: a failed one leaves a
\* hole at the front.
getSTH ==
    /\ op.at = "GetSTH"
    /\ \/ ~cancelled /\ sth' = <<size>> \o Front(sth) /\ Done
       \/ sth' = <<Nil>> \o Front(sth) /\ RequestFails("GetSTH")
    /\ UNCHANGED <<genVars, logVars, chainVars, pending, nextOp, count, cancelled>>

lastTreeSize == IF sth[1] = Nil THEN 0 ELSE sth[1]

\* chooseSTHs of a current head: an earlier one, or what it needs instead.
Needs(which, sthNow) ==
    IF sth[which] = Nil THEN <<"GetSTH">>
    ELSE IF sth[which] \in {0, sthNow} THEN <<"AddChain", "GetSTH">> ELSE <<>>

chooseSTHs ==
    /\ op.at = "GetSTHConsistency"
    /\ \/ /\ ~cancelled
          /\ \E which \in 1..SthCount :
               LET needs == Needs(which, size)
                   Compare(old, invented) ==
                     op' = [at |-> "consistency", old |-> old, sthNow |-> size, invented |-> invented]
                       /\ UNCHANGED <<tries, adders, outcome, complaint>>
               IN /\ nextOp' = nextOp \o needs
                  /\ \/ needs = <<>> /\ Compare(sth[which], FALSE)
                     \/ needs # <<>> /\ (StrictSTHConsistencySize \/ size < 2) /\ Done
                     \/ needs # <<>> /\ ~StrictSTHConsistencySize /\ size >= 2 /\ \E old \in 1..size : Compare(old, TRUE)
       \/ RequestFails("GetSTHConsistency") /\ UNCHANGED nextOp
    /\ UNCHANGED <<genVars, logVars, chainVars, sth, pending, count, cancelled>>

\* A proof between heads of the Log is checked.
getSTHConsistency ==
    /\ op.at = "consistency"
    /\ \/ ~cancelled /\ AnswersConsistency(op.old, op.sthNow) /\ Done
       \/ RequestFails("GetSTHConsistency")
       \/ ~cancelled /\ ~AnswersConsistency(op.old, op.sthNow) /\ Fails("GetSTHConsistency", TRUE)
    /\ UNCHANGED <<genVars, logVars, chainVars, sth, pending, nextOp, count, cancelled>>

ProofHead ==
    /\ op.at = "GetProofByHash"
    /\ \/ oldestIfMMDPassed = Nil /\ Done
       \/ oldestIfMMDPassed # Nil /\ ~cancelled /\ op' = [at |-> "proof", submitted |-> oldestIfMMDPassed, size |-> size]
            /\ UNCHANGED <<tries, adders, outcome, complaint>>
       \/ oldestIfMMDPassed # Nil /\ RequestFails("GetProofByHash")
    /\ UNCHANGED <<genVars, logVars, chainVars, sth, pending, nextOp, count, cancelled>>

\* Once the proof is verified, dropOldest makes room.
getProofByHash ==
    LET ok == AnswersProof(op.submitted.leaf, op.size)
    IN /\ op.at = "proof"
       /\ \/ ~cancelled /\ ok /\ pending' = Tail(pending) /\ Done
          \/ RequestFails("GetProofByHash") /\ UNCHANGED pending
          \/ ~cancelled /\ ~ok /\ Fails("GetProofByHash", TRUE) /\ UNCHANGED pending
       /\ UNCHANGED <<genVars, logVars, chainVars, sth, nextOp, count, cancelled>>

getEntries ==
    /\ op.at = "GetEntries"
    /\ \/ sth[1] = Nil /\ nextOp' = Append(nextOp, "GetSTH") /\ Done
       \/ /\ sth[1] = 0
          /\ nextOp' = nextOp \o (IF pending = <<>> THEN <<"AddChain", "GetSTH">> ELSE <<"GetSTH">>)
          /\ Done
       \/ /\ lastTreeSize > 0
          /\ \E first \in 0..(lastTreeSize - 1), n \in GetEntriesCounts :
               LET last == IF ~OversizedGetEntries /\ first + n >= lastTreeSize THEN lastTreeSize - 1 ELSE first + n
               IN \/ ~cancelled /\ AnswersEntries(first, last) /\ Done
                  \/ RequestFails("GetEntries")
                  \/ ~cancelled /\ ~AnswersEntries(first, last) /\ Fails("GetEntries", TRUE)
          /\ UNCHANGED nextOp
    /\ UNCHANGED <<genVars, logVars, chainVars, sth, pending, count, cancelled>>

----------------------------------------------------------------------------
(* Requests that the Log has to refuse; an answer is a complaint.          *)

Expect(refused) ==
    \/ Done
    \/ ~cancelled /\ ~refused /\ complaint' = TRUE /\ op' = Idle /\ outcome' = "error" /\ UNCHANGED <<tries, adders>>

\* An empty chain, one of the other kind, one without its second certificate,
\* which a root has issued if the chain has only two, and garbage.
AddInvalid(ep) ==
    /\ op.at = "invalid" /\ op.ep = ep
    /\ LET kind == KindOf[ep]
           Other == CHOOSE k \in Kinds : k # kind
       IN \/ Expect(TRUE) /\ UNCHANGED genVars
          \/ Generates(Other) /\ Generate(Other) /\ Expect(~Accepts(kind, NextChain(Other)))
          \/ /\ Generates(kind) /\ Generate(kind)
             /\ \/ Expect(~(NextChain(kind).len = 2 /\ Accepts(kind, NextChain(kind))))
                \/ Expect(TRUE)
    /\ UNCHANGED <<logVars, chainVars, sth, pending, nextOp, count, cancelled>>

addChainInvalid == AddInvalid("AddChain")
addPreChainInvalid == AddInvalid("AddPreChain")

\* Too large, negative, malformed or inverted parameters.
getSTHConsistencyInvalid ==
    /\ op.at = "invalid" /\ op.ep = "GetSTHConsistency"
    /\ \/ lastTreeSize = 0 /\ Done /\ UNCHANGED nextOp
       \/ /\ lastTreeSize > 0 /\ UNCHANGED nextOp
          /\ Expect(~AnswersConsistency(lastTreeSize + InvalidStretch, lastTreeSize + InvalidStretch + 100))
       \/ lastTreeSize > 0 /\ Expect(~AnswersConsistency(-3, -1)) /\ UNCHANGED nextOp
       \/ /\ lastTreeSize > 0 /\ ~cancelled
          /\ \E which \in 1..SthCount :
               /\ nextOp' = nextOp \o Needs(which, size)
               /\ IF Needs(which, size) # <<>> THEN Done ELSE Expect(~AnswersConsistency(size, sth[which]))
       \/ lastTreeSize > 0 /\ Stops /\ UNCHANGED nextOp
    /\ UNCHANGED <<genVars, logVars, chainVars, sth, pending, count, cancelled>>

getProofByHashInvalid ==
    /\ op.at = "invalid" /\ op.ep = "GetProofByHash"
    /\ \/ lastTreeSize = 0 /\ Done
       \/ lastTreeSize > 0 /\ Expect(TRUE)
       \/ lastTreeSize > 0 /\ oldestIfMMDPassed = Nil /\ Done
       \/ /\ lastTreeSize > 0 /\ oldestIfMMDPassed # Nil
          /\ Expect(~AnswersProof(oldestIfMMDPassed.leaf, lastTreeSize + InvalidStretch))
    /\ UNCHANGED <<genVars, logVars, chainVars, sth, pending, nextOp, count, cancelled>>

getEntriesInvalid ==
    /\ op.at = "invalid" /\ op.ep = "GetEntries"
    /\ \/ lastTreeSize = 0 /\ Done
       \/ lastTreeSize > 0 /\ \E r \in {<<lastTreeSize + InvalidStretch - 4, lastTreeSize + InvalidStretch>>, <<-2, 10>>, <<10, 5>>} :
            Expect(~AnswersEntries(r[1], r[2]))
    /\ UNCHANGED <<genVars, logVars, chainVars, sth, pending, nextOp, count, cancelled>>

----------------------------------------------------------------------------
Perform ==
    \/ ContextDone \/ addMultiple \/ AddsDone \/ getSTH \/ chooseSTHs \/ getSTHConsistency \/ ProofHead \/ getProofByHash
    \/ getEntries \/ getRoots
    \/ addChainInvalid \/ addPreChainInvalid \/ getSTHConsistencyInvalid \/ getProofByHashInvalid \/ getEntriesInvalid
Adder(i) == i \in DOMAIN adders /\ (getChain(i) \/ getPreChain(i) \/ addChain(i) \/ addPreChain(i) \/ tryAppendCert(i))

Next ==
    \/ chooseOp \/ Return \/ Perform
    \/ \E i \in 1..MaxParallelChains : Adder(i)
    \/ \E k \in Kinds : Drain(k)
    \/ Merge \/ Tick \/ Cancel

Spec == Init /\ [][Next]_vars
----------------------------------------------------------------------------
\* The hammer never complains about a Log that keeps its promises: chains of
\* the generator are taken, what is due is proved, requests that should be
\* refused are, in spite of heads, leaves and duplicates of earlier times.
NoFalseAlarm == ~complaint
=============================================================================
