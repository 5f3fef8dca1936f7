--------------------------- MODULE WitnessProofs ---------------------------
(***************************************************************************)
(* Proofs about the witness, for any number of feeders and pollers, any    *)
(* leaves and any size of the Log, honest or not.                          *)
(*                                                                         *)
(* The argument: a transaction that has read the row holds the only        *)
(* connection, so the row is still the one it read when it stores another; *)
(* hence the row only grows, and everything that was cosigned, or is about *)
(* to be, is a prefix of it.                                               *)
(***************************************************************************)
EXTENDS Witness, SequenceTheorems, TLAPS

\* Only the holder of the connection is in a transaction, and what it read is
\* current; a proof is asked for only from a smaller size.
Transaction ==
    \A f \in Feeders :
        /\ pc[f] \in {"read", "decide"} => conn = f
        /\ pc[f] = "decide" => prev[f] = row
        /\ pc[f] = "proof" => KnownSize(wsth[f]) < Len(csth[f])

\* All that was signed, is being signed or was shown to a poller is below the row.
BelowRow ==
    /\ \A h \in cosigned : row # None /\ Prefix(h, row)
    /\ \A f \in Feeders : pc[f] = "sign" => row # None /\ Prefix(csth[f], row)
    /\ \A c \in Pollers : seen[c] # None => row # None /\ Prefix(seen[c], row)

IndInv == TypeOK /\ Transaction /\ BelowRow

\* Facts about heads: consistency is a partial order ...
LEMMA PrefixReflexive == \A s \in Heads : Prefix(s, s)
BY DEF Heads, Prefix

LEMMA PrefixTransitive ==
    ASSUME NEW s \in Heads, NEW t \in Heads, NEW u \in Heads, Prefix(s, t), Prefix(t, u)
    PROVE  Prefix(s, u)
<1>1. Len(s) \in Nat /\ Len(t) \in Nat /\ Len(u) \in Nat
  BY DEF Heads
<1>2. QED
  BY <1>1 DEF Prefix

\* ... and two heads below a third are consistent with each other.
LEMMA PrefixLinear ==
    ASSUME NEW s \in Heads, NEW t \in Heads, NEW u \in Heads, Prefix(s, u), Prefix(t, u)
    PROVE  Prefix(s, t) \/ Prefix(t, s)
<1>1. Len(s) \in Nat /\ Len(t) \in Nat /\ Len(u) \in Nat
  BY DEF Heads
<1>2. CASE Len(s) <= Len(t)
  BY <1>1, <1>2 DEF Prefix
<1>3. CASE Len(t) <= Len(s)
  BY <1>1, <1>3 DEF Prefix
<1>4. QED
  BY <1>1, <1>2, <1>3

\* An empty database satisfies the invariant.
LEMMA InitIndInv == Init => IndInv
<1> SUFFICES ASSUME Init PROVE IndInv
  OBVIOUS
<1>1. <<>> \in Heads
  BY DEF Heads
<1>2. honest \in BOOLEAN /\ calm \in BOOLEAN
  BY ModesAssumption, Zenon DEF Init
<1>3. TypeOK
  BY <1>1, <1>2 DEF Init, TypeOK
<1>4. Transaction /\ BelowRow
  BY DEF Init, Transaction, BelowRow
<1>5. QED
  BY <1>3, <1>4 DEF IndInv

\* Steps that leave the row and the cosigned heads alone.
LEMMA QuietSteps ==
    ASSUME IndInv,
           \/ CalmDown \/ Crash \/ UNCHANGED vars
           \/ \E f \in Feeders : \/ FetchSTH(f) \/ GetProof(f) \/ GiveUp(f) \/ BeginTx(f)
                                 \/ ReadRow(f) \/ Keep(f) \/ \E x \in Leaves : LogGrows(f, x)
    PROVE  IndInv'
<1> USE DEF IndInv, vars, logVars, witnessVars, feederVars, pollerVars
<1>1. CASE CalmDown
  BY <1>1 DEF CalmDown, TypeOK, Transaction, BelowRow
<1>2. CASE Crash
  BY <1>2 DEF Crash, TypeOK, Transaction, BelowRow
<1>3. CASE UNCHANGED vars
  BY <1>3 DEF TypeOK, Transaction, BelowRow
<1>4. ASSUME NEW f \in Feeders, FetchSTH(f) PROVE IndInv'
  BY <1>4 DEF FetchSTH, Goto, TypeOK, Transaction, BelowRow
<1>5. ASSUME NEW f \in Feeders, GetProof(f) PROVE IndInv'
  <2>1. Len(csth[f]) \in Nat /\ KnownSize(wsth[f]) \in Nat
    BY DEF TypeOK, KnownSize, Heads
  <2>2. SubSeq(csth[f], 1, KnownSize(wsth[f])) \in Heads
    <3>1. KnownSize(wsth[f]) <= Len(csth[f])
      BY <1>5, <2>1 DEF GetProof, Goto, Transaction
    <3>2. csth[f] \in Seq(Leaves)
      BY DEF TypeOK, Heads
    <3>3. \A i \in 1..KnownSize(wsth[f]) : csth[f][i] \in Leaves
      BY <2>1, <3>1, <3>2
    <3>4. SubSeq(csth[f], 1, KnownSize(wsth[f])) \in Seq(Leaves)
      <4> DEFINE n == KnownSize(wsth[f])
      <4>1. n \in Int /\ 1 \in Int /\ \A i \in 1..n : csth[f][i] \in Leaves
        BY <2>1, <3>3
      <4> HIDE DEF n
      <4>2. SubSeq(csth[f], 1, n) \in Seq(Leaves)
        BY <4>1, SubSeqProperties
      <4>3. QED
        BY <4>2 DEF n
    <3>5. QED
      BY <3>4 DEF Heads
  <2>3. QED
    BY <1>5, <2>2 DEF GetProof, Goto, TypeOK, Transaction, BelowRow
<1>6. ASSUME NEW f \in Feeders, GiveUp(f) PROVE IndInv'
  BY <1>6, NoneAssumption DEF GiveUp, TypeOK, Transaction, BelowRow
<1>7. ASSUME NEW f \in Feeders, BeginTx(f) PROVE IndInv'
  BY <1>7, NoneAssumption DEF BeginTx, Goto, TypeOK, Transaction, BelowRow
<1>8. ASSUME NEW f \in Feeders, ReadRow(f) PROVE IndInv'
  BY <1>8 DEF ReadRow, Goto, TypeOK, Transaction, BelowRow
<1>9. ASSUME NEW f \in Feeders, Keep(f) PROVE IndInv'
  BY <1>9 DEF Keep, Reply, TypeOK, Transaction, BelowRow
<1>10. ASSUME NEW f \in Feeders, NEW x \in Leaves, LogGrows(f, x) PROVE IndInv'
  <2>1. Append(view[f], x) \in Heads
    BY DEF TypeOK, Heads
  <2>2. QED
    BY <1>10, <2>1 DEF LogGrows, TypeOK, Transaction, BelowRow
<1>11. QED
  BY <1>1, <1>2, <1>3, <1>4, <1>5, <1>6, <1>7, <1>8, <1>9, <1>10

\* LatestSize and GetOnce cosign the row itself.
LEMMA ReadSteps ==
    ASSUME IndInv,
           (\E f \in Feeders : LatestSize(f)) \/ (\E c \in Pollers : GetOnce(c))
    PROVE  IndInv'
<1> USE DEF IndInv, vars, logVars, witnessVars, feederVars, pollerVars
<1>1. row # None => row \in Heads /\ Prefix(row, row)
  BY PrefixReflexive DEF TypeOK
<1>2. ASSUME NEW f \in Feeders, LatestSize(f) PROVE IndInv'
  <2>1. TypeOK'
    BY <1>1, <1>2 DEF LatestSize, GetSTH, TypeOK
  <2>2. Transaction'
    <3>1. csth[f] \in Seq(Leaves) /\ wsth'[f] \in Seq(Leaves) \cup {None}
      BY <2>1 DEF TypeOK, Heads
    <3> HIDE DEF IndInv
    <3>2. Len(csth[f]) \in Nat /\ KnownSize(wsth'[f]) \in Nat
      BY <3>1 DEF KnownSize
    <3>3. pc'[f] = "proof" => KnownSize(wsth'[f]) < Len(csth'[f])
      BY <1>2, <3>2 DEF LatestSize, IndInv, TypeOK
    <3>4. pc'[f] \in {"idle", "proof"} /\ \A g \in Feeders \ {f} : pc'[g] = pc[g] /\ wsth'[g] = wsth[g]
      BY <1>2 DEF LatestSize, IndInv, TypeOK
    <3>5. conn' = conn /\ prev' = prev /\ row' = row /\ csth' = csth
      BY <1>2 DEF LatestSize
    <3>6. QED
      BY <3>3, <3>4, <3>5 DEF IndInv, Transaction, KnownSize
  <2>3. BelowRow'
    BY <1>1, <1>2 DEF LatestSize, GetSTH, TypeOK, BelowRow
  <2>4. QED
    BY <2>1, <2>2, <2>3
<1>3. ASSUME NEW c \in Pollers, GetOnce(c) PROVE IndInv'
  BY <1>1, <1>3 DEF GetOnce, GetSTH, TypeOK, Transaction, BelowRow
<1>4. QED
  BY <1>2, <1>3

\* Store replaces the row by a head that extends it.
LEMMA StoreStep ==
    ASSUME IndInv, NEW f \in Feeders, Store(f)
    PROVE  IndInv'
<1> USE DEF Store, Goto, logVars
<1>1. TypeOK'
  BY DEF IndInv, TypeOK
<1>2. conn = f /\ prev[f] = row /\ csth[f] \in Heads /\ row \in Heads \cup {None}
  BY DEF IndInv, TypeOK, Transaction
<1>3. Transaction'
  BY <1>2 DEF IndInv, TypeOK, Transaction, KnownSize
<1>4. row # None => Prefix(row, csth[f])
  BY <1>2 DEF Accepts, VerifyConsistency
<1>5. row' = csth[f] /\ row' # None /\ Prefix(csth[f], row')
  BY <1>2, PrefixReflexive, NoneAssumption DEF Heads
<1>6. \A h \in Heads : row # None /\ Prefix(h, row) => Prefix(h, row')
  BY <1>2, <1>4, <1>5, PrefixTransitive
<1>7. BelowRow'
  <2>1. \A h \in cosigned' : row' # None /\ Prefix(h, row')
    BY <1>5, <1>6 DEF IndInv, TypeOK, BelowRow
  <2>2. \A g \in Feeders : pc'[g] = "sign" => row' # None /\ Prefix(csth'[g], row')
    BY <1>5, <1>6 DEF IndInv, TypeOK, BelowRow
  <2>3. \A c \in Pollers : seen'[c] # None => row' # None /\ Prefix(seen'[c], row')
    BY <1>5, <1>6 DEF IndInv, TypeOK, BelowRow
  <2>4. QED
    BY <2>1, <2>2, <2>3 DEF BelowRow
<1>8. QED
  BY <1>1, <1>3, <1>7 DEF IndInv

\* Sign cosigns what this request has stored.
LEMMA SignStep ==
    ASSUME IndInv, NEW f \in Feeders, Sign(f)
    PROVE  IndInv'
BY DEF Sign, Reply, logVars, IndInv, TypeOK, Transaction, BelowRow, KnownSize

\* Every step preserves the invariant.
LEMMA NextIndInv == IndInv /\ [Next]_vars => IndInv'
BY QuietSteps, ReadSteps, StoreStep, SignStep DEF Next, FeederStep

\* The invariant holds in every behaviour of the witness and its clients.
THEOREM IndInvHolds == Spec => []IndInv
BY InitIndInv, NextIndInv, PTL DEF Spec

\* Type correctness.
THEOREM TypeCorrect == Spec => []TypeOK
<1>1. IndInv => TypeOK
  BY DEF IndInv
<1>2. QED
  BY IndInvHolds, <1>1, PTL

\* The witness never cosigns two inconsistent heads of a Log, whatever the Log shows to
\* how many feeders, and at whatever point requests fail or the witness crashes.
THEOREM WitnessIsConsistent == Spec => []CosignedConsistent
<1>1. IndInv => CosignedConsistent
  <2> SUFFICES ASSUME IndInv, NEW s \in cosigned, NEW t \in cosigned
               PROVE  Prefix(s, t) \/ Prefix(t, s)
    BY DEF CosignedConsistent
  <2>1. row # None /\ Prefix(s, row) /\ Prefix(t, row)
    BY DEF IndInv, BelowRow
  <2>2. s \in Heads /\ t \in Heads /\ row \in Heads
    BY <2>1 DEF IndInv, TypeOK
  <2>3. QED
    BY <2>1, <2>2, PrefixLinear
<1>2. QED
  BY IndInvHolds, <1>1, PTL

\* A poller that has seen a cosigned head is later shown only heads that extend it.
THEOREM PollersMoveForward == Spec => PollersNeverGoBack
<1> DEFINE Forward == \A c \in Pollers : seen[c] # None => seen'[c] # None /\ Prefix(seen[c], seen'[c])
<1>1. IndInv /\ [Next]_vars => [Forward]_seen
  <2> SUFFICES ASSUME IndInv, [Next]_vars, seen' # seen PROVE Forward
    OBVIOUS
  <2>1. PICK c \in Pollers : GetOnce(c)
    BY DEF Next, FeederStep, FetchSTH, LatestSize, GetProof, BeginTx, ReadRow, Store, Keep, Sign,
           GiveUp, LogGrows, CalmDown, Crash, vars, logVars, witnessVars, feederVars, pollerVars, Goto
  <2>2. \A d \in Pollers : seen'[d] = seen[d] \/ seen'[d] = row
    BY <2>1 DEF GetOnce, IndInv, TypeOK
  <2>3. \A d \in Pollers : seen[d] # None => row # None /\ Prefix(seen[d], row) /\ Prefix(seen[d], seen[d])
    BY PrefixReflexive DEF IndInv, BelowRow, TypeOK
  <2>4. QED
    BY <2>2, <2>3
<1>2. QED
  BY IndInvHolds, <1>1, PTL DEF Spec, PollersNeverGoBack

\* Every step of the witness is one of CosignedHistory or changes nothing of it.
LEMMA StepsAreKept == IndInv /\ [Next]_vars => [Promise!Next]_(Promise!vars)
<1> SUFFICES ASSUME IndInv, [Next]_vars PROVE [Promise!Next]_(Promise!vars)
  OBVIOUS
<1>1. \A s, t : Promise!IsBelow(s, t) <=> Prefix(s, t)
  BY DEF Promise!IsBelow, Prefix
<1>2. ASSUME UNCHANGED <<row, cosigned, seen>> PROVE UNCHANGED Promise!vars
  BY <1>2 DEF Promise!vars
<1>3. ASSUME \/ CalmDown \/ Crash \/ UNCHANGED vars
             \/ \E f \in Feeders : \/ FetchSTH(f) \/ GetProof(f) \/ GiveUp(f) \/ BeginTx(f)
                                   \/ ReadRow(f) \/ Keep(f) \/ \E x \in Leaves : LogGrows(f, x)
      PROVE  UNCHANGED <<row, cosigned, seen>>
  BY <1>3 DEF CalmDown, Crash, FetchSTH, GetProof, GiveUp, BeginTx, ReadRow, Keep, LogGrows,
              vars, logVars, witnessVars, feederVars, pollerVars
<1>4. ASSUME NEW f \in Feeders, LatestSize(f) PROVE Promise!Cosign \/ UNCHANGED <<row, cosigned, seen>>
  <2>1. /\ row' = row /\ seen' = seen
        /\ \/ cosigned' = cosigned
           \/ row # None /\ cosigned' = cosigned \cup {row}
    BY <1>4 DEF LatestSize
  <2>2. row # None => Prefix(row, row)
    BY PrefixReflexive DEF IndInv, TypeOK
  <2> QED
    BY <1>1, <2>1, <2>2 DEF Promise!Cosign
<1>5. ASSUME NEW f \in Feeders, Store(f) PROVE Promise!Advance
  <2>1. prev[f] = row /\ csth[f] \in Heads
    BY <1>5 DEF Store, Goto, IndInv, TypeOK, Transaction
  <2> QED
    BY <1>1, <1>5, <2>1 DEF Store, Goto, Accepts, VerifyConsistency, Promise!Advance
<1>6. ASSUME NEW f \in Feeders, Sign(f) PROVE Promise!Cosign
  <2>1. row # None /\ Prefix(csth[f], row)
    BY <1>6 DEF Sign, IndInv, BelowRow
  <2> QED
    BY <1>1, <1>6, <2>1 DEF Sign, Promise!Cosign
<1>7. ASSUME NEW c \in Pollers, GetOnce(c) PROVE Promise!Show(c)
  BY <1>7 DEF GetOnce, Promise!Show
<1> QED
  BY <1>2, <1>3, <1>4, <1>5, <1>6, <1>7 DEF Next, FeederStep, Promise!Next

\* The witness with its transactions, feeders and crashes implements CosignedHistory, for
\* any Log: one head that only ever grows, and nothing signed beside it (Update, GetSTH).
THEOREM WitnessKeepsOneHistory == Spec => KeepsOneHistory
<1>1. Init => Promise!Init
  BY DEF Init, Promise!Init
<1> QED
  BY <1>1, StepsAreKept, IndInvHolds, PTL DEF Spec, KeepsOneHistory, Promise!Spec
=============================================================================
