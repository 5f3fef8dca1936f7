------------------------- MODULE SubmissionProofs -------------------------
(***************************************************************************)
(* Proofs about package submission.                                        *)
(*                                                                         *)
(* What GetSCTs returns satisfies the policy, for every policy: any        *)
(* number of Logs, any groups, overlapping or not, with any requirements.  *)
(*                                                                         *)
(* The proxy (P!), for any number of versions of the list and of requests: *)
(* a version travels from the path of the refresher through the manager    *)
(* and the channel LLUpdates to p.dist, and every place it passes holds an *)
(* older one than the place before.  So p.dist only ever moves to a newer  *)
(* version, and the second read of p.dist of a request cannot give what is *)
(* older than the first.                                                   *)
(***************************************************************************)
EXTENDS MCSubmissionRaces, MCSubmissionProxy, FiniteSetTheorems, TLAPS

Needed(g) == IF groupNeeds[g] > 0 THEN groupNeeds[g] ELSE 0

\* A request in flight has an empty result, which only its own task replaces.
SubmitInv ==
    \A t \in Tasks : pc[t] = "submit" => results[t[2]] = "empty"

\* A registered cancel function belongs to a task of the Log.
CancelInv ==
    \A l \in Logs : cancels[l] # NoGroup => <<cancels[l], l>> \in Tasks

\* The needs of a group account for the SCTs it lacks.
NeedsInv ==
    \A g \in Groups : Cardinality(Collected \cap Members[g]) >= MinInclusions[g] - Needed(g)

\* A success that a race has reported is final.
EventInv ==
    \A g \in Groups : event[g] = "ok" \/ groupComplete[g] => IsComplete(g)

IndInv ==
    /\ TypeOK
    /\ SubmitInv
    /\ OneRequestPerLog
    /\ CancelInv
    /\ NeedsInv
    /\ EventInv
    /\ SuccessIsSound

---------------------------------------------------------------------------

\* Adding an SCT to the collected ones never lowers what a group has, and raises
\* it by one when the Log is a member and had none.
LEMMA CardinalityOfCollected ==
    ASSUME NEW S \in SUBSET Logs, NEW M \in SUBSET Logs, NEW l \in Logs
    PROVE  /\ Cardinality(S \cap M) \in Nat
           /\ Cardinality((S \cup {l}) \cap M) \in Nat
           /\ Cardinality((S \cup {l}) \cap M) >= Cardinality(S \cap M)
           /\ l \in M /\ l \notin S =>
                Cardinality((S \cup {l}) \cap M) = Cardinality(S \cap M) + 1
<1>1. IsFiniteSet(S \cap M) /\ IsFiniteSet((S \cup {l}) \cap M)
  BY LogsAssumption, FS_Subset
<1>2. Cardinality(S \cap M) \in Nat /\ Cardinality((S \cup {l}) \cap M) \in Nat
  BY <1>1, FS_CardinalityType
<1>3. Cardinality(S \cap M) <= Cardinality((S \cup {l}) \cap M)
  BY <1>1, FS_Subset
<1>4. ASSUME l \in M, l \notin S
      PROVE  Cardinality((S \cup {l}) \cap M) = Cardinality(S \cap M) + 1
  <2>1. (S \cup {l}) \cap M = (S \cap M) \cup {l}
    BY <1>4
  <2>2. l \notin S \cap M
    BY <1>4
  <2>3. QED
    BY <1>1, <2>1, <2>2, FS_AddElement
<1>5. QED
  BY <1>2, <1>3, <1>4

LEMMA InitImpliesIndInv == Init => IndInv
<1> SUFFICES ASSUME Init PROVE IndInv
  OBVIOUS
<1> USE PolicyAssumption, GroupsAssumption
<1>1. TypeOK
  <2>1. groupNeeds \in [Groups -> Int]
    BY DEF Init
  <2>2. groupComplete \in [Groups -> BOOLEAN]
    BY DEF Init
  <2>3. pc \in [Tasks -> {"delay", "request", "submit", "count", "done"}]
    BY DEF Init
  <2>4. /\ results \in [Logs -> {"none", "empty", "sct", "err"}]
        /\ cancels \in [Logs -> Groups \cup {NoGroup}]
        /\ counter \in [Groups -> Nat]
        /\ seen \in [Groups -> Nat]
        /\ event \in [Groups -> {"racing", "ok", "failed", "read"}]
    BY DEF Init
  <2>5. QED
    BY <2>1, <2>2, <2>3, <2>4 DEF Init, TypeOK
<1>2. SubmitInv /\ OneRequestPerLog /\ CancelInv
  BY DEF Init, SubmitInv, OneRequestPerLog, CancelInv
<1>3. NeedsInv
  <2> SUFFICES ASSUME NEW g \in Groups
               PROVE  Cardinality(Collected \cap Members[g]) >= MinInclusions[g] - Needed(g)
    BY DEF NeedsInv
  <2>1. Collected \cap Members[g] = {}
    BY DEF Collected, Init
  <2>2. Needed(g) = MinInclusions[g]
    BY DEF Needed, Init
  <2>3. QED
    BY <2>1, <2>2, FS_EmptySet
<1>4. EventInv
  BY DEF Init, EventInv
<1>5. SuccessIsSound
  BY DEF Init, SuccessIsSound
<1>6. QED
  BY <1>1, <1>2, <1>3, <1>4, <1>5 DEF IndInv

\* Steps that touch neither the needs nor the collected SCTs keep NeedsInv.
LEMMA NeedsUnchanged ==
    ASSUME NeedsInv, UNCHANGED groupNeeds, Collected' = Collected
    PROVE  NeedsInv'
  BY DEF NeedsInv, Needed

\* The effect of setResult on the needs and on the results.
LEMMA SetSCTKeepsNeedsInv ==
    ASSUME IndInv, NEW t \in Tasks, SetSCT(t)
    PROVE  NeedsInv' /\ (\A g \in Groups : IsComplete(g) => IsComplete(g)')
<1> USE PolicyAssumption, GroupsAssumption
<1> DEFINE l == t[2]
           needs1 == NeedsAfterGroups(l)
           takes == BaseTakes(l, needs1)
           stores == StoredByGroup(l) \/ takes
           GG == GroupsOf(l) \ {BaseName}
<1>1. l \in Logs
  BY DEF Tasks
<1>2. pc[t] = "submit" /\ results[l] = "empty"
  BY DEF SetSCT, Goto, IndInv, SubmitInv
<1>3. l \notin Collected /\ Collected \in SUBSET Logs
  BY <1>2 DEF Collected
<1>4. Collected' = IF stores THEN Collected \cup {l} ELSE Collected
  BY <1>1, <1>2 DEF SetSCT, Collected, IndInv, TypeOK
<1>5. needs1 = [g \in Groups |-> IF g \in GG THEN groupNeeds[g] - 1 ELSE groupNeeds[g]]
  BY DEF NeedsAfterGroups
<1>6. \A g \in Groups : groupNeeds[g] \in Int /\ needs1[g] \in Int
  BY <1>5 DEF IndInv, TypeOK
<1>7. groupNeeds' = IF takes THEN [needs1 EXCEPT ![BaseName] = @ - 1] ELSE needs1
  BY DEF SetSCT
<1>8. takes => BaseName \in GroupsOf(l)
  BY DEF BaseTakes
<1>9. \A g \in Groups : g # BaseName =>
        groupNeeds'[g] = IF g \in GG THEN groupNeeds[g] - 1 ELSE groupNeeds[g]
  BY <1>5, <1>7
<1>10. BaseName \in Groups =>
         groupNeeds'[BaseName] = IF takes THEN groupNeeds[BaseName] - 1 ELSE groupNeeds[BaseName]
  BY <1>5, <1>7
<1>11. \A g \in Groups : groupNeeds'[g] = groupNeeds[g] - 1 \/ groupNeeds'[g] = groupNeeds[g]
  BY <1>9, <1>10
<1>12. \A g \in Groups : groupNeeds'[g] \in Int /\ groupNeeds'[g] <= groupNeeds[g]
  BY <1>6, <1>11
<1>13. \A g \in Groups : IsComplete(g) => IsComplete(g)'
  BY <1>6, <1>12 DEF IsComplete
<1>14. ASSUME NEW g \in Groups
       PROVE  Cardinality(Collected' \cap Members[g]) >= MinInclusions[g] - Needed(g)'
  <2>1. /\ Cardinality(Collected \cap Members[g]) \in Nat
        /\ Cardinality((Collected \cup {l}) \cap Members[g]) \in Nat
        /\ Cardinality((Collected \cup {l}) \cap Members[g]) >= Cardinality(Collected \cap Members[g])
        /\ l \in Members[g] =>
             Cardinality((Collected \cup {l}) \cap Members[g]) = Cardinality(Collected \cap Members[g]) + 1
    <3>1. Members[g] \in SUBSET Logs
      OBVIOUS
    <3>2. QED
      BY <1>1, <1>3, <3>1, CardinalityOfCollected
  <2>2. Cardinality(Collected \cap Members[g]) >= MinInclusions[g] - Needed(g)
    BY DEF IndInv, NeedsInv
  <2>3. Cardinality(Collected' \cap Members[g]) >= Cardinality(Collected \cap Members[g])
    <3>1. CASE stores
      BY <1>4, <2>1, <3>1
    <3>2. CASE ~stores
      BY <1>4, <2>1, <3>2
    <3>3. QED
      BY <3>1, <3>2
  <2>4. Cardinality(Collected' \cap Members[g]) \in Nat
    BY <1>4, <2>1
  <2>5. CASE groupNeeds'[g] = groupNeeds[g]
    <3>1. Needed(g)' = Needed(g)
      BY <2>5 DEF Needed
    <3>2. Needed(g) \in Int
      BY <1>6 DEF Needed
    <3>3. QED
      BY <2>1, <2>2, <2>3, <2>4, <3>1, <3>2
  <2>6. CASE groupNeeds'[g] = groupNeeds[g] - 1 /\ groupNeeds[g] <= 0
    <3>1. Needed(g)' = 0 /\ Needed(g) = 0
      BY <1>6, <2>6 DEF Needed
    <3>2. QED
      BY <2>1, <2>2, <2>3, <2>4, <3>1
  <2>7. CASE groupNeeds'[g] = groupNeeds[g] - 1 /\ groupNeeds[g] > 0
    <3>1. groupNeeds'[g] # groupNeeds[g]
      BY <1>6, <2>7
    <3>2. l \in Members[g] /\ stores
      <4>1. CASE g = BaseName
        BY <1>8, <1>10, <3>1, <4>1 DEF GroupsOf
      <4>2. CASE g # BaseName
        <5>1. g \in GG
          BY <1>9, <3>1, <4>2
        <5>2. QED
          BY <2>7, <5>1 DEF GroupsOf, StoredByGroup
      <4>3. QED
        BY <4>1, <4>2
    <3>3. Cardinality(Collected' \cap Members[g]) = Cardinality(Collected \cap Members[g]) + 1
      BY <1>4, <2>1, <3>2
    <3>4. Needed(g) = groupNeeds[g] /\ Needed(g)' = groupNeeds[g] - 1
      BY <1>6, <2>7 DEF Needed
    <3>5. QED
      BY <1>6, <2>1, <2>2, <3>3, <3>4
  <2>8. QED
    BY <1>6, <1>11, <2>5, <2>6, <2>7
<1>15. NeedsInv'
  BY <1>14 DEF NeedsInv
<1>16. QED
  BY <1>13, <1>15

---------------------------------------------------------------------------

\* Steps outside safeSubmissionState, the tasks and the two loops.
LEMMA EnvironmentStep ==
    ASSUME IndInv, Tick \/ CancelContext
    PROVE  IndInv'
<1>1. TypeOK'
  <2>1. CASE Tick
    BY <2>1 DEF IndInv, TypeOK, Tick, stateVars, mainVars
  <2>2. CASE CancelContext
    BY <2>2 DEF IndInv, TypeOK, CancelContext, stateVars, mainVars
  <2>3. QED
    BY <2>1, <2>2
<1>2. UNCHANGED <<pc, results, groupNeeds, cancels, event, groupComplete, returned, scts>>
  BY DEF Tick, CancelContext, stateVars, mainVars
<1>3. SubmitInv' /\ OneRequestPerLog' /\ CancelInv' /\ EventInv' /\ SuccessIsSound'
  BY <1>2 DEF IndInv, SubmitInv, OneRequestPerLog, CancelInv, EventInv, SuccessIsSound,
              NoError, IsComplete
<1>4. NeedsInv'
  BY <1>2, NeedsUnchanged DEF IndInv, Collected
<1>5. QED
  BY <1>1, <1>3, <1>4 DEF IndInv

\* A task that leaves "delay", or sends its message, touches no result.
LEMMA QuietTaskStep ==
    ASSUME IndInv, NEW t \in Tasks, GiveUp(t) \/ CheckGroup(t) \/ CountCall(t)
    PROVE  IndInv'
<1>0. t[1] \in Groups
  BY DEF Tasks
<1>1. TypeOK'
  BY <1>0 DEF IndInv, TypeOK, GiveUp, CheckGroup, CountCall, Goto, stateVars, mainVars
<1>2. UNCHANGED <<results, groupNeeds, cancels, event, groupComplete, returned, scts>>
  BY DEF GiveUp, CheckGroup, CountCall, stateVars, mainVars
<1>3. \A u \in Tasks : pc'[u] = "submit" => pc[u] = "submit"
  BY DEF IndInv, TypeOK, GiveUp, CheckGroup, CountCall, Goto
<1>4. SubmitInv' /\ OneRequestPerLog'
  BY <1>2, <1>3 DEF IndInv, SubmitInv, OneRequestPerLog
<1>5. CancelInv' /\ EventInv' /\ SuccessIsSound'
  BY <1>2 DEF IndInv, CancelInv, EventInv, SuccessIsSound, NoError, IsComplete
<1>6. NeedsInv'
  BY <1>2, NeedsUnchanged DEF IndInv, Collected
<1>7. QED
  BY <1>1, <1>4, <1>5, <1>6 DEF IndInv

LEMMA RequestStep ==
    ASSUME IndInv, NEW t \in Tasks, Request(t)
    PROVE  IndInv'
<1> DEFINE l == t[2]
<1>1. t[1] \in Groups /\ l \in Logs /\ t = <<t[1], l>>
  BY DEF Tasks
<1>2. UNCHANGED <<groupNeeds, event, groupComplete, returned, scts>>
  BY DEF Request, mainVars
<1>3. TypeOK'
  BY <1>1 DEF IndInv, TypeOK, Request, Goto, mainVars
<1>4. \A k \in Logs : k # l => results'[k] = results[k] /\ cancels'[k] = cancels[k]
  BY DEF Request, IndInv, TypeOK
<1>5. \A u \in Tasks : u # t => pc'[u] = pc[u]
  BY DEF Request, Goto, IndInv, TypeOK
<1>6. results[l] # "none" => UNCHANGED <<results, cancels>> /\ pc'[t] # "submit"
  BY DEF Request, Goto, IndInv, TypeOK
<1>7. results[l] = "none" => results'[l] = "empty" /\ \A u \in Tasks : u[2] = l => pc[u] # "submit"
  BY <1>1 DEF Request, IndInv, TypeOK, SubmitInv
<1>8. \A u \in Tasks : u[2] \in Logs
  BY DEF Tasks
<1>9. SubmitInv'
  BY <1>1, <1>4, <1>5, <1>6, <1>7, <1>8 DEF IndInv, SubmitInv
<1>10. OneRequestPerLog'
  BY <1>5, <1>6, <1>7 DEF IndInv, OneRequestPerLog
<1>11. CancelInv'
  <2>1. cancels'[l] = cancels[l] \/ cancels'[l] = t[1]
    BY <1>1 DEF Request, IndInv, TypeOK
  <2>2. QED
    BY <1>1, <1>4, <2>1 DEF IndInv, CancelInv
<1>12. Collected' = Collected
  BY <1>1, <1>4, <1>6, <1>7 DEF Collected
<1>13. NeedsInv'
  BY <1>2, <1>12, NeedsUnchanged DEF IndInv
<1>14. EventInv' /\ SuccessIsSound'
  BY <1>2 DEF IndInv, EventInv, SuccessIsSound, NoError, IsComplete
<1>15. QED
  BY <1>3, <1>9, <1>10, <1>11, <1>13, <1>14 DEF IndInv

\* When a request ends, no other request to the same Log is in flight.
LEMMA RequestEnds ==
    ASSUME IndInv, NEW t \in Tasks, Goto(t, "submit", "count"),
           \A k \in Logs : k # t[2] => results'[k] = results[k]
    PROVE  SubmitInv' /\ OneRequestPerLog'
<1>1. \A u \in Tasks : u[2] \in Logs
  BY DEF Tasks
<1>2. \A u \in Tasks : pc'[u] = "submit" => u # t /\ pc[u] = "submit"
  BY DEF Goto, IndInv, TypeOK
<1>3. \A u \in Tasks : pc'[u] = "submit" => u[2] # t[2]
  BY <1>2 DEF Goto, IndInv, OneRequestPerLog
<1>4. SubmitInv'
  BY <1>1, <1>2, <1>3 DEF IndInv, SubmitInv
<1>5. OneRequestPerLog'
  BY <1>2 DEF IndInv, OneRequestPerLog
<1>6. QED
  BY <1>4, <1>5

LEMMA SetErrorStep ==
    ASSUME IndInv, NEW t \in Tasks, SetError(t)
    PROVE  IndInv'
<1>1. t[1] \in Groups /\ t[2] \in Logs
  BY DEF Tasks
<1>2. TypeOK'
  BY <1>1 DEF IndInv, TypeOK, SetError, Goto, mainVars
<1>3. UNCHANGED <<groupNeeds, cancels, event, groupComplete, returned, scts>>
  BY DEF SetError, mainVars
<1>4. \A k \in Logs : k # t[2] => results'[k] = results[k]
  BY DEF SetError, IndInv, TypeOK
<1>5. results[t[2]] = "empty" /\ results'[t[2]] = "err"
  BY <1>1 DEF SetError, Goto, IndInv, TypeOK, SubmitInv
<1>6. SubmitInv' /\ OneRequestPerLog'
  BY <1>4, RequestEnds DEF SetError
<1>7. Collected' = Collected
  BY <1>4, <1>5 DEF Collected
<1>8. NeedsInv'
  BY <1>3, <1>7, NeedsUnchanged DEF IndInv
<1>9. CancelInv' /\ EventInv' /\ SuccessIsSound'
  BY <1>3 DEF IndInv, CancelInv, EventInv, SuccessIsSound, NoError, IsComplete
<1>10. QED
  BY <1>2, <1>6, <1>8, <1>9 DEF IndInv

LEMMA SetSCTStep ==
    ASSUME IndInv, NEW t \in Tasks, SetSCT(t)
    PROVE  IndInv'
<1> DEFINE l == t[2]
           needs1 == NeedsAfterGroups(l)
           needs2 == IF BaseTakes(l, needs1) THEN [needs1 EXCEPT ![BaseName] = @ - 1] ELSE needs1
<1>1. t[1] \in Groups /\ l \in Logs
  BY DEF Tasks
<1>2. UNCHANGED <<ctxDone, elapsed, session, counter, seen, event, groupComplete, returned, scts>>
  BY DEF SetSCT, mainVars
<1>3. NeedsInv' /\ (\A g \in Groups : IsComplete(g) => IsComplete(g)')
  BY SetSCTKeepsNeedsInv
<1>4. groupNeeds' \in [Groups -> Int]
  <2>1. needs1 \in [Groups -> Int]
    BY DEF NeedsAfterGroups, IndInv, TypeOK
  <2>2. [needs1 EXCEPT ![BaseName] = @ - 1] \in [Groups -> Int]
    <3> HIDE DEF needs1
    <3>1. CASE BaseName \in Groups
      BY <2>1, <3>1
    <3>2. CASE BaseName \notin Groups
      <4>1. [needs1 EXCEPT ![BaseName] = @ - 1] = needs1
        BY <2>1, <3>2
      <4>2. QED
        BY <2>1, <4>1
    <3>3. QED
      BY <3>1, <3>2
  <2>3. QED
    BY <2>1, <2>2 DEF SetSCT
<1>5. results' \in [Logs -> {"none", "empty", "sct", "err"}]
  BY <1>1 DEF SetSCT, IndInv, TypeOK
<1>6. cancels' = [k \in Logs |-> IF k \in Stale(needs2) THEN NoGroup ELSE cancels[k]]
  BY DEF SetSCT
<1>7. cancels' \in [Logs -> Groups \cup {NoGroup}]
  BY <1>6 DEF IndInv, TypeOK
<1>8. cancelled' \subseteq Tasks
  <2>1. \A k \in Stale(needs2) : <<cancels[k], k>> \in Tasks
    BY DEF Stale, IndInv, CancelInv
  <2>2. cancelled' = cancelled \cup {<<cancels[k], k>> : k \in Stale(needs2)}
    BY DEF SetSCT
  <2>3. QED
    BY <2>1, <2>2 DEF IndInv, TypeOK
<1>9. pc' \in [Tasks -> {"delay", "request", "submit", "count", "done"}]
  BY DEF SetSCT, Goto, IndInv, TypeOK
<1>10. TypeOK'
  BY <1>2, <1>4, <1>5, <1>7, <1>8, <1>9 DEF IndInv, TypeOK
<1>11. \A k \in Logs : k # l => results'[k] = results[k]
  BY DEF SetSCT, IndInv, TypeOK
<1>12. SubmitInv' /\ OneRequestPerLog'
  BY <1>11, RequestEnds DEF SetSCT
<1>13. CancelInv'
  BY <1>6 DEF IndInv, CancelInv
<1>14. EventInv'
  BY <1>2, <1>3 DEF IndInv, EventInv
<1>15. SuccessIsSound'
  BY <1>2 DEF IndInv, SuccessIsSound, NoError
<1>16. QED
  BY <1>3, <1>10, <1>12, <1>13, <1>14, <1>15 DEF IndInv

\* The loops of groupRace and GetSCTs, up to the return.
LEMMA LoopStep ==
    ASSUME IndInv, NEW g \in Groups, RaceStep(g)
    PROVE  IndInv'
<1>1. TypeOK'
  <2>1. CASE RaceCancelled(g)
    BY <2>1 DEF IndInv, TypeOK, RaceCancelled, Outcome, stateVars, mainVars
  <2>2. CASE RaceCounts(g)
    BY <2>2 DEF IndInv, TypeOK, RaceCounts, stateVars, mainVars
  <2>3. CASE RaceEnds(g)
    BY <2>3 DEF IndInv, TypeOK, RaceEnds, Outcome, stateVars, mainVars
  <2>4. CASE ReadEvent(g)
    <3>1. groupComplete' \in [Groups -> BOOLEAN]
      BY <2>4 DEF IndInv, TypeOK, ReadEvent
    <3>2. QED
      BY <2>4, <3>1 DEF IndInv, TypeOK, ReadEvent, stateVars
  <2>5. QED
    BY <2>1, <2>2, <2>3, <2>4 DEF RaceStep
<1>2. UNCHANGED <<pc, results, groupNeeds, cancels, returned, scts>>
  BY DEF RaceStep, RaceCancelled, RaceCounts, RaceEnds, ReadEvent, stateVars, mainVars
<1>3. SubmitInv' /\ OneRequestPerLog' /\ CancelInv'
  BY <1>2 DEF IndInv, SubmitInv, OneRequestPerLog, CancelInv
<1>4. NeedsInv'
  BY <1>2, NeedsUnchanged DEF IndInv, Collected
<1>5. EventInv'
  BY <1>2 DEF IndInv, TypeOK, EventInv, IsComplete, RaceStep, RaceCancelled, RaceCounts,
              RaceEnds, ReadEvent, Outcome, mainVars
<1>6. SuccessIsSound'
  <2>1. CASE ReadEvent(g)
    BY <1>2, <2>1 DEF ReadEvent, SuccessIsSound
  <2>2. CASE RaceCancelled(g) \/ RaceCounts(g) \/ RaceEnds(g)
    BY <1>2, <2>2 DEF IndInv, SuccessIsSound, NoError, RaceCancelled, RaceCounts, RaceEnds, mainVars
  <2>3. QED
    BY <2>1, <2>2 DEF RaceStep
<1>7. QED
  BY <1>1, <1>3, <1>4, <1>5, <1>6 DEF IndInv

LEMMA ReturnStep ==
    ASSUME IndInv, Return
    PROVE  IndInv'
<1>1. TypeOK'
  BY DEF IndInv, TypeOK, Return, Collected, stateVars
<1>2. UNCHANGED <<pc, results, groupNeeds, cancels, event, groupComplete>> /\ scts' = Collected
  BY DEF Return, stateVars
<1>3. SubmitInv' /\ OneRequestPerLog' /\ CancelInv' /\ EventInv'
  BY <1>2 DEF IndInv, SubmitInv, OneRequestPerLog, CancelInv, EventInv, IsComplete
<1>4. NeedsInv'
  BY <1>2, NeedsUnchanged DEF IndInv, Collected
<1>5. SuccessIsSound'
  <2> SUFFICES ASSUME NoError', NEW g \in Groups
               PROVE  Cardinality(scts' \cap Members[g]) >= MinInclusions[g]
    BY DEF SuccessIsSound, PolicySatisfied
  <2>1. groupComplete[g]
    BY <1>2 DEF NoError
  <2>2. IsComplete(g)
    BY <2>1 DEF IndInv, EventInv
  <2>3. Needed(g) = 0
    BY <2>2 DEF IndInv, TypeOK, IsComplete, Needed
  <2>4. Cardinality(Collected \cap Members[g]) >= MinInclusions[g] - 0
    BY <2>3 DEF IndInv, NeedsInv
  <2>5. QED
    BY <1>2, <2>4, PolicyAssumption
<1>6. QED
  BY <1>1, <1>3, <1>4, <1>5 DEF IndInv

LEMMA NextKeepsIndInv == IndInv /\ [Next]_vars => IndInv'
<1> SUFFICES ASSUME IndInv, [Next]_vars PROVE IndInv'
  OBVIOUS
<1>1. CASE Tick \/ CancelContext
  BY <1>1, EnvironmentStep
<1>2. ASSUME NEW t \in Tasks, TaskStep(t) PROVE IndInv'
  BY <1>2, QuietTaskStep, RequestStep, SetErrorStep, SetSCTStep DEF TaskStep
<1>3. ASSUME NEW g \in Groups, RaceStep(g) PROVE IndInv'
  BY <1>3, LoopStep
<1>4. CASE Return
  BY <1>4, ReturnStep
<1>5. CASE UNCHANGED vars
  <2>1. UNCHANGED groupNeeds /\ Collected' = Collected
    BY <1>5 DEF vars, Collected
  <2>2. NeedsInv'
    BY <2>1, NeedsUnchanged DEF IndInv
  <2>3. QED
    BY <1>5, <2>2 DEF vars, IndInv, TypeOK, SubmitInv, OneRequestPerLog, CancelInv, EventInv,
                      SuccessIsSound, NoError, IsComplete
<1>6. QED
  BY <1>1, <1>2, <1>3, <1>4, <1>5 DEF Next

\* The inductive invariant holds in every behaviour.
THEOREM IndInvHolds == Spec => []IndInv
  BY InitImpliesIndInv, NextKeepsIndInv, PTL DEF Spec

\* Every variable of GetSCTs and its goroutines keeps its type.
THEOREM TypeCorrect == Spec => []TypeOK
<1>1. IndInv => TypeOK
  BY DEF IndInv
<1>2. QED
  BY <1>1, IndInvHolds, PTL

\* No two goroutines ever have requests to the same Log in flight: the results map
\* of safeSubmissionState.request is a lock that is never given twice.
THEOREM RequestsAreExclusive == Spec => []OneRequestPerLog
<1>1. IndInv => OneRequestPerLog
  BY DEF IndInv
<1>2. QED
  BY <1>1, IndInvHolds, PTL

\* A group whose needs setResult has counted down to zero has its SCTs.
THEOREM CompleteGroupsAreServed == Spec => []CompleteGroupsHaveSCTs
<1>1. IndInv => CompleteGroupsHaveSCTs
  <2> SUFFICES ASSUME IndInv, NEW g \in Groups, IsComplete(g)
               PROVE  Cardinality(Collected \cap Members[g]) >= MinInclusions[g]
    BY DEF CompleteGroupsHaveSCTs
  <2>1. Needed(g) = 0
    BY DEF IndInv, TypeOK, IsComplete, Needed
  <2>2. Cardinality(Collected \cap Members[g]) >= MinInclusions[g] - 0
    BY <2>1 DEF IndInv, NeedsInv
  <2>3. QED
    BY <2>2, PolicyAssumption
<1>2. QED
  BY <1>1, IndInvHolds, PTL

\* GetSCTs returns without an error only with SCTs that satisfy the policy.
THEOREM GetSCTsIsSound == Spec => []SuccessIsSound
<1>1. IndInv => SuccessIsSound
  BY DEF IndInv
<1>2. QED
  BY <1>1, IndInvHolds, PTL

---------------------------------------------------------------------------
(* Nothing is wasted.                                                      *)

\* A request in flight was cancelled, or can be: its cancel function is registered.
Registered ==
    \A t \in Tasks : pc[t] = "submit" => t \in cancelled \/ cancels[t[2]] = t[1]

\* Only requests that some group awaits have theirs registered.
Awaited == \A l \in Logs : cancels[l] # NoGroup => IsAwaited(groupNeeds, l)

\* The SCTs that are still to come have room beside the ones collected: those that the
\* groups will bring, and those that the base group needs.
Room ==
    /\ Cardinality(Collected) + OtherNeeds(groupNeeds) <= PolicyTotal
    /\ BaseName \in Groups => Cardinality(Collected) + groupNeeds[BaseName] <= PolicyTotal

WasteInv == Registered /\ Awaited /\ Room

Units(S, f) == UNION {{g} \X (1..f[g]) : g \in S}
Needy(needs) == {g \in Groups \ {BaseName} : needs[g] > 0}

LEMMA UnitsDef ==
    ASSUME NEW S, NEW f
    PROVE  Units(S, f) = {u \in S \X Int : u[2] \in 1..f[u[1]]}
<1>1. ASSUME NEW u \in Units(S, f) PROVE u \in S \X Int /\ u[2] \in 1..f[u[1]]
  <2>1. PICK g \in S : u \in {g} \X (1..f[g])
    BY DEF Units
  <2> QED
    BY <2>1
<1>2. ASSUME NEW u \in S \X Int, u[2] \in 1..f[u[1]] PROVE u \in Units(S, f)
  <2>1. u \in {u[1]} \X (1..f[u[1]]) /\ u[1] \in S
    BY <1>2
  <2> QED
    BY <2>1 DEF Units
<1> QED
  BY <1>1, <1>2

LEMMA UnitsFinite ==
    ASSUME NEW S \in SUBSET Groups, NEW f \in [Groups -> Int]
    PROVE  IsFiniteSet(Units(S, f))
<1> DEFINE T == {{g} \X (1..f[g]) : g \in S}
           m == [g \in S |-> {g} \X (1..f[g])]
<1>1. IsFiniteSet(S)
  BY GroupsAssumption, FS_Subset
<1>2. m \in Surjection(S, T)
  BY DEF Surjection
<1>3. IsFiniteSet(T)
  BY <1>1, <1>2, FS_Surjection
<1>4. \A g \in S : IsFiniteSet({g} \X (1..f[g]))
  <2> SUFFICES ASSUME NEW g \in S PROVE IsFiniteSet({g} \X (1..f[g]))
    OBVIOUS
  <2>1. IsFiniteSet({g})
    BY FS_Singleton
  <2>2. f[g] \in Int /\ 1 \in Int
    OBVIOUS
  <2>3. IsFiniteSet(1..f[g])
    BY <2>2, FS_Interval
  <2> QED
    BY <2>1, <2>3, FS_Product
<1>5. \A U \in T : IsFiniteSet(U)
  BY <1>4
<1> HIDE DEF T
<1>6. IsFiniteSet(UNION T)
  BY <1>3, <1>5, FS_UNION
<1> QED
  BY <1>6 DEF T, Units

\* When the needs of the groups go down, so does their sum; by one at least when a group
\* that needed an SCT takes one.
LEMMA OtherNeedsGoDown ==
    ASSUME NEW f \in [Groups -> Int], NEW h \in [Groups -> Int],
           \A g \in Groups \ {BaseName} : h[g] <= f[g]
    PROVE  /\ OtherNeeds(f) \in Nat /\ OtherNeeds(h) \in Nat
           /\ OtherNeeds(h) <= OtherNeeds(f)
           /\ (\E g \in Groups \ {BaseName} : f[g] > 0 /\ h[g] < f[g]) =>
                OtherNeeds(h) <= OtherNeeds(f) - 1
<1> DEFINE F == Units(Needy(f), f)
           H == Units(Needy(h), h)
<1>1. OtherNeeds(f) = Cardinality(F) /\ OtherNeeds(h) = Cardinality(H)
  BY DEF OtherNeeds, SumOver, Units, Needy
<1>2. IsFiniteSet(F) /\ IsFiniteSet(H)
  BY UnitsFinite DEF Needy
<1>3. \A u : u \in F <=> /\ u \in (Groups \ {BaseName}) \X Int
                         /\ u[2] \in 1..f[u[1]]
  BY UnitsDef DEF Needy
<1>4. \A u : u \in H <=> /\ u \in (Groups \ {BaseName}) \X Int
                         /\ u[2] \in 1..h[u[1]]
  BY UnitsDef DEF Needy
<1> HIDE DEF F, H
<1>5. Cardinality(F) \in Nat /\ Cardinality(H) \in Nat
  BY <1>2, FS_CardinalityType
<1>6. H \in SUBSET F
  <2> SUFFICES ASSUME NEW u \in H PROVE u \in F
    OBVIOUS
  <2>1. u[1] \in Groups \ {BaseName} /\ u[2] \in Int /\ u[2] \in 1..h[u[1]]
    BY <1>4
  <2>2. h[u[1]] \in Int /\ f[u[1]] \in Int /\ h[u[1]] <= f[u[1]]
    BY <2>1
  <2> QED
    BY <1>3, <1>4, <2>1, <2>2
<1>7. Cardinality(H) <= Cardinality(F)
  BY <1>2, <1>6, FS_Subset
<1>8. ASSUME NEW g \in Groups \ {BaseName}, f[g] > 0, h[g] < f[g]
      PROVE  Cardinality(H) <= Cardinality(F) - 1
  <2>1. f[g] \in Int /\ h[g] \in Int /\ f[g] \in 1..f[g] /\ f[g] \notin 1..h[g]
    BY <1>8
  <2>2. <<g, f[g]>> \in F /\ <<g, f[g]>> \notin H
    BY <1>3, <1>4, <2>1
  <2>3. H \in SUBSET (F \ {<<g, f[g]>>})
    BY <1>6, <2>2
  <2>4. IsFiniteSet(F \ {<<g, f[g]>>}) /\ Cardinality(F \ {<<g, f[g]>>}) = Cardinality(F) - 1
    BY <1>2, <2>2, FS_RemoveElement
  <2>5. Cardinality(H) <= Cardinality(F \ {<<g, f[g]>>})
    BY <2>3, <2>4, FS_Subset
  <2> QED
    BY <2>4, <2>5
<1> QED
  BY <1>1, <1>5, <1>7, <1>8

LEMMA TotalIsEnough ==
    /\ PolicyTotal \in Nat /\ OtherNeeds(MinInclusions) <= PolicyTotal
    /\ BaseName \in Groups => MinInclusions[BaseName] <= PolicyTotal
<1> DEFINE S == {SubsetSum} \cup (IF BaseName \in Groups THEN {MinInclusions[BaseName]} ELSE {})
<1>1. SubsetSum = OtherNeeds(MinInclusions)
  <2>1. \A g \in Groups : MinInclusions[g] \in Nat
    BY PolicyAssumption
  <2>2. \A u : u[1] \in Groups /\ u[2] \in Int /\ u[2] \in 1..MinInclusions[u[1]] => MinInclusions[u[1]] > 0
    BY <2>1
  <2>3. \A u : u \in Units(Groups \ {BaseName}, MinInclusions) <=>
               u \in Units(Needy(MinInclusions), MinInclusions)
    BY <2>2, UnitsDef DEF Needy
  <2>4. Units(Groups \ {BaseName}, MinInclusions) = Units(Needy(MinInclusions), MinInclusions)
    BY <2>3
  <2> QED
    BY <2>4 DEF SubsetSum, OtherNeeds, SumOver, Units, Needy
<1>2. SubsetSum \in Nat
  <2>1. MinInclusions \in [Groups -> Int]
    BY PolicyAssumption
  <2> QED
    BY <1>1, <2>1, OtherNeedsGoDown
<1>3. S \subseteq Nat /\ SubsetSum \in S /\ (BaseName \in Groups => MinInclusions[BaseName] \in S)
  BY <1>2, PolicyAssumption
<1>4. \E x \in S : \A y \in S : x >= y
  <2>1. CASE BaseName \in Groups
    <3>1. S = {SubsetSum, MinInclusions[BaseName]} /\ MinInclusions[BaseName] \in Nat
      BY <2>1, PolicyAssumption
    <3> QED
      BY <1>2, <3>1
  <2>2. CASE BaseName \notin Groups
    <3>1. S = {SubsetSum}
      BY <2>2
    <3> QED
      BY <1>2, <3>1
  <2> QED
    BY <2>1, <2>2
<1> HIDE DEF S
<1>5. PolicyTotal = CHOOSE x \in S : \A y \in S : x >= y
  BY DEF PolicyTotal, Max, S
<1>6. PolicyTotal \in S /\ \A y \in S : PolicyTotal >= y
  BY <1>4, <1>5
<1> QED
  BY <1>1, <1>2, <1>3, <1>6, PolicyAssumption

LEMMA CollectedFinite == Cardinality(Collected) \in Nat
<1>1. IsFiniteSet(Collected)
  BY LogsAssumption, FS_Subset DEF Collected
<1> QED
  BY <1>1, FS_CardinalityType

LEMMA InitWasteInv == Init => WasteInv
<1> SUFFICES ASSUME Init PROVE WasteInv
  OBVIOUS
<1>1. Registered /\ Awaited
  BY DEF Init, Registered, Awaited
<1>2. Collected = {} /\ groupNeeds = MinInclusions
  BY DEF Init, Collected
<1>3. Cardinality(Collected) = 0
  BY <1>2, FS_EmptySet
<1>4. MinInclusions \in [Groups -> Int] /\ MinInclusions \in [Groups -> Nat]
  BY PolicyAssumption
<1>5. OtherNeeds(MinInclusions) \in Nat
  BY <1>4, OtherNeedsGoDown
<1>6. Room
  BY <1>2, <1>3, <1>4, <1>5, TotalIsEnough DEF Room
<1> QED
  BY <1>1, <1>6 DEF WasteInv

\* Steps that change neither the needs, the SCTs nor the cancel functions, and start no
\* request.
LEMMA WasteUnchanged ==
    ASSUME WasteInv, UNCHANGED <<groupNeeds, cancels>>, Collected' = Collected,
           cancelled \subseteq cancelled', \A t \in Tasks : pc'[t] = "submit" => pc[t] = "submit"
    PROVE  WasteInv'
<1>1. Registered' /\ Awaited'
  BY DEF WasteInv, Registered, Awaited, IsAwaited
<1>2. OtherNeeds(groupNeeds)' = OtherNeeds(groupNeeds)
  BY DEF OtherNeeds
<1>3. Room'
  BY <1>2 DEF WasteInv, Room
<1> QED
  BY <1>1, <1>3 DEF WasteInv

LEMMA RequestWaste ==
    ASSUME IndInv, WasteInv, NEW t \in Tasks, Request(t)
    PROVE  WasteInv'
<1> DEFINE l == t[2]
<1>1. t[1] \in Groups /\ l \in Logs
  BY DEF Tasks
<1>2. UNCHANGED <<groupNeeds, cancelled>>
  BY DEF Request
<1>3. \A k \in Logs : k # l => results'[k] = results[k] /\ cancels'[k] = cancels[k]
  BY DEF Request, IndInv, TypeOK
<1>4. \A u \in Tasks : u # t => pc'[u] = pc[u]
  BY DEF Request, Goto, IndInv, TypeOK
<1>5. CASE cancels' = cancels /\ pc'[t] # "submit"
  <2>1. Collected' = Collected
    BY <1>1, <1>3 DEF Request, Collected, IndInv, TypeOK
  <2> QED
    BY <1>2, <1>4, <1>5, <2>1, WasteUnchanged
<1>6. CASE /\ results[l] = "none" /\ results' = [results EXCEPT ![l] = "empty"]
           /\ IsAwaited(groupNeeds, l) /\ cancels' = [cancels EXCEPT ![l] = t[1]]
  <2>1. Collected' = Collected
    BY <1>1, <1>6 DEF Collected, IndInv, TypeOK
  <2>2. cancels'[l] = t[1]
    BY <1>1, <1>6 DEF IndInv, TypeOK
  <2>3. \A u \in Tasks : u[2] = l => pc[u] # "submit"
    BY <1>6 DEF IndInv, SubmitInv
  <2>4. \A u \in Tasks : u[2] \in Logs
    BY DEF Tasks
  <2>5. Registered'
    BY <1>2, <1>3, <1>4, <2>2, <2>3, <2>4 DEF WasteInv, Registered
  <2>6. Awaited'
    BY <1>2, <1>3, <1>6, <2>2 DEF WasteInv, Awaited, IsAwaited
  <2>7. OtherNeeds(groupNeeds)' = OtherNeeds(groupNeeds)
    BY <1>2 DEF OtherNeeds
  <2>8. Room'
    BY <1>2, <2>1, <2>7 DEF WasteInv, Room
  <2> QED
    BY <2>5, <2>6, <2>8 DEF WasteInv
<1> QED
  BY <1>5, <1>6 DEF Request, Goto, IndInv, TypeOK

LEMMA SetSCTWaste ==
    ASSUME IndInv, WasteInv, NEW t \in Tasks, SetSCT(t)
    PROVE  WasteInv'
<1> DEFINE l == t[2]
           needs1 == NeedsAfterGroups(l)
           takes == BaseTakes(l, needs1)
           needs2 == IF takes THEN [needs1 EXCEPT ![BaseName] = @ - 1] ELSE needs1
           stored == StoredByGroup(l)
           stale == Stale(needs2)
<1>1. t[1] \in Groups /\ l \in Logs
  BY DEF Tasks
<1>2. /\ pc[t] = "submit" /\ pc' = [pc EXCEPT ![t] = "count"]
      /\ groupNeeds' = needs2
      /\ results' = IF stored \/ takes THEN [results EXCEPT ![l] = "sct"] ELSE results
      /\ cancels' = [k \in Logs |-> IF k \in stale THEN NoGroup ELSE cancels[k]]
      /\ cancelled' = cancelled \cup {<<cancels[k], k>> : k \in stale}
  BY DEF SetSCT, Goto
<1>3. /\ groupNeeds \in [Groups -> Int] /\ needs1 \in [Groups -> Int]
      /\ \A g \in Groups : needs1[g] = IF g \in GroupsOf(l) \ {BaseName} THEN groupNeeds[g] - 1
                                        ELSE groupNeeds[g]
  BY DEF NeedsAfterGroups, IndInv, TypeOK
<1>4. takes => BaseName \in Groups
  BY DEF BaseTakes, GroupsOf
<1> HIDE DEF needs1
<1>5. /\ needs2 \in [Groups -> Int]
      /\ \A g \in Groups \ {BaseName} : needs2[g] = needs1[g]
      /\ BaseName \in Groups => needs2[BaseName] = IF takes THEN groupNeeds[BaseName] - 1
                                                   ELSE groupNeeds[BaseName]
  BY <1>3, <1>4
<1>6. Registered'
  <2> SUFFICES ASSUME NEW u \in Tasks, pc'[u] = "submit"
               PROVE  u \in cancelled' \/ cancels'[u[2]] = u[1]
    BY DEF Registered
  <2>1. pc[u] = "submit" /\ u[2] \in Logs /\ u = <<u[1], u[2]>>
    BY <1>2 DEF IndInv, TypeOK, Tasks
  <2>2. u \in cancelled \/ cancels[u[2]] = u[1]
    BY <2>1 DEF WasteInv, Registered
  <2> QED
    BY <1>2, <2>1, <2>2
<1>7. Awaited'
  BY <1>2 DEF Awaited, Stale
<1>8. Room'
  <2> HIDE DEF needs2, stale, takes
  <2>1. l \notin Collected /\ Collected \in SUBSET Logs /\ IsFiniteSet(Collected)
    BY <1>2, LogsAssumption, FS_Subset DEF Collected, IndInv, SubmitInv
  <2>2. Collected' = IF stored \/ takes THEN Collected \cup {l} ELSE Collected
    BY <1>1, <1>2 DEF Collected, IndInv, TypeOK
  <2>3. /\ Cardinality(Collected) \in Nat
        /\ Cardinality(Collected') = IF stored \/ takes THEN Cardinality(Collected) + 1
                                     ELSE Cardinality(Collected)
    BY <2>1, <2>2, FS_AddElement, FS_CardinalityType
  <2>4. \A g \in Groups \ {BaseName} : needs2[g] <= groupNeeds[g]
    BY <1>3, <1>5
  <2>5. /\ OtherNeeds(groupNeeds) \in Nat /\ OtherNeeds(needs2) \in Nat
        /\ OtherNeeds(needs2) <= OtherNeeds(groupNeeds)
    BY <1>3, <1>5, <2>4, OtherNeedsGoDown
  <2>6. OtherNeeds(needs1) = OtherNeeds(needs2)
    <3>1. \A g \in Groups \ {BaseName} : needs1[g] <= needs2[g] /\ needs2[g] <= needs1[g]
      BY <1>3, <1>5
    <3>2. OtherNeeds(needs1) \in Nat /\ OtherNeeds(needs1) <= OtherNeeds(needs2)
      BY <1>3, <1>5, <3>1, OtherNeedsGoDown
    <3>3. OtherNeeds(needs2) <= OtherNeeds(needs1)
      BY <1>3, <1>5, <3>1, OtherNeedsGoDown
    <3> QED
      BY <2>5, <3>2, <3>3
  <2>7. PolicyTotal \in Nat
    BY TotalIsEnough
  <2>8. /\ Cardinality(Collected) + OtherNeeds(groupNeeds) <= PolicyTotal
        /\ BaseName \in Groups => Cardinality(Collected) + groupNeeds[BaseName] <= PolicyTotal
    BY DEF WasteInv, Room
  <2>9. BaseName \in Groups => groupNeeds[BaseName] \in Int
    BY <1>3
  <2>10. OtherNeeds(groupNeeds)' = OtherNeeds(needs2) /\ (BaseName \in Groups => groupNeeds'[BaseName] = needs2[BaseName])
    BY <1>2 DEF OtherNeeds
  <2>11. CASE stored
    <3>1. PICK g \in GroupsOf(l) \ {BaseName} : groupNeeds[g] > 0
      BY <2>11 DEF StoredByGroup
    <3>2. g \in Groups \ {BaseName} /\ needs2[g] < groupNeeds[g]
      BY <1>3, <1>5, <3>1 DEF GroupsOf
    <3>3. OtherNeeds(needs2) <= OtherNeeds(groupNeeds) - 1
      BY <1>3, <1>5, <2>4, <3>1, <3>2, OtherNeedsGoDown
    <3>4. BaseName \in Groups => takes
      BY <2>11, <3>1, BaseAssumption DEF takes, BaseTakes, GroupsOf
    <3>5. Cardinality(Collected') = Cardinality(Collected) + 1
      BY <2>3, <2>11
    <3>6. Cardinality(Collected') + OtherNeeds(needs2) <= PolicyTotal
      BY <2>3, <2>5, <2>7, <2>8, <3>3, <3>5
    <3>7. BaseName \in Groups => Cardinality(Collected') + needs2[BaseName] <= PolicyTotal
      BY <1>5, <2>3, <2>7, <2>8, <2>9, <3>4, <3>5
    <3> QED
      BY <2>10, <3>6, <3>7 DEF Room
  <2>12. CASE ~stored /\ takes
    <3>1. BaseName \in Groups /\ needs1[BaseName] > OtherNeeds(needs1)
      BY <1>4, <2>12 DEF takes, BaseTakes
    <3>2. needs1[BaseName] = groupNeeds[BaseName]
      BY <1>3, <3>1
    <3>3. Cardinality(Collected') = Cardinality(Collected) + 1
      BY <2>3, <2>12
    <3>4. Cardinality(Collected') + OtherNeeds(needs2) <= PolicyTotal
      BY <2>3, <2>5, <2>6, <2>7, <2>8, <2>9, <3>1, <3>2, <3>3
    <3>5. Cardinality(Collected') + needs2[BaseName] <= PolicyTotal
      BY <1>5, <2>3, <2>7, <2>8, <2>9, <2>12, <3>1, <3>3
    <3> QED
      BY <2>10, <3>4, <3>5 DEF Room
  <2>13. CASE ~stored /\ ~takes
    <3>1. Cardinality(Collected') = Cardinality(Collected)
      BY <2>3, <2>13
    <3>2. Cardinality(Collected') + OtherNeeds(needs2) <= PolicyTotal
      BY <2>3, <2>5, <2>7, <2>8, <3>1
    <3>3. BaseName \in Groups => Cardinality(Collected') + needs2[BaseName] <= PolicyTotal
      BY <1>5, <2>8, <2>13, <3>1
    <3> QED
      BY <2>10, <3>2, <3>3 DEF Room
  <2> QED
    BY <2>11, <2>12, <2>13
<1> QED
  BY <1>6, <1>7, <1>8 DEF WasteInv

LEMMA NextWasteInv == IndInv /\ WasteInv /\ [Next]_vars => WasteInv'
<1> SUFFICES ASSUME IndInv, WasteInv, [Next]_vars PROVE WasteInv'
  OBVIOUS
<1>1. CASE Tick \/ CancelContext \/ (\E g \in Groups : RaceStep(g)) \/ Return \/ UNCHANGED vars
  <2>1. UNCHANGED <<groupNeeds, results, cancels, cancelled, pc>>
    BY <1>1 DEF Tick, CancelContext, RaceStep, RaceCancelled, RaceCounts, RaceEnds, ReadEvent, Return,
                stateVars, vars
  <2>2. Collected' = Collected
    BY <2>1 DEF Collected
  <2> QED
    BY <2>1, <2>2, WasteUnchanged
<1>2. ASSUME NEW t \in Tasks, GiveUp(t) \/ CheckGroup(t) \/ CountCall(t) PROVE WasteInv'
  <2>1. UNCHANGED <<groupNeeds, results, cancels>> /\ cancelled \subseteq cancelled'
    BY <1>2 DEF GiveUp, CheckGroup, CountCall, stateVars
  <2>2. \A u \in Tasks : pc'[u] = "submit" => pc[u] = "submit"
    BY <1>2 DEF IndInv, TypeOK, GiveUp, CheckGroup, CountCall, Goto
  <2>3. Collected' = Collected
    BY <2>1 DEF Collected
  <2> QED
    BY <2>1, <2>2, <2>3, WasteUnchanged
<1>3. ASSUME NEW t \in Tasks, SetError(t) PROVE WasteInv'
  <2>1. UNCHANGED <<groupNeeds, cancels, cancelled>>
    BY <1>3 DEF SetError
  <2>2. \A u \in Tasks : pc'[u] = "submit" => pc[u] = "submit"
    BY <1>3 DEF IndInv, TypeOK, SetError, Goto
  <2>3. Collected' = Collected
    BY <1>3 DEF SetError, Goto, Collected, IndInv, TypeOK, SubmitInv, Tasks
  <2> QED
    BY <2>1, <2>2, <2>3, WasteUnchanged
<1>4. ASSUME NEW t \in Tasks, Request(t) \/ SetSCT(t) PROVE WasteInv'
  BY <1>4, RequestWaste, SetSCTWaste
<1> QED
  BY <1>1, <1>2, <1>3, <1>4 DEF Next, TaskStep

\* For every policy whose base group covers all Logs, whatever its groups and however
\* they overlap: a request that no group awaits is cancelled, and the base group leaves
\* room for the SCTs that the other groups need (setResult, races.go:77).
THEOREM NothingGoesToWaste == Spec => []NothingIsWasted
<1>1. ASSUME IndInv, WasteInv PROVE NothingIsWasted
  <2>1. UnneededRequestsCancelled
    <3> SUFFICES ASSUME NEW t \in Tasks, pc[t] = "submit", \A g \in GroupsOf(t[2]) : IsComplete(g)
                 PROVE  t \in cancelled
      BY DEF UnneededRequestsCancelled
    <3>1. t[1] \in Groups /\ t[2] \in Logs
      BY DEF Tasks
    <3>2. ~IsAwaited(groupNeeds, t[2])
      BY <1>1 DEF IsAwaited, IsComplete, GroupsOf, IndInv, TypeOK
    <3>3. cancels[t[2]] = NoGroup
      BY <1>1, <3>1, <3>2 DEF WasteInv, Awaited
    <3> QED
      BY <1>1, <3>1, <3>3, GroupsAssumption DEF WasteInv, Registered
  <2>2. NoSurplusSCTs
    <3>1. OtherNeeds(groupNeeds) \in Nat
      BY <1>1, OtherNeedsGoDown DEF IndInv, TypeOK
    <3> QED
      BY <1>1, <3>1, CollectedFinite, TotalIsEnough DEF WasteInv, Room, NoSurplusSCTs
  <2> QED
    BY <2>1, <2>2 DEF NothingIsWasted
<1>2. Spec => [](IndInv /\ WasteInv)
  BY InitImpliesIndInv, NextKeepsIndInv, InitWasteInv, NextWasteInv, PTL DEF Spec
<1> QED
  BY <1>1, <1>2, PTL

---------------------------------------------------------------------------
(* The Distributor.                                                        *)

\* What is known of the Logs is what they told at the last refresh, as far as it can be
\* parsed; the knowledge counts as full only when it is of every Log.
KnowledgeInv ==
    /\ DOMAIN told = DOMAIN logRoots
    /\ \A l \in DOMAIN logRoots : logRoots[l] = told[l] \ UnparsableRoots
    /\ rootDataFull \in BOOLEAN
    /\ rootDataFull => DOMAIN told = Clients

\* The Distributor counts as the races do.
LEMMA SameCardinality == \A S : D!Cardinality(S) = Cardinality(S)
BY Zenon DEF D!Cardinality, Cardinality

LEMMA EndRefreshKeeps == KnowledgeInv /\ D!EndRefresh => KnowledgeInv'
<1> SUFFICES ASSUME D!EndRefresh PROVE KnowledgeInv'
  OBVIOUS
<1> DEFINE known == {l \in Clients : answer[l] = "ok"}
<1>1. /\ logRoots' = [l \in known |-> answered[l] \ UnparsableRoots]
      /\ told' = [l \in known |-> answered[l]]
      /\ rootDataFull' = (D!Cardinality(known) = D!Cardinality(Clients))
  BY Zenon DEF D!EndRefresh
<1>2. D!Cardinality(known) = D!Cardinality(Clients) => known = Clients
  BY SameCardinality, ClientsAssumption, FS_Subset
<1> HIDE DEF known
<1>3. rootDataFull' \in BOOLEAN /\ (rootDataFull' => known = Clients)
  BY <1>1, <1>2, Zenon
<1>4. DOMAIN told' = known /\ DOMAIN logRoots' = known
  BY <1>1
<1>5. \A l \in known : logRoots'[l] = told'[l] \ UnparsableRoots
  BY <1>1
<1> QED
  BY <1>3, <1>4, <1>5 DEF KnowledgeInv

LEMMA NextKnowledge == KnowledgeInv /\ [D!Next]_(D!vars) => KnowledgeInv'
<1> SUFFICES ASSUME KnowledgeInv, [D!Next]_(D!vars) PROVE KnowledgeInv'
  OBVIOUS
<1>1. CASE D!EndRefresh
  BY <1>1, EndRefreshKeeps
<1>2. CASE UNCHANGED <<logRoots, rootDataFull, told>>
  BY <1>2 DEF KnowledgeInv
<1> QED
  BY <1>1, <1>2 DEF D!Next, D!Refresh, D!BeginRefresh, D!Answers, D!AnswerFails, D!AddSomeChain,
                    D!Returns, D!SubmitPending, D!ChangeRoots, D!vars, D!rootVars

\* However the refreshes of the roots, the answers of the Logs and the requests are
\* interleaved, a good chain is refused only when every Log of the last refresh has told
\* its roots and the chain's root is none of them (distributor.go:263).
THEOREM RefusalsAreJustified == D!Spec => []RefusalIsJustified
<1>1. D!Init => KnowledgeInv
  BY DEF D!Init, KnowledgeInv
<1>2. D!Spec => []KnowledgeInv
  BY <1>1, NextKnowledge, PTL DEF D!Spec
<1>3. ASSUME KnowledgeInv PROVE RefusalIsJustified
  <2> SUFFICES ASSUME NEW r \in Roots \ UnparsableRoots, D!RefusedChain(D!GoodChain(r, Usable))
               PROVE  DOMAIN told = Clients /\ r \notin UNION D!Range(told)
    BY DEF RefusalIsJustified, D!RefusalIsJustified
  <2>1. rootDataFull /\ r \notin D!rootPool
    BY DEF D!RefusedChain, D!Validates, D!GoodChain
  <2>2. DOMAIN told = Clients
    BY <1>3, <2>1 DEF KnowledgeInv
  <2>3. ASSUME NEW l \in DOMAIN told, r \in told[l] PROVE FALSE
    <3>1. l \in DOMAIN logRoots /\ r \in logRoots[l]
      BY <1>3, <2>3 DEF KnowledgeInv
    <3> QED
      BY <2>1, <3>1 DEF D!rootPool, D!Range
  <2> QED
    BY <2>2, <2>3 DEF D!Range
<1> QED
  BY <1>2, <1>3, PTL

----------------------------------------------------------------------------
(* The proxy.                                                              *)

\* The channel LLUpdates has capacity 1, and the state is of its type.
Channel == updates = <<>> \/ \E v \in P!Lists : updates = <<v>>

\* The places a version passes on its way to the proxy, newest first.
ListOrder ==
    /\ latestLL = lastJSON /\ latestLL <= published
    /\ dist <= latestLL
    /\ updates # <<>> => dist < Head(updates) /\ Head(updates) <= latestLL
    /\ mgr = "sendList" =>
        dist < latestLL /\ (updates # <<>> => Head(updates) < latestLL)

\* Init is told once there is a Distributor, and closed untold only by a proxy
\* that was told to stop.
InitOrder ==
    /\ init <=> initChan = "true"
    /\ initChan = "true" => dist # 0
    /\ initChan = "closed" => stopped

\* A request between its two reads of p.dist, and after them.
RequestOrder ==
    \A r \in Submissions :
        /\ req[r] = "checked" => began[r] # 0 /\ began[r] <= dist
        /\ req[r] = "passed" => used[r] >= began[r] /\ used[r] # 0

ProxyInv == P!TypeOK /\ Channel /\ ListOrder /\ InitOrder /\ RequestOrder

\* NewProxy establishes the invariant.
LEMMA InitProxyInv == P!Init => ProxyInv
<1> SUFFICES ASSUME P!Init PROVE ProxyInv
  OBVIOUS
<1> USE ListsAssumption DEF P!Lists
<1>1. /\ {lastJSON, latestLL, previousLL, dist} \subseteq 0..MaxLists
      /\ published \in 1..MaxLists
  BY DEF P!Init
<1>2. /\ rfr \in [P!Lists -> {"none", "start", "refresh", "tick", "ended"}]
      /\ req \in [Submissions -> {"idle", "checked", "refused", "passed"}]
      /\ began \in [Submissions -> 0..MaxLists] /\ used \in [Submissions -> 0..MaxLists]
  BY DEF P!Init
<1>3. stopped \in BOOLEAN /\ init \in BOOLEAN
  BY Zenon DEF P!Init
<1>4. P!TypeOK
  BY <1>1, <1>2, <1>3 DEF P!TypeOK, P!Init
<1>5. Channel /\ ListOrder /\ InitOrder /\ RequestOrder
  BY DEF P!Init, Channel, ListOrder, InitOrder, RequestOrder
<1>6. QED
  BY <1>4, <1>5 DEF ProxyInv

\* The steps of the manager: what it has read is newer than what it has sent.
LEMMA ManagerSteps ==
    ASSUME ProxyInv, P!Manager \/ P!ReadFails \/ P!ManagerEnds
    PROVE  ProxyInv'
<1> USE ListsAssumption DEF ProxyInv, P!Lists, P!prxVars, P!reqVars
<1>1. CASE P!ManagerStarts
  BY <1>1 DEF P!ManagerStarts, P!TypeOK, Channel, ListOrder, InitOrder, RequestOrder
<1>2. CASE P!ReadFails
  BY <1>2 DEF P!ReadFails, P!TypeOK, Channel, ListOrder, InitOrder, RequestOrder
<1>3. CASE P!RefreshLogList
  BY <1>3 DEF P!RefreshLogList, P!Refresh, P!TypeOK, Channel, ListOrder, InitOrder, RequestOrder
<1>4. CASE P!SendError
  BY <1>4 DEF P!SendError, P!TypeOK, Channel, ListOrder, InitOrder, RequestOrder
<1>5. CASE P!SendList
  <2>1. latestLL \in 1..MaxLists
    BY <1>5 DEF P!SendList, P!TypeOK, ListOrder
  <2>2. updates' \in Seq(1..MaxLists) /\ Len(updates') = 1 /\ Head(updates') = latestLL
    BY <1>5, <2>1 DEF P!SendList
  <2>3. QED
    BY <1>5, <2>1, <2>2 DEF P!SendList, P!TypeOK, Channel, ListOrder, InitOrder, RequestOrder
<1>6. CASE P!ManagerTicks
  BY <1>6 DEF P!ManagerTicks, P!TypeOK, Channel, ListOrder, InitOrder, RequestOrder
<1>7. CASE P!ManagerEnds
  BY <1>7 DEF P!ManagerEnds, P!TypeOK, Channel, ListOrder, InitOrder, RequestOrder
<1>8. QED
  BY <1>1, <1>2, <1>3, <1>4, <1>5, <1>6, <1>7 DEF P!Manager

\* The steps of the proxy: a version that arrives is newer than the one in use.
LEMMA ProxySteps ==
    ASSUME ProxyInv, P!Proxy \/ P!ProxyEnds
    PROVE  ProxyInv' /\ dist' >= dist
<1> USE ListsAssumption DEF ProxyInv, P!Lists, P!mgrVars, P!prxVars, P!reqVars
<1>1. CASE P!LogsError
  BY <1>1 DEF P!LogsError, P!TypeOK, Channel, ListOrder, InitOrder, RequestOrder
<1>2. CASE P!ProxyEnds
  BY <1>2 DEF P!ProxyEnds, P!TypeOK, Channel, ListOrder, InitOrder, RequestOrder
<1>3. CASE P!RestartDistributor
  <2>1. PICK v \in 1..MaxLists : updates = <<v>>
    BY <1>3 DEF P!RestartDistributor, Channel
  <2>2. Head(updates) = v /\ dist < v /\ v <= latestLL
    BY <2>1 DEF ListOrder
  <2>3. updates' = <<>> /\ updates' \in Seq(1..MaxLists) /\ Len(updates') = 0
    BY <1>3 DEF P!RestartDistributor
  <2>4. CASE v \in Unusable
    <3>1. UNCHANGED <<published, lastJSON, latestLL, previousLL, mgr, errs, stopped, prx,
                      init, initChan, dist, replaced, rfr, req, began, used>>
      BY <1>3, <2>2, <2>4 DEF P!RestartDistributor
    <3>2. P!TypeOK'
      BY <2>3, <3>1 DEF P!TypeOK
    <3>3. Channel' /\ ListOrder'
      BY <2>3, <3>1 DEF P!TypeOK, Channel, ListOrder
    <3>4. InitOrder' /\ RequestOrder'
      BY <3>1 DEF InitOrder, RequestOrder
    <3>5. QED
      BY <3>1, <3>2, <3>3, <3>4 DEF P!TypeOK
  <2>5. CASE v \notin Unusable
    <3>1. /\ dist' = v /\ init' = TRUE /\ initChan' = "true" /\ prx' = prx
          /\ replaced' = replaced \cup ({dist} \ {0})
          /\ rfr' = [rfr EXCEPT ![v] = "start"]
          /\ UNCHANGED <<published, lastJSON, latestLL, previousLL, mgr, errs, stopped,
                         req, began, used>>
      BY <1>3, <2>2, <2>5 DEF P!RestartDistributor
    <3>2. P!TypeOK'
      <4>1. replaced' \subseteq 1..MaxLists /\ dist' \in 0..MaxLists
        <5>1. dist \in 0..MaxLists /\ replaced \subseteq 1..MaxLists
          BY DEF P!TypeOK
        <5>2. {dist} \ {0} \subseteq 1..MaxLists
          BY <5>1
        <5>3. QED
          BY <3>1, <5>1, <5>2
      <4>2. rfr' \in [1..MaxLists -> {"none", "start", "refresh", "tick", "ended"}]
        BY <3>1 DEF P!TypeOK
      <4>3. init' \in BOOLEAN
        BY <3>1, Zenon
      <4>4. previousLL' \in 0..MaxLists /\ latestLL' \in 0..MaxLists /\ lastJSON' \in 0..MaxLists
        BY <3>1 DEF P!TypeOK
      <4>5. /\ published' \in 1..MaxLists /\ stopped' \in BOOLEAN
            /\ mgr' \in {"start", "refresh", "sendErr", "sendList", "tick", "ended"}
            /\ errs' \in 0..1
            /\ prx' \in {"select", "ended"}
            /\ initChan' \in {"open", "true", "closed"}
            /\ req' \in [Submissions -> {"idle", "checked", "refused", "passed"}]
            /\ began' \in [Submissions -> 0..MaxLists] /\ used' \in [Submissions -> 0..MaxLists]
        BY <3>1 DEF P!TypeOK
      <4>6. QED
        BY <2>3, <4>1, <4>2, <4>3, <4>4, <4>5 DEF P!TypeOK
    <3>3. Channel' /\ ListOrder'
      <4>1. Channel'
        BY <2>3 DEF Channel
      <4>2. mgr # "sendList" \/ v < latestLL
        BY <2>1, <2>2 DEF ListOrder
      <4>3. latestLL = lastJSON /\ latestLL <= published
        BY DEF ListOrder
      <4>4. QED
        BY <2>2, <2>3, <3>1, <4>1, <4>2, <4>3 DEF ListOrder
    <3>4. InitOrder'
      BY <2>1, <3>1 DEF InitOrder
    <3>5. RequestOrder'
      BY <2>2, <3>1 DEF P!TypeOK, RequestOrder
    <3>6. QED
      BY <2>2, <3>1, <3>2, <3>3, <3>4, <3>5 DEF P!TypeOK
  <2>6. QED
    BY <2>4, <2>5
<1>4. QED
  BY <1>1, <1>2, <1>3 DEF P!Proxy

\* The goroutines that refresh the roots.
LEMMA RefresherSteps ==
    ASSUME ProxyInv, NEW v \in P!Lists, P!Refresher(v) \/ P!RefresherTicks(v) \/ P!RefresherEnds(v)
    PROVE  ProxyInv' /\ dist' = dist
<1> USE DEF ProxyInv, P!mgrVars, P!prxVars, P!reqVars
<1>1. CASE P!RefresherStarts(v)
  BY <1>1 DEF P!RefresherStarts, P!TypeOK, Channel, ListOrder, InitOrder, RequestOrder
<1>2. CASE P!RootsRefreshed(v)
  BY <1>2 DEF P!RootsRefreshed, P!TypeOK, Channel, ListOrder, InitOrder, RequestOrder
<1>3. CASE P!RefresherTicks(v)
  BY <1>3 DEF P!RefresherTicks, P!TypeOK, Channel, ListOrder, InitOrder, RequestOrder
<1>4. CASE P!RefresherEnds(v)
  BY <1>4 DEF P!RefresherEnds, P!TypeOK, Channel, ListOrder, InitOrder, RequestOrder
<1>5. QED
  BY <1>1, <1>2, <1>3, <1>4 DEF P!Refresher

\* Submissions read p.dist.
LEMMA RequestSteps ==
    ASSUME ProxyInv, NEW r \in Submissions, P!CheckDist(r) \/ P!UseDist(r)
    PROVE  ProxyInv' /\ dist' = dist
<1> USE DEF ProxyInv, P!mgrVars, P!prxVars
<1>1. CASE P!CheckDist(r)
  <2>1. UNCHANGED <<published, lastJSON, latestLL, previousLL, mgr, errs, updates, stopped,
                    prx, init, initChan, dist, replaced, rfr>>
    BY <1>1 DEF P!CheckDist
  <2>2. /\ began' = [began EXCEPT ![r] = dist] /\ used' = [used EXCEPT ![r] = 0]
        /\ req' = [req EXCEPT ![r] = IF dist = 0 THEN "refused" ELSE "checked"]
    BY <1>1 DEF P!CheckDist
  <2>3. dist \in 0..MaxLists /\ 0 \in 0..MaxLists
    BY ListsAssumption DEF P!TypeOK
  <2>4. P!TypeOK'
    BY <2>1, <2>2, <2>3 DEF P!TypeOK
  <2>5. Channel' /\ ListOrder' /\ InitOrder'
    BY <2>1 DEF Channel, ListOrder, InitOrder
  <2>6. RequestOrder'
    BY <2>1, <2>2, <2>3 DEF P!TypeOK, RequestOrder
  <2>7. QED
    BY <2>1, <2>4, <2>5, <2>6
<1>2. CASE P!UseDist(r)
  BY <1>2 DEF P!UseDist, P!TypeOK, Channel, ListOrder, InitOrder, RequestOrder
<1>3. QED
  BY <1>1, <1>2

\* The environment.
LEMMA EnvironmentSteps ==
    ASSUME ProxyInv, P!Publish \/ P!Cancel \/ UNCHANGED P!vars
    PROVE  ProxyInv' /\ dist' = dist
<1> USE ListsAssumption DEF ProxyInv, P!Lists, P!mgrVars, P!prxVars, P!reqVars
<1>1. CASE P!Publish
  BY <1>1 DEF P!Publish, P!TypeOK, Channel, ListOrder, InitOrder, RequestOrder
<1>2. CASE P!Cancel
  BY <1>2 DEF P!Cancel, P!TypeOK, Channel, ListOrder, InitOrder, RequestOrder
<1>3. CASE UNCHANGED P!vars
  BY <1>3 DEF P!vars, P!TypeOK, Channel, ListOrder, InitOrder, RequestOrder
<1>4. QED
  BY <1>1, <1>2, <1>3

\* Every step preserves the invariant, and no step goes back to an older list.
LEMMA NextProxyInv == ProxyInv /\ [P!Next]_(P!vars) => ProxyInv' /\ dist' >= dist
<1> SUFFICES ASSUME ProxyInv, [P!Next]_(P!vars) PROVE ProxyInv' /\ dist' >= dist
  OBVIOUS
<1>1. dist \in Int
  BY ListsAssumption DEF ProxyInv, P!TypeOK
<1>2. CASE P!Manager \/ P!ReadFails \/ P!ManagerEnds
  <2>1. dist' = dist
    BY <1>2 DEF P!Manager, P!ManagerStarts, P!ReadFails, P!RefreshLogList, P!SendError, P!SendList,
       P!ManagerTicks, P!ManagerEnds, P!prxVars
  <2>2. QED
    BY <1>1, <1>2, <2>1, ManagerSteps
<1>3. CASE P!Proxy \/ P!ProxyEnds
  BY <1>3, ProxySteps
<1>4. CASE \E v \in P!Lists : P!Refresher(v) \/ P!RefresherTicks(v) \/ P!RefresherEnds(v)
  BY <1>1, <1>4, RefresherSteps
<1>5. CASE \E r \in Submissions : P!CheckDist(r) \/ P!UseDist(r)
  BY <1>1, <1>5, RequestSteps
<1>6. CASE P!Publish \/ P!Cancel \/ UNCHANGED P!vars
  BY <1>1, <1>6, EnvironmentSteps
<1>7. QED
  BY <1>2, <1>3, <1>4, <1>5, <1>6 DEF P!Next

\* Every reachable state satisfies the invariant.
THEOREM ProxyInvariance == P!Spec => []ProxyInv
BY InitProxyInv, NextProxyInv, PTL DEF P!Spec

\* The state is of its type, the channels within their capacities.
THEOREM ProxyTypeCorrect == P!Spec => []P!TypeOK
<1>1. ProxyInv => P!TypeOK
  BY DEF ProxyInv
<1>2. QED
  BY <1>1, ProxyInvariance, PTL

\* Whatever lists come and whenever they and the requests pass each other: once
\* Init was told or closed there is a Distributor or the proxy was told to stop,
\* and no request gets a Distributor that is older than the one in use when it
\* came (Proxy.Run, restartDistributor, AddChain).
THEOREM RequestsAreServed == P!Spec => []RequestsGetDistributor
<1>1. ProxyInv => RequestsGetDistributor
  BY DEF ProxyInv, P!TypeOK, InitOrder, RequestOrder, P!RequestsGetDistributor, RequestsGetDistributor
<1>2. QED
  BY <1>1, ProxyInvariance, PTL

\* A Distributor is only ever replaced by that of a newer list, so that a list
\* that was replaced never comes back (restartDistributor).
THEOREM ListsAreNotReverted == P!Spec => [][dist' > dist]_dist
<1>1. ProxyInv /\ [P!Next]_(P!vars) => [dist' > dist]_dist
  BY NextProxyInv, ListsAssumption DEF ProxyInv, P!TypeOK
<1>2. QED
  BY <1>1, ProxyInvariance, PTL DEF P!Spec
============================================================================
