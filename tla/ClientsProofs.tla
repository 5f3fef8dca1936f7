------------------------- MODULE ClientsProofs ---------------------------
(***************************************************************************)
(* Proofs about the parts on the client's side of a Log, in this order:    *)
(*   TemporalLog: an accepted configuration splits its time into shards,   *)
(*     every chain goes to the shard of its date, and the roots of all     *)
(*     shards are united, whatever the order of their answers;             *)
(*   JSONClient: no caller comes back before the time it was given;        *)
(*   CTPolicy: the groups mean compliance and stay reachable;              *)
(*   Preloader: every entry found has one true record in the end;          *)
(*   FixChain: no certificate is lost between the file and the Log.        *)
(***************************************************************************)
EXTENDS MCClients, FiniteSetTheorems, WellFoundedInduction, TLAPS
----------------------------------------------------------------------------
(* TemporalLog.                                                            *)

\* The shards 1..n split the overall interval.
Split(n, all) ==
    \A d \in Dates :
        /\ Within(d, all) <=> \E i \in 1..n : Within(d, cfg[i])
        /\ \A i, j \in 1..n : Within(d, cfg[i]) /\ Within(d, cfg[j]) => i = j

Ordered(interval) == Nil \in {interval.lower, interval.upper} \/ interval.lower < interval.upper

\* The loop invariant of NewTemporalLogClient: the intervals are those of the first
\* shards, and these split the overall interval, which is not inverted.
BuildInv ==
    /\ cfg \in Seq(Shards)
    /\ build \in {"first", "next", "clients", "ready", "failed"}
    /\ intervals \in Seq(Intervals) /\ Len(intervals) <= Len(cfg)
    /\ \A i \in 1..Len(intervals) : intervals[i] = cfg[i]
    /\ build = "first" => intervals = <<>>
    /\ build \in {"next", "clients", "ready"} =>
        /\ Len(intervals) > 0
        /\ overall \in Intervals
        /\ Ordered(overall)
        /\ Split(Len(intervals), overall)
    /\ build \in {"clients", "ready"} => Len(intervals) = Len(cfg)

\* What addChain has done.
AddInv ==
    /\ adding \in Dates \cup {Nil}
    /\ adding # Nil => build = "ready"
    /\ RoutedToItsShard

\* The shards whose answer is in the channel, and those whose answer was received.
Queued == {results[k] : k \in 1..Len(results)}
Got == ShardNumbers \ (asked \cup Queued)

\* The loop invariant of GetAcceptedRoots: every shard is in one place, asked, queued
\* once or received, and what was received is counted and united.
RootInv ==
    /\ Len(cfg) <= MaxShards
    /\ accepted \in [1..MaxShards -> SUBSET Roots]
    /\ call \in {"idle", "running", "ok", "error"}
    /\ call # "idle" => build = "ready"
    /\ asked \subseteq ShardNumbers
    /\ results \in Seq(ShardNumbers) /\ Len(results) <= NumShards
    /\ \A j, k \in 1..Len(results) : results[j] = results[k] => j = k
    /\ \A k \in 1..Len(results) : results[k] \notin asked
    /\ seen \subseteq Roots /\ nRoots = Cardinality(seen)
    /\ call = "idle" => asked = {} /\ results = <<>> /\ received = 0 /\ seen = {}
    /\ received \in 0..NumShards
    /\ call = "running" =>
        /\ received < NumShards /\ received = Cardinality(Got)
        /\ Got \cap fails = {}
        /\ \A x : x \in seen <=> \E i \in Got : x \in accepted[i]
    /\ RootsAreUnion

----------------------------------------------------------------------------
\* One shard that is valid splits its own interval.
LEMMA OneShard ==
    ASSUME cfg \in Seq(Shards), Len(cfg) > 0, ValidShard(cfg[1])
    PROVE  /\ cfg[1] \in Intervals
           /\ Ordered(cfg[1])
           /\ Split(1, cfg[1])
<1>1. cfg[1] \in Shards
  OBVIOUS
<1>2. cfg[1] \in Intervals
  BY <1>1 DEF Shards, Intervals, Bounds, ValidShard
<1>3. Ordered(cfg[1])
  BY DEF Ordered, ValidShard
<1>4. Split(1, cfg[1])
  BY DEF Split
<1> QED
  BY <1>2, <1>3, <1>4

\* A shard that starts where the overall interval ends extends the split by one.
LEMMA OneMoreShard ==
    ASSUME cfg \in Seq(Shards), overall \in Intervals, Ordered(overall),
           NEW n \in Nat, n < Len(cfg), Split(n, overall),
           ValidShard(cfg[n + 1]), Extends(cfg[n + 1])
    PROVE  LET all == [overall EXCEPT !.upper = cfg[n + 1].upper]
           IN  /\ cfg[n + 1] \in Intervals
               /\ all \in Intervals
               /\ Ordered(all)
               /\ Split(n + 1, all)
<1> DEFINE s == cfg[n + 1]
           all == [overall EXCEPT !.upper = s.upper]
<1>0. s \in Shards
  OBVIOUS
<1>1. s \in Intervals
  BY <1>0 DEF Shards, Intervals, Bounds, ValidShard
<1>2. all \in Intervals /\ all.lower = overall.lower /\ all.upper = s.upper
  BY <1>1 DEF Intervals
<1>3. /\ s.lower \in Dates /\ s.lower \in Int /\ overall.upper = s.lower
      /\ s.upper # Nil => s.upper \in Int /\ s.lower < s.upper
      /\ overall.lower # Nil => overall.lower \in Int /\ overall.lower < s.lower
  <2>1. s.lower \in Dates /\ s.lower \in Int /\ overall.upper = s.lower
    BY <1>1, DatesAssumption DEF Extends, Intervals
  <2>2. s.upper # Nil => s.upper \in Int /\ s.lower < s.upper
    BY <1>1, <2>1, DatesAssumption, NilAssumption DEF ValidShard, Intervals
  <2>3. overall.lower # Nil => overall.lower \in Int /\ overall.lower < s.lower
    BY <2>1, DatesAssumption, NilAssumption DEF Ordered, Intervals
  <2> QED
    BY <2>1, <2>2, <2>3
<1>4. Ordered(all)
  BY <1>2, <1>3 DEF Ordered
<1>5. ASSUME NEW d \in Dates
      PROVE  /\ Within(d, all) <=> Within(d, overall) \/ Within(d, s)
             /\ ~(Within(d, overall) /\ Within(d, s))
  <2>1. d \in Int
    BY DatesAssumption
  <2>2. s.lower # Nil /\ overall.upper # Nil
    BY DEF Extends
  <2> HIDE DEF s, all
  <2> QED
    BY <1>2, <1>3, <2>1, <2>2 DEF Within
<1>6. Split(n + 1, all)
  <2> SUFFICES ASSUME NEW d \in Dates
               PROVE  /\ Within(d, all) <=> \E i \in 1..(n + 1) : Within(d, cfg[i])
                      /\ \A i, j \in 1..(n + 1) : Within(d, cfg[i]) /\ Within(d, cfg[j]) => i = j
    BY DEF Split
  <2>1. /\ Within(d, overall) <=> \E i \in 1..n : Within(d, cfg[i])
        /\ \A i, j \in 1..n : Within(d, cfg[i]) /\ Within(d, cfg[j]) => i = j
    BY DEF Split
  <2>2. \A i : i \in 1..(n + 1) <=> i \in 1..n \/ i = n + 1
    OBVIOUS
  <2> QED
    BY <1>5, <2>1, <2>2
<1> QED
  BY <1>1, <1>2, <1>4, <1>6

----------------------------------------------------------------------------
LEMMA BuildInit == Init => BuildInv
<1> SUFFICES ASSUME Init PROVE BuildInv
  OBVIOUS
<1>1. cfg \in Seq(Shards)
  BY ShardsAssumption DEF Init
<1> QED
  BY <1>1 DEF Init, BuildInv

LEMMA BuildFailsKeeps == BuildInv /\ BuildFails /\ cfg' = cfg => BuildInv'
  BY DEF BuildInv, BuildFails

LEMMA FirstShardKeeps == BuildInv /\ FirstShard => BuildInv'
<1> SUFFICES ASSUME BuildInv, FirstShard PROVE BuildInv'
  OBVIOUS
<1>1. CASE NumShards > 0 /\ ValidShard(cfg[1])
  <2>1. /\ cfg[1] \in Intervals
        /\ Ordered(cfg[1])
        /\ Split(1, cfg[1])
    BY <1>1, OneShard DEF BuildInv, NumShards
  <2>2. /\ build' = "next" /\ overall' = cfg[1] /\ intervals' = <<cfg[1]>> /\ cfg' = cfg
        /\ Len(cfg) \in Nat /\ Len(cfg) > 0
    BY <1>1 DEF FirstShard, NumShards, BuildInv
  <2>3. Split(Len(intervals), overall)'
    BY <2>1, <2>2 DEF Split, Within
  <2>4. Ordered(overall)'
    BY <2>1, <2>2 DEF Ordered
  <2> QED
    BY <2>1, <2>2, <2>3, <2>4 DEF BuildInv
<1>2. CASE ~(NumShards > 0 /\ ValidShard(cfg[1]))
  BY <1>2, BuildFailsKeeps DEF FirstShard
<1> QED
  BY <1>1, <1>2

LEMMA NextShardKeeps == BuildInv /\ NextShard => BuildInv'
<1> SUFFICES ASSUME BuildInv, NextShard PROVE BuildInv'
  OBVIOUS
<1> DEFINE n == Len(intervals)
           all == [overall EXCEPT !.upper = cfg[n + 1].upper]
<1>0. /\ n \in Nat /\ n > 0 /\ n < Len(cfg) /\ Len(cfg) \in Nat /\ build = "next" /\ cfg' = cfg
      /\ cfg \in Seq(Shards) /\ overall \in Intervals /\ Ordered(overall) /\ Split(n, overall)
  BY DEF BuildInv, NextShard, NumShards
<1>1. CASE ValidShard(cfg[n + 1]) /\ Extends(cfg[n + 1])
  <2>1. /\ cfg[n + 1] \in Intervals
        /\ all \in Intervals
        /\ Ordered(all)
        /\ Split(n + 1, all)
    BY <1>0, <1>1, OneMoreShard
  <2>2. /\ build' = "next" /\ overall' = all /\ intervals' = Append(intervals, cfg[n + 1])
    BY <1>0, <1>1 DEF NextShard
  <2>3. /\ intervals' \in Seq(Intervals) /\ Len(intervals') = n + 1
        /\ \A i \in 1..(n + 1) : intervals'[i] = cfg[i]
    BY <1>0, <2>1, <2>2 DEF BuildInv
  <2>4. Split(Len(intervals), overall)'
    BY <1>0, <2>1, <2>2, <2>3 DEF Split, Within
  <2>5. Ordered(overall)'
    BY <2>1, <2>2 DEF Ordered
  <2> HIDE DEF n, all
  <2> QED
    BY <1>0, <2>1, <2>2, <2>3, <2>4, <2>5 DEF BuildInv
<1>2. CASE ~(ValidShard(cfg[n + 1]) /\ Extends(cfg[n + 1]))
  BY <1>0, <1>2, BuildFailsKeeps DEF NextShard
<1> QED
  BY <1>1, <1>2

\* The other steps leave the configuration and the intervals alone.
LEMMA OtherStepsKeep ==
    ASSUME BuildInv, UNCHANGED <<cfg, overall, intervals>>,
           \/ UNCHANGED build
           \/ build = "next" /\ Len(intervals) = Len(cfg) /\ build' = "clients"
           \/ build = "clients" /\ build' \in {"ready", "failed"}
    PROVE  BuildInv'
<1>1. Split(Len(intervals), overall)' <=> Split(Len(intervals), overall)
  BY DEF Split, Within
<1>2. Ordered(overall)' <=> Ordered(overall)
  BY DEF Ordered
<1> QED
  BY <1>1, <1>2 DEF BuildInv

LEMMA BuildStepKeeps == BuildInv /\ [Next]_vars => BuildInv'
<1> SUFFICES ASSUME BuildInv, [Next]_vars PROVE BuildInv'
  OBVIOUS
<1>1. CASE FirstShard
  BY <1>1, FirstShardKeeps
<1>2. CASE NextShard
  BY <1>2, NextShardKeeps
<1>3. CASE LastShard \/ MakeClients
  BY <1>3, OtherStepsKeep DEF LastShard, MakeClients, NumShards
<1>4. CASE \E date \in Dates : AddChain(date)
  BY <1>4, OtherStepsKeep DEF AddChain, buildVars
<1>5. CASE GetAcceptedRoots \/ ReceiveResult
  BY <1>5, OtherStepsKeep DEF GetAcceptedRoots, ReceiveResult, buildVars
<1>6. CASE \E i \in ShardNumbers : ShardAnswers(i)
  BY <1>6, OtherStepsKeep DEF ShardAnswers, buildVars
<1>7. CASE UNCHANGED vars
  BY <1>7, OtherStepsKeep DEF vars, buildVars
<1> QED
  BY <1>1, <1>2, <1>3, <1>4, <1>5, <1>6, <1>7 DEF Next, BuildStep

\* The loop invariant holds of NewTemporalLogClient (multilog.go:92).
THEOREM BuildInvHolds == Spec => []BuildInv
<1> QED
  BY BuildInit, BuildStepKeeps, PTL DEF Spec

\* Every configuration that is accepted splits its time into shards, however many and
\* whatever their dates: no date of the overall interval is in no shard or in two
\* (multilog.go:103).
THEOREM ConfigsPartition == Spec => []ShardsPartition
<1>1. BuildInv => ShardsPartition
  BY DEF BuildInv, ShardsPartition, Split, ShardNumbers, NumShards
<1> QED
  BY <1>1, BuildInvHolds, PTL

----------------------------------------------------------------------------
LEMMA AddStepKeeps == BuildInv /\ AddInv /\ [Next]_vars => AddInv'
<1> SUFFICES ASSUME BuildInv, AddInv, [Next]_vars PROVE AddInv'
  OBVIOUS
<1>1. ASSUME UNCHANGED <<cfg, addVars>>, adding = Nil \/ UNCHANGED build
      PROVE  AddInv'
  BY <1>1 DEF AddInv, addVars, RoutedToItsShard, ShardNumbers, NumShards, Within
<1>2. CASE BuildStep
  BY <1>1, <1>2 DEF BuildStep, FirstShard, NextShard, LastShard, MakeClients, AddInv
<1>3. ASSUME NEW date \in Dates, AddChain(date)
      PROVE  AddInv'
  <2>1. /\ build = "ready" /\ build' = build /\ cfg' = cfg /\ adding' = date
        /\ IsIndexByDate(routed', date) /\ routed' \in 0..Len(cfg)
    BY <1>3 DEF AddChain, buildVars, NumShards
  <2>2. /\ Len(intervals) = Len(cfg) /\ Len(cfg) \in Nat /\ DOMAIN intervals = 1..Len(cfg)
        /\ \A i \in 1..Len(cfg) : intervals[i] = cfg[i]
    BY <2>1 DEF BuildInv
  <2>3. CASE routed' = 0
    <3>1. \A i \in 1..Len(cfg) : ~Within(date, cfg[i])
      BY <2>1, <2>2, <2>3 DEF IsIndexByDate
    <3> QED
      BY <2>1, <2>2, <2>3, <3>1 DEF AddInv, RoutedToItsShard, ShardNumbers, NumShards, Within
  <2>4. CASE routed' # 0
    <3>1. routed' \in 1..Len(cfg) /\ Within(date, cfg[routed'])
      BY <2>1, <2>2, <2>4 DEF IsIndexByDate
    <3>2. \A i, j \in 1..Len(cfg) : Within(date, cfg[i]) /\ Within(date, cfg[j]) => i = j
      BY <2>1, <2>2 DEF BuildInv, Split
    <3> QED
      BY <2>1, <2>2, <2>4, <3>1, <3>2 DEF AddInv, RoutedToItsShard, ShardNumbers, NumShards, Within
  <2> QED
    BY <2>3, <2>4
<1>4. CASE GetAcceptedRoots \/ ReceiveResult \/ \E i \in ShardNumbers : ShardAnswers(i)
  BY <1>1, <1>4 DEF GetAcceptedRoots, ReceiveResult, ShardAnswers, buildVars
<1>5. CASE UNCHANGED vars
  BY <1>1, <1>5 DEF vars, buildVars
<1> QED
  BY <1>2, <1>3, <1>4, <1>5 DEF Next

\* For any configuration and any sequence of certificates, addChain picks the one shard
\* that holds the certificate's date and refuses only what no shard holds
\* (multilog.go:197).
THEOREM ChainsReachTheirShard == Spec => []RoutedToItsShard
<1>1. Init => AddInv
  BY DEF Init, AddInv, RoutedToItsShard
<1>2. AddInv => RoutedToItsShard
  BY DEF AddInv
<1> QED
  BY <1>1, <1>2, AddStepKeeps, BuildInvHolds, PTL DEF Spec

----------------------------------------------------------------------------
LEMMA RootInit == Init => RootInv
<1> SUFFICES ASSUME Init PROVE RootInv
  OBVIOUS
<1>1. Len(cfg) \in 0..MaxShards
  BY ShardsAssumption DEF Init
<1>2. Cardinality({}) = 0
  BY FS_EmptySet
<1> QED
  BY <1>1, <1>2 DEF Init, RootInv, NumShards, ShardNumbers, RootsAreUnion

\* The steps that are not of GetAcceptedRoots leave its state alone.
LEMMA RootOthers ==
    ASSUME RootInv, UNCHANGED <<cfg, accepted, fails, rootVars>>,
           call = "idle" \/ build' = build
    PROVE  RootInv'
BY DEF RootInv, rootVars, NumShards, ShardNumbers, Queued, Got, RootsAreUnion

\* The call asks every shard; a client that was built has at least one.
LEMMA RootStart == BuildInv /\ RootInv /\ GetAcceptedRoots => RootInv'
<1> SUFFICES ASSUME BuildInv, RootInv, GetAcceptedRoots PROVE RootInv'
  OBVIOUS
<1>1. /\ build = "ready" /\ call = "idle" /\ call' = "running" /\ asked' = ShardNumbers
      /\ UNCHANGED <<cfg, build, accepted, fails, results, received, seen, nRoots>>
  BY DEF GetAcceptedRoots, buildVars
<1>2. NumShards \in Nat /\ 0 < NumShards
  BY <1>1 DEF BuildInv, NumShards
<1>3. results = <<>> /\ received = 0 /\ seen = {}
  BY <1>1 DEF RootInv
<1>4. Got' = {} /\ Cardinality({}) = 0
  BY <1>1, FS_EmptySet DEF Got, ShardNumbers, NumShards
<1> QED
  BY <1>1, <1>2, <1>3, <1>4 DEF RootInv, NumShards, ShardNumbers, RootsAreUnion

\* An answer goes from its goroutine to the channel and is not yet received.
LEMMA RootAnswer ==
    ASSUME BuildInv, RootInv, NEW i \in ShardNumbers, ShardAnswers(i)
    PROVE  RootInv'
<1> DEFINE n == Len(results)
<1>1. /\ i \in asked /\ n < NumShards /\ asked' = asked \ {i} /\ results' = Append(results, i)
      /\ UNCHANGED <<cfg, build, accepted, fails, call, received, seen, nRoots>>
  BY DEF ShardAnswers, CanSend, buildVars
<1>2. /\ n \in Nat /\ results' \in Seq(ShardNumbers) /\ Len(results') = n + 1
      /\ \A k \in 1..n : results'[k] = results[k]
      /\ results'[n + 1] = i
  BY <1>1 DEF RootInv
<1>3. \A k : k \in 1..(n + 1) <=> k \in 1..n \/ k = n + 1
  BY <1>2
<1>4. Queued' = Queued \cup {i}
  BY <1>2, <1>3 DEF Queued
<1>5. Got' = Got
  BY <1>1, <1>4 DEF Got, ShardNumbers, NumShards
<1>6. \A k \in 1..n : results[k] # i
  BY <1>1 DEF RootInv
<1>7. \A j, k \in 1..(n + 1) : results'[j] = results'[k] => j = k
  BY <1>2, <1>3, <1>6 DEF RootInv
<1>8. \A k \in 1..(n + 1) : results'[k] \notin asked'
  BY <1>1, <1>2, <1>3 DEF RootInv
<1>9. NumShards \in Nat /\ n + 1 <= NumShards
  BY <1>1, <1>2 DEF BuildInv, NumShards
<1>10. RootsAreUnion'
  BY <1>1 DEF RootInv, RootsAreUnion, NumShards, ShardNumbers
<1>11. call \notin {"idle"}
  BY <1>1 DEF RootInv
<1> HIDE DEF n
<1> QED
  BY <1>1, <1>2, <1>5, <1>7, <1>8, <1>9, <1>10, <1>11 DEF RootInv, NumShards, ShardNumbers

\* The roots of one more shard.
LEMMA UniteRoots ==
    ASSUME RootInv, NEW i \in 1..MaxShards
    PROVE  /\ seen \cup accepted[i] \subseteq Roots
           /\ nRoots + Cardinality(NewRoots(i)) = Cardinality(seen \cup accepted[i])
<1>1. seen \subseteq Roots /\ accepted[i] \subseteq Roots /\ nRoots = Cardinality(seen)
  BY DEF RootInv
<1>2. IsFiniteSet(seen) /\ IsFiniteSet(NewRoots(i))
  BY <1>1, RootsAssumption, FS_Subset DEF NewRoots
<1>3. /\ seen \cup NewRoots(i) = seen \cup accepted[i]
      /\ seen \cap NewRoots(i) = {}
  BY DEF NewRoots
<1>4. Cardinality(seen \cup NewRoots(i)) =
        Cardinality(seen) + Cardinality(NewRoots(i)) - Cardinality(seen \cap NewRoots(i))
  BY <1>2, FS_Union
<1>5. /\ Cardinality(seen) \in Nat /\ Cardinality(NewRoots(i)) \in Nat
      /\ Cardinality(seen \cap NewRoots(i)) = 0
  BY <1>2, <1>3, FS_CardinalityType, FS_EmptySet
<1>6. Cardinality(seen \cup accepted[i]) = Cardinality(seen \cup NewRoots(i))
  BY <1>3, Zenon
<1> QED
  BY <1>1, <1>4, <1>5, <1>6

\* An answer is received: its shard is one more that was heard of, and the call
\* ends with the last of them or with the first that fails.
LEMMA RootReceive == BuildInv /\ RootInv /\ ReceiveResult => RootInv'
<1> SUFFICES ASSUME BuildInv, RootInv, ReceiveResult PROVE RootInv'
  OBVIOUS
<1> DEFINE i == Head(results)
           n == Len(results)
<1>1. /\ call = "running" /\ results # <<>> /\ results' = Tail(results)
      /\ received' = received + 1 /\ call' = AfterResult(i)
      /\ UNCHANGED <<cfg, build, accepted, fails, asked>>
  BY DEF ReceiveResult, buildVars
<1>2. /\ NumShards \in Nat /\ NumShards <= MaxShards
      /\ received \in Nat /\ received < NumShards /\ received = Cardinality(Got)
      /\ Got \cap fails = {}
      /\ \A x : x \in seen <=> \E j \in Got : x \in accepted[j]
      /\ build = "ready"
  BY <1>1 DEF RootInv, BuildInv, NumShards
<1>3. /\ n \in Nat /\ n > 0 /\ i = results[1] /\ i \in ShardNumbers
      /\ results' \in Seq(ShardNumbers) /\ Len(results') = n - 1
      /\ \A k \in 1..(n - 1) : results'[k] = results[k + 1]
      /\ n <= NumShards
  <2>1. n > 0 /\ n \in Nat /\ results \in Seq(ShardNumbers) /\ n <= NumShards
    BY <1>1 DEF RootInv
  <2>2. i = results[1] /\ i \in ShardNumbers
    BY <2>1
  <2>3. /\ results' \in Seq(ShardNumbers) /\ Len(results') = n - 1
        /\ \A k \in 1..(n - 1) : results'[k] = results[k + 1]
    BY <1>1, <2>1
  <2> QED
    BY <2>1, <2>2, <2>3
<1>4. /\ \A j, k \in 1..n : results[j] = results[k] => j = k
      /\ \A k \in 1..n : results[k] \notin asked
  BY DEF RootInv
<1>5. Queued = Queued' \cup {i} /\ i \notin Queued'
  <2>1. \A k \in 1..(n - 1) : k + 1 \in 1..n /\ results'[k] = results[k + 1] /\ results[k + 1] # i
    BY <1>3, <1>4
  <2>2. \A k \in 1..n : k = 1 \/ (k - 1 \in 1..(n - 1) /\ results[k] = results'[k - 1])
    BY <1>3
  <2>3. 1 \in 1..n
    BY <1>3
  <2>4. /\ \A x : x \in Queued <=> \E k \in 1..n : x = results[k]
        /\ \A x : x \in Queued' <=> \E k \in 1..(n - 1) : x = results'[k]
    BY <1>3 DEF Queued
  <2>5. \A x : x \in Queued => x = i \/ x \in Queued'
    <3>1. SUFFICES ASSUME NEW k \in 1..n PROVE results[k] = i \/ results[k] \in Queued'
      BY <2>4
    <3>2. CASE k = 1
      BY <1>3, <3>2
    <3>3. CASE k - 1 \in 1..(n - 1) /\ results[k] = results'[k - 1]
      BY <2>4, <3>3
    <3> QED
      BY <2>2, <3>2, <3>3
  <2>6. \A x : x \in Queued' => x \in Queued /\ x # i
    BY <2>1, <2>4
  <2>7. i \in Queued
    BY <1>3, <2>3, <2>4
  <2> HIDE DEF i
  <2> QED
    BY <2>5, <2>6, <2>7
<1>6. i \notin asked
  BY <1>3, <1>4
<1>7. Got' = Got \cup {i} /\ i \notin Got /\ Got' \subseteq ShardNumbers
  BY <1>1, <1>3, <1>5, <1>6 DEF Got, ShardNumbers, NumShards
<1>8. IsFiniteSet(ShardNumbers) /\ Cardinality(ShardNumbers) = NumShards
  BY <1>2, FS_Interval DEF ShardNumbers
<1>9. IsFiniteSet(Got) /\ Cardinality(Got') = received + 1
  <2>1. IsFiniteSet(Got)
    BY <1>8, FS_Subset DEF Got
  <2> QED
    BY <1>2, <1>7, <2>1, FS_AddElement
<1>10. received + 1 = NumShards => Got' = ShardNumbers
  BY <1>7, <1>8, <1>9, FS_Subset
<1>11. /\ \A j, k \in 1..Len(results') : results'[j] = results'[k] => j = k
       /\ \A k \in 1..Len(results') : results'[k] \notin asked'
  BY <1>1, <1>3, <1>4
<1>12. received' \in 0..NumShards /\ Len(results') <= NumShards
  BY <1>1, <1>2, <1>3
<1>13. ShardNumbers' = ShardNumbers /\ NumShards' = NumShards
  BY <1>1 DEF ShardNumbers, NumShards
<1>14. CASE i \in fails
  <2>1. call' = "error" /\ seen' = seen /\ nRoots' = nRoots
    BY <1>1, <1>14 DEF AfterResult, ReceiveResult
  <2>2. RootsAreUnion'
    <3> HIDE DEF i
    <3> QED
      BY <1>1, <1>3, <1>13, <1>14, <2>1 DEF RootsAreUnion
  <2> QED
    BY <1>1, <1>2, <1>3, <1>11, <1>12, <1>13, <2>1, <2>2 DEF RootInv
<1>15. CASE i \notin fails
  <2>1. /\ call' = IF received + 1 = NumShards THEN "ok" ELSE "running"
        /\ seen' = seen \cup accepted[i] /\ nRoots' = nRoots + Cardinality(NewRoots(i))
    BY <1>1, <1>15 DEF AfterResult, ReceiveResult
  <2>2. i \in 1..MaxShards
    BY <1>2, <1>3, ShardsAssumption DEF ShardNumbers
  <2>3. seen' \subseteq Roots /\ nRoots' = Cardinality(seen')
    BY <2>1, <2>2, UniteRoots
  <2>4. Got' \cap fails' = {}
    BY <1>1, <1>2, <1>7, <1>15
  <2>5. \A x : x \in seen' <=> \E j \in Got' : x \in accepted'[j]
    BY <1>1, <1>2, <1>7, <2>1
  <2>6. RootsAreUnion'
    <3>1. CASE received + 1 = NumShards
      <4>1. seen' = UNION {accepted'[j] : j \in ShardNumbers'}
        BY <1>10, <1>13, <2>5, <3>1
      <4> QED
        BY <1>10, <1>13, <2>1, <2>3, <2>4, <3>1, <4>1 DEF RootsAreUnion
    <3>2. CASE received + 1 # NumShards
      BY <2>1, <3>2 DEF RootsAreUnion
    <3> QED
      BY <3>1, <3>2
  <2>7. call' = "running" => received' < NumShards' /\ received' = Cardinality(Got')
    BY <1>1, <1>2, <1>9, <1>13, <2>1
  <2>8. call' \in {"running", "ok"}
    BY <2>1
  <2> HIDE DEF i, n
  <2> QED
    BY <1>1, <1>2, <1>3, <1>11, <1>12, <1>13, <2>3, <2>4, <2>5, <2>6, <2>7, <2>8 DEF RootInv
<1> QED
  BY <1>14, <1>15

LEMMA RootStepKeeps == BuildInv /\ RootInv /\ [Next]_vars => RootInv'
<1> SUFFICES ASSUME BuildInv, RootInv, [Next]_vars PROVE RootInv'
  OBVIOUS
<1>1. CASE BuildStep
  <2>1. build # "ready"
    BY <1>1 DEF BuildStep, FirstShard, NextShard, LastShard, MakeClients
  <2>2. call = "idle"
    BY <2>1 DEF RootInv
  <2> QED
    BY <1>1, <2>2, RootOthers DEF BuildStep, FirstShard, NextShard, LastShard, MakeClients
<1>2. CASE \E date \in Dates : AddChain(date)
  BY <1>2, RootOthers DEF AddChain, buildVars
<1>3. CASE GetAcceptedRoots
  BY <1>3, RootStart
<1>4. CASE ReceiveResult
  BY <1>4, RootReceive
<1>5. CASE \E i \in ShardNumbers : ShardAnswers(i)
  BY <1>5, RootAnswer
<1>6. CASE UNCHANGED vars
  BY <1>6, RootOthers DEF vars, buildVars
<1> QED
  BY <1>1, <1>2, <1>3, <1>4, <1>5, <1>6 DEF Next

\* For any number of shards and any set of roots, in whatever order the shards answer:
\* what GetAcceptedRoots returns is the union of the roots of all shards, each once, and
\* if a shard fails the call does (multilog.go:145).
THEOREM RootsAreUnited == Spec => []RootsAreUnion
<1>1. RootInv => RootsAreUnion
  BY DEF RootInv
<1> QED
  BY <1>1, RootInit, RootStepKeeps, BuildInvHolds, PTL DEF Spec

----------------------------------------------------------------------------
(* JSONClient.                                                             *)

\* What RetryAfterHonoured needs: until a caller has read the common backoff, this does
\* not end before the time the caller was given, and neither does the caller's timer
\* afterwards; and a backoff in force is never shortened.
RetryInv ==
    /\ J!TypeOK
    /\ \A c \in Callers :
        /\ jpc[c] = "idle" => jasked[c] = 0
        /\ jpc[c] = "post" => jasked[c] <= now
        /\ jpc[c] = "backoff" => jasked[c] <= notBefore \/ jasked[c] <= now
        /\ jpc[c] = "waiting" => jasked[c] <= wakeAt[c] \/ jasked[c] <= now

\* backoff.set leaves the caller who set it, and every other, with a backoff that is
\* no shorter than what is left of the one before.
LEMMA SetKeepsBackoff ==
    ASSUME RetryInv, NEW override \in RetryAfters \cup {J!None}, J!Set(override)
    PROVE  /\ multiplier' \in 0..MaxMultiplier /\ notBefore' \in Nat
           /\ notBefore' >= notBefore \/ notBefore <= now
           /\ notBefore' >= now + override
<1>1. now \in Nat /\ notBefore \in Nat /\ multiplier \in 0..MaxMultiplier /\ MaxMultiplier \in Nat \ {0}
  BY JSONAssumption DEF RetryInv, J!TypeOK
<1>2. override \in Int /\ (override # J!None => override \in Nat)
  BY JSONAssumption DEF J!None
<1>3. CASE notBefore > now /\ notBefore' = J!Larger(notBefore, now + override) /\ multiplier' = multiplier
  BY <1>1, <1>2, <1>3 DEF J!Larger
<1>4. CASE notBefore <= now /\ override # J!None /\ notBefore' = now + override /\ multiplier' = multiplier
  BY <1>1, <1>2, <1>4
<1>5. CASE notBefore <= now /\ override = J!None /\ multiplier' = J!NextMultiplier
            /\ notBefore' = now + 2 ^ (multiplier' - 1)
  <2>1. multiplier' \in 1..MaxMultiplier
    BY <1>1, <1>5 DEF J!NextMultiplier
  <2>2. 2 ^ (multiplier' - 1) \in Nat
    BY <2>1, JSONAssumption
  <2> QED
    BY <1>1, <1>5, <2>1, <2>2 DEF J!None
<1> QED
  BY <1>3, <1>4, <1>5 DEF J!Set

\* Every step keeps what RetryAfterHonoured needs.
LEMMA RetryStep == RetryInv /\ [J!Next]_jVars => RetryInv'
<1> SUFFICES ASSUME RetryInv, [J!Next]_jVars PROVE RetryInv'
  OBVIOUS
<1>0. /\ now \in 0..MaxTime /\ now \in Nat /\ MaxTime \in Nat
      /\ multiplier \in 0..MaxMultiplier /\ notBefore \in Nat
      /\ jpc \in [Callers -> {"idle", "post", "backoff", "waiting", "done"}]
      /\ wakeAt \in [Callers -> Nat] /\ ctxDone \in [Callers -> BOOLEAN]
      /\ result \in [Callers -> {"none", "ok", "canceled", "error"}]
      /\ jasked \in [Callers -> Nat]
  BY JSONAssumption DEF RetryInv, J!TypeOK
<1> USE <1>0 DEF RetryInv, J!TypeOK
<1>1. CASE UNCHANGED jVars
  BY <1>1 DEF jVars
<1>2. CASE J!Tick
  BY <1>2 DEF J!Tick, J!callVars, J!backoffVars
<1>3. ASSUME NEW c \in Callers PROVE J!Call(c) => RetryInv'
  BY DEF J!Call, J!Goto, J!backoffVars
<1>4. ASSUME NEW c \in Callers PROVE J!PostFails(c) => RetryInv'
  BY SetKeepsBackoff DEF J!PostFails, J!Goto
<1>5. ASSUME NEW c \in Callers PROVE J!PostCanceled(c) \/ J!StatusOK(c) \/ J!StatusOther(c) => RetryInv'
  BY DEF J!PostCanceled, J!StatusOK, J!StatusOther, J!Return, J!Goto, J!backoffVars
<1>6. ASSUME NEW c \in Callers PROVE J!StatusRequestTimeout(c) => RetryInv'
  BY DEF J!StatusRequestTimeout, J!Goto, J!backoffVars
<1>7. ASSUME NEW c \in Callers, J!StatusTooManyRequests(c) PROVE RetryInv'
  <2>1. PICK retryAfter \in RetryAfters \cup {J!None} :
          /\ J!Set(retryAfter)
          /\ jasked' = [jasked EXCEPT ![c] = J!Larger(@, now + retryAfter)]
    BY <1>7 DEF J!StatusTooManyRequests
  <2>2. /\ jpc[c] = "post" /\ jpc' = [jpc EXCEPT ![c] = "backoff"]
        /\ UNCHANGED <<now, wakeAt, ctxDone, result>>
    BY <1>7 DEF J!StatusTooManyRequests, J!Goto
  <2>3. retryAfter \in Int
    BY JSONAssumption DEF J!None
  <2>4. /\ multiplier' \in 0..MaxMultiplier /\ notBefore' \in Nat
        /\ notBefore' >= notBefore \/ notBefore <= now
        /\ notBefore' >= now + retryAfter
    BY <2>1, SetKeepsBackoff
  <2>5. jasked'[c] \in Nat /\ (jasked'[c] <= now \/ jasked'[c] <= notBefore')
    BY <2>1, <2>2, <2>3, <2>4 DEF J!Larger
  <2>6. jasked' \in [Callers -> Nat]
    BY <2>1, <2>5
  <2> QED
    BY <2>1, <2>2, <2>4, <2>5, <2>6
<1>8. ASSUME NEW c \in Callers PROVE J!WaitForBackoff(c) => RetryInv'
  BY DEF J!WaitForBackoff, J!Goto, J!backoffVars, J!Larger
<1>9. ASSUME NEW c \in Callers PROVE J!WaitEnds(c) \/ J!WaitCanceled(c) => RetryInv'
  BY DEF J!WaitEnds, J!WaitCanceled, J!Return, J!Goto, J!backoffVars
<1>10. ASSUME NEW c \in Callers PROVE J!CallAgain(c) => RetryInv'
  BY DEF J!CallAgain, J!Goto, J!backoffVars
<1>11. ASSUME NEW c \in Callers PROVE J!Cancel(c) => RetryInv'
  BY DEF J!Cancel, J!backoffVars
<1> QED
  BY <1>1, <1>2, <1>3, <1>4, <1>5, <1>6, <1>7, <1>8, <1>9, <1>10, <1>11 DEF J!Next, J!Reply

\* RetryAfterHonoured for any number of callers, any headers and any clock: a caller
\* that was told when to come back does not come back earlier, whatever the others do
\* to the backoff they share (jsonclient/client.go:305, backoff.go:38).
THEOREM WaitsAsAsked == J!Spec => []RetryAfterHonoured
<1>1. J!Init => RetryInv
  BY JSONAssumption DEF J!Init, RetryInv, J!TypeOK
<1>2. RetryInv /\ [J!Next]_J!vars => RetryInv'
  BY RetryStep DEF J!vars, J!backoffVars, J!callVars, jVars
<1>3. RetryInv => RetryAfterHonoured
  BY DEF RetryInv, J!TypeOK, RetryAfterHonoured, J!RetryAfterHonoured
<1> QED
  BY <1>1, <1>2, <1>3, PTL DEF J!Spec

----------------------------------------------------------------------------
(* CTPolicy.                                                               *)

LEMMA PolicyCardinality == \A S : P!Cardinality(S) = Cardinality(S)
BY Zenon DEF P!Cardinality, Cardinality

\* The number of SCTs that IncCount computes from months is the number the policies ask
\* for, which is about dates.
LEMMA IncCountIsRight ==
    ASSUME cert \in [notBefore : P!CalendarDates, notAfter : P!CalendarDates]
    PROVE  /\ P!IncCount(P!LifetimeInMonths(cert)) = P!NeededSCTs
           /\ P!NeededSCTs \in 2..5
<1>1. /\ cert.notBefore.month \in Int /\ cert.notBefore.day \in Int
      /\ cert.notAfter.month \in Int /\ cert.notAfter.day \in Int
  BY PolicyAssumption DEF P!CalendarDates
<1>2. P!LifetimeInMonths(cert) \in Int
  BY <1>1 DEF P!LifetimeInMonths
<1>3. ASSUME NEW n \in Int PROVE ~P!HasLived(n) <=> P!LifetimeInMonths(cert) < n
  BY <1>1 DEF P!LifetimeInMonths, P!HasLived
<1>4. /\ ~P!HasLived(15) <=> P!LifetimeInMonths(cert) < 15
      /\ ~P!HasLived(28) <=> P!LifetimeInMonths(cert) < 28
      /\ ~P!HasLived(40) <=> P!LifetimeInMonths(cert) < 40
  BY <1>3
<1> QED
  BY <1>2, <1>4 DEF P!IncCount, P!NeededSCTs

\* For any approved Logs and any certificate: the groups of a policy are complete exactly
\* when the SCTs comply with it, and LogsByGroup fails exactly when none can.
LEMMA GroupsAreRight ==
    ASSUME approved \subseteq Logs,
           cert \in [notBefore : P!CalendarDates, notAfter : P!CalendarDates]
    PROVE  P!GroupsMeanCompliance
<1> DEFINE months == P!LifetimeInMonths(cert)
           need == P!NeededSCTs
           google == P!Group(approved \cap GoogleLogs, 1)
           others == P!Group(approved \ GoogleLogs, 1)
           all == P!Group(approved, need)
<1>1. P!IncCount(months) = need /\ need \in Int /\ need > 0
  BY IncCountIsRight
<1>2. P!ChromeGroups(approved, months) = {google, others, all} /\ P!AppleGroups(approved, months) = {all}
  BY <1>1 DEF P!ChromeGroups, P!AppleGroups, P!BaseGroup
<1>3. /\ google.logs = approved \cap GoogleLogs /\ google.min = 1
      /\ others.logs = approved \ GoogleLogs /\ others.min = 1
      /\ all.logs = approved /\ all.min = need
  BY DEF P!Group
<1> HIDE DEF months, need, google, others, all
<1>4. IsFiniteSet(approved)
  BY PolicyAssumption, FS_Subset
<1>5. \A S : IsFiniteSet(S) => (Cardinality(S) >= 1 <=> S # {})
  BY FS_EmptySet, FS_CardinalityType
<1>6. \A S \in SUBSET approved : IsFiniteSet(S) /\ IsFiniteSet(S \cap GoogleLogs) /\ IsFiniteSet(S \ GoogleLogs)
  BY <1>4, FS_Subset
<1>7. ASSUME NEW S \in SUBSET approved
      PROVE  /\ P!Satisfies(S, {google, others, all}) <=> P!ChromeCompliant(S)
             /\ P!Satisfies(S, {all}) <=> P!AppleCompliant(S)
  <2>1. /\ S \cap google.logs = S \cap GoogleLogs /\ S \cap others.logs = S \ GoogleLogs
        /\ S \cap all.logs = S
    BY <1>3
  <2>2. P!Satisfies(S, {all}) <=> Cardinality(S) >= need
    BY <1>3, <2>1, PolicyCardinality DEF P!Satisfies
  <2>3. P!Satisfies(S, {google, others, all}) <=>
          Cardinality(S) >= need /\ Cardinality(S \cap GoogleLogs) >= 1 /\ Cardinality(S \ GoogleLogs) >= 1
    BY <1>3, <2>1, PolicyCardinality DEF P!Satisfies
  <2>4. P!AppleCompliant(S) <=> Cardinality(S) >= need
    BY PolicyCardinality DEF P!AppleCompliant, need
  <2> QED
    BY <1>5, <1>6, <2>2, <2>3, <2>4 DEF P!ChromeCompliant
<1>8. \A groups : groups # {} => (P!LogsByGroup(groups) = P!Error <=> ~ \A g \in groups : P!IsReachable(g))
  BY DEF P!LogsByGroup, P!Error
<1>9. \A g \in {google, others, all} : P!IsReachable(g) <=> Cardinality(approved \cap g.logs) >= g.min
  <2>1. \A g \in {google, others, all} : g.logs \in SUBSET approved /\ g.min \in Int
    BY <1>1, <1>3
  <2>2. \A g \in {google, others, all} : g.logs = approved \cap g.logs /\ Cardinality(g.logs) \in Nat
    BY <1>6, <2>1, FS_CardinalityType
  <2> QED
    BY <2>1, <2>2, PolicyCardinality DEF P!IsReachable
<1>10. ASSUME NEW S \in SUBSET approved, NEW g \in {google, others, all}, Cardinality(S \cap g.logs) >= g.min
       PROVE  Cardinality(approved \cap g.logs) >= g.min
  <2>1. IsFiniteSet(approved \cap g.logs) /\ S \cap g.logs \in SUBSET (approved \cap g.logs)
    BY <1>4, FS_Subset
  <2>2. /\ Cardinality(S \cap g.logs) <= Cardinality(approved \cap g.logs)
        /\ Cardinality(S \cap g.logs) \in Nat /\ Cardinality(approved \cap g.logs) \in Nat
    BY <2>1, FS_Subset, FS_CardinalityType
  <2>3. g.min \in Int
    BY <1>1, <1>3
  <2> QED
    BY <1>10, <2>2, <2>3
<1>11. /\ (\A g \in {google, others, all} : P!IsReachable(g)) <=> \E S \in SUBSET approved : P!ChromeCompliant(S)
       /\ (\A g \in {all} : P!IsReachable(g)) <=> \E S \in SUBSET approved : P!AppleCompliant(S)
  <2>1. \A G \in {{google, others, all}, {all}} :
          (\A g \in G : P!IsReachable(g)) <=> \E S \in SUBSET approved : P!Satisfies(S, G)
    <3>1. SUFFICES ASSUME NEW G \in {{google, others, all}, {all}}
                   PROVE (\A g \in G : P!IsReachable(g)) <=> \E S \in SUBSET approved : P!Satisfies(S, G)
      OBVIOUS
    <3>2. G \subseteq {google, others, all}
      OBVIOUS
    <3>3. \A S : P!Satisfies(S, G) <=> \A g \in G : Cardinality(S \cap g.logs) >= g.min
      BY PolicyCardinality DEF P!Satisfies
    <3>4. (\A g \in G : P!IsReachable(g)) => P!Satisfies(approved, G)
      BY <1>9, <3>2, <3>3
    <3>5. ASSUME NEW S \in SUBSET approved, P!Satisfies(S, G) PROVE \A g \in G : P!IsReachable(g)
      BY <1>9, <1>10, <3>2, <3>3, <3>5
    <3> QED
      BY <3>4, <3>5
  <2> QED
    BY <1>7, <2>1
<1>12. {google, others, all} # {} /\ {all} # {}
  OBVIOUS
<1> QED
  BY <1>2, <1>7, <1>8, <1>11, <1>12 DEF P!GroupsMeanCompliance, months

----------------------------------------------------------------------------
\* The weights that can be drawn reach the minimum of the base group.
Reach(w) == Cardinality(P!Positive(w)) >= P!base.min

\* What WeightsReachMin needs: the writer that holds the lock is the one that changes
\* the map in place, and whatever a writer is about to put in place was checked.
WeightsInv ==
    /\ approved \subseteq Logs
    /\ cert \in [notBefore : P!CalendarDates, notAfter : P!CalendarDates]
    /\ logWeights \in [approved -> {0, 1}]
    /\ lock \in Threads \cup {P!NoThread}
    /\ ppc \in [Threads -> {"idle", "reset", "assign", "swap", "draw"}]
    /\ local \in [Threads -> UNION {[S -> {0, 1}] : S \in SUBSET Logs}]
    /\ \A t \in Threads :
        /\ ppc[t] \in {"reset", "assign"} <=> lock = t
        /\ ppc[t] \in {"reset", "assign", "swap"} => Reach(local[t])
        /\ ppc[t] = "swap" => local[t] \in [approved -> {0, 1}]
    /\ P!HasGroup /\ lock = P!NoThread => Reach(logWeights)

\* A set of weights in which more Logs can be drawn reaches the minimum as well.
LEMMA ReachGrows ==
    ASSUME WeightsInv, NEW v, NEW w, Reach(v), P!Positive(v) \subseteq P!Positive(w)
    PROVE  Reach(w)
<1>1. IsFiniteSet(P!Positive(w))
  BY PolicyAssumption, FS_Subset DEF P!Positive, WeightsInv
<1>2. /\ Cardinality(P!Positive(v)) <= Cardinality(P!Positive(w))
      /\ Cardinality(P!Positive(v)) \in Nat /\ Cardinality(P!Positive(w)) \in Nat
  BY <1>1, FS_Subset, FS_CardinalityType
<1>3. P!base.min \in Int
  BY IncCountIsRight DEF P!base, P!BaseGroup, P!Group, WeightsInv
<1> QED
  BY <1>2, <1>3 DEF Reach

LEMMA CheckedReaches ==
    ASSUME NEW w, P!SatisfyMinimalInclusion(w) PROVE Reach(w)
BY PolicyCardinality DEF P!SatisfyMinimalInclusion, Reach

LEMMA WeightsStep == WeightsInv /\ [P!Next]_pVars => WeightsInv'
<1> SUFFICES ASSUME WeightsInv, [P!Next]_pVars PROVE WeightsInv'
  OBVIOUS
<1> DEFINE Maps == UNION {[S -> {0, 1}] : S \in SUBSET Logs}
<1>0. /\ approved \subseteq Logs
      /\ cert \in [notBefore : P!CalendarDates, notAfter : P!CalendarDates]
      /\ logWeights \in [approved -> {0, 1}]
      /\ lock \in Threads \cup {P!NoThread} /\ P!NoThread \notin Threads
      /\ ppc \in [Threads -> {"idle", "reset", "assign", "swap", "draw"}]
      /\ local \in [Threads -> Maps]
  BY PolicyAssumption DEF WeightsInv
<1>1. CASE UNCHANGED pVars
  BY <1>1 DEF pVars, WeightsInv, Reach, P!Positive, P!base, P!HasGroup, P!LogsByGroup, P!IsReachable
<1>2. ASSUME approved' = approved, cert' = cert
      PROVE  P!HasGroup' = P!HasGroup /\ \A w : Reach(w)' = Reach(w)
  BY <1>2 DEF P!HasGroup, P!base, Reach, P!Positive
<1>3. P!NoWeights \in Maps /\ [approved -> {0, 1}] \subseteq Maps
  <2>1. P!NoWeights \in [{} -> {0, 1}]
    BY DEF P!NoWeights
  <2> QED
    BY <1>0, <2>1, Zenon
<1> HIDE DEF Maps
<1>4. ASSUME NEW t \in Threads, NEW label \in {"idle", "reset", "assign", "swap", "draw"}, NEW w \in Maps,
             approved' = approved, cert' = cert,
             logWeights' \in [approved -> {0, 1}], lock' \in Threads \cup {P!NoThread},
             ppc' = [ppc EXCEPT ![t] = label], local' = [local EXCEPT ![t] = w],
             label \in {"reset", "assign"} <=> lock' = t,
             label \in {"reset", "assign", "swap"} => Reach(w),
             label = "swap" => w \in [approved -> {0, 1}],
             \A u \in Threads : u = t \/ (lock' = u <=> lock = u),
             P!HasGroup /\ lock' = P!NoThread => Reach(logWeights')
      PROVE  WeightsInv'
  <2>1. /\ ppc' \in [Threads -> {"idle", "reset", "assign", "swap", "draw"}]
        /\ local' \in [Threads -> Maps]
    BY <1>0, <1>4
  <2>2. \A u \in Threads :
          /\ ppc'[u] \in {"reset", "assign"} <=> lock' = u
          /\ ppc'[u] \in {"reset", "assign", "swap"} => Reach(local'[u])
          /\ ppc'[u] = "swap" => local'[u] \in [approved -> {0, 1}]
    <3>1. SUFFICES ASSUME NEW u \in Threads
                   PROVE  /\ ppc'[u] \in {"reset", "assign"} <=> lock' = u
                          /\ ppc'[u] \in {"reset", "assign", "swap"} => Reach(local'[u])
                          /\ ppc'[u] = "swap" => local'[u] \in [approved -> {0, 1}]
      OBVIOUS
    <3>2. CASE u = t
      <4>1. ppc'[u] = label /\ local'[u] = w
        BY <1>0, <1>4, <3>2
      <4> QED
        BY <1>4, <3>2, <4>1
    <3>3. CASE u # t
      <4>1. ppc'[u] = ppc[u] /\ local'[u] = local[u]
        BY <1>0, <1>4, <3>3
      <4> QED
        BY <1>4, <3>3, <4>1 DEF WeightsInv
    <3> QED
      BY <3>2, <3>3
  <2>3. P!HasGroup' = P!HasGroup /\ \A x : Reach(x)' = Reach(x)
    BY <1>2, <1>4
  <2> QED
    BY <1>0, <1>4, <2>1, <2>2, <2>3 DEF WeightsInv, Maps
<1>5. ASSUME NEW t \in Threads, P!SetLogWeights(t) PROVE WeightsInv'
  <2>0. PICK S \in SUBSET Logs : \E w \in [S -> P!Weights] :
          /\ \A l \in S : w[l] >= 0
          /\ P!SatisfyMinimalInclusion(w)
          /\ local' = [local EXCEPT ![t] = w]
    BY <1>5 DEF P!SetLogWeights
  <2>1. PICK w \in [S -> P!Weights] :
          /\ \A l \in S : w[l] >= 0
          /\ P!SatisfyMinimalInclusion(w)
          /\ local' = [local EXCEPT ![t] = w]
    BY <2>0
  <2>2. w \in [S -> {0, 1}]
    BY <2>1 DEF P!Weights
  <2>3. w \in Maps
    BY <2>2, Zenon DEF Maps
  <2>4. Reach(w)
    BY <2>1, CheckedReaches
  <2>5. /\ lock = P!NoThread /\ lock' = t /\ ppc' = [ppc EXCEPT ![t] = "reset"]
        /\ approved' = approved /\ cert' = cert /\ logWeights' = logWeights
    BY <1>5 DEF P!SetLogWeights, P!Goto
  <2> QED
    BY <1>0, <1>4, <2>1, <2>3, <2>4, <2>5
<1>6. ASSUME NEW t \in Threads, P!ResetWeights(t) PROVE WeightsInv'
  <2>1. /\ ppc[t] = "reset" /\ logWeights' = [l \in approved |-> 0] /\ ppc' = [ppc EXCEPT ![t] = "assign"]
        /\ approved' = approved /\ cert' = cert /\ lock' = lock /\ local' = local
    BY <1>6 DEF P!ResetWeights, P!Goto
  <2>2. lock = t /\ Reach(local[t]) /\ local[t] \in Maps /\ local' = [local EXCEPT ![t] = local[t]]
    BY <1>0, <2>1 DEF WeightsInv
  <2>3. [l \in approved |-> 0] \in [approved -> {0, 1}]
    OBVIOUS
  <2> QED
    BY <1>0, <1>4, <2>1, <2>2, <2>3
<1>7. ASSUME NEW t \in Threads, P!AssignWeights(t) PROVE WeightsInv'
  <2> DEFINE w == local[t]
             v == [l \in approved |-> IF l \in DOMAIN w THEN w[l] ELSE logWeights[l]]
  <2>1. /\ ppc[t] = "assign" /\ logWeights' = v /\ lock' = P!NoThread
        /\ ppc' = [ppc EXCEPT ![t] = "idle"] /\ local' = [local EXCEPT ![t] = P!NoWeights]
        /\ approved' = approved /\ cert' = cert
    BY <1>7 DEF P!AssignWeights, P!Goto, P!End
  <2>2. lock = t /\ Reach(w)
    BY <1>0, <2>1 DEF WeightsInv
  <2>3. PICK S \in SUBSET Logs : w \in [S -> {0, 1}]
    <3>1. w \in Maps
      BY <1>0
    <3> QED
      BY <3>1, Zenon DEF Maps
  <2>4. v \in [approved -> {0, 1}]
    BY <1>0, <2>3
  <2>5. P!Positive(w) \subseteq P!Positive(v)
    BY <2>3 DEF P!Positive
  <2>6. Reach(v)
    BY <2>2, <2>5, ReachGrows
  <2> HIDE DEF v
  <2> QED
    BY <1>0, <1>3, <1>4, <2>1, <2>2, <2>4, <2>6
<1>8. ASSUME NEW t \in Threads, P!SetLogWeight(t) PROVE WeightsInv'
  <2>1. PICK l \in approved, x \in {0, 1} :
          LET newWeights == [logWeights EXCEPT ![l] = x] IN
          /\ P!SatisfyMinimalInclusion(newWeights)
          /\ local' = [local EXCEPT ![t] = newWeights]
    BY <1>8 DEF P!SetLogWeight
  <2> DEFINE w == [logWeights EXCEPT ![l] = x]
  <2>2. w \in [approved -> {0, 1}] /\ Reach(w)
    BY <1>0, <2>1, CheckedReaches
  <2>3. w \in Maps
    BY <1>3, <2>2
  <2>4. /\ ppc[t] = "idle" /\ ppc' = [ppc EXCEPT ![t] = "swap"] /\ local' = [local EXCEPT ![t] = w]
        /\ approved' = approved /\ cert' = cert /\ logWeights' = logWeights /\ lock' = lock
    BY <1>8, <2>1 DEF P!SetLogWeight, P!Goto
  <2>5. lock # t /\ (P!HasGroup /\ lock = P!NoThread => Reach(logWeights))
    BY <1>0, <2>4 DEF WeightsInv
  <2> HIDE DEF w
  <2> QED
    BY <1>0, <1>4, <2>2, <2>3, <2>4, <2>5
<1>9. ASSUME NEW t \in Threads, P!SwapWeights(t) PROVE WeightsInv'
  <2>1. /\ ppc[t] = "swap" /\ lock = P!NoThread /\ logWeights' = local[t]
        /\ ppc' = [ppc EXCEPT ![t] = "idle"] /\ local' = [local EXCEPT ![t] = P!NoWeights]
        /\ approved' = approved /\ cert' = cert /\ lock' = lock
    BY <1>9 DEF P!SwapWeights, P!Goto, P!End
  <2>2. local[t] \in [approved -> {0, 1}] /\ Reach(local[t])
    BY <2>1 DEF WeightsInv
  <2> QED
    BY <1>0, <1>3, <1>4, <2>1, <2>2
<1>10. ASSUME NEW t \in Threads, P!GetSubmissionSession(t) PROVE WeightsInv'
  <2>1. /\ ppc[t] = "idle" /\ ppc' = [ppc EXCEPT ![t] = "draw"] /\ local' = [local EXCEPT ![t] = logWeights]
        /\ approved' = approved /\ cert' = cert /\ logWeights' = logWeights /\ lock' = lock
    BY <1>10 DEF P!GetSubmissionSession, P!Goto
  <2>2. lock # t /\ (P!HasGroup /\ lock = P!NoThread => Reach(logWeights))
    BY <1>0, <2>1 DEF WeightsInv
  <2> QED
    BY <1>0, <1>3, <1>4, <2>1, <2>2
<1>11. ASSUME NEW t \in Threads, P!DrawSession(t) PROVE WeightsInv'
  <2>1. /\ ppc[t] = "draw" /\ ppc' = [ppc EXCEPT ![t] = "idle"] /\ local' = [local EXCEPT ![t] = P!NoWeights]
        /\ approved' = approved /\ cert' = cert /\ logWeights' = logWeights /\ lock' = lock
    BY <1>11 DEF P!DrawSession, P!Goto, P!End
  <2>2. lock # t /\ (P!HasGroup /\ lock = P!NoThread => Reach(logWeights))
    BY <1>0, <2>1 DEF WeightsInv
  <2> QED
    BY <1>0, <1>3, <1>4, <2>1, <2>2
<1> QED
  BY <1>1, <1>5, <1>6, <1>7, <1>8, <1>9, <1>10, <1>11 DEF P!Next

LEMMA WeightsInit == P!Init => WeightsInv
<1> SUFFICES ASSUME P!Init PROVE WeightsInv
  OBVIOUS
<1>1. /\ approved \subseteq Logs /\ logWeights = [l \in approved |-> 1] /\ lock = P!NoThread
      /\ cert \in [notBefore : P!CalendarDates, notAfter : P!CalendarDates]
      /\ ppc = [t \in Threads |-> "idle"] /\ local = [t \in Threads |-> P!NoWeights]
  BY DEF P!Init, P!Validities
<1>2. local \in [Threads -> UNION {[S -> {0, 1}] : S \in SUBSET Logs}]
  <2>1. P!NoWeights \in [{} -> {0, 1}]
    BY DEF P!NoWeights
  <2>2. P!NoWeights \in UNION {[S -> {0, 1}] : S \in SUBSET Logs}
    BY <2>1, Zenon
  <2> QED
    BY <1>1, <2>2
<1>3. P!HasGroup => Reach(logWeights)
  <2>1. P!Positive(logWeights) = approved
    BY <1>1 DEF P!Positive
  <2>2. P!base.logs = approved
    BY DEF P!base, P!BaseGroup, P!Group
  <2>3. P!HasGroup => P!base.min <= Cardinality(P!base.logs)
    BY PolicyCardinality DEF P!HasGroup, P!LogsByGroup, P!Error, P!IsReachable
  <2>4. Cardinality(approved) \in Nat /\ P!base.min \in Int
    BY <1>1, IncCountIsRight, PolicyAssumption, FS_Subset, FS_CardinalityType DEF P!base, P!BaseGroup, P!Group
  <2> QED
    BY <2>1, <2>2, <2>3, <2>4 DEF Reach
<1> QED
  BY <1>1, <1>2, <1>3, PolicyAssumption DEF WeightsInv

\* GroupsAreReachable for any Logs, certificates and number of callers: SCTs that complete
\* every group comply with the policy, and conversely, and no overlapping of weight
\* changes leaves the base group unable to reach its minimum (ctpolicy/ctpolicy.go:110,
\* 127, applepolicy.go:28, chromepolicy.go:28).
THEOREM PoliciesAreReachable == P!Spec => []GroupsAreReachable
<1>1. WeightsInv /\ [P!Next]_P!vars => WeightsInv'
  BY WeightsStep DEF P!vars, pVars
<1>2. WeightsInv => GroupsAreReachable
  BY GroupsAreRight, PolicyCardinality DEF WeightsInv, Reach, GroupsAreReachable, P!WeightsReachMin
<1> QED
  BY <1>1, <1>2, WeightsInit, PTL DEF P!Spec

----------------------------------------------------------------------------
(* Preloader.                                                              *)

Distinct(s) == \A i, j \in 1..Len(s) : s[i] = s[j] => i = j
HasRecord(s, e) == \E i \in 1..Len(s) : s[i].entry = e
Holds(s, r) == \E i \in 1..Len(s) : s[i] = r
DistinctEntries(s) == \A i, j \in 1..Len(s) : s[i].entry = s[j].entry => i = j

\* Where an entry that parses can be.
Parsed == {e \in found : e.parses}
AtMatcher(e) == \E m \in Matchers : matcher[m] # L!None /\ matcher[m].entry = e
InQueue(e) == \E i \in 1..Len(queue[e.kind]) : queue[e.kind][i] = e
AtSubmitter(e) == \E s \in Submitters : submitter[e.kind][s] # L!None /\ submitter[e.kind][s].entry = e
InResults(e) == HasRecord(addedCerts, e)
InFile(e) == HasRecord(sctFile, e)

One(b) == IF b THEN 1 ELSE 0
PlacesOf(e) ==
    One(e \in left) + One(AtMatcher(e)) + One(InQueue(e)) + One(AtSubmitter(e)) + One(InResults(e)) + One(InFile(e))

PlaceTypes ==
    /\ IsFiniteSet(found) /\ left \subseteq found
    /\ \A e \in found : e.kind \in L!Kinds /\ e.parses \in BOOLEAN
    /\ matcher \in [Matchers -> {L!None} \cup [at : {"send"}, entry : Parsed]]
    /\ queue \in [L!Kinds -> Seq(Parsed)]
    /\ submitter \in [L!Kinds ->
                       [Submitters -> {L!None} \cup [at : {"add", "recordSct", "recordFailure"}, entry : Parsed]]]
    /\ addedCerts \in Seq([entry : Parsed, ok : BOOLEAN])
    /\ sctFile \in Seq([entry : Parsed, ok : BOOLEAN])
    /\ stage \in {"scan", "submitters", "dumper", "ended", "fatal"}

\* Every entry that parses is in one place, and there once.
PlacedOnce ==
    /\ \A e \in Parsed : PlacesOf(e) = 1
    /\ \A m, n \in Matchers :
        matcher[m] # L!None /\ matcher[n] # L!None /\ matcher[m].entry = matcher[n].entry => m = n
    /\ \A k \in L!Kinds :
        /\ Distinct(queue[k])
        /\ \A i \in 1..Len(queue[k]) : queue[k][i].kind = k
        /\ \A s \in Submitters : submitter[k][s] # L!None => submitter[k][s].entry.kind = k
        /\ \A s, t \in Submitters :
             /\ submitter[k][s] # L!None /\ submitter[k][t] # L!None
             /\ submitter[k][s].entry = submitter[k][t].entry
             => s = t
    /\ DistinctEntries(addedCerts) /\ DistinctEntries(sctFile)

\* main closes a channel only when those who send on it are done.
ClosedInOrder ==
    /\ stage \in {"submitters", "dumper", "ended"} => left = {} /\ \A m \in Matchers : matcher[m] = L!None
    /\ stage \in {"dumper", "ended"} =>
        \A k \in L!Kinds : queue[k] = <<>> /\ \A s \in Submitters : submitter[k][s] = L!None
    /\ stage = "ended" => addedCerts = <<>>

\* What is on its way to the file as an SCT is one that the target log gave.
SCTsAreGiven ==
    /\ \A k \in L!Kinds, s \in Submitters : submitter[k][s].at = "recordSct" => submitter[k][s].entry \in sent
    /\ \A i \in 1..Len(addedCerts) : addedCerts[i].ok => addedCerts[i].entry \in sent
    /\ \A i \in 1..Len(sctFile) : sctFile[i].ok => sctFile[i].entry \in sent

PreloadInv == PlaceTypes /\ PlacedOnce /\ ClosedInOrder /\ SCTsAreGiven

LEMMA ElementOfSeq == ASSUME NEW R, NEW q \in Seq(R), NEW i \in 1..Len(q) PROVE q[i] \in R
OBVIOUS

LEMMA NoneIsNoEntry ==
    \A a, e : a # "none" => [at |-> a, entry |-> e] # L!None
BY DEF L!None

LEMMA CallbackKeeps ==
    ASSUME PreloadInv, NEW m \in Matchers, NEW kind \in L!Kinds, L!Callback(m, kind)
    PROVE  PreloadInv'
<1>1. PICK e \in left :
        /\ left' = left \ {e}
        /\ matcher' = [matcher EXCEPT ![m] = IF e.parses THEN [at |-> "send", entry |-> e] ELSE L!None]
  BY DEF L!Callback
<1>2. /\ matcher[m] = L!None
      /\ UNCHANGED <<found, queue, submitter, addedCerts, sctFile, sent, stage>>
  BY DEF L!Callback
<1>3. Parsed' = Parsed /\ e \in found /\ (e \in Parsed <=> e.parses)
  BY <1>1, <1>2 DEF Parsed, PreloadInv, PlaceTypes
<1>4. PlaceTypes'
  BY <1>1, <1>2, <1>3 DEF PreloadInv, PlaceTypes
<1>5. /\ \A x : /\ InQueue(x)' <=> InQueue(x)
                /\ AtSubmitter(x)' <=> AtSubmitter(x)
                /\ InResults(x)' <=> InResults(x)
                /\ InFile(x)' <=> InFile(x)
                /\ x # e => (x \in left' <=> x \in left)
      /\ e \notin left'
  BY <1>1, <1>2 DEF InQueue, AtSubmitter, InResults, InFile, HasRecord
<1>6. stage = "scan" \/ left = {}
  BY DEF PreloadInv, ClosedInOrder, PlaceTypes, L!Callback, L!Running
<1>7. ClosedInOrder' /\ SCTsAreGiven'
  BY <1>1, <1>2, <1>6 DEF PreloadInv, ClosedInOrder, SCTsAreGiven
<1>8. CASE e.parses
  <2>1. [at |-> "send", entry |-> e] # L!None
    BY NoneIsNoEntry
  <2>2. /\ \A n \in Matchers : n # m => matcher'[n] = matcher[n]
        /\ matcher'[m] = [at |-> "send", entry |-> e]
    BY <1>1, <1>8 DEF PreloadInv, PlaceTypes
  <2>3. \A x : AtMatcher(x)' <=> AtMatcher(x) \/ x = e
    BY <1>2, <2>1, <2>2 DEF AtMatcher
  <2>4. PlacesOf(e) = 1
    BY <1>3, <1>8 DEF PreloadInv, PlacedOnce
  <2>5. ~AtMatcher(e)
    BY <1>1, <2>4 DEF PlacesOf, One
  <2>6. PlacesOf(e)' = 1 /\ \A x : x # e => PlacesOf(x)' = PlacesOf(x)
    BY <1>1, <1>5, <2>3, <2>4, <2>5 DEF PlacesOf, One
  <2>7. \A n \in Matchers : matcher[n] # L!None => matcher[n].entry # e
    BY <2>5 DEF AtMatcher
  <2>8. PlacedOnce'
    BY <1>2, <1>3, <2>1, <2>2, <2>6, <2>7 DEF PreloadInv, PlacedOnce, Distinct, DistinctEntries
  <2> QED
    BY <1>4, <1>7, <2>8 DEF PreloadInv
<1>9. CASE ~e.parses
  <2>1. matcher' = matcher
    BY <1>1, <1>2, <1>9 DEF PreloadInv, PlaceTypes
  <2>2. \A x \in Parsed : PlacesOf(x)' = PlacesOf(x)
    BY <1>3, <1>5, <1>9, <2>1 DEF PlacesOf, AtMatcher, One
  <2>3. PlacedOnce'
    BY <1>2, <1>3, <2>1, <2>2 DEF PreloadInv, PlacedOnce, Distinct, DistinctEntries
  <2> QED
    BY <1>4, <1>7, <2>3 DEF PreloadInv
<1> QED
  BY <1>8, <1>9

LEMMA SendEntryKeeps ==
    ASSUME PreloadInv, NEW m \in Matchers, L!SendEntry(m)
    PROVE  PreloadInv'
<1> DEFINE e == matcher[m].entry
<1>1. /\ matcher[m] # L!None /\ queue' = [queue EXCEPT ![e.kind] = Append(queue[e.kind], e)]
      /\ matcher' = [matcher EXCEPT ![m] = L!None]
      /\ stage' = IF stage = "scan" THEN stage ELSE "panic"
      /\ UNCHANGED <<found, left, submitter, addedCerts, sctFile, sent>>
      /\ stage \notin {"ended", "fatal"}
  BY DEF L!SendEntry, L!Running
<1>2. stage = "scan" /\ stage' = stage
  BY <1>1 DEF PreloadInv, ClosedInOrder, PlaceTypes
<1>3. e \in Parsed /\ e.kind \in L!Kinds /\ Parsed' = Parsed
  BY <1>1 DEF PreloadInv, PlaceTypes, Parsed
<1> HIDE DEF e
<1> DEFINE q == queue[e.kind]
<1>4. q \in Seq(Parsed) /\ queue'[e.kind] = Append(q, e) /\ \A k \in L!Kinds : k # e.kind => queue'[k] = queue[k]
  BY <1>1, <1>3 DEF PreloadInv, PlaceTypes
<1>5. /\ Len(Append(q, e)) = Len(q) + 1 /\ Len(q) \in Nat
      /\ \A i \in 1..Len(q) : Append(q, e)[i] = q[i]
      /\ Append(q, e)[Len(q) + 1] = e
      /\ Append(q, e) \in Seq(Parsed)
  BY <1>3, <1>4
<1>6. PlaceTypes'
  BY <1>1, <1>2, <1>3, <1>4, <1>5 DEF PreloadInv, PlaceTypes
<1>7. /\ \A n \in Matchers : n # m => matcher'[n] = matcher[n]
      /\ matcher'[m] = L!None /\ matcher[m].entry = e
  BY <1>1 DEF PreloadInv, PlaceTypes, e
<1>8. \A x : AtMatcher(x)' <=> AtMatcher(x) /\ x # e
  BY <1>1, <1>7 DEF AtMatcher, PreloadInv, PlacedOnce
<1>9. AtMatcher(e)
  BY <1>1, <1>7 DEF AtMatcher
<1>10. ASSUME NEW x \in Parsed PROVE InQueue(x)' <=> InQueue(x) \/ x = e
  <2>1. x.kind \in L!Kinds
    BY DEF PreloadInv, PlaceTypes, Parsed
  <2>2. CASE x.kind # e.kind
    BY <1>4, <2>1, <2>2 DEF InQueue
  <2>3. CASE x.kind = e.kind
    <3>1. /\ InQueue(x)' <=> \E i \in 1..(Len(q) + 1) : Append(q, e)[i] = x
          /\ InQueue(x) <=> \E i \in 1..Len(q) : q[i] = x
      BY <1>4, <1>5, <2>3 DEF InQueue
    <3>2. \A i \in 1..(Len(q) + 1) : i \in 1..Len(q) \/ i = Len(q) + 1
      BY <1>5
    <3>3. Len(q) + 1 \in 1..(Len(q) + 1) /\ \A i \in 1..Len(q) : i \in 1..(Len(q) + 1)
      BY <1>5
    <3> HIDE DEF q
    <3> QED
      BY <1>5, <3>1, <3>2, <3>3
  <2> QED
    BY <2>2, <2>3
<1>11. \A x : /\ x \in left' <=> x \in left
              /\ AtSubmitter(x)' <=> AtSubmitter(x)
              /\ InResults(x)' <=> InResults(x)
              /\ InFile(x)' <=> InFile(x)
  BY <1>1 DEF AtSubmitter, InResults, InFile, HasRecord
<1>12. PlacesOf(e) = 1
  BY <1>3 DEF PreloadInv, PlacedOnce
<1>13. ~InQueue(e)
  BY <1>9, <1>12 DEF PlacesOf, One
<1>14. \A x \in Parsed : PlacesOf(x)' = PlacesOf(x)
  BY <1>8, <1>9, <1>10, <1>11, <1>13 DEF PlacesOf, One
<1>15. \A k \in L!Kinds : Distinct(queue'[k]) /\ \A i \in 1..Len(queue'[k]) : queue'[k][i].kind = k
  <2>1. SUFFICES ASSUME NEW k \in L!Kinds
                 PROVE Distinct(queue'[k]) /\ \A i \in 1..Len(queue'[k]) : queue'[k][i].kind = k
    OBVIOUS
  <2>2. Distinct(queue[k]) /\ \A i \in 1..Len(queue[k]) : queue[k][i].kind = k
    BY DEF PreloadInv, PlacedOnce
  <2>3. CASE k # e.kind
    BY <1>4, <2>2, <2>3
  <2>4. CASE k = e.kind
    <3>1. \A i \in 1..Len(q) : q[i] # e /\ q[i].kind = k
      BY <1>13, <2>2, <2>4 DEF InQueue
    <3>2. queue'[k] = Append(q, e)
      BY <1>4, <2>4
    <3>3. \A i \in 1..(Len(q) + 1) : i \in 1..Len(q) \/ i = Len(q) + 1
      BY <1>5
    <3>4. \A i \in 1..Len(Append(q, e)) : Append(q, e)[i].kind = k
      BY <1>5, <2>4, <3>1, <3>3
    <3>5. Distinct(q)
      BY <2>2, <2>4
    <3> HIDE DEF q
    <3>6. ASSUME NEW i \in 1..(Len(q) + 1), NEW j \in 1..(Len(q) + 1), Append(q, e)[i] = Append(q, e)[j]
          PROVE i = j
      BY <1>5, <3>1, <3>3, <3>5, <3>6 DEF Distinct
    <3> QED
      BY <1>5, <3>2, <3>4, <3>6 DEF Distinct
  <2> QED
    BY <2>3, <2>4
<1>16. PlacedOnce'
  BY <1>1, <1>3, <1>7, <1>14, <1>15 DEF PreloadInv, PlacedOnce, DistinctEntries
<1>17. ClosedInOrder' /\ SCTsAreGiven'
  BY <1>1, <1>2 DEF PreloadInv, ClosedInOrder, SCTsAreGiven
<1> QED
  BY <1>6, <1>16, <1>17 DEF PreloadInv

LEMMA SubmitKeeps ==
    ASSUME PreloadInv, NEW kind \in L!Kinds, NEW s \in Submitters, L!Submit(kind, s)
    PROVE  PreloadInv'
<1> DEFINE q == queue[kind]
           e == Head(q)
           taking == [at |-> "add", entry |-> e]
<1>1. /\ submitter[kind][s] = L!None /\ q # <<>>
      /\ submitter' = [submitter EXCEPT ![kind][s] = taking]
      /\ queue' = [queue EXCEPT ![kind] = Tail(q)]
      /\ UNCHANGED <<found, left, matcher, addedCerts, sctFile, sent, stage>>
      /\ stage \notin {"ended", "fatal"}
  BY DEF L!Submit, L!Running
<1>2. /\ q \in Seq(Parsed) /\ Parsed' = Parsed
      /\ queue'[kind] = Tail(q) /\ \A k \in L!Kinds : k # kind => queue'[k] = queue[k]
  BY <1>1 DEF PreloadInv, PlaceTypes, Parsed
<1> HIDE DEF q
<1>3. /\ Len(q) \in Nat /\ Len(q) > 0 /\ e = q[1] /\ e \in Parsed
      /\ Tail(q) \in Seq(Parsed) /\ Len(Tail(q)) = Len(q) - 1
      /\ \A i \in 1..(Len(q) - 1) : Tail(q)[i] = q[i + 1]
  <2>1. Len(q) \in Nat /\ Len(q) > 0
    BY <1>1, <1>2
  <2>2. e = q[1] /\ e \in Parsed
    BY <1>1, <1>2, <2>1
  <2>3. /\ Tail(q) \in Seq(Parsed) /\ Len(Tail(q)) = Len(q) - 1
        /\ \A i \in 1..(Len(q) - 1) : Tail(q)[i] = q[i + 1]
    BY <1>1, <1>2, <2>1
  <2> QED
    BY <2>1, <2>2, <2>3
<1> HIDE DEF e
<1>4. Distinct(q) /\ \A i \in 1..Len(q) : q[i].kind = kind
  BY DEF PreloadInv, PlacedOnce, q
<1>5. e.kind = kind
  BY <1>3, <1>4
<1>6. taking # L!None /\ taking.entry = e /\ taking.at = "add"
  BY NoneIsNoEntry
<1>7. taking \in [at : {"add", "recordSct", "recordFailure"}, entry : Parsed]
  BY <1>3
<1> HIDE DEF taking
<1>8. /\ submitter' \in [L!Kinds ->
                          [Submitters -> {L!None} \cup [at : {"add", "recordSct", "recordFailure"}, entry : Parsed]]]
      /\ submitter'[kind][s] = taking
      /\ \A k \in L!Kinds, t \in Submitters : k # kind \/ t # s => submitter'[k][t] = submitter[k][t]
  BY <1>1, <1>7 DEF PreloadInv, PlaceTypes
<1>9. queue' \in [L!Kinds -> Seq(Parsed)]
  BY <1>1, <1>3 DEF PreloadInv, PlaceTypes
<1>10. PlaceTypes'
  BY <1>1, <1>2, <1>8, <1>9 DEF PreloadInv, PlaceTypes
<1>11. \A i \in 1..(Len(q) - 1) : i + 1 \in 1..Len(q) /\ Tail(q)[i] = q[i + 1] /\ Tail(q)[i] # e
  BY <1>3, <1>4 DEF Distinct
<1>12. \A i \in 1..Len(q) : i = 1 \/ (i - 1 \in 1..(Len(q) - 1) /\ Tail(q)[i - 1] = q[i])
  BY <1>3
<1>13. ASSUME NEW x \in Parsed PROVE InQueue(x)' <=> InQueue(x) /\ x # e
  <2>1. x.kind \in L!Kinds
    BY DEF PreloadInv, PlaceTypes, Parsed
  <2>2. CASE x.kind # kind
    BY <1>2, <1>5, <2>1, <2>2 DEF InQueue
  <2>3. CASE x.kind = kind
    <3>1. /\ InQueue(x)' <=> \E i \in 1..(Len(q) - 1) : Tail(q)[i] = x
          /\ InQueue(x) <=> \E i \in 1..Len(q) : q[i] = x
      BY <1>2, <1>3, <2>3 DEF InQueue, q
    <3>2. (\E i \in 1..(Len(q) - 1) : Tail(q)[i] = x) => (\E i \in 1..Len(q) : q[i] = x) /\ x # e
      BY <1>11
    <3>3. ASSUME NEW i \in 1..Len(q), q[i] = x, x # e PROVE \E j \in 1..(Len(q) - 1) : Tail(q)[j] = x
      BY <1>3, <1>12, <3>3
    <3> QED
      BY <3>1, <3>2, <3>3
  <2> QED
    BY <2>2, <2>3
<1>14. InQueue(e)
  <2>1. 1 \in 1..Len(q)
    BY <1>3
  <2> QED
    BY <1>3, <1>5, <2>1 DEF InQueue, q
<1>15. ASSUME NEW x \in Parsed PROVE AtSubmitter(x)' <=> AtSubmitter(x) \/ x = e
  <2>1. x.kind \in L!Kinds
    BY DEF PreloadInv, PlaceTypes, Parsed
  <2> QED
    BY <1>1, <1>5, <1>6, <1>8, <2>1 DEF AtSubmitter
<1>16. \A x : /\ x \in left' <=> x \in left
              /\ AtMatcher(x)' <=> AtMatcher(x)
              /\ InResults(x)' <=> InResults(x)
              /\ InFile(x)' <=> InFile(x)
  BY <1>1 DEF AtMatcher, InResults, InFile, HasRecord
<1>17. PlacesOf(e) = 1
  BY <1>3 DEF PreloadInv, PlacedOnce
<1>18. ~AtSubmitter(e)
  BY <1>14, <1>17 DEF PlacesOf, One
<1>19. \A x \in Parsed : PlacesOf(x)' = PlacesOf(x)
  BY <1>13, <1>14, <1>15, <1>16, <1>18 DEF PlacesOf, One
<1>20. ASSUME NEW k \in L!Kinds PROVE Distinct(queue'[k]) /\ \A i \in 1..Len(queue'[k]) : queue'[k][i].kind = k
  <2>1. CASE k # kind
    BY <1>2, <2>1 DEF PreloadInv, PlacedOnce
  <2>2. CASE k = kind
    <3>1. queue'[k] = Tail(q)
      BY <1>2, <2>2
    <3>2. \A i \in 1..(Len(q) - 1) : Tail(q)[i].kind = k
      BY <1>4, <1>11, <2>2
    <3>3. ASSUME NEW i \in 1..(Len(q) - 1), NEW j \in 1..(Len(q) - 1), Tail(q)[i] = Tail(q)[j] PROVE i = j
      <4>1. i + 1 = j + 1
        BY <1>4, <1>11, <3>3 DEF Distinct
      <4> QED
        BY <1>3, <4>1
    <3> QED
      BY <1>3, <3>1, <3>2, <3>3 DEF Distinct
  <2> QED
    BY <2>1, <2>2
<1>21. \A t \in Submitters : submitter[kind][t] # L!None => submitter[kind][t].entry # e
  BY <1>5, <1>18 DEF AtSubmitter
<1>22. \A k \in L!Kinds :
        /\ \A t \in Submitters : submitter'[k][t] # L!None => submitter'[k][t].entry.kind = k
        /\ \A t, u \in Submitters :
             /\ submitter'[k][t] # L!None /\ submitter'[k][u] # L!None
             /\ submitter'[k][t].entry = submitter'[k][u].entry
             => t = u
  <2>1. SUFFICES ASSUME NEW k \in L!Kinds
                 PROVE  /\ \A t \in Submitters : submitter'[k][t] # L!None => submitter'[k][t].entry.kind = k
                        /\ \A t, u \in Submitters :
                             /\ submitter'[k][t] # L!None /\ submitter'[k][u] # L!None
                             /\ submitter'[k][t].entry = submitter'[k][u].entry
                             => t = u
    OBVIOUS
  <2>2. /\ \A t \in Submitters : submitter[k][t] # L!None => submitter[k][t].entry.kind = k
        /\ \A t, u \in Submitters :
             /\ submitter[k][t] # L!None /\ submitter[k][u] # L!None
             /\ submitter[k][t].entry = submitter[k][u].entry
             => t = u
    BY DEF PreloadInv, PlacedOnce
  <2>3. CASE k # kind
    <3>1. \A t \in Submitters : submitter'[k][t] = submitter[k][t]
      BY <1>8, <2>3
    <3> QED
      BY <2>2, <3>1
  <2>4. CASE k = kind
    <3>1. \A t \in Submitters : IF t = s THEN submitter'[k][t] = taking ELSE submitter'[k][t] = submitter[k][t]
      BY <1>8, <2>4
    <3> QED
      BY <1>5, <1>6, <1>21, <2>2, <2>4, <3>1
  <2> QED
    BY <2>3, <2>4
<1>23. PlacedOnce'
  BY <1>1, <1>2, <1>19, <1>20, <1>22 DEF PreloadInv, PlacedOnce, DistinctEntries
<1>24. stage \in {"scan", "submitters"}
  BY <1>1 DEF PreloadInv, ClosedInOrder, PlaceTypes, q
<1>25. ClosedInOrder'
  BY <1>1, <1>24 DEF PreloadInv, ClosedInOrder
<1>26. SCTsAreGiven'
  BY <1>1, <1>6, <1>8 DEF PreloadInv, SCTsAreGiven
<1> QED
  BY <1>10, <1>23, <1>25, <1>26 DEF PreloadInv

LEMMA AddChainKeeps ==
    ASSUME PreloadInv, NEW kind \in L!Kinds, NEW s \in Submitters, L!AddChain(kind, s)
    PROVE  PreloadInv'
<1> DEFINE e == submitter[kind][s].entry
<1>1. PICK ok \in BOOLEAN, answered \in BOOLEAN :
        /\ sent' = IF ok THEN sent \cup {e} ELSE sent
        /\ submitter' = [submitter EXCEPT ![kind][s] =
                            [at |-> IF ok /\ answered THEN "recordSct" ELSE "recordFailure", entry |-> e]]
  BY DEF L!AddChain
<1>2. /\ submitter[kind][s].at = "add"
      /\ UNCHANGED <<found, left, matcher, queue, addedCerts, sctFile, stage>>
  BY DEF L!AddChain
<1> DEFINE r == [at |-> IF ok /\ answered THEN "recordSct" ELSE "recordFailure", entry |-> e]
<1>3. submitter[kind][s] # L!None
  BY <1>2 DEF L!None
<1>4. submitter[kind][s] \in [at : {"add", "recordSct", "recordFailure"}, entry : Parsed]
  BY <1>3 DEF PreloadInv, PlaceTypes
<1>5. /\ r # L!None /\ r.entry = e /\ (r.at = "recordSct" => ok)
      /\ r \in [at : {"add", "recordSct", "recordFailure"}, entry : Parsed]
  BY <1>4, NoneIsNoEntry
<1> HIDE DEF r
<1>6. /\ submitter' \in [L!Kinds ->
                          [Submitters -> {L!None} \cup [at : {"add", "recordSct", "recordFailure"}, entry : Parsed]]]
      /\ submitter'[kind][s] = r
      /\ \A k \in L!Kinds, t \in Submitters : k # kind \/ t # s => submitter'[k][t] = submitter[k][t]
  BY <1>1, <1>5 DEF PreloadInv, PlaceTypes, r
<1>7. Parsed' = Parsed
  BY <1>2 DEF Parsed
<1>8. PlaceTypes'
  BY <1>2, <1>6, <1>7 DEF PreloadInv, PlaceTypes
<1>9. \A k \in L!Kinds, t \in Submitters :
        /\ submitter'[k][t] # L!None <=> submitter[k][t] # L!None
        /\ submitter'[k][t] # L!None => submitter'[k][t].entry = submitter[k][t].entry
  BY <1>3, <1>5, <1>6
<1>10. \A x \in Parsed : PlacesOf(x)' = PlacesOf(x)
  <2>1. SUFFICES ASSUME NEW x \in Parsed PROVE AtSubmitter(x)' <=> AtSubmitter(x)
    BY <1>2 DEF PlacesOf, One, AtMatcher, InQueue, InResults, InFile, HasRecord
  <2>2. x.kind \in L!Kinds
    BY DEF PreloadInv, PlaceTypes, Parsed
  <2> QED
    BY <1>9, <2>2 DEF AtSubmitter
<1>11. PlacedOnce'
  BY <1>2, <1>7, <1>9, <1>10 DEF PreloadInv, PlacedOnce, Distinct, DistinctEntries
<1>12. ClosedInOrder'
  BY <1>2, <1>3, <1>9 DEF PreloadInv, ClosedInOrder
<1>13. SCTsAreGiven'
  <2>1. sent \subseteq sent' /\ (r.at = "recordSct" => r.entry \in sent')
    BY <1>1, <1>5
  <2> QED
    BY <1>2, <1>6, <2>1 DEF PreloadInv, SCTsAreGiven
<1> QED
  BY <1>8, <1>11, <1>12, <1>13 DEF PreloadInv

\* A record more, of an entry that the sequence has no record of.
LEMMA RecordAdded ==
    ASSUME NEW R, NEW q \in Seq(R), NEW r \in R
    PROVE  /\ Append(q, r) \in Seq(R)
           /\ \A x : HasRecord(Append(q, r), x) <=> HasRecord(q, x) \/ x = r.entry
           /\ \A x : Holds(Append(q, r), x) <=> Holds(q, x) \/ x = r
           /\ DistinctEntries(q) /\ ~HasRecord(q, r.entry) => DistinctEntries(Append(q, r))
<1>1. /\ Len(Append(q, r)) = Len(q) + 1 /\ Len(q) \in Nat
      /\ \A i \in 1..Len(q) : Append(q, r)[i] = q[i]
      /\ Append(q, r)[Len(q) + 1] = r
      /\ Append(q, r) \in Seq(R)
  OBVIOUS
<1> DEFINE a == Append(q, r)
           n == Len(q)
<1>2. \A i \in 1..(n + 1) : i \in 1..n \/ i = n + 1
  BY <1>1
<1>3. n + 1 \in 1..(n + 1) /\ \A i \in 1..n : i \in 1..(n + 1)
  BY <1>1
<1> HIDE DEF a, n
<1>4. Len(a) = n + 1 /\ (\A i \in 1..n : a[i] = q[i]) /\ a[n + 1] = r
  BY <1>1 DEF a, n
<1>5. \A i \in 1..(n + 1) : (i \in 1..n /\ a[i] = q[i]) \/ (i = n + 1 /\ a[i] = r)
  BY <1>2, <1>4
<1>6. \A x : (\E i \in 1..(n + 1) : a[i].entry = x) <=> (\E i \in 1..n : q[i].entry = x) \/ x = r.entry
  BY <1>3, <1>4, <1>5
<1>7. ASSUME DistinctEntries(q), ~HasRecord(q, r.entry) PROVE DistinctEntries(a)
  <2>1. ASSUME NEW i \in 1..(n + 1), NEW j \in 1..(n + 1), a[i].entry = a[j].entry PROVE i = j
    BY <1>5, <1>7, <2>1 DEF DistinctEntries, HasRecord, n
  <2> QED
    BY <1>4, <2>1 DEF DistinctEntries
<1>8. \A x : (\E i \in 1..(n + 1) : a[i] = x) <=> (\E i \in 1..n : q[i] = x) \/ x = r
  BY <1>3, <1>4, <1>5
<1> QED
  BY <1>1, <1>4, <1>6, <1>7, <1>8 DEF a, n, HasRecord, Holds

LEMMA RecordKeeps ==
    ASSUME PreloadInv, NEW kind \in L!Kinds, NEW s \in Submitters, NEW ok \in BOOLEAN,
           submitter[kind][s].at = IF ok THEN "recordSct" ELSE "recordFailure", L!Record(kind, s, ok)
    PROVE  PreloadInv'
<1> DEFINE e == submitter[kind][s].entry
           r == [entry |-> e, ok |-> ok]
<1>1. /\ addedCerts' = Append(addedCerts, r)
      /\ submitter' = [submitter EXCEPT ![kind][s] = L!None]
      /\ stage' = IF stage \in {"scan", "submitters"} THEN stage ELSE "panic"
      /\ UNCHANGED <<found, left, matcher, queue, sctFile, sent>>
      /\ stage \notin {"ended", "fatal"}
  BY DEF L!Record, L!Running
<1>2. submitter[kind][s] # L!None
  BY DEF L!None
<1>3. submitter[kind][s] \in [at : {"add", "recordSct", "recordFailure"}, entry : Parsed]
  BY <1>2 DEF PreloadInv, PlaceTypes
<1>4. stage \in {"scan", "submitters"} /\ stage' = stage
  BY <1>1, <1>2 DEF PreloadInv, ClosedInOrder, PlaceTypes
<1>5. /\ r \in [entry : Parsed, ok : BOOLEAN] /\ r.entry = e /\ r.ok = ok /\ e \in Parsed /\ e.kind = kind
      /\ Parsed' = Parsed
  BY <1>1, <1>2, <1>3 DEF PreloadInv, PlacedOnce, Parsed
<1>6. submitter[kind][s].entry = e
  OBVIOUS
<1> HIDE DEF e, r
<1>7. /\ submitter' \in [L!Kinds ->
                          [Submitters -> {L!None} \cup [at : {"add", "recordSct", "recordFailure"}, entry : Parsed]]]
      /\ submitter'[kind][s] = L!None
      /\ \A k \in L!Kinds, t \in Submitters : k # kind \/ t # s => submitter'[k][t] = submitter[k][t]
  BY <1>1 DEF PreloadInv, PlaceTypes
<1>8. addedCerts \in Seq([entry : Parsed, ok : BOOLEAN])
  BY DEF PreloadInv, PlaceTypes
<1>9. /\ addedCerts' \in Seq([entry : Parsed, ok : BOOLEAN])
      /\ \A x : InResults(x)' <=> InResults(x) \/ x = e
      /\ ~InResults(e) => DistinctEntries(addedCerts')
      /\ \A x : Holds(addedCerts', x) <=> Holds(addedCerts, x) \/ x = r
  <2>1. DistinctEntries(addedCerts)
    BY DEF PreloadInv, PlacedOnce
  <2>2. /\ addedCerts' \in Seq([entry : Parsed, ok : BOOLEAN])
        /\ \A x : HasRecord(addedCerts', x) <=> HasRecord(addedCerts, x) \/ x = e
        /\ \A x : Holds(addedCerts', x) <=> Holds(addedCerts, x) \/ x = r
        /\ ~HasRecord(addedCerts, e) => DistinctEntries(addedCerts')
    <3> DEFINE Records == [entry : Parsed, ok : BOOLEAN]
    <3>1. addedCerts \in Seq(Records) /\ r \in Records
      BY <1>5, <1>8
    <3> HIDE DEF Records
    <3>2. /\ addedCerts' \in Seq(Records)
          /\ \A x : HasRecord(addedCerts', x) <=> HasRecord(addedCerts, x) \/ x = e
          /\ \A x : Holds(addedCerts', x) <=> Holds(addedCerts, x) \/ x = r
          /\ ~HasRecord(addedCerts, e) => DistinctEntries(addedCerts')
      BY <1>1, <1>5, <2>1, <3>1, RecordAdded
    <3> QED
      BY <3>2 DEF Records
  <2> QED
    BY <2>2 DEF InResults
<1>10. PlaceTypes'
  BY <1>1, <1>4, <1>5, <1>7, <1>9 DEF PreloadInv, PlaceTypes
<1>11. ASSUME NEW x \in Parsed PROVE AtSubmitter(x)' <=> AtSubmitter(x) /\ x # e
  <2>1. x.kind \in L!Kinds
    BY DEF PreloadInv, PlaceTypes, Parsed
  <2>2. \A t \in Submitters : submitter[kind][t] # L!None /\ submitter[kind][t].entry = e => t = s
    BY <1>2, <1>6 DEF PreloadInv, PlacedOnce
  <2>3. CASE x.kind # kind
    <3>1. \A t \in Submitters : submitter'[x.kind][t] = submitter[x.kind][t]
      BY <1>7, <2>1, <2>3
    <3> QED
      BY <1>5, <2>3, <3>1 DEF AtSubmitter
  <2>4. CASE x.kind = kind
    <3>1. \A t \in Submitters :
            IF t = s THEN submitter'[kind][t] = L!None ELSE submitter'[kind][t] = submitter[kind][t]
      BY <1>7
    <3>2. /\ AtSubmitter(x)' <=> \E t \in Submitters : submitter'[kind][t] # L!None /\ submitter'[kind][t].entry = x
          /\ AtSubmitter(x) <=> \E t \in Submitters : submitter[kind][t] # L!None /\ submitter[kind][t].entry = x
      BY <2>4 DEF AtSubmitter
    <3> QED
      BY <1>6, <2>2, <3>1, <3>2
  <2> QED
    BY <2>3, <2>4
<1>12. AtSubmitter(e)
  BY <1>2, <1>5, <1>6 DEF AtSubmitter
<1>13. \A x : /\ x \in left' <=> x \in left
              /\ AtMatcher(x)' <=> AtMatcher(x)
              /\ InQueue(x)' <=> InQueue(x)
              /\ InFile(x)' <=> InFile(x)
  BY <1>1 DEF AtMatcher, InQueue, InFile
<1>14. PlacesOf(e) = 1
  BY <1>5 DEF PreloadInv, PlacedOnce
<1>15. ~InResults(e)
  BY <1>12, <1>14 DEF PlacesOf, One
<1>16. \A x \in Parsed : PlacesOf(x)' = PlacesOf(x)
  BY <1>9, <1>11, <1>12, <1>13, <1>15 DEF PlacesOf, One
<1>17. \A k \in L!Kinds, t \in Submitters :
        submitter'[k][t] # L!None => submitter'[k][t] = submitter[k][t] /\ submitter[k][t] # L!None
  BY <1>7
<1>18. \A k \in L!Kinds :
        /\ \A t \in Submitters : submitter'[k][t] # L!None => submitter'[k][t].entry.kind = k
        /\ \A t, u \in Submitters :
             /\ submitter'[k][t] # L!None /\ submitter'[k][u] # L!None
             /\ submitter'[k][t].entry = submitter'[k][u].entry
             => t = u
  BY <1>17 DEF PreloadInv, PlacedOnce
<1>19. PlacedOnce'
  BY <1>1, <1>5, <1>9, <1>15, <1>16, <1>18 DEF PreloadInv, PlacedOnce, Distinct, DistinctEntries
<1>20. ClosedInOrder'
  BY <1>1, <1>4 DEF PreloadInv, ClosedInOrder
<1>21. SCTsAreGiven'
  <2>1. ok => e \in sent
    BY DEF PreloadInv, SCTsAreGiven, e
  <2>2. \A k \in L!Kinds, t \in Submitters : submitter'[k][t].at = "recordSct" => submitter'[k][t].entry \in sent
    <3>1. L!None.at # "recordSct"
      BY DEF L!None
    <3> QED
      BY <1>7, <3>1 DEF PreloadInv, SCTsAreGiven
  <2>3. \A x : Holds(addedCerts, x) /\ x.ok => x.entry \in sent
    BY DEF PreloadInv, SCTsAreGiven, Holds
  <2>4. \A i \in 1..Len(addedCerts') : addedCerts'[i].ok => addedCerts'[i].entry \in sent
    BY <1>5, <1>9, <2>1, <2>3 DEF Holds
  <2> QED
    BY <1>1, <2>2, <2>4 DEF PreloadInv, SCTsAreGiven
<1> QED
  BY <1>10, <1>19, <1>20, <1>21 DEF PreloadInv

\* A record less.
LEMMA RecordTaken ==
    ASSUME NEW R, NEW q \in Seq(R), q # <<>>, DistinctEntries(q)
    PROVE  /\ Tail(q) \in Seq(R) /\ Head(q) \in R
           /\ \A x : HasRecord(Tail(q), x) <=> HasRecord(q, x) /\ x # Head(q).entry
           /\ HasRecord(q, Head(q).entry) /\ Holds(q, Head(q))
           /\ \A x : Holds(Tail(q), x) => Holds(q, x)
           /\ DistinctEntries(Tail(q))
<1> DEFINE a == Tail(q)
           n == Len(q)
           h == Head(q)
<1>1. n \in Nat /\ n > 0
  OBVIOUS
<1>2. h = q[1] /\ h \in R
  BY <1>1
<1>3. a \in Seq(R) /\ Len(a) = n - 1 /\ \A i \in 1..(n - 1) : a[i] = q[i + 1]
  BY <1>1
<1> HIDE DEF a, n, h
<1>4. \A i \in 1..(n - 1) : i + 1 \in 1..n /\ a[i] = q[i + 1] /\ i + 1 # 1
  BY <1>1, <1>3
<1>5. \A i \in 1..n : i = 1 \/ (i - 1 \in 1..(n - 1) /\ a[i - 1] = q[i])
  BY <1>1, <1>3
<1>6. 1 \in 1..n
  BY <1>1
<1>7. \A i, j \in 1..n : q[i].entry = q[j].entry => i = j
  BY DEF DistinctEntries, n
<1>8. \A x : (\E i \in 1..(n - 1) : a[i].entry = x) => (\E i \in 1..n : q[i].entry = x) /\ x # h.entry
  BY <1>2, <1>4, <1>6, <1>7
<1>9. ASSUME NEW i \in 1..n, q[i].entry # h.entry PROVE \E j \in 1..(n - 1) : a[j].entry = q[i].entry
  <2>1. i # 1
    BY <1>2, <1>9
  <2> QED
    BY <1>5, <2>1
<1>10. ASSUME NEW i \in 1..(n - 1), NEW j \in 1..(n - 1), a[i].entry = a[j].entry PROVE i = j
  <2>1. i + 1 = j + 1
    BY <1>4, <1>7, <1>10
  <2> QED
    BY <2>1
<1>11. DistinctEntries(a)
  BY <1>3, <1>10 DEF DistinctEntries
<1>12. \A x : (\E i \in 1..Len(a) : a[i].entry = x) <=> (\E i \in 1..n : q[i].entry = x) /\ x # h.entry
  <2>1. SUFFICES ASSUME NEW x, \E i \in 1..n : q[i].entry = x, x # h.entry
                 PROVE  \E i \in 1..(n - 1) : a[i].entry = x
    BY <1>3, <1>8
  <2>2. PICK i \in 1..n : q[i].entry = x
    BY <2>1
  <2> QED
    BY <1>9, <2>1, <2>2
<1>13. \E i \in 1..n : q[i] = h
  BY <1>2, <1>6
<1>14. \A i \in 1..Len(a) : \E j \in 1..n : a[i] = q[j]
  BY <1>3, <1>4
<1>15. HasRecord(q, h.entry) /\ Holds(q, h)
  BY <1>13 DEF HasRecord, Holds, n
<1>16. \A x : HasRecord(a, x) <=> HasRecord(q, x) /\ x # h.entry
  BY <1>12 DEF HasRecord, n
<1>17. \A x : Holds(a, x) => Holds(q, x)
  BY <1>14 DEF Holds, n
<1> QED
  BY <1>2, <1>3, <1>11, <1>15, <1>16, <1>17 DEF a, h

LEMMA DumperKeeps ==
    ASSUME PreloadInv, L!sctDumper PROVE PreloadInv'
<1>1. /\ addedCerts # <<>> /\ UNCHANGED <<found, left, matcher, queue, submitter, sent>>
      /\ stage \notin {"ended", "fatal"}
  BY DEF L!sctDumper, L!Running
<1>2. Parsed' = Parsed
  BY <1>1 DEF Parsed
<1>3. CASE stage' = "fatal" /\ UNCHANGED <<sctFile, addedCerts>>
  <2>1. PlaceTypes' /\ ClosedInOrder' /\ SCTsAreGiven'
    BY <1>1, <1>2, <1>3 DEF PreloadInv, PlaceTypes, ClosedInOrder, SCTsAreGiven
  <2>2. \A x : PlacesOf(x)' = PlacesOf(x)
    BY <1>1, <1>3 DEF PlacesOf, One, AtMatcher, InQueue, AtSubmitter, InResults, InFile, HasRecord
  <2>3. PlacedOnce'
    BY <1>1, <1>2, <1>3, <2>2 DEF PreloadInv, PlacedOnce, Distinct, DistinctEntries
  <2> QED
    BY <2>1, <2>3 DEF PreloadInv
<1>4. CASE /\ sctFile' = Append(sctFile, Head(addedCerts)) /\ addedCerts' = Tail(addedCerts)
           /\ UNCHANGED stage
  <2> DEFINE r == Head(addedCerts)
             e == r.entry
             Records == [entry : Parsed, ok : BOOLEAN]
  <2>1. /\ addedCerts \in Seq(Records) /\ sctFile \in Seq(Records)
        /\ DistinctEntries(addedCerts) /\ DistinctEntries(sctFile)
    BY DEF PreloadInv, PlaceTypes, PlacedOnce
  <2>2. /\ addedCerts' \in Seq(Records) /\ r \in Records
        /\ \A x : HasRecord(addedCerts', x) <=> HasRecord(addedCerts, x) /\ x # r.entry
        /\ HasRecord(addedCerts, r.entry) /\ Holds(addedCerts, r)
        /\ \A x : Holds(addedCerts', x) => Holds(addedCerts, x)
        /\ DistinctEntries(addedCerts')
    <3> HIDE DEF Records
    <3> QED
      BY <1>1, <1>4, <2>1, RecordTaken
  <2>3. sctFile' = Append(sctFile, r)
    BY <1>4
  <2> HIDE DEF r
  <2>4. e \in Parsed
    BY <2>2
  <2> HIDE DEF Records
  <2>5. /\ sctFile' \in Seq(Records)
        /\ \A x : HasRecord(sctFile', x) <=> HasRecord(sctFile, x) \/ x = e
        /\ \A x : Holds(sctFile', x) <=> Holds(sctFile, x) \/ x = r
        /\ ~HasRecord(sctFile, e) => DistinctEntries(sctFile')
    BY <2>1, <2>2, <2>3, RecordAdded
  <2>6. \A x : /\ x \in left' <=> x \in left
               /\ AtMatcher(x)' <=> AtMatcher(x)
               /\ InQueue(x)' <=> InQueue(x)
               /\ AtSubmitter(x)' <=> AtSubmitter(x)
    BY <1>1 DEF AtMatcher, InQueue, AtSubmitter
  <2>7. /\ \A x : InResults(x)' <=> InResults(x) /\ x # e
        /\ \A x : InFile(x)' <=> InFile(x) \/ x = e
        /\ InResults(e)
    BY <2>2, <2>5 DEF InResults, InFile, HasRecord
  <2> HIDE DEF e
  <2>8. PlacesOf(e) = 1
    BY <2>4 DEF PreloadInv, PlacedOnce
  <2>9. ~InFile(e)
    BY <2>7, <2>8 DEF PlacesOf, One
  <2>10. \A x : PlacesOf(x)' = PlacesOf(x)
    BY <2>6, <2>7, <2>9 DEF PlacesOf, One
  <2>11. DistinctEntries(sctFile')
    BY <2>5, <2>9 DEF InFile
  <2>12. PlacedOnce'
    BY <1>1, <1>2, <2>2, <2>10, <2>11 DEF PreloadInv, PlacedOnce, Distinct
  <2>13. PlaceTypes'
    BY <1>1, <1>2, <1>4, <2>2, <2>5 DEF PreloadInv, PlaceTypes, Records
  <2>14. ClosedInOrder'
    BY <1>1, <1>4 DEF PreloadInv, ClosedInOrder
  <2>15. /\ \A x : Holds(addedCerts, x) /\ x.ok => x.entry \in sent
         /\ \A x : Holds(sctFile, x) /\ x.ok => x.entry \in sent
    BY DEF PreloadInv, SCTsAreGiven, Holds
  <2>16. /\ \A x : Holds(addedCerts', x) /\ x.ok => x.entry \in sent
         /\ \A x : Holds(sctFile', x) /\ x.ok => x.entry \in sent
    BY <2>2, <2>5, <2>15
  <2>17. SCTsAreGiven'
    BY <1>1, <2>16 DEF PreloadInv, SCTsAreGiven, Holds
  <2> QED
    BY <2>12, <2>13, <2>14, <2>17 DEF PreloadInv
<1> QED
  BY <1>3, <1>4 DEF L!sctDumper

LEMMA MainKeeps ==
    ASSUME PreloadInv, L!main PROVE PreloadInv'
<1>1. UNCHANGED <<found, left, matcher, queue, submitter, addedCerts, sctFile, sent>>
  BY DEF L!main
<1>2. Parsed' = Parsed /\ \A x : PlacesOf(x)' = PlacesOf(x)
  BY <1>1 DEF Parsed, PlacesOf, One, AtMatcher, InQueue, AtSubmitter, InResults, InFile, HasRecord
<1>3. PlacedOnce' /\ SCTsAreGiven'
  BY <1>1, <1>2 DEF PreloadInv, PlacedOnce, SCTsAreGiven, Distinct, DistinctEntries
<1>4. PlaceTypes'
  BY <1>1, <1>2 DEF L!main, PreloadInv, PlaceTypes
<1>5. ClosedInOrder'
  BY <1>1 DEF L!main, PreloadInv, ClosedInOrder
<1> QED
  BY <1>3, <1>4, <1>5 DEF PreloadInv

LEMMA PreloadStep == PreloadInv /\ [L!Next]_lVars => PreloadInv'
<1> SUFFICES ASSUME PreloadInv, [L!Next]_lVars PROVE PreloadInv'
  OBVIOUS
<1>1. CASE UNCHANGED lVars
  <2>1. Parsed' = Parsed /\ \A x : PlacesOf(x)' = PlacesOf(x)
    BY <1>1 DEF lVars, Parsed, PlacesOf, One, AtMatcher, InQueue, AtSubmitter, InResults, InFile, HasRecord
  <2>2. PlacedOnce'
    BY <1>1, <2>1 DEF lVars, PreloadInv, PlacedOnce, Distinct, DistinctEntries
  <2>3. PlaceTypes' /\ ClosedInOrder' /\ SCTsAreGiven'
    BY <1>1, <2>1 DEF lVars, PreloadInv, PlaceTypes, ClosedInOrder, SCTsAreGiven
  <2> QED
    BY <2>2, <2>3 DEF PreloadInv
<1>2. ASSUME NEW m \in Matchers, L!MatcherStep(m) PROVE PreloadInv'
  BY <1>2, CallbackKeeps, SendEntryKeeps DEF L!MatcherStep, L!addChainFunc, L!addPreChainFunc, L!Kinds
<1>3. ASSUME NEW s \in Submitters, L!certSubmitter(s) \/ L!precertSubmitter(s) PROVE PreloadInv'
  BY <1>3, SubmitKeeps DEF L!certSubmitter, L!precertSubmitter, L!Kinds
<1>4. ASSUME NEW k \in L!Kinds, NEW s \in Submitters, L!SubmitterStep(k, s) PROVE PreloadInv'
  BY <1>4, AddChainKeeps, RecordKeeps DEF L!SubmitterStep, L!recordSct, L!recordFailure
<1> QED
  BY <1>1, <1>2, <1>3, <1>4, DumperKeeps, MainKeeps DEF L!Next

LEMMA PreloadInit == L!Init \/ PreloaderIdle => PreloadInv
<1> SUFFICES ASSUME L!Init \/ PreloaderIdle PROVE PreloadInv
  OBVIOUS
<1>1. /\ IsFiniteSet(found) /\ \A e \in found : e.kind \in L!Kinds /\ e.parses \in BOOLEAN
      /\ left = found
      /\ matcher = [m \in Matchers |-> L!None] /\ queue = [k \in L!Kinds |-> <<>>]
      /\ submitter = [k \in L!Kinds |-> [s \in Submitters |-> L!None]]
      /\ addedCerts = <<>> /\ sctFile = <<>>
      /\ stage = "scan" \/ (stage = "ended" /\ left = {})
  BY PreloaderAssumption, FS_EmptySet DEF L!Init, PreloaderIdle
<1>2. PlaceTypes
  BY <1>1 DEF PlaceTypes
<1>3. \A e \in Parsed : PlacesOf(e) = 1
  BY <1>1 DEF Parsed, PlacesOf, One, AtMatcher, InQueue, AtSubmitter, InResults, InFile, HasRecord
<1>4. PlacedOnce
  BY <1>1, <1>3 DEF PlacedOnce, Distinct, DistinctEntries
<1>5. ClosedInOrder /\ SCTsAreGiven
  <2>1. L!None.at # "recordSct"
    BY DEF L!None
  <2> QED
    BY <1>1, <2>1 DEF ClosedInOrder, SCTsAreGiven
<1> QED
  BY <1>2, <1>4, <1>5 DEF PreloadInv

\* In the end every entry that parses is in the file, and there once.
LEMMA RecordsAreComplete == PreloadInv => L!EveryEntryIsRecorded
<1> SUFFICES ASSUME PreloadInv PROVE L!EveryEntryIsRecorded
  OBVIOUS
<1>1. stage # "panic"
  BY DEF PreloadInv, PlaceTypes
<1>2. sctFile \in Seq([entry : Parsed, ok : BOOLEAN]) /\ DOMAIN sctFile = 1..Len(sctFile) /\ Len(sctFile) \in Nat
  BY DEF PreloadInv, PlaceTypes
<1>3. \A i \in DOMAIN sctFile : sctFile[i].ok => sctFile[i].entry \in sent
  BY <1>2 DEF PreloadInv, SCTsAreGiven
<1>4. ASSUME stage = "ended"
      PROVE  /\ Len(sctFile) = Cardinality(Parsed)
             /\ {sctFile[i].entry : i \in DOMAIN sctFile} = Parsed
  <2>1. \A e \in Parsed : e.kind \in L!Kinds
    BY DEF PreloadInv, PlaceTypes, Parsed
  <2>2. \A e \in Parsed : e \notin left /\ ~AtMatcher(e) /\ ~InQueue(e) /\ ~AtSubmitter(e) /\ ~InResults(e)
    BY <1>4, <2>1 DEF PreloadInv, ClosedInOrder, AtMatcher, InQueue, AtSubmitter, InResults, HasRecord
  <2>3. ASSUME NEW e \in Parsed PROVE InFile(e)
    <3>1. PlacesOf(e) = 1
      BY DEF PreloadInv, PlacedOnce
    <3>2. ~(e \in left) /\ ~AtMatcher(e) /\ ~InQueue(e) /\ ~AtSubmitter(e) /\ ~InResults(e)
      BY <2>2
    <3> QED
      BY <3>1, <3>2 DEF PlacesOf, One
  <2>4. \A i \in 1..Len(sctFile) : sctFile[i].entry \in Parsed
    <3>1. \A i \in 1..Len(sctFile) : sctFile[i] \in [entry : Parsed, ok : BOOLEAN]
      BY <1>2, ElementOfSeq
    <3> QED
      BY <3>1
  <2>5. {sctFile[i].entry : i \in DOMAIN sctFile} = Parsed
    BY <1>2, <2>3, <2>4 DEF InFile, HasRecord
  <2> DEFINE f == [i \in 1..Len(sctFile) |-> sctFile[i].entry]
  <2>6. f \in Bijection(1..Len(sctFile), Parsed)
    <3>1. f \in [1..Len(sctFile) -> Parsed]
      BY <2>4
    <3>2. \A i, j \in 1..Len(sctFile) : f[i] = f[j] => i = j
      BY DEF PreloadInv, PlacedOnce, DistinctEntries
    <3>3. \A e \in Parsed : \E i \in 1..Len(sctFile) : f[i] = e
      BY <2>3 DEF InFile, HasRecord
    <3> HIDE DEF f
    <3>4. f \in Injection(1..Len(sctFile), Parsed)
      BY <3>1, <3>2 DEF Injection, IsInjective
    <3>5. f \in Surjection(1..Len(sctFile), Parsed)
      BY <3>1, <3>3 DEF Surjection
    <3> QED
      BY <3>4, <3>5 DEF Bijection
  <2>7. Cardinality(Parsed) = Len(sctFile)
    BY <1>2, <2>6, FS_CountingElements DEF ExistsBijection
  <2> QED
    BY <2>5, <2>7
<1>5. L!Cardinality(Parsed) = Cardinality(Parsed)
  BY Zenon DEF L!Cardinality, Cardinality
<1> QED
  BY <1>1, <1>3, <1>4, <1>5 DEF L!EveryEntryIsRecorded, Parsed

\* The preloader's part of EveryCertIsAccounted, for any entries, pools and channels: when
\* it ends, its file has one true record of every entry that could be parsed, and nothing
\* is sent on a channel that was closed (preload/preloader/preloader.go:245).
THEOREM EntriesAreRecorded == L!Spec => []L!EveryEntryIsRecorded
<1>1. PreloadInv /\ [L!Next]_L!vars => PreloadInv'
  BY PreloadStep DEF L!vars, lVars
<1> QED
  BY <1>1, PreloadInit, RecordsAreComplete, PTL DEF L!Spec

----------------------------------------------------------------------------
(* FixChain: lemmas about its operators.                                   *)

\* A non-empty set of numbers has a smallest one.
LEMMA Smallest ==
    ASSUME NEW S \in SUBSET Nat, S # {}
    PROVE  \E i \in S : \A j \in S : i <= j
<1>1. PICK i \in S : \A j \in S : <<j, i>> \notin OpToRel(<, Nat)
  BY NatLessThanWellFounded, WFMin
<1>2. \A j \in S : ~(j < i)
  BY <1>1 DEF OpToRel
<1> QED
  BY <1>2

LEMMA FixCardinality == \A S : X!Cardinality(S) = Cardinality(S)
BY Zenon DEF X!Cardinality, Cardinality

\* The positions in a set of numbers can be counted in their order.
LEMMA OrderOfPositions ==
    ASSUME NEW m \in Nat, NEW S \in SUBSET (1..m)
    PROVE  /\ IsFiniteSet(S) /\ Cardinality(S) \in Nat
           /\ \E f \in [1..Cardinality(S) -> S] : \A i, j \in DOMAIN f : i < j => f[i] < f[j]
<1> DEFINE n == Cardinality(S)
           UpTo(i) == {j \in S : j <= i}
           rank == [i \in S |-> Cardinality(UpTo(i))]
<1>1. IsFiniteSet(S) /\ n \in Nat
  <2>1. IsFiniteSet(1..m)
    BY FS_Interval
  <2> QED
    BY <2>1, FS_Subset, FS_CardinalityType
<1>2. \A i \in S : i \in Nat /\ UpTo(i) \in SUBSET S /\ i \in UpTo(i)
  OBVIOUS
<1>3. \A i \in S : IsFiniteSet(UpTo(i)) /\ Cardinality(UpTo(i)) \in Nat /\ Cardinality(UpTo(i)) <= n
  BY <1>1, <1>2, FS_Subset, FS_CardinalityType
<1>4. \A i \in S : Cardinality(UpTo(i)) # 0
  BY <1>2, <1>3, FS_EmptySet
<1>5. \A i, j \in S : i <= j => UpTo(i) \in SUBSET UpTo(j)
  <2>1. SUFFICES ASSUME NEW i \in S, NEW j \in S, i <= j, NEW k \in S, k <= i PROVE k <= j
    OBVIOUS
  <2> QED
    BY <1>2, <2>1
<1>6. \A i, j \in S : i < j => j \notin UpTo(i)
  BY <1>2
<1>7. \A i, j \in S : i < j => UpTo(i) # UpTo(j)
  BY <1>2, <1>6
<1> HIDE DEF UpTo
<1>8. \A i, j \in S : i <= j => Cardinality(UpTo(i)) <= Cardinality(UpTo(j))
  BY <1>3, <1>5, FS_Subset
<1>9. \A i, j \in S : i < j => Cardinality(UpTo(i)) < Cardinality(UpTo(j))
  <2>1. SUFFICES ASSUME NEW i \in S, NEW j \in S, i < j PROVE Cardinality(UpTo(i)) < Cardinality(UpTo(j))
    OBVIOUS
  <2>2. UpTo(i) \in SUBSET UpTo(j) /\ UpTo(i) # UpTo(j)
    BY <1>2, <1>5, <1>7, <2>1
  <2>3. Cardinality(UpTo(i)) # Cardinality(UpTo(j)) /\ Cardinality(UpTo(i)) <= Cardinality(UpTo(j))
    BY <1>3, <2>2, FS_Subset
  <2> QED
    BY <1>3, <2>3
<1>10. /\ rank \in [S -> 1..n]
       /\ \A i \in S : rank[i] \in Nat
       /\ \A i, j \in S : i < j => rank[i] < rank[j]
  BY <1>1, <1>3, <1>4, <1>9
<1> HIDE DEF rank
<1>11. \A i, j \in S : rank[i] = rank[j] => i = j
  <2>1. SUFFICES ASSUME NEW i \in S, NEW j \in S, rank[i] = rank[j] PROVE i = j
    OBVIOUS
  <2>2. ~(i < j) /\ ~(j < i)
    BY <1>10, <2>1
  <2> QED
    BY <1>2, <2>2
<1>12. rank \in Injection(S, 1..n)
  BY <1>10, <1>11 DEF Injection, IsInjective
<1>13. IsFiniteSet(1..n) /\ Cardinality(1..n) = n
  BY <1>1, FS_Interval
<1>14. rank \in Surjection(S, 1..n)
  BY <1>1, <1>12, <1>13, FS_Injection
<1>15. \A k \in 1..n : \E i \in S : rank[i] = k
  BY <1>14 DEF Surjection
<1> DEFINE f == [k \in 1..n |-> CHOOSE i \in S : rank[i] = k]
<1>16. \A k \in 1..n : f[k] \in S /\ rank[f[k]] = k
  BY <1>15
<1>17. f \in [1..n -> S] /\ DOMAIN f = 1..n
  BY <1>16
<1> HIDE DEF f, n
<1>18. ASSUME NEW k \in 1..n, NEW l \in 1..n, k < l PROVE f[k] < f[l]
  <2>0. k \in Nat /\ l \in Nat
    BY <1>1
  <2>1. f[k] \in S /\ f[l] \in S /\ rank[f[k]] = k /\ rank[f[l]] = l
    BY <1>16
  <2>2. ASSUME f[l] < f[k] PROVE FALSE
    <3>1. rank[f[l]] < rank[f[k]]
      BY <1>10, <2>1, <2>2
    <3> QED
      BY <1>18, <2>0, <2>1, <3>1
  <2>3. f[l] # f[k]
    BY <1>18, <2>0, <2>1
  <2>4. f[k] \in Nat /\ f[l] \in Nat
    BY <1>2, <2>1
  <2> QED
    BY <2>2, <2>3, <2>4
<1> QED
  BY <1>1, <1>17, <1>18 DEF n

\* newDedupedChain keeps every certificate.
LEMMA DedupedChain ==
    ASSUME NEW T, NEW chain \in Seq(T)
    PROVE  /\ X!newDedupedChain(chain) \in Seq(T)
           /\ X!ToSet(X!newDedupedChain(chain)) = X!ToSet(chain)
<1> DEFINE m == Len(chain)
           firsts == {i \in DOMAIN chain : \A j \in 1..(i - 1) : chain[j] # chain[i]}
           n == X!Cardinality(firsts)
           Monotone(f) == \A i, j \in DOMAIN f : i < j => f[i] < f[j]
           kept == CHOOSE f \in [1..n -> firsts] : Monotone(f)
           d == [i \in DOMAIN kept |-> chain[kept[i]]]
<1>1. m \in Nat /\ DOMAIN chain = 1..m /\ firsts \in SUBSET (1..m)
  OBVIOUS
<1>2. X!newDedupedChain(chain) = d
  BY DEF X!newDedupedChain
<1> HIDE DEF firsts
<1>3. /\ IsFiniteSet(firsts) /\ n \in Nat /\ n = Cardinality(firsts)
      /\ \E f \in [1..n -> firsts] : Monotone(f)
  <2>1. n = Cardinality(firsts)
    BY FixCardinality
  <2> QED
    BY <1>1, <2>1, OrderOfPositions
<1>4. kept \in [1..n -> firsts] /\ Monotone(kept)
  BY <1>3
<1> HIDE DEF kept, n
<1>5. DOMAIN kept = 1..n /\ \A i \in 1..n : kept[i] \in firsts /\ kept[i] \in Nat
  <2>1. DOMAIN kept = 1..n /\ \A i \in 1..n : kept[i] \in firsts
    BY <1>4
  <2>2. \A i \in firsts : i \in Nat
    BY <1>1
  <2> QED
    BY <2>1, <2>2
<1>6. \A i, j \in 1..n : kept[i] = kept[j] => i = j
  <2>1. SUFFICES ASSUME NEW i \in 1..n, NEW j \in 1..n, i # j PROVE kept[i] # kept[j]
    OBVIOUS
  <2>2. kept[i] < kept[j] \/ kept[j] < kept[i]
    BY <1>4, <1>5, <2>1
  <2> QED
    BY <1>5, <2>2
<1>7. kept \in Injection(1..n, firsts)
  BY <1>4, <1>5, <1>6 DEF Injection, IsInjective
<1>8. kept \in Surjection(1..n, firsts)
  <2>1. Cardinality(1..n) = Cardinality(firsts)
    BY <1>3, FS_Interval
  <2> QED
    BY <1>3, <1>7, <2>1, FS_Injection
<1>9. \A i \in firsts : \E k \in 1..n : kept[k] = i
  BY <1>8 DEF Surjection
<1>10. d \in [1..n -> T] /\ \A k \in 1..n : d[k] = chain[kept[k]]
  BY <1>1, <1>5
<1>11. d \in Seq(T) /\ DOMAIN d = 1..n
  BY <1>3, <1>10
<1> HIDE DEF d
<1>12. ASSUME NEW i \in 1..m PROVE \E k \in 1..n : d[k] = chain[i]
  <2> DEFINE at == {j \in 1..m : chain[j] = chain[i]}
  <2>1. at \in SUBSET Nat /\ i \in at
    BY <1>1
  <2>2. PICK j \in at : \A k \in at : j <= k
    <3> HIDE DEF at
    <3> QED
      BY <2>1, Smallest
  <2>3. j \in 1..m /\ chain[j] = chain[i]
    OBVIOUS
  <2>4. \A k \in 1..(j - 1) : k \in 1..m /\ chain[k] # chain[j]
    BY <1>1, <2>2, <2>3
  <2>5. j \in firsts
    BY <1>1, <2>3, <2>4 DEF firsts
  <2> QED
    BY <1>9, <1>10, <2>3, <2>5
<1>13. \A k \in 1..n : \E i \in 1..m : d[k] = chain[i]
  BY <1>1, <1>5, <1>10
<1>14. X!ToSet(d) = X!ToSet(chain)
  <2>1. X!ToSet(d) = {d[k] : k \in 1..n} /\ X!ToSet(chain) = {chain[i] : i \in 1..m}
    BY <1>1, <1>11 DEF X!ToSet
  <2> QED
    BY <1>12, <1>13, <2>1
<1> QED
  BY <1>2, <1>11, <1>14

\* Of chains that were found some stay when those with another as their beginning go.
LEMMA SomeChainStays ==
    ASSUME NEW c, NEW pool, X!Verify(c, pool) # {}
    PROVE  /\ X!removeSuperChains(X!Verify(c, pool)) # {}
           /\ X!removeSuperChains(X!Verify(c, pool)) \subseteq X!Verify(c, pool)
<1> DEFINE V == X!Verify(c, pool)
           lengths == {n \in 1..MaxChainLength : \E p \in V : Len(p) = n}
<1>1. \A p \in V : p \in Seq(pool \cup AcceptedRoots \cup {c}) /\ Len(p) \in 1..MaxChainLength
  BY FixAssumption DEF X!Verify
<1> HIDE DEF V
<1>2. lengths \in SUBSET Nat /\ lengths # {}
  BY <1>1 DEF V
<1>3. PICK n \in lengths : \A k \in lengths : n <= k
  <2> HIDE DEF lengths
  <2> QED
    BY <1>2, Smallest
<1>4. PICK p \in V : Len(p) = n
  OBVIOUS
<1>5. \A q \in V : Len(p) <= Len(q)
  BY <1>1, <1>3, <1>4
<1>6. ASSUME NEW q \in V, X!IsPrefix(q, p) PROVE q = p
  <2>1. Len(q) = Len(p)
    BY <1>1, <1>5, <1>6 DEF X!IsPrefix
  <2>2. SubSeq(q, 1, Len(q)) = SubSeq(p, 1, Len(p))
    BY <1>6, <2>1 DEF X!IsPrefix
  <2>3. \A s \in V : s = SubSeq(s, 1, Len(s))
    BY <1>1
  <2> QED
    BY <2>2, <2>3
<1>7. p \in X!removeSuperChains(V)
  BY <1>6 DEF X!removeSuperChains
<1> QED
  BY <1>7 DEF X!removeSuperChains, V

\* The chains that Verify finds begin with the certificate.
LEMMA ChainsOfCert ==
    ASSUME NEW c, NEW pool, NEW p \in X!Verify(c, pool)
    PROVE  p # <<>> /\ p[1] = c
<1>1. PICK n \in 1..MaxChainLength : p \in [1..n -> pool \cup AcceptedRoots \cup {c}]
  BY DEF X!Verify
<1>2. 1 \in DOMAIN p
  BY <1>1, FixAssumption
<1> QED
  BY <1>2 DEF X!Verify

----------------------------------------------------------------------------
UrlsOf(c) == X!ToSet(URLs[c])

\* What is known contains what it starts with and what its URLs lead to, and is
\* contained in every set that does.
LEMMA KnownIsClosed ==
    ASSUME NEW S \in SUBSET X!Certs
    PROVE  /\ S \subseteq X!Known(S) /\ X!Known(S) \subseteq X!Certs
           /\ \A c \in X!Known(S) : \A u \in UrlsOf(c) :
                u \in DOMAIN Content /\ (Content[u] = NoCert \/ Content[u] \in X!Known(S))
<1>1. S \subseteq X!Known(S) /\ X!Known(S) \subseteq X!Certs
  BY DEF X!Known, X!Certs
<1>2. ASSUME NEW c \in X!Known(S), NEW u \in UrlsOf(c)
      PROVE  u \in DOMAIN Content /\ (Content[u] = NoCert \/ Content[u] \in X!Known(S))
  <2>1. c \in X!Certs
    BY <1>1
  <2>2. u \in DOMAIN Content
    BY <2>1, FixAssumption DEF UrlsOf, X!ToSet
  <2>3. SUFFICES ASSUME Content[u] # NoCert PROVE Content[u] \in X!Known(S)
    BY <2>2
  <2>4. Content[u] \in X!Certs
    BY <2>2, <2>3, FixAssumption
  <2>5. ASSUME NEW T \in SUBSET X!Certs, S \subseteq T, X!Complete(T) PROVE Content[u] \in T
    <3>1. c \in T
      BY <2>5 DEF X!Known, X!Certs
    <3>2. u \in UNION {X!ToSet(URLs[x]) : x \in T}
      BY <3>1 DEF UrlsOf
    <3> QED
      BY <2>3, <2>5, <3>2 DEF X!Complete
  <2> QED
    BY <2>4, <2>5 DEF X!Known, X!Certs
<1> QED
  BY <1>1, <1>2

LEMMA KnownIsLeast ==
    ASSUME NEW S, NEW T \in SUBSET X!Certs, S \subseteq T,
           \A c \in T : \A u \in UrlsOf(c) : Content[u] = NoCert \/ Content[u] \in T
    PROVE  X!Known(S) \subseteq T
<1>1. X!Complete(T)
  BY DEF X!Complete, UrlsOf
<1> QED
  BY <1>1 DEF X!Known, X!Certs

----------------------------------------------------------------------------
(* FixChain: what a fixer knows.                                           *)

Hashes == {X!hash(c) : c \in X!Certs}
Items ==
    [type : {"cert"}, name : X!Certs, length : Nat] \cup [type : {"url"}, name : DOMAIN Content, length : Nat]
FixErrors ==
    [type : {"VerifyFailed", "FixFailed"}, cert : X!Certs]
        \cup [type : {"ParseFailure", "CannotFetchURL"}, url : DOMAIN Content]
ToFixes ==
    [at : {"construct", "next", "augment", "send"}, cert : X!Certs, chain : Seq(X!Certs), pool : SUBSET X!Certs,
     rest : Seq(X!Certs), explored : SUBSET Hashes, seen : SUBSET Hashes, stack : Seq(Items),
     out : SUBSET Seq(X!Certs \cup AcceptedRoots), errs : SUBSET FixErrors]

FixFailed(c) == [type |-> "FixFailed", cert |-> c]
FetchFailed(errs) == \E e \in errs : e.type = "CannotFetchURL"
\* There was nothing more to be found, or it could not be fetched.
Hopeless(c, S, errs) == X!Verify(c, X!Known(S \cup {c})) = {} \/ FetchFailed(errs)

Base(x) == X!ToSet(x.chain)
Reachable(x) == X!Known(Base(x))
Visited(x, c) == X!hash(c) \in x.explored \cup x.seen
Pending(x, type, name) == \E i \in X!ToSet(x.stack) : i.type = type /\ i.name = name
Followed(x, u) ==
    Content[u] = NoCert \/ Visited(x, Content[u]) \/ Pending(x, "cert", Content[u]) \/ Pending(x, "url", u)

\* What the search has done so far: the pool is the chain and the certificates visited;
\* of these, every URL was followed, or is still on the stack; of the chain, every
\* certificate was visited or is still to be; and nothing on the stack is further away
\* than the certificates seen on the way to it.
Exploring(x) ==
    /\ Base(x) \subseteq x.pool /\ x.pool \subseteq Reachable(x) /\ X!Verify(x.cert, x.pool) = {}
    /\ X!ToSet(x.rest) \subseteq Base(x)
    /\ x.seen \subseteq {X!hash(c) : c \in Reachable(x)}
    /\ \A i \in X!ToSet(x.stack) :
        /\ i.type = "cert" => i.name \in Reachable(x) /\ i.length <= Cardinality(x.seen) + 1
        /\ i.type = "url" => i.length <= Cardinality(x.seen) /\ \E c \in Reachable(x) : i.name \in UrlsOf(c)
    /\ \A c \in Reachable(x) : Visited(x, c) =>
        c \in x.pool /\ (FetchFailed(x.errs) \/ \A u \in UrlsOf(c) : Followed(x, u))
    /\ \A c \in x.pool : c \in Base(x) \/ Visited(x, c)
    /\ \A c \in Base(x) : c \in X!ToSet(x.rest) \/ Visited(x, c) \/ Pending(x, "cert", c)

FixerInv(x) ==
    /\ x \in ToFixes
    /\ x.cert \in Base(x) /\ Cardinality(Reachable(x)) <= MaxChainLength
    /\ \A p \in x.out : p # <<>> /\ p[1] = x.cert
    /\ FixFailed(x.cert) \in x.errs => Hopeless(x.cert, Base(x), x.errs)
    /\ x.at \in {"next", "augment"} => Exploring(x)
    /\ x.at = "next" => x.stack = <<>>
    /\ x.at = "construct" => x.explored = {} /\ x.seen = {} /\ x.stack = <<>>

----------------------------------------------------------------------------
(* FixChain: where the certificates are.                                   *)

HashesDiffer == \A c, d \in X!Certs : X!hash(c) = X!hash(d) => c = d
\* No chain leads to more certificates than a chain may have.
WithinReach ==
    \A f \in Files : \A chain \in X!ToSet(f) : Cardinality(X!Known(X!ToSet(chain))) <= MaxChainLength

Settled(c) == (\E p \in taken : p[1] = c) \/ [type |-> "LogPostFailed", cert |-> c] \in errors
Outcome(S, c) == Settled(c) \/ (FixFailed(c) \in errors /\ Hopeless(c, S, errors))

Waiting(S, c) == \E i \in X!ToSet(queueing) : i.cert = c /\ X!ToSet(i.chain) = S
Fixing(S, c) ==
    \E f \in Fixers :
        /\ fixer[f] # X!Idle /\ fixer[f].cert = c /\ Base(fixer[f]) = S
        /\ fixer[f].at = "send" => fixer[f].out # {} \/ FixFailed(c) \in fixer[f].errs
Posting(c) == \E p \in Posters : poster[p] # X!Idle /\ poster[p].chain[1] = c
Forwarding(c) == forward # <<>> /\ forward[1] = c

Accounted(S, c) == Outcome(S, c) \/ Waiting(S, c) \/ Fixing(S, c) \/ Forwarding(c) \/ Posting(c)

Chains == {p \in Seq(X!Certs \cup AcceptedRoots) : p # <<>> /\ p[1] \in X!Certs}

ToQueue ==
    {i \in [cert : X!Certs, chain : Seq(X!Certs), checked : BOOLEAN] :
        i.cert \in X!ToSet(i.chain) /\ Cardinality(X!Known(X!ToSet(i.chain))) <= MaxChainLength}

FixTypes ==
    /\ file \in Seq(Seq(X!Certs)) /\ read \in 0..Len(file)
    /\ \A chain \in X!ToSet(file) : Cardinality(X!Known(X!ToSet(chain))) <= MaxChainLength
    /\ queueing \in Seq(ToQueue)
    /\ phase \in {"reading", "fixers", "forwarder", "posters", "ended"}
    /\ fixer \in [Fixers -> {X!Idle} \cup ToFixes]
    /\ \A f \in Fixers : fixer[f] # X!Idle => FixerInv(fixer[f])
    /\ forward # <<>> => forward \in Chains
    /\ waiting \in BOOLEAN /\ (waiting => forward # <<>>)
    /\ poster \in [Posters -> {X!Idle} \cup [at : {"check", "add", "set"}, chain : Chains]]
    /\ taken \subseteq Chains

\* What was waited for is over.
Waited ==
    /\ phase # "reading" => read = Len(file) /\ queueing = <<>>
    /\ phase \in {"forwarder", "posters", "ended"} => \A f \in Fixers : fixer[f] = X!Idle
    /\ phase \in {"posters", "ended"} => forward = <<>>
    /\ phase = "ended" => \A p \in Posters : poster[p] = X!Idle

\* The caches tell the truth, and no certificate is lost on its way.
NothingIsLost ==
    /\ \A p \in Posters : poster[p].at = "set" => poster[p].chain \in taken
    /\ \A h \in postCertCache : \E p \in taken : X!hash(p[1]) = h
    /\ \A chain \in postChainCache :
        Settled(chain[1]) \/ Posting(chain[1]) \/ (waiting /\ Forwarding(chain[1]))
    /\ \A i \in 1..read : X!ToSet(file[i]) \in done
    /\ \A S \in done : \A c \in S : c \in X!Certs /\ Accounted(S, c)

AccountInv == FixTypes /\ Waited /\ NothingIsLost

----------------------------------------------------------------------------
(* Lemmas about sequences and their sets.                                  *)

LEMMA HeadAndTail ==
    ASSUME NEW R, NEW s \in Seq(R), s # <<>>
    PROVE  /\ Head(s) \in R /\ Head(s) = s[1] /\ Tail(s) \in Seq(R)
           /\ X!ToSet(s) = {Head(s)} \cup X!ToSet(Tail(s))
<1>1. Head(s) \in R /\ Head(s) = s[1] /\ Tail(s) \in Seq(R)
  OBVIOUS
<1>2. Len(s) \in Nat \ {0} /\ DOMAIN s = 1..Len(s) /\ DOMAIN Tail(s) = 1..(Len(s) - 1)
  OBVIOUS
<1>3. \A i \in 1..(Len(s) - 1) : Tail(s)[i] = s[i + 1]
  OBVIOUS
<1>4. \A i \in 1..Len(s) : i = 1 \/ (i - 1 \in 1..(Len(s) - 1) /\ s[i] = Tail(s)[i - 1])
  BY <1>2, <1>3
<1>5. X!ToSet(s) = {s[i] : i \in 1..Len(s)} /\ X!ToSet(Tail(s)) = {Tail(s)[i] : i \in 1..(Len(s) - 1)}
  BY <1>2, Zenon DEF X!ToSet
<1>6. \A i \in 1..(Len(s) - 1) : i + 1 \in 1..Len(s)
  BY <1>2
<1>7. 1 \in 1..Len(s)
  BY <1>2
<1> QED
  <2>1. X!ToSet(s) \subseteq {Head(s)} \cup X!ToSet(Tail(s))
    <3> SUFFICES ASSUME NEW i \in 1..Len(s)
                 PROVE  s[i] \in {Head(s)} \cup X!ToSet(Tail(s))
      BY <1>5, Zenon
    <3>1. CASE i = 1
      BY <1>1, <3>1
    <3>2. CASE i # 1
      <4>1. i - 1 \in 1..(Len(s) - 1) /\ s[i] = Tail(s)[i - 1]
        BY <1>4, <3>2
      <4> QED
        BY <1>5, <4>1, Zenon
    <3> QED
      BY <3>1, <3>2
  <2>2. X!ToSet(Tail(s)) \subseteq X!ToSet(s)
    BY <1>3, <1>5, <1>6
  <2>3. Head(s) \in X!ToSet(s)
    BY <1>1, <1>5, <1>7
  <2> QED
    BY <1>1, <2>1, <2>2, <2>3

LEMMA JoinedSets ==
    ASSUME NEW R, NEW s \in Seq(R), NEW t \in Seq(R)
    PROVE  s \o t \in Seq(R) /\ X!ToSet(s \o t) = X!ToSet(s) \cup X!ToSet(t)
<1>1. /\ s \o t \in Seq(R) /\ Len(s) \in Nat /\ Len(t) \in Nat /\ Len(s \o t) = Len(s) + Len(t)
      /\ DOMAIN s = 1..Len(s) /\ DOMAIN t = 1..Len(t) /\ DOMAIN (s \o t) = 1..(Len(s) + Len(t))
  OBVIOUS
<1>2. \A i \in 1..Len(s) : i \in DOMAIN (s \o t) /\ (s \o t)[i] = s[i]
  BY <1>1
<1>3. \A i \in 1..Len(t) : Len(s) + i \in DOMAIN (s \o t) /\ (s \o t)[Len(s) + i] = t[i]
  BY <1>1
<1>4. \A i \in 1..(Len(s) + Len(t)) :
        \/ i \in 1..Len(s) /\ (s \o t)[i] = s[i]
        \/ i - Len(s) \in 1..Len(t) /\ (s \o t)[i] = t[i - Len(s)]
  BY <1>1
<1> DEFINE st == s \o t
<1>5. /\ X!ToSet(s) = {s[i] : i \in 1..Len(s)} /\ X!ToSet(t) = {t[i] : i \in 1..Len(t)}
      /\ X!ToSet(st) = {st[i] : i \in 1..(Len(s) + Len(t))}
  BY <1>1, Zenon DEF X!ToSet
<1>6. DOMAIN st = 1..(Len(s) + Len(t))
  BY <1>1
<1>7. X!ToSet(s) \subseteq X!ToSet(st)
  BY <1>2, <1>5, <1>6
<1>8. X!ToSet(t) \subseteq X!ToSet(st)
  BY <1>3, <1>5, <1>6
<1>9. X!ToSet(st) \subseteq X!ToSet(s) \cup X!ToSet(t)
  BY <1>4, <1>5
<1> QED
  BY <1>1, <1>7, <1>8, <1>9

LEMMA ElementsOf ==
    ASSUME NEW R, NEW s \in Seq(R)
    PROVE  X!ToSet(s) \subseteq R /\ X!ToSet(s) = {s[i] : i \in 1..Len(s)}
BY DEF X!ToSet

LEMMA NoElements == X!ToSet(<<>>) = {}
BY DEF X!ToSet

LEMMA OneElement == \A e : X!ToSet(<<e>>) = {e}
BY DEF X!ToSet

----------------------------------------------------------------------------
(* FixChain: the steps of a fixer keep what it knows.                      *)

\* A chain's certificates can be found from it, and what is found are certificates.
LEMMA ReachOf ==
    ASSUME NEW x, FixerInv(x)
    PROVE  /\ Base(x) \in SUBSET X!Certs /\ Reachable(x) \in SUBSET X!Certs /\ Base(x) \subseteq Reachable(x)
           /\ X!Known(Base(x) \cup {x.cert}) = Reachable(x)
           /\ \A c \in Reachable(x) : \A u \in UrlsOf(c) :
                u \in DOMAIN Content /\ (Content[u] = NoCert \/ Content[u] \in Reachable(x))
<1>1. x.chain \in Seq(X!Certs) /\ x.cert \in Base(x)
  BY DEF FixerInv, ToFixes
<1>2. Base(x) \in SUBSET X!Certs
  BY <1>1, ElementsOf DEF Base
<1>3. Base(x) \cup {x.cert} = Base(x)
  BY <1>1
<1> QED
  BY <1>2, <1>3, KnownIsClosed DEF Reachable

LEMMA StartedFix ==
    ASSUME NEW c \in X!Certs, NEW chain \in Seq(X!Certs), c \in X!ToSet(chain),
           Cardinality(X!Known(X!ToSet(chain))) <= MaxChainLength
    PROVE  FixerInv(X!ToFix(c, chain))
<1> DEFINE y == X!ToFix(c, chain)
<1>1. /\ y.at = "construct" /\ y.cert = c /\ y.chain = chain /\ y.pool = {} /\ y.rest = <<>>
      /\ y.explored = {} /\ y.seen = {} /\ y.stack = <<>> /\ y.out = {} /\ y.errs = {}
  BY DEF X!ToFix
<1>2. y \in ToFixes
  BY DEF X!ToFix, ToFixes
<1> HIDE DEF y
<1>3. Base(y) = X!ToSet(chain) /\ Reachable(y) = X!Known(X!ToSet(chain))
  BY <1>1 DEF Base, Reachable
<1>4. FixFailed(y.cert) \notin y.errs /\ \A p \in y.out : p # <<>> /\ p[1] = y.cert
  BY <1>1
<1>5. y.at \notin {"next", "augment"} /\ y.cert \in Base(y) /\ Cardinality(Reachable(y)) <= MaxChainLength
  BY <1>1, <1>3
<1>6. FixerInv(y)
  BY <1>1, <1>2, <1>4, <1>5 DEF FixerInv
<1> QED
  BY <1>6 DEF y

\* A search that finds chains ends with some of them.
LEMMA FoundChains ==
    ASSUME NEW x, FixerInv(x), NEW pool \in SUBSET X!Certs, X!Verify(x.cert, pool) # {},
           NEW y, y = [x EXCEPT !.at = "send", !.out = X!removeSuperChains(X!Verify(x.cert, pool))]
    PROVE  FixerInv(y) /\ y.cert = x.cert /\ y.chain = x.chain /\ y.out # {}
<1> DEFINE out == X!removeSuperChains(X!Verify(x.cert, pool))
<1>1. x \in ToFixes /\ x.cert \in X!Certs
  BY DEF FixerInv, ToFixes
<1>2. out # {} /\ out \subseteq X!Verify(x.cert, pool)
  BY SomeChainStays
<1>3. \A p \in out : p # <<>> /\ p[1] = x.cert
  BY <1>2, ChainsOfCert
<1>4. \A p \in X!Verify(x.cert, pool) : p \in Seq(X!Certs \cup AcceptedRoots)
  <2>1. SUFFICES ASSUME NEW p \in X!Verify(x.cert, pool) PROVE p \in Seq(X!Certs \cup AcceptedRoots)
    OBVIOUS
  <2>2. PICK n \in 1..MaxChainLength : p \in [1..n -> pool \cup AcceptedRoots \cup {x.cert}]
    BY DEF X!Verify
  <2>3. p \in [1..n -> X!Certs \cup AcceptedRoots] /\ n \in Nat
    BY <1>1, <2>2, FixAssumption
  <2> QED
    BY <2>3
<1>5. out \in SUBSET Seq(X!Certs \cup AcceptedRoots)
  BY <1>2, <1>4
<1> HIDE DEF out
<1>6. y = [x EXCEPT !.at = "send", !.out = out]
  BY DEF out
<1>7. y \in ToFixes
  BY <1>1, <1>5, <1>6 DEF ToFixes
<1>8. y.at = "send" /\ y.cert = x.cert /\ y.chain = x.chain /\ y.out = out /\ y.errs = x.errs
  BY <1>1, <1>6 DEF ToFixes
<1> QED
  BY <1>2, <1>3, <1>7, <1>8 DEF FixerInv, Base, Reachable

\* Without a chain to begin with, the search starts.
LEMMA SearchStarts ==
    ASSUME NEW x, FixerInv(x), x.at = "construct", X!Verify(x.cert, X!ToSet(x.chain)) = {},
           NEW y, y = [x EXCEPT !.at = "next", !.pool = X!ToSet(x.chain), !.rest = X!addCertToFront(x.chain, x.cert),
                                !.errs = {[type |-> "VerifyFailed", cert |-> x.cert]}]
    PROVE  FixerInv(y) /\ y.cert = x.cert /\ y.chain = x.chain /\ y.at = "next"
<1>1. /\ x \in ToFixes /\ x.cert \in X!Certs /\ x.chain \in Seq(X!Certs) /\ x.cert \in Base(x)
      /\ x.explored = {} /\ x.seen = {} /\ x.stack = <<>>
  BY DEF FixerInv, ToFixes
<1>2. X!addCertToFront(x.chain, x.cert) = x.chain
  <2>1. \E i \in 1..Len(x.chain) : x.chain[i] = x.cert
    BY <1>1, ElementsOf DEF Base
  <2> QED
    BY <2>1 DEF X!addCertToFront, X!Contains
<1>3. y = [x EXCEPT !.at = "next", !.pool = Base(x), !.rest = x.chain,
                    !.errs = {[type |-> "VerifyFailed", cert |-> x.cert]}]
  BY <1>2 DEF Base
<1>4. Base(x) \in SUBSET X!Certs /\ Base(x) \subseteq Reachable(x)
  BY ReachOf
<1>5. /\ y.at = "next" /\ y.cert = x.cert /\ y.chain = x.chain /\ y.pool = Base(x) /\ y.rest = x.chain
      /\ y.explored = {} /\ y.seen = {} /\ y.stack = <<>> /\ y.out = x.out
      /\ y.errs = {[type |-> "VerifyFailed", cert |-> x.cert]}
  BY <1>1, <1>3 DEF ToFixes
<1>6. y \in ToFixes
  <2>1. {[type |-> "VerifyFailed", cert |-> x.cert]} \in SUBSET FixErrors
    BY <1>1 DEF FixErrors
  <2> QED
    BY <1>1, <1>3, <1>4, <2>1 DEF ToFixes
<1>7. Base(y) = Base(x) /\ Reachable(y) = Reachable(x)
  BY <1>5 DEF Base, Reachable
<1>8. FixFailed(y.cert) \notin y.errs
  BY <1>5 DEF FixFailed
<1>9. X!ToSet(y.rest) = Base(x) /\ X!ToSet(y.stack) = {} /\ X!Verify(y.cert, y.pool) = {}
  BY <1>5, NoElements DEF Base
<1>10. \A c : ~Visited(y, c)
  BY <1>5 DEF Visited
<1>11. Exploring(y)
  BY <1>4, <1>5, <1>7, <1>9, <1>10 DEF Exploring
<1> QED
  BY <1>1, <1>5, <1>6, <1>7, <1>8, <1>11 DEF FixerInv

\* A search that has come to its end has seen all there is, or could not fetch it.
LEMMA SearchEnds ==
    ASSUME NEW x, FixerInv(x), x.at = "next", x.rest = <<>>
    PROVE  Hopeless(x.cert, Base(x), x.errs)
<1>1. Exploring(x) /\ X!ToSet(x.rest) = {} /\ X!ToSet(x.stack) = {}
  BY NoElements DEF FixerInv
<1>2. /\ x.pool \in SUBSET X!Certs /\ x.pool \subseteq Reachable(x) /\ Base(x) \subseteq x.pool
      /\ X!Verify(x.cert, x.pool) = {}
  BY <1>1, ReachOf DEF Exploring
<1>3. \A c \in x.pool : Visited(x, c)
  BY <1>1, <1>2 DEF Exploring, Pending
<1>4. ASSUME ~FetchFailed(x.errs), NEW c \in x.pool, NEW u \in UrlsOf(c)
      PROVE  Content[u] = NoCert \/ Content[u] \in x.pool
  <2>1. Followed(x, u)
    BY <1>1, <1>2, <1>3, <1>4 DEF Exploring
  <2>2. Content[u] = NoCert \/ Visited(x, Content[u])
    BY <1>1, <2>1 DEF Followed, Pending
  <2>3. Content[u] = NoCert \/ Content[u] \in Reachable(x)
    BY <1>2, <1>4, ReachOf
  <2> QED
    BY <1>1, <2>2, <2>3 DEF Exploring
<1>5. ~FetchFailed(x.errs) => Reachable(x) = x.pool
  BY <1>2, <1>4, KnownIsLeast DEF Reachable
<1> QED
  BY <1>2, <1>5, ReachOf DEF Hopeless

LEMMA FixGivenUp ==
    ASSUME NEW x, FixerInv(x), x.at = "next", x.rest = <<>>,
           NEW y, y = [x EXCEPT !.at = "send", !.errs = @ \cup {[type |-> "FixFailed", cert |-> x.cert]}]
    PROVE  FixerInv(y) /\ y.cert = x.cert /\ y.chain = x.chain /\ FixFailed(y.cert) \in y.errs
<1>1. x \in ToFixes /\ x.cert \in X!Certs /\ x.errs \subseteq FixErrors
  BY DEF FixerInv, ToFixes
<1>2. /\ y.at = "send" /\ y.cert = x.cert /\ y.chain = x.chain /\ y.out = x.out
      /\ y.errs = x.errs \cup {FixFailed(x.cert)}
  BY <1>1 DEF ToFixes, FixFailed
<1>3. y \in ToFixes
  <2>1. x.errs \cup {FixFailed(x.cert)} \in SUBSET FixErrors
    BY <1>1 DEF FixErrors, FixFailed
  <2>2. y = [x EXCEPT !.at = "send", !.errs = x.errs \cup {FixFailed(x.cert)}]
    BY DEF FixFailed
  <2> QED
    BY <1>1, <2>1, <2>2 DEF ToFixes
<1>4. Base(y) = Base(x) /\ Reachable(y) = Reachable(x)
  BY <1>2 DEF Base, Reachable
<1>5. Hopeless(y.cert, Base(y), y.errs)
  BY <1>2, <1>4, SearchEnds DEF Hopeless, FetchFailed
<1> QED
  BY <1>2, <1>3, <1>4, <1>5 DEF FixerInv

\* A certificate of the chain that was visited is passed over.
LEMMA CertPassed ==
    ASSUME NEW x, FixerInv(x), x.at = "next", x.rest # <<>>, X!hash(Head(x.rest)) \in x.explored \cup x.seen,
           NEW y, y = [x EXCEPT !.rest = Tail(@), !.explored = x.explored \cup x.seen]
    PROVE  FixerInv(y) /\ y.cert = x.cert /\ y.chain = x.chain /\ y.at = "next"
<1>1. x \in ToFixes /\ x.rest \in Seq(X!Certs) /\ x.explored \cup x.seen \in SUBSET Hashes /\ Exploring(x)
  BY DEF FixerInv, ToFixes
<1>2. Tail(x.rest) \in Seq(X!Certs) /\ X!ToSet(x.rest) = {Head(x.rest)} \cup X!ToSet(Tail(x.rest))
  BY <1>1, HeadAndTail
<1>3. /\ y.at = "next" /\ y.cert = x.cert /\ y.chain = x.chain /\ y.pool = x.pool /\ y.rest = Tail(x.rest)
      /\ y.explored = x.explored \cup x.seen /\ y.seen = x.seen /\ y.stack = x.stack /\ y.out = x.out
      /\ y.errs = x.errs
  BY <1>1 DEF ToFixes
<1>4. y \in ToFixes
  BY <1>1, <1>2 DEF ToFixes
<1>5. Base(y) = Base(x) /\ Reachable(y) = Reachable(x)
  BY <1>3 DEF Base, Reachable
<1>6. \A c : Visited(y, c) <=> Visited(x, c)
  BY <1>3 DEF Visited
<1>7. (\A u : Followed(y, u) <=> Followed(x, u)) /\ (\A t, n : Pending(y, t, n) <=> Pending(x, t, n))
  BY <1>3, <1>6 DEF Followed, Pending
<1>8. Visited(x, Head(x.rest))
  BY DEF Visited
<1>9. Exploring(y)
  <2>1. X!ToSet(y.rest) \subseteq Base(y)
    BY <1>1, <1>2, <1>3, <1>5 DEF Exploring
  <2>2. \A c \in Base(y) : c \in X!ToSet(y.rest) \/ Visited(y, c) \/ Pending(y, "cert", c)
    BY <1>1, <1>2, <1>3, <1>5, <1>6, <1>7, <1>8 DEF Exploring
  <2> QED
    BY <1>1, <1>3, <1>5, <1>6, <1>7, <2>1, <2>2 DEF Exploring
<1> QED
  BY <1>3, <1>4, <1>5, <1>9 DEF FixerInv

\* Another is where the search goes on.
LEMMA CertTaken ==
    ASSUME NEW x, FixerInv(x), x.at = "next", x.rest # <<>>,
           NEW y, y = [x EXCEPT !.at = "augment", !.rest = Tail(@), !.explored = x.explored \cup x.seen, !.seen = {},
                                !.stack = <<[type |-> "cert", name |-> Head(x.rest), length |-> 1]>>]
    PROVE  FixerInv(y) /\ y.cert = x.cert /\ y.chain = x.chain /\ y.at = "augment"
<1> DEFINE item == [type |-> "cert", name |-> Head(x.rest), length |-> 1]
<1>1. x \in ToFixes /\ x.rest \in Seq(X!Certs) /\ x.explored \cup x.seen \in SUBSET Hashes /\ Exploring(x)
  BY DEF FixerInv, ToFixes
<1>2. /\ Tail(x.rest) \in Seq(X!Certs) /\ Head(x.rest) \in X!Certs
      /\ X!ToSet(x.rest) = {Head(x.rest)} \cup X!ToSet(Tail(x.rest))
  BY <1>1, HeadAndTail
<1>3. item \in Items /\ item.type = "cert" /\ item.name = Head(x.rest) /\ item.length = 1
  BY <1>2 DEF Items
<1> HIDE DEF item
<1>4. y = [x EXCEPT !.at = "augment", !.rest = Tail(x.rest), !.explored = x.explored \cup x.seen, !.seen = {},
                    !.stack = <<item>>]
  BY DEF item
<1>5. /\ y.at = "augment" /\ y.cert = x.cert /\ y.chain = x.chain /\ y.pool = x.pool /\ y.rest = Tail(x.rest)
      /\ y.explored = x.explored \cup x.seen /\ y.seen = {} /\ y.stack = <<item>> /\ y.out = x.out
      /\ y.errs = x.errs
  BY <1>1, <1>4 DEF ToFixes
<1>6. y \in ToFixes
  <2>1. <<item>> \in Seq(Items)
    BY <1>3
  <2> QED
    BY <1>1, <1>2, <1>4, <2>1 DEF ToFixes
<1>7. Base(y) = Base(x) /\ Reachable(y) = Reachable(x) /\ Base(x) \subseteq Reachable(x)
  BY <1>5, ReachOf DEF Base, Reachable
<1>8. \A c : Visited(y, c) <=> Visited(x, c)
  BY <1>5 DEF Visited
<1>9. X!ToSet(x.stack) = {} /\ X!ToSet(y.stack) = {item}
  BY <1>5, NoElements, OneElement DEF FixerInv
<1>10. (\A t, n : ~Pending(x, t, n)) /\ Pending(y, "cert", Head(x.rest))
  BY <1>3, <1>9 DEF Pending
<1>11. \A u : Followed(x, u) => Followed(y, u)
  BY <1>8, <1>10 DEF Followed
<1>12. Head(x.rest) \in Base(x)
  BY <1>1, <1>2 DEF Exploring
<1>13. Exploring(y)
  <2>1. X!ToSet(y.rest) \subseteq Base(y)
    BY <1>1, <1>2, <1>5, <1>7 DEF Exploring
  <2>2. \A c \in Base(y) : c \in X!ToSet(y.rest) \/ Visited(y, c) \/ Pending(y, "cert", c)
    BY <1>1, <1>2, <1>5, <1>7, <1>8, <1>10 DEF Exploring
  <2>3. item.length <= Cardinality(y.seen) + 1
    BY <1>3, <1>5, FS_EmptySet
  <2>4. \A i \in X!ToSet(y.stack) :
          /\ i.type = "cert" => i.name \in Reachable(y) /\ i.length <= Cardinality(y.seen) + 1
          /\ i.type = "url" => i.length <= Cardinality(y.seen) /\ \E c \in Reachable(y) : i.name \in UrlsOf(c)
    BY <1>3, <1>7, <1>9, <1>12, <2>3
  <2> QED
    BY <1>1, <1>5, <1>7, <1>8, <1>11, <2>1, <2>2, <2>4 DEF Exploring
<1> QED
  BY <1>5, <1>6, <1>7, <1>13 DEF FixerInv

\* A certificate further away than a chain may be long was seen on the way.
LEMMA FarIsSeen ==
    ASSUME NEW x, FixerInv(x), Exploring(x), NEW c \in Reachable(x), NEW n \in Nat,
           n <= Cardinality(x.seen) + 1, n > MaxChainLength
    PROVE  X!hash(c) \in x.seen
<1> DEFINE H == {X!hash(d) : d \in Reachable(x)}
<1>1. IsFiniteSet(Reachable(x)) /\ Cardinality(Reachable(x)) <= MaxChainLength
  <2>1. Reachable(x) \in SUBSET X!Certs
    BY ReachOf
  <2> QED
    BY <2>1, FixAssumption, FS_Subset DEF FixerInv
<1>2. IsFiniteSet(H) /\ Cardinality(H) <= Cardinality(Reachable(x))
  <2> DEFINE h == [d \in Reachable(x) |-> X!hash(d)]
  <2>1. h \in Surjection(Reachable(x), H)
    BY DEF Surjection
  <2> HIDE DEF H, h
  <2> QED
    BY <1>1, <2>1, FS_Surjection
<1>3. x.seen \subseteq H /\ X!hash(c) \in H
  BY DEF Exploring
<1> HIDE DEF H
<1>4. /\ IsFiniteSet(x.seen) /\ Cardinality(x.seen) <= Cardinality(H)
      /\ (Cardinality(x.seen) = Cardinality(H) => x.seen = H)
  BY <1>2, <1>3, FS_Subset
<1>5. Cardinality(x.seen) \in Nat /\ Cardinality(H) \in Nat /\ Cardinality(Reachable(x)) \in Nat
  BY <1>1, <1>2, <1>4, FS_CardinalityType
<1>6. Cardinality(x.seen) = Cardinality(H)
  BY <1>1, <1>2, <1>4, <1>5, FixAssumption
<1> QED
  BY <1>3, <1>4, <1>6

\* The top of the stack leaves it.
LEMMA TopOfStack ==
    ASSUME NEW x, FixerInv(x), x.at = "augment", x.stack # <<>>
    PROVE  /\ x \in ToFixes /\ Exploring(x)
           /\ Head(x.stack) \in Items /\ Tail(x.stack) \in Seq(Items)
           /\ Head(x.stack) \in X!ToSet(x.stack)
           /\ X!ToSet(x.stack) = {Head(x.stack)} \cup X!ToSet(Tail(x.stack))
           /\ Head(x.stack).length \in Nat
           /\ Head(x.stack).type = "cert" =>
                Head(x.stack).name \in Reachable(x) /\ Head(x.stack).length <= Cardinality(x.seen) + 1
           /\ Head(x.stack).type = "url" =>
                /\ Head(x.stack).length <= Cardinality(x.seen) /\ Head(x.stack).name \in DOMAIN Content
                /\ \E c \in Reachable(x) : Head(x.stack).name \in UrlsOf(c)
           /\ IsFiniteSet(x.seen) /\ Cardinality(x.seen) \in Nat
<1>1. x \in ToFixes /\ Exploring(x) /\ x.stack \in Seq(Items) /\ x.seen \in SUBSET Hashes
  BY DEF FixerInv, ToFixes
<1>2. /\ Head(x.stack) \in Items /\ Tail(x.stack) \in Seq(Items)
      /\ X!ToSet(x.stack) = {Head(x.stack)} \cup X!ToSet(Tail(x.stack))
  BY <1>1, HeadAndTail
<1>3. \A i \in Items : i.length \in Nat
  BY DEF Items
<1>4. IsFiniteSet(x.seen) /\ Cardinality(x.seen) \in Nat
  <2>1. IsFiniteSet(Hashes)
    <3> DEFINE h == [d \in X!Certs |-> X!hash(d)]
    <3>1. h \in Surjection(X!Certs, Hashes)
      BY DEF Surjection, Hashes
    <3> HIDE DEF h
    <3> QED
      BY <3>1, FixAssumption, FS_Surjection
  <2> QED
    BY <1>1, <2>1, FS_Subset, FS_CardinalityType
<1>5. \A i \in Items : i.type = "url" => i.name \in DOMAIN Content
  BY DEF Items
<1> QED
  BY <1>1, <1>2, <1>3, <1>4, <1>5 DEF Exploring

\* One that was seen, or is too far away, is dropped.
LEMMA CertDropped ==
    ASSUME NEW x, FixerInv(x), x.at = "augment", x.stack # <<>>, Head(x.stack).type = "cert",
           Head(x.stack).length > MaxChainLength \/ X!hash(Head(x.stack).name) \in x.seen,
           NEW y, y = [x EXCEPT !.stack = Tail(@)]
    PROVE  FixerInv(y) /\ y.cert = x.cert /\ y.chain = x.chain /\ y.at = "augment"
<1> DEFINE top == Head(x.stack)
<1>1. /\ x \in ToFixes /\ Exploring(x) /\ Tail(x.stack) \in Seq(Items)
      /\ X!ToSet(x.stack) = {top} \cup X!ToSet(Tail(x.stack))
      /\ top.length \in Nat /\ top.name \in Reachable(x) /\ top.length <= Cardinality(x.seen) + 1
  BY TopOfStack
<1>2. Visited(x, top.name)
  BY <1>1, FarIsSeen DEF Visited
<1>3. /\ y.at = "augment" /\ y.cert = x.cert /\ y.chain = x.chain /\ y.pool = x.pool /\ y.rest = x.rest
      /\ y.explored = x.explored /\ y.seen = x.seen /\ y.stack = Tail(x.stack) /\ y.out = x.out
      /\ y.errs = x.errs
  BY <1>1 DEF ToFixes
<1>4. y \in ToFixes
  BY <1>1 DEF ToFixes
<1>5. Base(y) = Base(x) /\ Reachable(y) = Reachable(x)
  BY <1>3 DEF Base, Reachable
<1>6. \A c : Visited(y, c) <=> Visited(x, c)
  BY <1>3 DEF Visited
<1>7. \A n : Pending(x, "cert", n) => Pending(y, "cert", n) \/ Visited(y, n)
  BY <1>1, <1>2, <1>3, <1>6 DEF Pending
<1>8. \A n : Pending(x, "url", n) => Pending(y, "url", n)
  BY <1>1, <1>3 DEF Pending
<1>9. \A u : Followed(x, u) => Followed(y, u)
  BY <1>6, <1>7, <1>8 DEF Followed
<1>10. Exploring(y)
  <2>1. X!ToSet(y.stack) \subseteq X!ToSet(x.stack)
    BY <1>1, <1>3
  <2>2. \A c \in Base(y) : c \in X!ToSet(y.rest) \/ Visited(y, c) \/ Pending(y, "cert", c)
    BY <1>1, <1>3, <1>5, <1>6, <1>7 DEF Exploring
  <2>3. \A c \in Reachable(y) : Visited(y, c) =>
          c \in y.pool /\ (FetchFailed(y.errs) \/ \A u \in UrlsOf(c) : Followed(y, u))
    BY <1>1, <1>3, <1>5, <1>6, <1>9 DEF Exploring
  <2> QED
    BY <1>1, <1>3, <1>5, <1>6, <2>1, <2>2, <2>3 DEF Exploring
<1> QED
  BY <1>3, <1>4, <1>5, <1>10 DEF FixerInv

\* Another joins the pool, and its URLs are to be followed.
LEMMA CertAdded ==
    ASSUME HashesDiffer, NEW x, FixerInv(x), x.at = "augment", x.stack # <<>>, Head(x.stack).type = "cert",
           X!hash(Head(x.stack).name) \notin x.seen,
           X!Verify(x.cert, x.pool \cup {Head(x.stack).name}) = {},
           NEW y,
           y = [x EXCEPT !.seen = @ \cup {X!hash(Head(x.stack).name)}, !.pool = x.pool \cup {Head(x.stack).name},
                         !.stack = [i \in DOMAIN URLs[Head(x.stack).name] |->
                                       [type |-> "url", name |-> URLs[Head(x.stack).name][i],
                                        length |-> Head(x.stack).length]] \o Tail(@)]
    PROVE  FixerInv(y) /\ y.cert = x.cert /\ y.chain = x.chain /\ y.at = "augment"
<1> DEFINE top == Head(x.stack)
           c0 == top.name
           below == [i \in DOMAIN URLs[c0] |-> [type |-> "url", name |-> URLs[c0][i], length |-> top.length]]
<1>1. /\ x \in ToFixes /\ Exploring(x) /\ Tail(x.stack) \in Seq(Items)
      /\ X!ToSet(x.stack) = {top} \cup X!ToSet(Tail(x.stack))
      /\ top.length \in Nat /\ c0 \in Reachable(x) /\ top.length <= Cardinality(x.seen) + 1
      /\ IsFiniteSet(x.seen) /\ Cardinality(x.seen) \in Nat
  BY TopOfStack
<1>2. c0 \in X!Certs /\ x.pool \in SUBSET X!Certs /\ x.seen \in SUBSET Hashes /\ Reachable(x) \in SUBSET X!Certs
  BY <1>1, ReachOf DEF ToFixes
<1>3. URLs[c0] \in Seq(DOMAIN Content) /\ UrlsOf(c0) = {URLs[c0][i] : i \in 1..Len(URLs[c0])}
      /\ DOMAIN URLs[c0] = 1..Len(URLs[c0]) /\ Len(URLs[c0]) \in Nat
  <2>1. URLs[c0] \in Seq(DOMAIN Content)
    BY <1>2, FixAssumption
  <2> HIDE DEF c0
  <2> QED
    BY <2>1, ElementsOf DEF UrlsOf
<1>4. /\ below \in Seq(Items)
      /\ X!ToSet(below) = {[type |-> "url", name |-> u, length |-> top.length] : u \in UrlsOf(c0)}
  <2> DEFINE m == Len(URLs[c0])
             url(i) == [type |-> "url", name |-> URLs[c0][i], length |-> top.length]
  <2>1. \A i \in 1..m : url(i) \in Items
    BY <1>1, <1>3 DEF Items
  <2>2. below = [i \in 1..m |-> url(i)] /\ m \in Nat
    BY <1>3
  <2>3. below \in Seq(Items) /\ X!ToSet(below) = {url(i) : i \in 1..m}
    <3> HIDE DEF url, m, below
    <3> QED
      BY <2>1, <2>2 DEF X!ToSet
  <2> QED
    BY <1>3, <2>3
<1> HIDE DEF below
<1> DEFINE rest == Tail(x.stack)
           stack == below \o rest
<1>5. y = [x EXCEPT !.seen = x.seen \cup {X!hash(c0)}, !.pool = x.pool \cup {c0}, !.stack = stack]
  BY DEF below
<1>6. stack \in Seq(Items) /\ X!ToSet(stack) = X!ToSet(below) \cup X!ToSet(Tail(x.stack))
  <2>1. below \in Seq(Items) /\ rest \in Seq(Items)
    BY <1>1, <1>4
  <2> HIDE DEF rest
  <2>2. below \o rest \in Seq(Items) /\ X!ToSet(below \o rest) = X!ToSet(below) \cup X!ToSet(rest)
    BY <2>1, JoinedSets
  <2> QED
    BY <2>2 DEF rest
<1> HIDE DEF stack
<1>7. /\ y.at = "augment" /\ y.cert = x.cert /\ y.chain = x.chain /\ y.pool = x.pool \cup {c0} /\ y.rest = x.rest
      /\ y.explored = x.explored /\ y.seen = x.seen \cup {X!hash(c0)} /\ y.stack = stack
      /\ y.out = x.out /\ y.errs = x.errs
  BY <1>1, <1>5 DEF ToFixes
<1>8. y \in ToFixes
  <2>1. x.seen \cup {X!hash(c0)} \in SUBSET Hashes
    BY <1>2 DEF Hashes
  <2>2. x.pool \cup {c0} \in SUBSET X!Certs /\ stack \in Seq(Items) /\ x \in ToFixes
    BY <1>1, <1>2, <1>6
  <2> HIDE DEF c0
  <2> QED
    BY <1>5, <2>1, <2>2 DEF ToFixes
<1>9. Base(y) = Base(x) /\ Reachable(y) = Reachable(x)
  BY <1>7 DEF Base, Reachable
<1>10. \A c \in X!Certs : Visited(y, c) <=> Visited(x, c) \/ c = c0
  BY <1>2, <1>7 DEF Visited, HashesDiffer
<1>11. X!ToSet(y.stack) = X!ToSet(below) \cup X!ToSet(Tail(x.stack))
  BY <1>6, <1>7
<1>12. \A n : Pending(x, "url", n) => Pending(y, "url", n)
  BY <1>1, <1>11 DEF Pending
<1>13. \A n : Pending(x, "cert", n) => Pending(y, "cert", n) \/ Visited(y, n)
  BY <1>1, <1>7, <1>11 DEF Pending, Visited
<1>14. \A n : Visited(x, n) => Visited(y, n)
  BY <1>7 DEF Visited
<1>15. \A u : Followed(x, u) => Followed(y, u)
  BY <1>12, <1>13, <1>14 DEF Followed
<1>16. \A u \in UrlsOf(c0) : Followed(y, u)
  <2>1. SUFFICES ASSUME NEW u \in UrlsOf(c0) PROVE Pending(y, "url", u)
    BY DEF Followed
  <2>2. [type |-> "url", name |-> u, length |-> top.length] \in X!ToSet(y.stack)
    BY <1>4, <1>11
  <2> QED
    BY <2>2 DEF Pending
<1>17. Cardinality(y.seen) = Cardinality(x.seen) + 1
  BY <1>1, <1>7, FS_AddElement
<1>18. Exploring(y)
  <2>1. Base(y) \subseteq y.pool /\ y.pool \subseteq Reachable(y) /\ X!Verify(y.cert, y.pool) = {}
    BY <1>1, <1>7, <1>9 DEF Exploring
  <2>2. y.seen \subseteq {X!hash(c) : c \in Reachable(y)}
    BY <1>1, <1>7, <1>9 DEF Exploring
  <2>3. ASSUME NEW i \in X!ToSet(y.stack)
        PROVE  /\ i.type = "cert" => i.name \in Reachable(y) /\ i.length <= Cardinality(y.seen) + 1
               /\ i.type = "url" => i.length <= Cardinality(y.seen) /\ \E c \in Reachable(y) : i.name \in UrlsOf(c)
    <3>1. CASE i \in X!ToSet(below)
      <4>1. PICK u \in UrlsOf(c0) : i = [type |-> "url", name |-> u, length |-> top.length]
        BY <1>4, <3>1
      <4>2. i.type = "url" /\ i.name = u /\ i.length = top.length
        BY <4>1
      <4> QED
        BY <1>1, <1>9, <1>17, <4>1, <4>2
    <3>2. CASE i \in X!ToSet(Tail(x.stack))
      <4>1. i \in X!ToSet(x.stack) /\ i.length \in Nat
        <5>1. i \in Items
          BY <1>1, <3>2, ElementsOf
        <5> QED
          BY <1>1, <3>2, <5>1 DEF Items
      <4>2. /\ i.type = "cert" => i.name \in Reachable(y) /\ i.length <= Cardinality(x.seen) + 1
            /\ i.type = "url" => i.length <= Cardinality(x.seen) /\ \E c \in Reachable(y) : i.name \in UrlsOf(c)
        BY <1>1, <1>9, <4>1 DEF Exploring
      <4>3. i.length <= Cardinality(x.seen) + 1 => i.length <= Cardinality(y.seen) + 1
        BY <1>1, <1>17, <4>1
      <4>4. i.length <= Cardinality(x.seen) => i.length <= Cardinality(y.seen)
        BY <1>1, <1>17, <4>1
      <4> QED
        BY <4>2, <4>3, <4>4
    <3> QED
      BY <1>11, <3>1, <3>2
  <2>4. \A c \in Reachable(y) : Visited(y, c) =>
          c \in y.pool /\ (FetchFailed(y.errs) \/ \A u \in UrlsOf(c) : Followed(y, u))
    BY <1>1, <1>2, <1>7, <1>9, <1>10, <1>15, <1>16 DEF Exploring
  <2>5. \A c \in y.pool : c \in Base(y) \/ Visited(y, c)
    BY <1>1, <1>2, <1>7, <1>9, <1>10 DEF Exploring
  <2>6. \A c \in Base(y) : c \in X!ToSet(y.rest) \/ Visited(y, c) \/ Pending(y, "cert", c)
    BY <1>1, <1>7, <1>9, <1>13, <1>14 DEF Exploring
  <2>7. X!ToSet(y.rest) \subseteq Base(y)
    BY <1>1, <1>7, <1>9 DEF Exploring
  <2> QED
    BY <2>1, <2>2, <2>3, <2>4, <2>5, <2>6, <2>7 DEF Exploring
<1> QED
  BY <1>7, <1>8, <1>9, <1>18 DEF FixerInv

LEMMA SearchGoesOn ==
    ASSUME NEW x, FixerInv(x), x.at = "augment", x.stack = <<>>, NEW y, y = [x EXCEPT !.at = "next"]
    PROVE  FixerInv(y) /\ y.cert = x.cert /\ y.chain = x.chain /\ y.at = "next"
<1>1. x \in ToFixes /\ Exploring(x)
  BY DEF FixerInv
<1>2. /\ y.at = "next" /\ y.cert = x.cert /\ y.chain = x.chain /\ y.pool = x.pool /\ y.rest = x.rest
      /\ y.explored = x.explored /\ y.seen = x.seen /\ y.stack = x.stack /\ y.out = x.out
      /\ y.errs = x.errs
  BY <1>1 DEF ToFixes
<1>3. y \in ToFixes
  BY <1>1 DEF ToFixes
<1>4. Base(y) = Base(x) /\ Reachable(y) = Reachable(x)
  BY <1>2 DEF Base, Reachable
<1>5. \A c : Visited(y, c) <=> Visited(x, c)
  BY <1>2 DEF Visited
<1>6. (\A u : Followed(y, u) <=> Followed(x, u)) /\ (\A t, n : Pending(y, t, n) <=> Pending(x, t, n))
  BY <1>2, <1>5 DEF Followed, Pending
<1>7. Exploring(y)
  BY <1>1, <1>2, <1>4, <1>5, <1>6 DEF Exploring
<1> QED
  BY <1>2, <1>3, <1>4, <1>7 DEF FixerInv

\* What a URL leads to is to be added.
LEMMA UrlFollowed ==
    ASSUME NEW x, FixerInv(x), x.at = "augment", x.stack # <<>>, Head(x.stack).type = "url",
           Content[Head(x.stack).name] # NoCert,
           NEW y,
           y = [x EXCEPT !.stack = <<[type |-> "cert", name |-> Content[Head(x.stack).name],
                                      length |-> Head(x.stack).length + 1]>> \o Tail(@)]
    PROVE  FixerInv(y) /\ y.cert = x.cert /\ y.chain = x.chain /\ y.at = "augment"
<1> DEFINE top == Head(x.stack)
           c0 == Content[top.name]
           item == [type |-> "cert", name |-> c0, length |-> top.length + 1]
           rest == Tail(x.stack)
           stack == <<item>> \o rest
<1>1. /\ x \in ToFixes /\ Exploring(x) /\ rest \in Seq(Items)
      /\ X!ToSet(x.stack) = {top} \cup X!ToSet(rest)
      /\ top.length \in Nat /\ top.length <= Cardinality(x.seen)
      /\ top.name \in DOMAIN Content /\ \E c \in Reachable(x) : top.name \in UrlsOf(c)
      /\ Cardinality(x.seen) \in Nat
  BY TopOfStack
<1>2. c0 \in Reachable(x) /\ c0 \in X!Certs
  BY <1>1, ReachOf
<1>3. /\ item \in Items /\ item.type = "cert" /\ item.name = c0
      /\ item.length <= Cardinality(x.seen) + 1
  BY <1>1, <1>2 DEF Items
<1> HIDE DEF item, rest
<1>4. stack \in Seq(Items) /\ X!ToSet(stack) = {item} \cup X!ToSet(rest)
  <2> DEFINE one == <<item>>
  <2>1. one \in Seq(Items) /\ X!ToSet(one) = {item} /\ stack = one \o rest
    BY <1>3, OneElement
  <2> HIDE DEF one, stack
  <2>2. one \o rest \in Seq(Items) /\ X!ToSet(one \o rest) = X!ToSet(one) \cup X!ToSet(rest)
    BY <1>1, <2>1, JoinedSets
  <2> QED
    BY <2>1, <2>2
<1>5. y = [x EXCEPT !.stack = stack]
  BY DEF item, rest
<1> HIDE DEF stack
<1>6. /\ y.at = "augment" /\ y.cert = x.cert /\ y.chain = x.chain /\ y.pool = x.pool /\ y.rest = x.rest
      /\ y.explored = x.explored /\ y.seen = x.seen /\ y.stack = stack /\ y.out = x.out
      /\ y.errs = x.errs
  BY <1>1, <1>5 DEF ToFixes
<1>7. y \in ToFixes
  BY <1>1, <1>4, <1>5 DEF ToFixes
<1>8. Base(y) = Base(x) /\ Reachable(y) = Reachable(x)
  BY <1>6 DEF Base, Reachable
<1>9. \A c : Visited(y, c) <=> Visited(x, c)
  BY <1>6 DEF Visited
<1>10. X!ToSet(y.stack) = {item} \cup X!ToSet(rest)
  BY <1>4, <1>6
<1>11. \A n : Pending(x, "cert", n) => Pending(y, "cert", n)
  BY <1>1, <1>10 DEF Pending
<1>12. \A n : Pending(x, "url", n) => Pending(y, "url", n) \/ n = top.name
  BY <1>1, <1>10 DEF Pending
<1>13. Pending(y, "cert", c0)
  BY <1>3, <1>10 DEF Pending
<1>14. \A u : Followed(x, u) => Followed(y, u)
  BY <1>9, <1>11, <1>12, <1>13 DEF Followed
<1>15. Exploring(y)
  <2>1. \A i \in X!ToSet(y.stack) :
          /\ i.type = "cert" => i.name \in Reachable(y) /\ i.length <= Cardinality(y.seen) + 1
          /\ i.type = "url" => i.length <= Cardinality(y.seen) /\ \E c \in Reachable(y) : i.name \in UrlsOf(c)
    BY <1>1, <1>2, <1>3, <1>6, <1>8, <1>10 DEF Exploring
  <2>2. \A c \in Reachable(y) : Visited(y, c) =>
          c \in y.pool /\ (FetchFailed(y.errs) \/ \A u \in UrlsOf(c) : Followed(y, u))
    BY <1>1, <1>6, <1>8, <1>9, <1>14 DEF Exploring
  <2>3. \A c \in Base(y) : c \in X!ToSet(y.rest) \/ Visited(y, c) \/ Pending(y, "cert", c)
    BY <1>1, <1>6, <1>8, <1>9, <1>11 DEF Exploring
  <2> QED
    BY <1>1, <1>6, <1>8, <1>9, <2>1, <2>2, <2>3 DEF Exploring
<1> QED
  BY <1>6, <1>7, <1>8, <1>15 DEF FixerInv

\* One that leads nowhere is dropped, with an error.
LEMMA UrlDropped ==
    ASSUME NEW x, FixerInv(x), x.at = "augment", x.stack # <<>>, Head(x.stack).type = "url",
           NEW type \in {"ParseFailure", "CannotFetchURL"},
           type = "ParseFailure" => Content[Head(x.stack).name] = NoCert,
           NEW y,
           y = [x EXCEPT !.stack = Tail(@), !.errs = @ \cup {[type |-> type, url |-> Head(x.stack).name]}]
    PROVE  FixerInv(y) /\ y.cert = x.cert /\ y.chain = x.chain /\ y.at = "augment"
<1> DEFINE top == Head(x.stack)
           e == [type |-> type, url |-> top.name]
           rest == Tail(x.stack)
<1>1. /\ x \in ToFixes /\ Exploring(x) /\ rest \in Seq(Items)
      /\ X!ToSet(x.stack) = {top} \cup X!ToSet(rest) /\ top.name \in DOMAIN Content
  BY TopOfStack
<1>2. e \in FixErrors /\ e.type = type /\ e # FixFailed(x.cert)
  <2>1. FixFailed(x.cert).type = "FixFailed"
    BY DEF FixFailed
  <2> QED
    BY <1>1, <2>1 DEF FixErrors
<1>3. y = [x EXCEPT !.stack = rest, !.errs = x.errs \cup {e}]
  OBVIOUS
<1> HIDE DEF e, rest
<1>4. /\ y.at = "augment" /\ y.cert = x.cert /\ y.chain = x.chain /\ y.pool = x.pool /\ y.rest = x.rest
      /\ y.explored = x.explored /\ y.seen = x.seen /\ y.stack = rest /\ y.out = x.out
      /\ y.errs = x.errs \cup {e}
  BY <1>1, <1>3 DEF ToFixes
<1>5. y \in ToFixes
  <2>1. x.errs \cup {e} \in SUBSET FixErrors
    BY <1>1, <1>2 DEF ToFixes
  <2> QED
    BY <1>1, <1>3, <2>1 DEF ToFixes
<1>6. Base(y) = Base(x) /\ Reachable(y) = Reachable(x)
  BY <1>4 DEF Base, Reachable
<1>7. \A c : Visited(y, c) <=> Visited(x, c)
  BY <1>4 DEF Visited
<1>8. \A n : Pending(x, "cert", n) => Pending(y, "cert", n)
  BY <1>1, <1>4 DEF Pending
<1>9. \A n : Pending(x, "url", n) => Pending(y, "url", n) \/ n = top.name
  BY <1>1, <1>4 DEF Pending
<1>10. FetchFailed(y.errs) \/ \A u : Followed(x, u) => Followed(y, u)
  <2>1. CASE type = "CannotFetchURL"
    BY <1>2, <1>4, <2>1 DEF FetchFailed
  <2>2. CASE type = "ParseFailure"
    BY <1>7, <1>8, <1>9, <2>2 DEF Followed
  <2> QED
    BY <2>1, <2>2
<1>11. FetchFailed(x.errs) => FetchFailed(y.errs)
  BY <1>4 DEF FetchFailed
<1>12. FixFailed(y.cert) \in y.errs => Hopeless(y.cert, Base(y), y.errs)
  BY <1>2, <1>4, <1>6, <1>11 DEF FixerInv, Hopeless
<1>13. Exploring(y)
  <2>1. X!ToSet(y.stack) \subseteq X!ToSet(x.stack)
    BY <1>1, <1>4
  <2>2. \A c \in Reachable(y) : Visited(y, c) =>
          c \in y.pool /\ (FetchFailed(y.errs) \/ \A u \in UrlsOf(c) : Followed(y, u))
    BY <1>1, <1>4, <1>6, <1>7, <1>10, <1>11 DEF Exploring
  <2>3. \A c \in Base(y) : c \in X!ToSet(y.rest) \/ Visited(y, c) \/ Pending(y, "cert", c)
    BY <1>1, <1>4, <1>6, <1>7, <1>8 DEF Exploring
  <2> QED
    BY <1>1, <1>4, <1>6, <1>7, <2>1, <2>2, <2>3 DEF Exploring
<1> QED
  BY <1>4, <1>5, <1>6, <1>12, <1>13 DEF FixerInv

----------------------------------------------------------------------------
(* FixChain: no step loses a certificate.                                  *)

\* What is known of a fixer that is at work.
LEMMA AtWork ==
    ASSUME AccountInv, NEW f \in Fixers, fixer[f] # X!Idle
    PROVE  FixerInv(fixer[f]) /\ phase \in {"reading", "fixers"} /\ fixer[f].cert \in X!Certs
<1>1. FixerInv(fixer[f])
  BY DEF AccountInv, FixTypes
<1>2. fixer[f].cert \in X!Certs
  BY <1>1 DEF FixerInv, ToFixes
<1> QED
  BY <1>1, <1>2 DEF AccountInv, FixTypes, Waited

LEMMA IdleIsIdle == X!Idle.at = "idle"
BY DEF X!Idle

\* The steps of a fixer between taking a certificate and sending what came of it.
LEMMA FixerMoves ==
    ASSUME AccountInv, NEW f \in Fixers, fixer[f] # X!Idle, NEW y, FixerInv(y), y # X!Idle,
           y.cert = fixer[f].cert, y.chain = fixer[f].chain,
           y.at = "send" => y.out # {} \/ FixFailed(y.cert) \in y.errs,
           fixer' = [fixer EXCEPT ![f] = y],
           UNCHANGED <<file, read, queueing, phase, done, forward, waiting, poster,
                       postCertCache, postChainCache, taken, errors>>
    PROVE  AccountInv'
<1>1. y \in ToFixes /\ Base(y) = Base(fixer[f]) /\ fixer \in [Fixers -> {X!Idle} \cup ToFixes]
  BY DEF FixerInv, Base, AccountInv, FixTypes
<1>2. fixer'[f] = y /\ \A g \in Fixers : g # f => fixer'[g] = fixer[g]
  BY <1>1
<1>3. FixTypes'
  <2>1. fixer' \in [Fixers -> {X!Idle} \cup ToFixes]
    BY <1>1
  <2>2. \A g \in Fixers : fixer'[g] # X!Idle => FixerInv(fixer'[g])
    BY <1>2 DEF AccountInv, FixTypes
  <2> QED
    BY <2>1, <2>2 DEF AccountInv, FixTypes
<1>4. Waited'
  BY AtWork DEF AccountInv, Waited
<1>5. \A S, c : Fixing(S, c) => Fixing(S, c)'
  BY <1>1, <1>2 DEF Fixing
<1>6. \A S, c : Accounted(S, c) => Accounted(S, c)'
  BY <1>5 DEF Accounted, Outcome, Settled, Waiting, Forwarding, Posting
<1>7. NothingIsLost'
  BY <1>6 DEF AccountInv, NothingIsLost, Settled, Forwarding, Posting
<1> QED
  BY <1>3, <1>4, <1>7 DEF AccountInv

\* A record at work is not the idle one.
LEMMA WorkIsNotIdle == \A x : FixerInv(x) => x # X!Idle
<1>1. \A x \in ToFixes : x.at # "idle"
  BY DEF ToFixes
<1> QED
  BY <1>1, IdleIsIdle DEF FixerInv

LEMMA ConstructKeeps ==
    ASSUME AccountInv, NEW f \in Fixers, X!constructChain(f)
    PROVE  AccountInv'
<1> DEFINE x == fixer[f]
<1>1. x.at = "construct" /\ x # X!Idle
  BY IdleIsIdle DEF X!constructChain
<1>2. FixerInv(x) /\ X!ToSet(x.chain) \in SUBSET X!Certs
  BY <1>1, AtWork, ReachOf DEF Base
<1>3. UNCHANGED <<file, read, queueing, phase, done, forward, waiting, poster,
                  postCertCache, postChainCache, taken, errors>>
  BY DEF X!constructChain, X!mainVars, X!fwdVars, X!logVars
<1>4. CASE X!Verify(x.cert, X!ToSet(x.chain)) # {}
  <2> DEFINE y == [x EXCEPT !.at = "send", !.out = X!removeSuperChains(X!Verify(x.cert, X!ToSet(x.chain)))]
  <2>1. fixer' = [fixer EXCEPT ![f] = y]
    BY <1>4 DEF X!constructChain, X!Become
  <2>2. FixerInv(y) /\ y.cert = x.cert /\ y.chain = x.chain /\ y.out # {}
    BY <1>2, <1>4, FoundChains
  <2> HIDE DEF y
  <2> QED
    BY <1>1, <1>3, <2>1, <2>2, FixerMoves, WorkIsNotIdle
<1>5. CASE X!Verify(x.cert, X!ToSet(x.chain)) = {}
  <2> DEFINE y == [x EXCEPT !.at = "next", !.pool = X!ToSet(x.chain), !.rest = X!addCertToFront(x.chain, x.cert),
                            !.errs = {[type |-> "VerifyFailed", cert |-> x.cert]}]
  <2>1. fixer' = [fixer EXCEPT ![f] = y]
    BY <1>5 DEF X!constructChain, X!Become
  <2>2. FixerInv(y) /\ y.cert = x.cert /\ y.chain = x.chain /\ y.at = "next"
    BY <1>1, <1>2, <1>5, SearchStarts
  <2> HIDE DEF y
  <2> QED
    BY <1>1, <1>3, <2>1, <2>2, FixerMoves, WorkIsNotIdle
<1> QED
  BY <1>4, <1>5

LEMMA FixKeeps ==
    ASSUME AccountInv, NEW f \in Fixers, X!fixChain(f)
    PROVE  AccountInv'
<1> DEFINE x == fixer[f]
<1>1. x.at = "next" /\ x # X!Idle
  BY IdleIsIdle DEF X!fixChain
<1>2. FixerInv(x)
  BY <1>1, AtWork
<1>3. UNCHANGED <<file, read, queueing, phase, done, forward, waiting, poster,
                  postCertCache, postChainCache, taken, errors>>
  BY DEF X!fixChain, X!mainVars, X!fwdVars, X!logVars
<1>4. CASE x.rest = <<>>
  <2> DEFINE y == [x EXCEPT !.at = "send", !.errs = @ \cup {[type |-> "FixFailed", cert |-> x.cert]}]
  <2>1. fixer' = [fixer EXCEPT ![f] = y]
    BY <1>4 DEF X!fixChain, X!Become
  <2>2. FixerInv(y) /\ y.cert = x.cert /\ y.chain = x.chain /\ FixFailed(y.cert) \in y.errs
    BY <1>1, <1>2, <1>4, FixGivenUp
  <2> HIDE DEF y
  <2> QED
    BY <1>1, <1>3, <2>1, <2>2, FixerMoves, WorkIsNotIdle
<1>5. CASE x.rest # <<>> /\ X!hash(Head(x.rest)) \in x.explored \cup x.seen
  <2> DEFINE y == [x EXCEPT !.rest = Tail(@), !.explored = x.explored \cup x.seen]
  <2>1. fixer' = [fixer EXCEPT ![f] = y]
    BY <1>5 DEF X!fixChain, X!Become
  <2>2. FixerInv(y) /\ y.cert = x.cert /\ y.chain = x.chain /\ y.at = "next"
    BY <1>1, <1>2, <1>5, CertPassed
  <2> HIDE DEF y
  <2> QED
    BY <1>1, <1>3, <2>1, <2>2, FixerMoves, WorkIsNotIdle
<1>6. CASE x.rest # <<>> /\ X!hash(Head(x.rest)) \notin x.explored \cup x.seen
  <2> DEFINE y == [x EXCEPT !.at = "augment", !.rest = Tail(@), !.explored = x.explored \cup x.seen, !.seen = {},
                            !.stack = <<[type |-> "cert", name |-> Head(x.rest), length |-> 1]>>]
  <2>1. fixer' = [fixer EXCEPT ![f] = y]
    BY <1>6 DEF X!fixChain, X!Become
  <2>2. FixerInv(y) /\ y.cert = x.cert /\ y.chain = x.chain /\ y.at = "augment"
    BY <1>1, <1>2, <1>6, CertTaken
  <2> HIDE DEF y
  <2> QED
    BY <1>1, <1>3, <2>1, <2>2, FixerMoves, WorkIsNotIdle
<1> QED
  BY <1>4, <1>5, <1>6

LEMMA AugmentKeeps ==
    ASSUME HashesDiffer, AccountInv, NEW f \in Fixers, X!augmentIntermediates(f)
    PROVE  AccountInv'
<1> DEFINE x == fixer[f]
           top == Head(x.stack)
           pool == x.pool \cup {top.name}
<1>1. x.at = "augment" /\ x # X!Idle /\ x.stack # <<>> /\ top.type = "cert"
  BY IdleIsIdle DEF X!augmentIntermediates
<1>2. FixerInv(x)
  BY <1>1, AtWork
<1>3. pool \in SUBSET X!Certs
  <2>1. x.pool \in SUBSET X!Certs
    BY <1>2 DEF FixerInv, ToFixes
  <2>2. top.name \in X!Certs
    BY <1>1, <1>2, TopOfStack, ReachOf
  <2> QED
    BY <2>1, <2>2
<1>4. UNCHANGED <<file, read, queueing, phase, done, forward, waiting, poster,
                  postCertCache, postChainCache, taken, errors>>
  BY DEF X!augmentIntermediates, X!mainVars, X!fwdVars, X!logVars
<1>5. CASE top.length > MaxChainLength \/ X!hash(top.name) \in x.seen
  <2> DEFINE y == [x EXCEPT !.stack = Tail(@)]
  <2>1. fixer' = [fixer EXCEPT ![f] = y]
    BY <1>5 DEF X!augmentIntermediates, X!Become
  <2>2. FixerInv(y) /\ y.cert = x.cert /\ y.chain = x.chain /\ y.at = "augment"
    BY <1>1, <1>2, <1>5, CertDropped
  <2> HIDE DEF y
  <2> QED
    BY <1>1, <1>4, <2>1, <2>2, FixerMoves, WorkIsNotIdle
<1>6. CASE ~(top.length > MaxChainLength \/ X!hash(top.name) \in x.seen) /\ X!Verify(x.cert, pool) # {}
  <2> DEFINE y == [x EXCEPT !.at = "send", !.out = X!removeSuperChains(X!Verify(x.cert, pool))]
  <2>1. fixer' = [fixer EXCEPT ![f] = y]
    BY <1>6 DEF X!augmentIntermediates, X!Become
  <2>2. FixerInv(y) /\ y.cert = x.cert /\ y.chain = x.chain /\ y.out # {}
    BY <1>2, <1>3, <1>6, FoundChains
  <2> HIDE DEF y
  <2> QED
    BY <1>1, <1>4, <2>1, <2>2, FixerMoves, WorkIsNotIdle
<1>7. CASE ~(top.length > MaxChainLength \/ X!hash(top.name) \in x.seen) /\ X!Verify(x.cert, pool) = {}
  <2> DEFINE below == [i \in DOMAIN URLs[top.name] |->
                          [type |-> "url", name |-> URLs[top.name][i], length |-> top.length]]
             y == [x EXCEPT !.seen = @ \cup {X!hash(top.name)}, !.pool = pool, !.stack = below \o Tail(@)]
  <2>1. fixer' = [fixer EXCEPT ![f] = y]
    BY <1>7 DEF X!augmentIntermediates, X!Become
  <2>2. FixerInv(y) /\ y.cert = x.cert /\ y.chain = x.chain /\ y.at = "augment"
    BY <1>1, <1>2, <1>7, CertAdded
  <2> HIDE DEF y
  <2> QED
    BY <1>1, <1>4, <2>1, <2>2, FixerMoves, WorkIsNotIdle
<1> QED
  BY <1>5, <1>6, <1>7

LEMMA AugmentedKeeps ==
    ASSUME AccountInv, NEW f \in Fixers, X!Augmented(f)
    PROVE  AccountInv'
<1> DEFINE x == fixer[f]
           y == [x EXCEPT !.at = "next"]
<1>1. x.at = "augment" /\ x # X!Idle /\ x.stack = <<>>
  BY IdleIsIdle DEF X!Augmented
<1>2. FixerInv(x)
  BY <1>1, AtWork
<1>3. UNCHANGED <<file, read, queueing, phase, done, forward, waiting, poster,
                  postCertCache, postChainCache, taken, errors>>
  BY DEF X!Augmented, X!mainVars, X!fwdVars, X!logVars
<1>4. fixer' = [fixer EXCEPT ![f] = y]
  BY DEF X!Augmented, X!Become
<1>5. FixerInv(y) /\ y.cert = x.cert /\ y.chain = x.chain /\ y.at = "next"
  BY <1>1, <1>2, SearchGoesOn
<1> HIDE DEF y
<1> QED
  BY <1>1, <1>3, <1>4, <1>5, FixerMoves, WorkIsNotIdle

LEMMA GetKeeps ==
    ASSUME AccountInv, NEW f \in Fixers, X!getIntermediates(f)
    PROVE  AccountInv'
<1> DEFINE x == fixer[f]
           top == Head(x.stack)
           got == [x EXCEPT !.stack =
                     <<[type |-> "cert", name |-> Content[top.name], length |-> top.length + 1]>> \o Tail(@)]
           failed(type) == [x EXCEPT !.stack = Tail(@), !.errs = @ \cup {[type |-> type, url |-> top.name]}]
<1>1. x.at = "augment" /\ x # X!Idle /\ x.stack # <<>> /\ top.type = "url"
  BY IdleIsIdle DEF X!getIntermediates
<1>2. FixerInv(x) /\ top.name \in DOMAIN Content
  BY <1>1, AtWork, TopOfStack
<1>3. UNCHANGED <<file, read, queueing, phase, done, forward, waiting, poster,
                  postCertCache, postChainCache, taken, errors>>
  BY DEF X!getIntermediates, X!mainVars, X!fwdVars, X!logVars
<1>4. \/ Content[top.name] # NoCert /\ fixer' = [fixer EXCEPT ![f] = got]
      \/ Content[top.name] = NoCert /\ fixer' = [fixer EXCEPT ![f] = failed("ParseFailure")]
      \/ fixer' = [fixer EXCEPT ![f] = failed("CannotFetchURL")]
  BY <1>2, FixAssumption DEF X!getIntermediates, X!Become, X!urlReplacement
<1>5. CASE Content[top.name] # NoCert /\ fixer' = [fixer EXCEPT ![f] = got]
  <2>1. FixerInv(got) /\ got.cert = x.cert /\ got.chain = x.chain /\ got.at = "augment"
    BY <1>1, <1>2, <1>5, UrlFollowed
  <2> HIDE DEF got
  <2> QED
    BY <1>1, <1>3, <1>5, <2>1, FixerMoves, WorkIsNotIdle
<1>6. ASSUME NEW type \in {"ParseFailure", "CannotFetchURL"}, type = "ParseFailure" => Content[top.name] = NoCert,
             fixer' = [fixer EXCEPT ![f] = failed(type)]
      PROVE  AccountInv'
  <2> DEFINE y == failed(type)
  <2>1. FixerInv(y) /\ y.cert = x.cert /\ y.chain = x.chain /\ y.at = "augment"
    BY <1>1, <1>2, <1>6, UrlDropped
  <2>2. fixer' = [fixer EXCEPT ![f] = y]
    BY <1>6
  <2> HIDE DEF y
  <2> QED
    BY <1>1, <1>3, <2>1, <2>2, FixerMoves, WorkIsNotIdle
<1> HIDE DEF failed, got
<1> QED
  BY <1>4, <1>5, <1>6

\* When the errors are sent, a fix that was given up is settled by them.
LEMMA ReportKeeps ==
    ASSUME AccountInv, NEW f \in Fixers, X!Report(f)
    PROVE  AccountInv'
<1> DEFINE x == fixer[f]
           y == [x EXCEPT !.errs = {}]
<1>1. x.at = "send" /\ x # X!Idle
  BY IdleIsIdle DEF X!Report
<1>2. FixerInv(x) /\ x \in ToFixes
  BY <1>1, AtWork DEF FixerInv
<1>3. /\ errors' = errors \cup x.errs /\ fixer' = [fixer EXCEPT ![f] = y]
      /\ UNCHANGED <<file, read, queueing, phase, done, forward, waiting, poster,
                      postCertCache, postChainCache, taken>>
  BY DEF X!Report, X!Become, X!mainVars, X!fwdVars, X!logVars
<1>4. y \in ToFixes /\ y.at = "send" /\ y.cert = x.cert /\ y.chain = x.chain /\ y.out = x.out /\ y.errs = {}
  BY <1>1, <1>2 DEF ToFixes
<1> HIDE DEF y
<1>5. Base(y) = Base(x) /\ Reachable(y) = Reachable(x)
  BY <1>4 DEF Base, Reachable
<1>6. FixerInv(y) /\ y # X!Idle
  <2>1. FixerInv(y)
    BY <1>2, <1>4, <1>5 DEF FixerInv
  <2> QED
    BY <2>1, WorkIsNotIdle
<1>7. fixer'[f] = y /\ \A g \in Fixers : g # f => fixer'[g] = fixer[g]
  BY <1>3 DEF AccountInv, FixTypes
<1>8. FixTypes'
  <2>1. fixer' \in [Fixers -> {X!Idle} \cup ToFixes]
    BY <1>3, <1>4 DEF AccountInv, FixTypes
  <2>2. \A g \in Fixers : fixer'[g] # X!Idle => FixerInv(fixer'[g])
    BY <1>6, <1>7 DEF AccountInv, FixTypes
  <2> QED
    BY <1>3, <2>1, <2>2 DEF AccountInv, FixTypes
<1>9. Waited'
  BY <1>1, <1>3, AtWork DEF AccountInv, Waited
<1>10. \A c : Settled(c) => Settled(c)'
  BY <1>3 DEF Settled
<1>11. \A S, c : Hopeless(c, S, errors) => Hopeless(c, S, errors')
  BY <1>3 DEF Hopeless, FetchFailed
<1>12. \A S, c : Outcome(S, c) => Outcome(S, c)'
  BY <1>3, <1>10, <1>11 DEF Outcome
<1>13. ASSUME NEW S, NEW c, Fixing(S, c) PROVE Fixing(S, c)' \/ Outcome(S, c)'
  <2>1. PICK g \in Fixers : /\ fixer[g] # X!Idle /\ fixer[g].cert = c /\ Base(fixer[g]) = S
                            /\ fixer[g].at = "send" => fixer[g].out # {} \/ FixFailed(c) \in fixer[g].errs
    BY <1>13 DEF Fixing
  <2>2. CASE g # f
    BY <1>7, <2>1, <2>2 DEF Fixing
  <2>3. CASE g = f /\ x.out # {}
    BY <1>4, <1>5, <1>6, <1>7, <2>1, <2>3 DEF Fixing
  <2>4. CASE g = f /\ FixFailed(c) \in x.errs
    <3>1. Hopeless(c, S, x.errs)
      BY <1>2, <2>1, <2>4 DEF FixerInv
    <3>2. Hopeless(c, S, errors')
      BY <1>3, <3>1 DEF Hopeless, FetchFailed
    <3> QED
      BY <1>3, <2>4, <3>2 DEF Outcome
  <2> QED
    BY <1>1, <2>1, <2>2, <2>3, <2>4
<1>14. \A S, c : Accounted(S, c) => Accounted(S, c)'
  BY <1>3, <1>12, <1>13 DEF Accounted, Waiting, Forwarding, Posting
<1>15. NothingIsLost'
  BY <1>3, <1>10, <1>14 DEF AccountInv, NothingIsLost, Forwarding, Posting
<1> QED
  BY <1>8, <1>9, <1>15 DEF AccountInv

\* A chain goes from the fixer to the goroutine between, and a fixer that is done had
\* nothing more to send.
LEMMA SendKeeps ==
    ASSUME AccountInv, NEW f \in Fixers, X!Send(f)
    PROVE  AccountInv'
<1> DEFINE x == fixer[f]
<1>1. x.at = "send" /\ x # X!Idle /\ x.errs = {}
  BY IdleIsIdle DEF X!Send
<1>2. FixerInv(x) /\ x \in ToFixes /\ phase \in {"reading", "fixers"} /\ x.cert \in X!Certs
  BY <1>1, AtWork DEF FixerInv
<1>3. UNCHANGED <<file, read, queueing, phase, done, waiting, poster,
                  postCertCache, postChainCache, taken, errors>>
  BY DEF X!Send, X!mainVars, X!logVars
<1>4. CASE x.out = {} /\ fixer' = [fixer EXCEPT ![f] = X!Idle] /\ UNCHANGED forward
  <2>1. fixer'[f] = X!Idle /\ \A g \in Fixers : g # f => fixer'[g] = fixer[g]
    BY <1>4 DEF AccountInv, FixTypes
  <2>2. FixTypes'
    <3>1. fixer' \in [Fixers -> {X!Idle} \cup ToFixes]
      BY <1>4 DEF AccountInv, FixTypes
    <3>2. \A g \in Fixers : fixer'[g] # X!Idle => FixerInv(fixer'[g])
      BY <2>1 DEF AccountInv, FixTypes
    <3> QED
      BY <1>3, <1>4, <3>1, <3>2 DEF AccountInv, FixTypes
  <2>3. Waited'
    BY <1>2, <1>3, <1>4 DEF AccountInv, Waited
  <2>4. \A S, c : Fixing(S, c) => Fixing(S, c)'
    BY <1>1, <1>4, <2>1 DEF Fixing
  <2>5. \A S, c : Accounted(S, c) => Accounted(S, c)'
    BY <1>3, <1>4, <2>4 DEF Accounted, Outcome, Settled, Waiting, Forwarding, Posting
  <2>6. NothingIsLost'
    BY <1>3, <1>4, <2>5 DEF AccountInv, NothingIsLost, Settled, Forwarding, Posting
  <2> QED
    BY <2>2, <2>3, <2>6 DEF AccountInv
<1>5. ASSUME NEW chain \in x.out, forward = <<>>, forward' = chain,
             fixer' = [fixer EXCEPT ![f] = [x EXCEPT !.out = @ \ {chain}]]
      PROVE  AccountInv'
  <2> DEFINE y == [x EXCEPT !.out = @ \ {chain}]
  <2>1. /\ y \in ToFixes /\ y.at = "send" /\ y.cert = x.cert /\ y.chain = x.chain
        /\ y.out = x.out \ {chain} /\ y.errs = {}
    BY <1>1, <1>2 DEF ToFixes
  <2>2. fixer' = [fixer EXCEPT ![f] = y]
    BY <1>5
  <2> HIDE DEF y
  <2>3. Base(y) = Base(x) /\ Reachable(y) = Reachable(x)
    BY <2>1 DEF Base, Reachable
  <2>4. FixerInv(y) /\ y # X!Idle
    <3>1. FixerInv(y)
      BY <1>2, <2>1, <2>3 DEF FixerInv
    <3> QED
      BY <3>1, WorkIsNotIdle
  <2>5. fixer'[f] = y /\ \A g \in Fixers : g # f => fixer'[g] = fixer[g]
    BY <2>2 DEF AccountInv, FixTypes
  <2>6. chain # <<>> /\ chain[1] = x.cert /\ chain \in Chains
    <3>1. chain # <<>> /\ chain[1] = x.cert
      BY <1>2, <1>5 DEF FixerInv
    <3>2. chain \in Seq(X!Certs \cup AcceptedRoots)
      BY <1>2, <1>5 DEF ToFixes
    <3> QED
      BY <1>2, <3>1, <3>2 DEF Chains
  <2>7. FixTypes'
    <3>1. fixer' \in [Fixers -> {X!Idle} \cup ToFixes]
      BY <2>1, <2>2 DEF AccountInv, FixTypes
    <3>2. \A g \in Fixers : fixer'[g] # X!Idle => FixerInv(fixer'[g])
      BY <2>4, <2>5 DEF AccountInv, FixTypes
    <3>3. (forward # <<>> => forward \in Chains)' /\ (waiting => forward # <<>>)'
      BY <1>3, <1>5, <2>6
    <3> QED
      BY <1>3, <3>1, <3>2, <3>3 DEF AccountInv, FixTypes
  <2>8. Waited'
    BY <1>2, <1>3 DEF AccountInv, Waited
  <2>9. \A c : ~Forwarding(c) /\ (c = x.cert => Forwarding(c)')
    BY <1>5, <2>6 DEF Forwarding
  <2>10. \A S, c : Fixing(S, c) => Fixing(S, c)' \/ c = x.cert
    BY <2>5 DEF Fixing
  <2>11. \A S, c : Accounted(S, c) => Accounted(S, c)'
    BY <1>3, <2>9, <2>10 DEF Accounted, Outcome, Settled, Waiting, Posting
  <2>12. NothingIsLost'
    BY <1>3, <2>9, <2>11 DEF AccountInv, NothingIsLost, Settled, Posting
  <2> QED
    BY <2>7, <2>8, <2>12 DEF AccountInv
<1> QED
  BY <1>4, <1>5 DEF X!Send, X!Become

\* IsPosted says of a certificate that it was taken, when hashes differ.
LEMMA PostedIsSettled ==
    ASSUME HashesDiffer, AccountInv, NEW c \in X!Certs, X!IsPosted(c)
    PROVE  Settled(c)
<1>1. PICK p \in taken : X!hash(p[1]) = X!hash(c)
  BY DEF X!IsPosted, AccountInv, NothingIsLost
<1>2. p[1] \in X!Certs
  BY DEF AccountInv, FixTypes, Chains
<1> QED
  BY <1>1, <1>2 DEF HashesDiffer, Settled

LEMMA LoggerKeeps ==
    ASSUME HashesDiffer, AccountInv, X!LoggerQueueChain
    PROVE  AccountInv'
<1>1. /\ forward # <<>> /\ ~waiting
      /\ UNCHANGED <<file, read, queueing, phase, done, fixer, poster, postCertCache, taken, errors>>
  BY DEF X!LoggerQueueChain, X!mainVars
<1>2. forward \in Chains /\ forward[1] \in X!Certs
  BY <1>1 DEF AccountInv, FixTypes, Chains
<1>3. CASE /\ X!IsPosted(forward[1]) \/ forward \in postChainCache
           /\ forward' = <<>> /\ UNCHANGED <<waiting, postChainCache>>
  <2>1. Settled(forward[1]) \/ Posting(forward[1])
    <3>1. CASE X!IsPosted(forward[1])
      BY <1>2, <3>1, PostedIsSettled
    <3>2. CASE forward \in postChainCache
      BY <1>1, <3>2 DEF AccountInv, NothingIsLost
    <3> QED
      BY <1>3, <3>1, <3>2
  <2>2. FixTypes' /\ Waited'
    BY <1>1, <1>3 DEF AccountInv, FixTypes, Waited
  <2>3. \A c : Forwarding(c) => Settled(c)' \/ Posting(c)'
    BY <1>1, <2>1 DEF Forwarding, Settled, Posting
  <2>4. \A S, c : Accounted(S, c) => Accounted(S, c)'
    BY <1>1, <2>3 DEF Accounted, Outcome, Settled, Waiting, Fixing, Posting
  <2>5. NothingIsLost'
    BY <1>1, <1>3, <2>4 DEF AccountInv, NothingIsLost, Settled, Posting
  <2> QED
    BY <2>2, <2>5 DEF AccountInv
<1>4. CASE postChainCache' = postChainCache \cup {forward} /\ waiting' = TRUE /\ UNCHANGED forward
  <2>1. FixTypes' /\ Waited'
    BY <1>1, <1>4 DEF AccountInv, FixTypes, Waited
  <2>2. \A S, c : Accounted(S, c) => Accounted(S, c)'
    BY <1>1, <1>4 DEF Accounted, Outcome, Settled, Waiting, Fixing, Posting, Forwarding
  <2>3. \A chain \in postChainCache' : (Settled(chain[1]) \/ Posting(chain[1]) \/ (waiting /\ Forwarding(chain[1])))'
    BY <1>1, <1>4 DEF AccountInv, NothingIsLost, Settled, Posting, Forwarding
  <2>4. NothingIsLost'
    BY <1>1, <2>2, <2>3 DEF AccountInv, NothingIsLost
  <2> QED
    BY <2>1, <2>4 DEF AccountInv
<1> QED
  BY <1>3, <1>4 DEF X!LoggerQueueChain, X!hashChain

\* What the posters do to the certificates: each stays, is settled, or is posted.
LEMMA PosterMoves ==
    ASSUME AccountInv, NEW p \in Posters,
           poster' \in [Posters -> {X!Idle} \cup [at : {"check", "add", "set"}, chain : Chains]],
           \A q \in Posters : q # p => poster'[q] = poster[q],
           UNCHANGED <<file, read, queueing, phase, done, fixer, forward, waiting, postChainCache>>,
           taken \subseteq taken', taken' \subseteq Chains, errors \subseteq errors', phase # "ended",
           poster[p] # X!Idle =>
              \/ poster'[p] # X!Idle /\ poster'[p].chain = poster[p].chain
              \/ \A c : c = poster[p].chain[1] => Settled(c)',
           poster'[p].at = "set" => poster'[p].chain \in taken',
           \A h \in postCertCache' : \E t \in taken' : X!hash(t[1]) = h
    PROVE  AccountInv'
<1>1. FixTypes' /\ Waited'
  BY DEF AccountInv, FixTypes, Waited
<1>2. \A c : Settled(c) => Settled(c)'
  BY DEF Settled
<1>3. \A S, c : Outcome(S, c) => Outcome(S, c)'
  BY <1>2 DEF Outcome, Hopeless, FetchFailed
<1>4. \A c : Posting(c) => Posting(c)' \/ Settled(c)'
  BY DEF Posting
<1>5. \A S, c : Accounted(S, c) => Accounted(S, c)'
  BY <1>3, <1>4 DEF Accounted, Outcome, Waiting, Fixing, Forwarding
<1>6. \A q \in Posters : poster'[q].at = "set" => poster'[q].chain \in taken'
  BY DEF AccountInv, NothingIsLost
<1>7. NothingIsLost'
  BY <1>2, <1>4, <1>5, <1>6 DEF AccountInv, NothingIsLost, Forwarding
<1> QED
  BY <1>1, <1>7 DEF AccountInv

\* A poster at work has not been waited for.
LEMMA PosterAtWork ==
    ASSUME AccountInv, NEW p \in Posters, poster[p].at \in {"check", "add", "set"}
    PROVE  /\ poster[p] # X!Idle /\ phase # "ended"
           /\ poster[p] \in [at : {"check", "add", "set"}, chain : Chains]
           /\ poster[p].chain \in Chains /\ poster[p].chain[1] \in X!Certs
           /\ poster \in [Posters -> {X!Idle} \cup [at : {"check", "add", "set"}, chain : Chains]]
<1>1. poster[p] # X!Idle
  BY IdleIsIdle
<1>2. /\ poster \in [Posters -> {X!Idle} \cup [at : {"check", "add", "set"}, chain : Chains]]
      /\ phase = "ended" => \A q \in Posters : poster[q] = X!Idle
  BY DEF AccountInv, FixTypes, Waited
<1>3. poster[p] \in [at : {"check", "add", "set"}, chain : Chains]
  BY <1>1, <1>2
<1>4. poster[p].chain \in Chains
  BY <1>3
<1> QED
  BY <1>1, <1>2, <1>3, <1>4 DEF Chains

LEMMA PostKeeps ==
    ASSUME HashesDiffer, AccountInv, NEW p \in Posters, X!postChain(p)
    PROVE  AccountInv'
<1> DEFINE x == poster[p]
<1>1. /\ x.at = "check"
      /\ poster' = [poster EXCEPT ![p] = IF X!IsPosted(x.chain[1]) THEN X!Idle ELSE [x EXCEPT !.at = "add"]]
      /\ UNCHANGED <<file, read, queueing, phase, done, fixer, forward, waiting,
                      postCertCache, postChainCache, taken, errors>>
  BY DEF X!postChain, X!mainVars, X!fwdVars, X!logVars
<1>2. /\ x # X!Idle /\ phase # "ended" /\ x.chain[1] \in X!Certs
      /\ x \in [at : {"check", "add", "set"}, chain : Chains]
      /\ poster \in [Posters -> {X!Idle} \cup [at : {"check", "add", "set"}, chain : Chains]]
  BY <1>1, PosterAtWork
<1>3. /\ taken' \subseteq Chains
      /\ \A h \in postCertCache' : \E t \in taken' : X!hash(t[1]) = h
  BY <1>1 DEF AccountInv, FixTypes, NothingIsLost
<1>4. CASE X!IsPosted(x.chain[1])
  <2>1. poster' = [poster EXCEPT ![p] = X!Idle]
    BY <1>1, <1>4
  <2>2. \A c : c = x.chain[1] => Settled(c)'
    BY <1>1, <1>2, <1>4, PostedIsSettled DEF Settled
  <2>3. /\ poster' \in [Posters -> {X!Idle} \cup [at : {"check", "add", "set"}, chain : Chains]]
        /\ poster'[p] = X!Idle /\ \A q \in Posters : q # p => poster'[q] = poster[q]
    BY <1>2, <2>1
  <2> QED
    BY <1>1, <1>2, <1>3, <2>2, <2>3, PosterMoves, IdleIsIdle
<1>5. CASE ~X!IsPosted(x.chain[1])
  <2> DEFINE y == [x EXCEPT !.at = "add"]
  <2>1. poster' = [poster EXCEPT ![p] = y]
    BY <1>1, <1>5
  <2>2. y \in [at : {"check", "add", "set"}, chain : Chains] /\ y.at = "add" /\ y.chain = x.chain
    BY <1>2
  <2> HIDE DEF y
  <2>3. /\ poster' \in [Posters -> {X!Idle} \cup [at : {"check", "add", "set"}, chain : Chains]]
        /\ poster'[p] = y /\ \A q \in Posters : q # p => poster'[q] = poster[q]
    BY <1>2, <2>1, <2>2
  <2>4. y # X!Idle
    BY <2>2, IdleIsIdle
  <2> QED
    BY <1>1, <1>2, <1>3, <2>2, <2>3, <2>4, PosterMoves
<1> QED
  BY <1>4, <1>5

LEMMA AddKeeps ==
    ASSUME AccountInv, NEW p \in Posters, X!AddChain(p)
    PROVE  AccountInv'
<1> DEFINE x == poster[p]
<1>1. /\ x.at = "add"
      /\ UNCHANGED <<file, read, queueing, phase, done, fixer, forward, waiting, postCertCache, postChainCache>>
  BY DEF X!AddChain, X!mainVars, X!fwdVars
<1>2. /\ x # X!Idle /\ phase # "ended" /\ x.chain \in Chains
      /\ x \in [at : {"check", "add", "set"}, chain : Chains]
      /\ poster \in [Posters -> {X!Idle} \cup [at : {"check", "add", "set"}, chain : Chains]]
  BY <1>1, PosterAtWork
<1>3. taken \subseteq Chains /\ \A h \in postCertCache' : \E t \in taken : X!hash(t[1]) = h
  BY <1>1 DEF AccountInv, FixTypes, NothingIsLost
<1>4. CASE taken' = taken \cup {x.chain} /\ poster' = [poster EXCEPT ![p].at = "set"] /\ UNCHANGED errors
  <2> DEFINE y == [x EXCEPT !.at = "set"]
  <2>1. poster' = [poster EXCEPT ![p] = y]
    BY <1>4
  <2>2. y \in [at : {"check", "add", "set"}, chain : Chains] /\ y.at = "set" /\ y.chain = x.chain
    BY <1>2
  <2> HIDE DEF y
  <2>3. /\ poster' \in [Posters -> {X!Idle} \cup [at : {"check", "add", "set"}, chain : Chains]]
        /\ poster'[p] = y /\ \A q \in Posters : q # p => poster'[q] = poster[q]
    BY <1>2, <2>1, <2>2
  <2>4. y # X!Idle
    BY <2>2, IdleIsIdle
  <2>5. taken \subseteq taken' /\ taken' \subseteq Chains /\ x.chain \in taken' /\ errors \subseteq errors'
    BY <1>2, <1>3, <1>4
  <2>6. \A h \in postCertCache' : \E t \in taken' : X!hash(t[1]) = h
    BY <1>3, <2>5
  <2> QED
    BY <1>1, <1>2, <2>2, <2>3, <2>4, <2>5, <2>6, PosterMoves
<1>5. CASE /\ errors' = errors \cup {[type |-> "LogPostFailed", cert |-> x.chain[1]]}
           /\ poster' = [poster EXCEPT ![p] = X!Idle] /\ UNCHANGED taken
  <2>1. \A c : c = x.chain[1] => Settled(c)'
    BY <1>5 DEF Settled
  <2>2. /\ poster' \in [Posters -> {X!Idle} \cup [at : {"check", "add", "set"}, chain : Chains]]
        /\ poster'[p] = X!Idle /\ \A q \in Posters : q # p => poster'[q] = poster[q]
    BY <1>2, <1>5
  <2>3. taken \subseteq taken' /\ taken' \subseteq Chains /\ errors \subseteq errors'
    BY <1>3, <1>5
  <2>4. \A h \in postCertCache' : \E t \in taken' : X!hash(t[1]) = h
    BY <1>3, <1>5
  <2> QED
    BY <1>1, <1>2, <2>1, <2>2, <2>3, <2>4, PosterMoves, IdleIsIdle
<1> QED
  BY <1>4, <1>5 DEF X!AddChain

LEMMA SetKeeps ==
    ASSUME AccountInv, NEW p \in Posters, X!SetPosted(p)
    PROVE  AccountInv'
<1> DEFINE x == poster[p]
<1>1. /\ x.at = "set" /\ postCertCache' = postCertCache \cup {X!hash(x.chain[1])}
      /\ poster' = [poster EXCEPT ![p] = X!Idle]
      /\ UNCHANGED <<file, read, queueing, phase, done, fixer, forward, waiting, postChainCache, taken, errors>>
  BY DEF X!SetPosted, X!mainVars, X!fwdVars
<1>2. /\ x # X!Idle /\ phase # "ended" /\ x.chain \in taken
      /\ poster \in [Posters -> {X!Idle} \cup [at : {"check", "add", "set"}, chain : Chains]]
  BY <1>1, PosterAtWork DEF AccountInv, NothingIsLost
<1>3. taken' \subseteq Chains /\ \A h \in postCertCache' : \E t \in taken' : X!hash(t[1]) = h
  BY <1>1, <1>2 DEF AccountInv, FixTypes, NothingIsLost
<1>4. \A c : c = x.chain[1] => Settled(c)'
  BY <1>1, <1>2 DEF Settled
<1>5. /\ poster' \in [Posters -> {X!Idle} \cup [at : {"check", "add", "set"}, chain : Chains]]
      /\ poster'[p] = X!Idle /\ \A q \in Posters : q # p => poster'[q] = poster[q]
  BY <1>1, <1>2
<1> QED
  BY <1>1, <1>2, <1>3, <1>4, <1>5, PosterMoves, IdleIsIdle

\* A poster takes the chain that waits.
LEMMA TakeKeeps ==
    ASSUME AccountInv, NEW p \in Posters, X!postToLog(p)
    PROVE  AccountInv'
<1> DEFINE y == [at |-> "check", chain |-> forward]
<1>1. /\ waiting /\ poster[p] = X!Idle /\ poster' = [poster EXCEPT ![p] = y]
      /\ forward' = <<>> /\ waiting' = FALSE
      /\ UNCHANGED <<file, read, queueing, phase, done, fixer, postCertCache, postChainCache, taken, errors>>
  BY DEF X!postToLog, X!mainVars, X!logVars
<1>2. forward # <<>> /\ forward \in Chains /\ phase \in {"reading", "fixers", "forwarder"}
  BY <1>1 DEF AccountInv, FixTypes, Waited
<1>3. y \in [at : {"check", "add", "set"}, chain : Chains] /\ y.at = "check" /\ y.chain = forward
  BY <1>2
<1> HIDE DEF y
<1>4. y # X!Idle
  BY <1>3, IdleIsIdle
<1>5. /\ poster' \in [Posters -> {X!Idle} \cup [at : {"check", "add", "set"}, chain : Chains]]
      /\ poster'[p] = y /\ \A q \in Posters : q # p => poster'[q] = poster[q]
  BY <1>1, <1>3 DEF AccountInv, FixTypes
<1>6. FixTypes' /\ Waited'
  BY <1>1, <1>2, <1>5 DEF AccountInv, FixTypes, Waited
<1>7. \A c : Posting(c) => Posting(c)'
  BY <1>1, <1>5 DEF Posting
<1>8. \A c : Forwarding(c) => Posting(c)'
  BY <1>3, <1>4, <1>5 DEF Posting, Forwarding
<1>9. \A S, c : Accounted(S, c) => Accounted(S, c)'
  BY <1>1, <1>7, <1>8 DEF Accounted, Outcome, Settled, Waiting, Fixing
<1>10. \A q \in Posters : poster'[q].at = "set" => poster'[q].chain \in taken'
  BY <1>1, <1>3, <1>5 DEF AccountInv, NothingIsLost
<1>11. \A c : Settled(c) => Settled(c)'
  BY <1>1 DEF Settled
<1>12. NothingIsLost'
  BY <1>1, <1>7, <1>8, <1>9, <1>10, <1>11 DEF AccountInv, NothingIsLost
<1> QED
  BY <1>6, <1>12 DEF AccountInv

LEMMA WaitKeeps ==
    ASSUME AccountInv, X!Wait
    PROVE  AccountInv'
<1>1. UNCHANGED <<file, read, queueing, done, fixer, forward, waiting, poster,
                  postCertCache, postChainCache, taken, errors>>
  BY DEF X!Wait, X!fwdVars, X!logVars
<1>2. /\ phase \in {"reading", "fixers", "forwarder", "posters"}
      /\ phase = "reading" => read = Len(file) /\ queueing = <<>>
      /\ phase = "fixers" => \A f \in Fixers : fixer[f] = X!Idle
      /\ phase = "forwarder" => forward = <<>>
      /\ phase = "posters" => \A p \in Posters : poster[p] = X!Idle
  BY DEF X!Wait, AccountInv, FixTypes
<1>3. /\ phase = "reading" => phase' = "fixers"
      /\ phase = "fixers" => phase' = "forwarder"
      /\ phase = "forwarder" => phase' = "posters"
      /\ phase = "posters" => phase' = "ended"
  BY DEF X!Wait
<1>4. FixTypes'
  BY <1>1, <1>2, <1>3 DEF AccountInv, FixTypes
<1>5. Waited'
  BY <1>1, <1>2, <1>3 DEF AccountInv, Waited
<1>6. \A S, c : Accounted(S, c) => Accounted(S, c)'
  BY <1>1 DEF Accounted, Outcome, Settled, Waiting, Fixing, Forwarding, Posting
<1>7. NothingIsLost'
  BY <1>1, <1>6 DEF AccountInv, NothingIsLost, Settled, Forwarding, Posting
<1> QED
  BY <1>4, <1>5, <1>7 DEF AccountInv

\* What chainfix does with its queue: every certificate in it stays, or is settled, or
\* is being fixed.
LEMMA QueueMoves ==
    ASSUME AccountInv, queueing # <<>>, queueing' \in Seq(ToQueue),
           UNCHANGED <<file, read, phase, done, forward, waiting, poster,
                       postCertCache, postChainCache, taken, errors>>,
           fixer' \in [Fixers -> {X!Idle} \cup ToFixes],
           \A f \in Fixers : fixer'[f] # X!Idle => FixerInv(fixer'[f]),
           \A S, c : Fixing(S, c) => Fixing(S, c)',
           \A S, c : Waiting(S, c) => Waiting(S, c)' \/ Settled(c) \/ Fixing(S, c)'
    PROVE  AccountInv'
<1>1. phase = "reading"
  BY DEF AccountInv, Waited
<1>2. FixTypes' /\ Waited'
  BY <1>1 DEF AccountInv, FixTypes, Waited
<1>3. \A c : Settled(c) => Settled(c)'
  BY DEF Settled
<1>4. \A S, c : Accounted(S, c) => Accounted(S, c)'
  BY <1>3 DEF Accounted, Outcome, Forwarding, Posting
<1>5. NothingIsLost'
  BY <1>3, <1>4 DEF AccountInv, NothingIsLost, Forwarding, Posting
<1> QED
  BY <1>2, <1>5 DEF AccountInv

\* The first certificate of the queue.
LEMMA FirstInQueue ==
    ASSUME AccountInv, queueing # <<>>
    PROVE  /\ queueing \in Seq(ToQueue) /\ Tail(queueing) \in Seq(ToQueue)
           /\ queueing[1] \in ToQueue /\ X!ToSet(queueing) = {queueing[1]} \cup X!ToSet(Tail(queueing))
           /\ queueing[1].cert \in X!Certs /\ queueing[1].chain \in Seq(X!Certs)
           /\ queueing[1].cert \in X!ToSet(queueing[1].chain)
           /\ Cardinality(X!Known(X!ToSet(queueing[1].chain))) <= MaxChainLength
<1>1. queueing \in Seq(ToQueue)
  BY DEF AccountInv, FixTypes
<1>2. /\ Tail(queueing) \in Seq(ToQueue) /\ Head(queueing) = queueing[1] /\ Head(queueing) \in ToQueue
      /\ X!ToSet(queueing) = {queueing[1]} \cup X!ToSet(Tail(queueing))
  BY <1>1, HeadAndTail
<1>3. \A i \in ToQueue : /\ i.cert \in X!Certs /\ i.chain \in Seq(X!Certs) /\ i.cert \in X!ToSet(i.chain)
                          /\ Cardinality(X!Known(X!ToSet(i.chain))) <= MaxChainLength
  BY DEF ToQueue
<1> QED
  BY <1>1, <1>2, <1>3

LEMMA CheckKeeps ==
    ASSUME HashesDiffer, AccountInv, X!CheckPosted
    PROVE  AccountInv'
<1> DEFINE q == queueing[1]
<1>1. /\ queueing # <<>>
      /\ UNCHANGED <<file, read, phase, done, fixer, forward, waiting, poster,
                      postCertCache, postChainCache, taken, errors>>
  BY DEF X!CheckPosted, X!fwdVars, X!logVars
<1>2. /\ queueing \in Seq(ToQueue) /\ Tail(queueing) \in Seq(ToQueue)
      /\ q \in ToQueue /\ q.cert \in X!Certs
      /\ X!ToSet(queueing) = {q} \cup X!ToSet(Tail(queueing))
  BY <1>1, FirstInQueue
<1>3. /\ fixer' \in [Fixers -> {X!Idle} \cup ToFixes]
      /\ \A f \in Fixers : fixer'[f] # X!Idle => FixerInv(fixer'[f])
      /\ \A S, c : Fixing(S, c) => Fixing(S, c)'
  BY <1>1 DEF AccountInv, FixTypes, Fixing
<1>4. CASE X!IsPosted(q.cert) /\ queueing' = Tail(queueing)
  <2>1. Settled(q.cert)
    BY <1>2, <1>4, PostedIsSettled
  <2>2. \A S, c : Waiting(S, c) => Waiting(S, c)' \/ Settled(c)
    BY <1>2, <1>4, <2>1 DEF Waiting
  <2> QED
    BY <1>1, <1>2, <1>3, <1>4, <2>2, QueueMoves
<1>5. CASE queueing' = [queueing EXCEPT ![1].checked = TRUE]
  <2> DEFINE y == [q EXCEPT !.checked = TRUE]
  <2>1. queueing' = [queueing EXCEPT ![1] = y]
    BY <1>5
  <2>2. y \in ToQueue /\ y.cert = q.cert /\ y.chain = q.chain
    BY <1>2 DEF ToQueue
  <2> HIDE DEF y
  <2>3. queueing' \in Seq(ToQueue) /\ Len(queueing') = Len(queueing) /\ Len(queueing) \in Nat \ {0}
    BY <1>1, <1>2, <2>1, <2>2
  <2>4. queueing'[1] = y /\ \A i \in 1..Len(queueing) : i # 1 => queueing'[i] = queueing[i]
    BY <1>1, <1>2, <2>1
  <2>5. \A i \in 1..Len(queueing) : queueing'[i].cert = queueing[i].cert /\ queueing'[i].chain = queueing[i].chain
    BY <2>2, <2>4
  <2>6. /\ X!ToSet(queueing) = {queueing[i] : i \in 1..Len(queueing)}
        /\ X!ToSet(queueing)' = {queueing'[i] : i \in 1..Len(queueing)}
    BY <1>2, <2>3, ElementsOf
  <2>7. \A S, c : Waiting(S, c) => Waiting(S, c)'
    BY <2>5, <2>6 DEF Waiting
  <2> QED
    BY <1>1, <1>3, <2>3, <2>7, QueueMoves
<1> QED
  BY <1>4, <1>5 DEF X!CheckPosted

LEMMA QueueKeeps ==
    ASSUME AccountInv, NEW f \in Fixers, X!QueueChain(f)
    PROVE  AccountInv'
<1> DEFINE q == queueing[1]
           y == X!ToFix(q.cert, q.chain)
<1>1. /\ queueing # <<>> /\ fixer[f] = X!Idle /\ fixer' = [fixer EXCEPT ![f] = y] /\ queueing' = Tail(queueing)
      /\ UNCHANGED <<file, read, phase, done, forward, waiting, poster,
                      postCertCache, postChainCache, taken, errors>>
  BY DEF X!QueueChain, X!fwdVars, X!logVars
<1>2. /\ Tail(queueing) \in Seq(ToQueue) /\ X!ToSet(queueing) = {q} \cup X!ToSet(Tail(queueing))
      /\ q.cert \in X!Certs /\ q.chain \in Seq(X!Certs) /\ q.cert \in X!ToSet(q.chain)
      /\ Cardinality(X!Known(X!ToSet(q.chain))) <= MaxChainLength
  BY <1>1, FirstInQueue
<1>3. FixerInv(y) /\ y.cert = q.cert /\ y.chain = q.chain /\ y.at = "construct"
  <2>1. FixerInv(y)
    BY <1>2, StartedFix
  <2> QED
    BY <2>1 DEF X!ToFix
<1> HIDE DEF y
<1>4. y # X!Idle /\ y \in ToFixes /\ Base(y) = X!ToSet(q.chain)
  BY <1>3, WorkIsNotIdle DEF FixerInv, Base
<1>5. /\ fixer' \in [Fixers -> {X!Idle} \cup ToFixes]
      /\ fixer'[f] = y /\ \A g \in Fixers : g # f => fixer'[g] = fixer[g]
  BY <1>1, <1>4 DEF AccountInv, FixTypes
<1>6. \A g \in Fixers : fixer'[g] # X!Idle => FixerInv(fixer'[g])
  BY <1>3, <1>5 DEF AccountInv, FixTypes
<1>7. \A S, c : Fixing(S, c) => Fixing(S, c)'
  BY <1>1, <1>5 DEF Fixing
<1>8. \A S, c : c = q.cert /\ S = X!ToSet(q.chain) => Fixing(S, c)'
  BY <1>3, <1>4, <1>5 DEF Fixing
<1>9. \A S, c : Waiting(S, c) => Waiting(S, c)' \/ Fixing(S, c)'
  BY <1>1, <1>2, <1>8 DEF Waiting
<1> QED
  BY <1>1, <1>2, <1>5, <1>6, <1>7, <1>9, QueueMoves

\* Of a chain that was read, every certificate is queued, unless all of them were.
LEMMA ReadKeeps ==
    ASSUME AccountInv, X!processChains
    PROVE  AccountInv'
<1> DEFINE chain == file[read + 1]
           d == X!newDedupedChain(chain)
           S0 == X!ToSet(chain)
           item(i) == [cert |-> d[i], chain |-> d, checked |-> FALSE]
<1>1. /\ phase = "reading" /\ queueing = <<>> /\ read < Len(file) /\ read' = read + 1
      /\ UNCHANGED <<file, phase, fixer, forward, waiting, poster, postCertCache, postChainCache, taken, errors>>
  BY DEF X!processChains, X!fwdVars, X!logVars
<1>2. file \in Seq(Seq(X!Certs)) /\ read \in 0..Len(file) /\ Len(file) \in Nat
  BY DEF AccountInv, FixTypes
<1>3. /\ read + 1 \in 1..Len(file) /\ chain \in Seq(X!Certs) /\ chain \in X!ToSet(file)
      /\ Cardinality(X!Known(S0)) <= MaxChainLength
  <2>1. read + 1 \in 1..Len(file)
    BY <1>1, <1>2
  <2>2. chain \in Seq(X!Certs) /\ chain \in X!ToSet(file)
    BY <1>2, <2>1, ElementsOf
  <2> QED
    BY <2>1, <2>2 DEF AccountInv, FixTypes
<1>4. d \in Seq(X!Certs) /\ X!ToSet(d) = S0 /\ S0 \in SUBSET X!Certs
  BY <1>3, DedupedChain, ElementsOf
<1>5. /\ queueing' = IF S0 \in done THEN <<>> ELSE [i \in DOMAIN d |-> item(i)]
      /\ done' = done \cup {S0}
  BY <1>4 DEF X!processChains, X!QueueAllCertsInChain, X!hashBag
<1> HIDE DEF d
<1>6. DOMAIN d = 1..Len(d) /\ Len(d) \in Nat /\ S0 = {d[i] : i \in 1..Len(d)}
  BY <1>4, ElementsOf
<1>7. \A i \in 1..Len(d) : item(i) \in ToQueue /\ item(i).cert = d[i] /\ item(i).chain = d
  BY <1>3, <1>4, <1>6 DEF ToQueue
<1>8. queueing' \in Seq(ToQueue) /\ (S0 \notin done => X!ToSet(queueing)' = {item(i) : i \in 1..Len(d)})
  <2>1. CASE S0 \in done
    BY <1>5, <2>1
  <2>2. CASE S0 \notin done
    <3>1. queueing' = [i \in 1..Len(d) |-> item(i)]
      BY <1>5, <1>6, <2>2
    <3> HIDE DEF item, S0
    <3>2. queueing' \in Seq(ToQueue) /\ DOMAIN queueing' = 1..Len(d)
      BY <1>6, <1>7, <3>1
    <3>3. X!ToSet(queueing)' = {item(i) : i \in 1..Len(d)}
      BY <3>1, <3>2 DEF X!ToSet
    <3> QED
      BY <3>2, <3>3
  <2> QED
    BY <2>1, <2>2
<1>9. S0 \notin done => \A S, c : S = S0 /\ c \in S => Waiting(S, c)'
  <2>1. SUFFICES ASSUME S0 \notin done, NEW c \in S0
                 PROVE  \E i \in X!ToSet(queueing)' : i.cert = c /\ X!ToSet(i.chain) = S0
    BY DEF Waiting
  <2>2. PICK i \in 1..Len(d) : d[i] = c
    BY <1>6
  <2> QED
    BY <1>4, <1>7, <1>8, <2>1, <2>2
<1>10. FixTypes' /\ Waited'
  <2>1. (read \in 0..Len(file))'
    BY <1>1, <1>2
  <2> QED
    BY <1>1, <1>8, <2>1 DEF AccountInv, FixTypes, Waited
<1>11. \A S, c : ~Waiting(S, c)
  BY <1>1, NoElements DEF Waiting
<1>12. \A S, c : Accounted(S, c) => Accounted(S, c)'
  BY <1>1, <1>11 DEF Accounted, Outcome, Settled, Fixing, Forwarding, Posting
<1>13. \A S \in done' : \A c \in S : c \in X!Certs /\ Accounted(S, c)'
  <2>1. SUFFICES ASSUME NEW S \in done', NEW c \in S PROVE c \in X!Certs /\ Accounted(S, c)'
    OBVIOUS
  <2>2. CASE S \in done
    BY <1>12, <2>2 DEF AccountInv, NothingIsLost
  <2>3. CASE S = S0 /\ S0 \notin done
    BY <1>4, <1>9, <2>1, <2>3 DEF Accounted
  <2> QED
    BY <1>5, <2>2, <2>3
<1>14. \A i \in 1..read' : X!ToSet(file[i]) \in done'
  BY <1>1, <1>2, <1>5 DEF AccountInv, NothingIsLost
<1>15. NothingIsLost'
  BY <1>1, <1>13, <1>14 DEF AccountInv, NothingIsLost, Settled, Forwarding, Posting
<1> QED
  BY <1>10, <1>15 DEF AccountInv

----------------------------------------------------------------------------
(* FixChain: every certificate is accounted for.                           *)

LEMMA AccountInit ==
    ASSUME WithinReach, X!Init \/ FixIdle
    PROVE  AccountInv
<1>1. /\ file = <<>> \/ file \in Files
      /\ read = 0 /\ queueing = <<>> /\ phase \in {"reading", "ended"} /\ done = {}
      /\ fixer = [f \in Fixers |-> X!Idle] /\ forward = <<>> /\ waiting = FALSE
      /\ poster = [p \in Posters |-> X!Idle] /\ postCertCache = {} /\ postChainCache = {} /\ taken = {}
      /\ phase = "ended" => file = <<>>
  BY DEF X!Init, FixIdle
<1>2. /\ file \in Seq(Seq(X!Certs))
      /\ \A chain \in X!ToSet(file) : Cardinality(X!Known(X!ToSet(chain))) <= MaxChainLength
  <2>1. CASE file = <<>>
    BY <2>1, NoElements
  <2>2. CASE file \in Files
    BY <2>2, FixAssumption DEF WithinReach
  <2> QED
    BY <1>1, <2>1, <2>2
<1>3. FixTypes
  <2>1. read \in 0..Len(file) /\ queueing \in Seq(ToQueue)
    BY <1>1, <1>2
  <2>2. /\ fixer \in [Fixers -> {X!Idle} \cup ToFixes]
        /\ \A f \in Fixers : fixer[f] # X!Idle => FixerInv(fixer[f])
    BY <1>1
  <2>3. poster \in [Posters -> {X!Idle} \cup [at : {"check", "add", "set"}, chain : Chains]]
    BY <1>1
  <2> QED
    BY <1>1, <1>2, <2>1, <2>2, <2>3 DEF FixTypes
<1>4. Waited
  BY <1>1 DEF Waited
<1>5. NothingIsLost
  <2>1. \A p \in Posters : poster[p].at # "set"
    BY <1>1, IdleIsIdle
  <2> QED
    BY <1>1, <2>1 DEF NothingIsLost
<1> QED
  BY <1>3, <1>4, <1>5 DEF AccountInv

LEMMA AccountStep ==
    ASSUME HashesDiffer, AccountInv, [X!Next]_xVars
    PROVE  AccountInv'
<1>1. CASE UNCHANGED xVars
  <2>1. UNCHANGED <<file, read, queueing, phase, done, fixer, forward, waiting, poster,
                    postCertCache, postChainCache, taken, errors>>
    BY <1>1 DEF xVars
  <2>2. FixTypes' /\ Waited'
    BY <2>1 DEF AccountInv, FixTypes, Waited
  <2>3. \A S, c : Accounted(S, c) => Accounted(S, c)'
    BY <2>1 DEF Accounted, Outcome, Settled, Waiting, Fixing, Forwarding, Posting
  <2>4. NothingIsLost'
    BY <2>1, <2>3 DEF AccountInv, NothingIsLost, Settled, Forwarding, Posting
  <2> QED
    BY <2>2, <2>4 DEF AccountInv
<1>2. CASE X!processChains \/ X!CheckPosted \/ X!LoggerQueueChain \/ X!Wait
  BY <1>2, ReadKeeps, CheckKeeps, LoggerKeeps, WaitKeeps
<1>3. ASSUME NEW f \in Fixers, X!QueueChain(f) \/ X!FixerStep(f) PROVE AccountInv'
  BY <1>3, QueueKeeps, ConstructKeeps, FixKeeps, AugmentKeeps, AugmentedKeeps, GetKeeps, ReportKeeps, SendKeeps
     DEF X!FixerStep
<1>4. ASSUME NEW p \in Posters, X!PosterStep(p) PROVE AccountInv'
  BY <1>4, TakeKeeps, PostKeeps, AddKeeps, SetKeeps DEF X!PosterStep
<1> QED
  BY <1>1, <1>2, <1>3, <1>4 DEF X!Next

LEMMA CertsAreAccountedFor ==
    ASSUME AccountInv
    PROVE  X!EveryCertIsAccounted
<1>1. SUFFICES ASSUME phase = "ended"
               PROVE  /\ \A f \in Fixers : fixer[f] = X!Idle
                      /\ \A p \in Posters : poster[p] = X!Idle
                      /\ \A chain \in X!ToSet(file) : \A c \in X!ToSet(chain) : Outcome(X!ToSet(chain), c)
  BY DEF X!EveryCertIsAccounted, Outcome, Settled, FixFailed, Hopeless, FetchFailed
<1>2. /\ \A f \in Fixers : fixer[f] = X!Idle
      /\ \A p \in Posters : poster[p] = X!Idle
      /\ read = Len(file) /\ queueing = <<>> /\ forward = <<>>
  BY <1>1 DEF AccountInv, Waited
<1>3. ASSUME NEW chain \in X!ToSet(file), NEW c \in X!ToSet(chain) PROVE Outcome(X!ToSet(chain), c)
  <2>1. PICK i \in 1..Len(file) : chain = file[i]
    BY ElementsOf DEF AccountInv, FixTypes
  <2>2. X!ToSet(chain) \in done
    BY <1>2, <2>1 DEF AccountInv, NothingIsLost
  <2>3. Accounted(X!ToSet(chain), c)
    BY <2>2 DEF AccountInv, NothingIsLost
  <2> QED
    BY <1>2, <2>3, NoElements DEF Accounted, Waiting, Fixing, Forwarding, Posting
<1> QED
  BY <1>2, <1>3

\* When chainfix ends, every certificate of its file is in the Log or an error says why
\* not, and when the preloader ends, every entry it found is recorded
\* (EveryCertIsAccounted), for any number of fixers, posters and chains: of certificates
\* that begin with different bytes, as chainfix confuses the others (see IsPostedIsTrue),
\* and of chains that lead to no more certificates than a chain may have, as the search
\* for others ends where it is too deep, without saying so (fixchain/fix.go:173).
THEOREM CertsAreAccounted ==
    HashesDiffer /\ WithinReach => (MCSpec => []EveryCertIsAccounted)
<1> DEFINE Inv == HashesDiffer /\ AccountInv /\ PreloadInv
<1>1. HashesDiffer /\ WithinReach /\ MCInit => Inv
  <2>1. SUFFICES ASSUME HashesDiffer, WithinReach, MCInit PROVE Inv
    OBVIOUS
  <2>2. (X!Init \/ FixIdle) /\ (L!Init \/ PreloaderIdle)
    BY <2>1 DEF MCInit, FixInit
  <2> QED
    BY <2>1, <2>2, AccountInit, PreloadInit
<1>2. Inv /\ [MCNext]_allVars => Inv'
  <2>1. SUFFICES ASSUME Inv, [MCNext]_allVars PROVE Inv'
    OBVIOUS
  <2>2. [X!Next]_xVars /\ [L!Next]_lVars
    BY <2>1 DEF MCNext, FixNext, allVars
  <2>3. AccountInv' /\ PreloadInv'
    BY <2>1, <2>2, AccountStep, PreloadStep
  <2> QED
    BY <2>1, <2>3 DEF HashesDiffer, X!hash, X!Certs
<1>3. Inv => EveryCertIsAccounted
  BY CertsAreAccountedFor, RecordsAreComplete DEF EveryCertIsAccounted
<1> QED
  BY <1>1, <1>2, <1>3, PTL DEF MCSpec
=============================================================================
