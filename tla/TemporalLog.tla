---------------------------- MODULE TemporalLog ----------------------------
(***************************************************************************)
(* The TemporalLogClient of client/multilog.go: a client for a Log that is *)
(* split into shards by the expiry date of the certificates.  Building it  *)
(* walks over the configured shards; adding a chain picks the shard for    *)
(* the certificate's date; GetAcceptedRoots asks all shards at once and    *)
(* unites what they return.                                                *)
(***************************************************************************)
EXTENDS Integers, Sequences, FiniteSets

CONSTANTS
    Dates,          \* of NotAfter, and of the bounds of shards
    Nil,            \* no bound
    Bad,            \* a timestamp that CheckValid refuses
    MaxShards,      \* bound on the number of shards
    Roots           \* root certificates

ASSUME DatesAssumption == Dates \subseteq Int
ASSUME NilAssumption == Nil \notin Dates /\ Bad \notin Dates /\ Nil # Bad
ASSUME ShardsAssumption == MaxShards \in Nat
ASSUME RootsAssumption == IsFiniteSet(Roots)

Bounds == Dates \cup {Nil, Bad}
Shards == [lower : Bounds, upper : Bounds]
Intervals == [lower : Dates \cup {Nil}, upper : Dates \cup {Nil}]
NoInterval == [lower |-> Nil, upper |-> Nil]

VARIABLES
    cfg,            \* TemporalLogConfig: the shards
    \* NewTemporalLogClient
    build,          \* where it is: "first", "next", "clients", "ready", "failed"
    overall, intervals,
    \* addChain: the date of the certificate, and the shard it went to
    adding, routed,
    \* GetAcceptedRoots
    accepted,       \* what each shard would answer; its roots
    fails,          \* the shards whose get-roots fails
    call,           \* "idle", "running", "ok", "error"
    asked,          \* shards whose goroutine has not sent its result
    results,        \* the channel, with room for one result per shard
    received,       \* how many results were received
    seen, nRoots    \* the roots seen; the length of allRoots

buildVars == <<build, overall, intervals>>
addVars == <<adding, routed>>
rootVars == <<call, asked, results, received, seen, nRoots>>
vars == <<cfg, buildVars, addVars, accepted, fails, rootVars>>

NumShards == Len(cfg)
ShardNumbers == 1..NumShards

TypeOK ==
    /\ cfg \in Seq(Shards)
    /\ build \in {"first", "next", "clients", "ready", "failed"}
    /\ overall \in Intervals
    /\ intervals \in Seq(Intervals)
    /\ adding \in Dates \cup {Nil}
    /\ routed \in Int
    /\ call \in {"idle", "running", "ok", "error"}
    /\ asked \subseteq ShardNumbers
    /\ results \in Seq(ShardNumbers) /\ Len(results) <= NumShards
    /\ received \in 0..NumShards
    /\ seen \subseteq Roots
    /\ nRoots \in Nat

Init ==
    /\ cfg \in UNION {[1..n -> Shards] : n \in 0..MaxShards}
    /\ build = "first" /\ overall = NoInterval /\ intervals = <<>>
    /\ adding = Nil /\ routed = 0
    /\ accepted \in [1..MaxShards -> SUBSET Roots]
    /\ fails \in SUBSET (1..MaxShards)
    /\ call = "idle" /\ asked = {} /\ results = <<>> /\ received = 0
    /\ seen = {} /\ nRoots = 0

----------------------------------------------------------------------------
(* shardInterval, NewTemporalLogClient.                                    *)

\* shardInterval succeeds.
ValidShard(s) ==
    /\ Bad \notin {s.lower, s.upper}
    /\ Nil \in {s.lower, s.upper} \/ s.lower < s.upper

BuildFails ==
    /\ build' = "failed"
    /\ UNCHANGED <<overall, intervals>>

FirstShard ==
    /\ build = "first"
    /\ IF NumShards > 0 /\ ValidShard(cfg[1])
       THEN /\ build' = "next"
            /\ overall' = cfg[1]
            /\ intervals' = <<cfg[1]>>
       ELSE BuildFails
    /\ UNCHANGED <<cfg, addVars, accepted, fails, rootVars>>

\* The shard extends the overall interval without a gap.
ExtendsMutant(s) == s.lower # Nil /\ overall.upper # Nil /\ s.lower <= overall.upper
Extends(s) == s.lower # Nil /\ overall.upper # Nil /\ s.lower = overall.upper

NextShard ==
    LET i == Len(intervals) + 1 IN
    /\ build = "next"
    /\ i <= NumShards
    /\ IF ValidShard(cfg[i]) /\ Extends(cfg[i])
       THEN /\ overall' = [overall EXCEPT !.upper = cfg[i].upper]
            /\ intervals' = Append(intervals, cfg[i])
            /\ UNCHANGED build
       ELSE BuildFails
    /\ UNCHANGED <<cfg, addVars, accepted, fails, rootVars>>

LastShard ==
    /\ build = "next"
    /\ Len(intervals) = NumShards
    /\ build' = "clients"
    /\ UNCHANGED <<cfg, overall, intervals, addVars, accepted, fails, rootVars>>

\* The clients of the shards are made, or one cannot be: its key does not parse.
MakeClients ==
    /\ build = "clients"
    /\ build' \in {"ready", "failed"}
    /\ UNCHANGED <<cfg, overall, intervals, addVars, accepted, fails, rootVars>>

----------------------------------------------------------------------------
(* IndexByDate, addChain.  A chain that is empty or does not parse is      *)
(* refused before anything else happens.                                   *)

Within(date, interval) ==
    /\ interval.lower # Nil => date >= interval.lower
    /\ interval.upper # Nil => date < interval.upper

\* i is what IndexByDate returns, counted from 1; 0 stands for its error.
IsIndexByDate(i, date) ==
    \/ /\ i \in DOMAIN intervals /\ Within(date, intervals[i])
       /\ \A j \in 1..(i - 1) : ~Within(date, intervals[j])
    \/ i = 0 /\ \A j \in DOMAIN intervals : ~Within(date, intervals[j])

\* A chain whose first certificate expires at date.
AddChain(date) ==
    /\ build = "ready"
    /\ adding' = date
    /\ \E i \in 0..NumShards : IsIndexByDate(i, date) /\ routed' = i
    /\ UNCHANGED <<cfg, buildVars, accepted, fails, rootVars>>

----------------------------------------------------------------------------
(* GetAcceptedRoots.                                                       *)

GetAcceptedRoots ==
    /\ build = "ready" /\ call = "idle"
    /\ call' = "running"
    /\ asked' = ShardNumbers
    /\ UNCHANGED <<cfg, buildVars, addVars, accepted, fails, results, received, seen, nRoots>>

\* results <- r: the channel has room for the result of every shard.
CanSend == Len(results) < NumShards
ShardAnswers(i) ==
    /\ i \in asked
    /\ CanSend
    /\ asked' = asked \ {i}
    /\ results' = Append(results, i)
    /\ UNCHANGED <<cfg, buildVars, addVars, accepted, fails, call, received, seen, nRoots>>

\* The roots that are appended to allRoots.
NewRootsMutant(i) == accepted[i]
NewRoots(i) == accepted[i] \ seen

\* r := <-results; the first error ends the call.
AfterResult(i) ==
    IF i \in fails THEN "error" ELSE IF received + 1 = NumShards THEN "ok" ELSE "running"
ReceiveResult ==
    LET i == Head(results) IN
    /\ call = "running" /\ results # <<>>
    /\ results' = Tail(results)
    /\ received' = received + 1
    /\ call' = AfterResult(i)
    /\ IF i \in fails THEN UNCHANGED <<seen, nRoots>>
       ELSE seen' = seen \cup accepted[i] /\ nRoots' = nRoots + Cardinality(NewRoots(i))
    /\ UNCHANGED <<cfg, buildVars, addVars, accepted, fails, asked>>

----------------------------------------------------------------------------
BuildStep == FirstShard \/ NextShard \/ LastShard \/ MakeClients

Next ==
    \/ BuildStep
    \/ \E date \in Dates : AddChain(date)
    \/ GetAcceptedRoots \/ ReceiveResult
    \/ \E i \in ShardNumbers : ShardAnswers(i)

Spec == Init /\ [][Next]_vars

----------------------------------------------------------------------------
(***************************************************************************)
(* Properties.                                                             *)
(***************************************************************************)
\* A configuration that is accepted splits time: every date of the overall interval
\* lies in exactly one shard, and every other date in none (multilog.go:103).
ShardsPartition ==
    build = "ready" =>
        \A d \in Dates :
            /\ Within(d, overall) <=> \E i \in ShardNumbers : Within(d, cfg[i])
            /\ \A i, j \in ShardNumbers : Within(d, cfg[i]) /\ Within(d, cfg[j]) => i = j

\* A chain goes to the one shard whose interval holds its date, and is refused only if
\* no shard holds it: the shards of an accepted configuration do not overlap
\* (multilog.go:197, 103).
RoutedToItsShard ==
    adding # Nil =>
        /\ routed \in 0..NumShards
        /\ \A i \in ShardNumbers : Within(adding, cfg[i]) <=> i = routed

\* The roots returned are the union of those of all shards, each once, in whatever order
\* the shards answer; if a shard fails there are none (multilog.go:145).
RootsAreUnion ==
    /\ call = "ok" =>
        /\ fails \cap ShardNumbers = {}
        /\ seen = UNION {accepted[i] : i \in ShardNumbers}
        /\ nRoots = Cardinality(seen)
    /\ call = "error" => fails \cap ShardNumbers # {}
============================================================================
