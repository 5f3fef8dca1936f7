----------------------------- MODULE RangeCopy -----------------------------
(***************************************************************************)
(* What Fetcher.Run promises to the callback and to its caller, whatever   *)
(* the workers do: entries from First on are handed over piece by piece,   *)
(* none of them twice and none beyond the limit, and when Run returns      *)
(* there is no hole in what was handed over, nor is anything missing,      *)
(* unless the caller put an end to it.                                     *)
(***************************************************************************)
EXTENDS Integers

CONSTANT First          \* FetcherOptions.StartIndex

VARIABLES
    size,               \* of the Log
    limit, follow,      \* FetcherOptions.EndIndex and Continuous
    seen,               \* the indices of the entries handed over
    phase,              \* of Run
    stopped, cancelled  \* Stop was called, the context is done

vars == <<size, limit, follow, seen, phase, stopped, cancelled>>

Init ==
    /\ size \in Nat /\ limit \in Nat /\ follow \in BOOLEAN
    /\ seen = {} /\ phase = "idle" /\ ~stopped /\ ~cancelled

Grow ==
    /\ size' > size
    /\ UNCHANGED <<limit, follow, seen, phase, stopped, cancelled>>

Cut ==
    /\ (stopped => stopped') /\ (cancelled => cancelled')
    /\ UNCHANGED <<size, limit, follow, seen, phase>>

\* The range is fitted to the Log, if the Log can be asked.
Open ==
    /\ phase = "idle" /\ phase' = "open"
    /\ limit' = IF limit = 0 \/ limit > size THEN size ELSE limit
    /\ UNCHANGED <<size, follow, seen, stopped, cancelled>>

Fail ==
    /\ phase = "idle" /\ phase' = "failed"
    /\ UNCHANGED <<size, limit, follow, seen, stopped, cancelled>>

\* The end moves with the Log.
Extend ==
    /\ phase \in {"open", "returned"} /\ follow
    /\ limit' > limit /\ limit' <= size
    /\ UNCHANGED <<size, follow, seen, phase, stopped, cancelled>>

\* A batch of entries that are new to the callback.
Copy ==
    /\ phase = "open"
    /\ \E lo, hi \in 0..(limit - 1) :
         /\ lo <= hi /\ lo..hi \cap seen = {}
         /\ ~follow => First <= lo
         /\ seen' = seen \cup lo..hi
    /\ UNCHANGED <<size, limit, follow, phase, stopped, cancelled>>

\* Up to some entry all were handed over; only Stop and a context that is done leave
\* a rest of a range that does not move.
Return ==
    /\ phase = "open" /\ phase' = "returned"
    /\ cancelled \/ \E last \in First..(First + limit) :
         /\ {i \in seen : First <= i} = First..(last - 1)
         /\ ~stopped /\ ~follow => last >= limit
    /\ UNCHANGED <<size, limit, follow, seen, stopped, cancelled>>

Next == Grow \/ Cut \/ Open \/ Fail \/ Extend \/ Copy \/ Return

Spec == Init /\ [][Next]_vars
=============================================================================
