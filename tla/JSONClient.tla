---------------------------- MODULE JSONClient -----------------------------
(***************************************************************************)
(* PostAndParseWithRetry of package jsonclient, which LogClient uses to    *)
(* add chains: several callers share one client, and with it one backoff   *)
(* (jsonclient/backoff.go).  Time is counted in seconds; the jitter is     *)
(* shorter than that.  What the server sends matters as its status code    *)
(* and its Retry-After header.                                             *)
(***************************************************************************)
EXTENDS Integers

CONSTANTS
    Callers,
    MaxMultiplier,      \* maxMultiplier (8 in the code), positive
    RetryAfters,        \* values of the Retry-After header, not negative
    MaxTime             \* bound: the clock stops there

VARIABLES
    now,                    \* the clock
    multiplier, notBefore,  \* of the backoff
    pc, wakeAt,             \* callers: where they are, the end of their timer
    ctxDone, result,
    asked                   \* history: the time the server told the caller to wait for

backoffVars == <<multiplier, notBefore>>
callVars == <<pc, wakeAt, ctxDone, result, asked>>
vars == <<now, backoffVars, callVars>>

None == -1      \* no Retry-After header

Larger(a, b) == IF a < b THEN b ELSE a

TypeOK ==
    /\ now \in 0..MaxTime
    /\ multiplier \in 0..MaxMultiplier
    /\ notBefore \in Nat
    /\ pc \in [Callers -> {"idle", "post", "backoff", "waiting", "done"}]
    /\ wakeAt \in [Callers -> Nat]
    /\ ctxDone \in [Callers -> BOOLEAN]
    /\ result \in [Callers -> {"none", "ok", "canceled", "error"}]
    /\ asked \in [Callers -> Nat]

Init ==
    /\ now = 0
    /\ multiplier = 0 /\ notBefore = 0
    /\ pc = [c \in Callers |-> "idle"]
    /\ wakeAt = [c \in Callers |-> 0]
    /\ ctxDone = [c \in Callers |-> FALSE]
    /\ result = [c \in Callers |-> "none"]
    /\ asked = [c \in Callers |-> 0]

----------------------------------------------------------------------------
(***************************************************************************)
(* backoff.set.  A backoff that is in force can only get longer.           *)
(***************************************************************************)
NextMultiplier == IF multiplier < MaxMultiplier THEN multiplier + 1 ELSE multiplier

SetMutant(override) ==
    \/ /\ notBefore > now
       /\ UNCHANGED backoffVars
    \/ /\ notBefore <= now /\ override # None
       /\ notBefore' = now + override
       /\ UNCHANGED multiplier
    \/ /\ notBefore <= now /\ override = None
       /\ multiplier' = NextMultiplier
       /\ notBefore' = now + 2 ^ (multiplier' - 1)
Set(override) ==
    \/ /\ notBefore > now
       /\ notBefore' = Larger(notBefore, now + override)
       /\ UNCHANGED multiplier
    \/ /\ notBefore <= now /\ override # None
       /\ notBefore' = now + override
       /\ UNCHANGED multiplier
    \/ /\ notBefore <= now /\ override = None
       /\ multiplier' = NextMultiplier
       /\ notBefore' = now + 2 ^ (multiplier' - 1)

(***************************************************************************)
(* PostAndParseWithRetry.                                                  *)
(***************************************************************************)
Goto(c, label) == pc' = [pc EXCEPT ![c] = label]
Return(c, r) == Goto(c, "done") /\ result' = [result EXCEPT ![c] = r]

\* The first request is made at once.
Call(c) ==
    /\ pc[c] = "idle"
    /\ Goto(c, "post")
    /\ UNCHANGED <<now, backoffVars, wakeAt, ctxDone, result, asked>>

\* An error that is not the context's own is retried after a backoff.
PostFails(c) ==
    /\ pc[c] = "post"
    /\ Set(None)
    /\ Goto(c, "backoff")
    /\ UNCHANGED <<now, wakeAt, ctxDone, result, asked>>

PostCanceled(c) ==
    /\ pc[c] = "post" /\ ctxDone[c]
    /\ Return(c, "canceled")
    /\ UNCHANGED <<now, backoffVars, wakeAt, ctxDone, asked>>

\* Status 200.  This answer and those below may still be on their way when the
\* context ends, and are then taken as they are.
StatusOK(c) ==
    /\ pc[c] = "post"
    /\ Return(c, "ok")
    /\ UNCHANGED <<now, backoffVars, wakeAt, ctxDone, asked>>

\* Status 408: another try, which waits only if there is a backoff anyway.
StatusRequestTimeout(c) ==
    /\ pc[c] = "post"
    /\ Goto(c, "backoff")
    /\ UNCHANGED <<now, backoffVars, wakeAt, ctxDone, result, asked>>

\* Statuses 503 and 429.
StatusTooManyRequests(c) ==
    /\ pc[c] = "post"
    /\ \E retryAfter \in RetryAfters \cup {None} :
          /\ Set(retryAfter)
          /\ asked' = [asked EXCEPT ![c] = Larger(@, now + retryAfter)]
    /\ Goto(c, "backoff")
    /\ UNCHANGED <<now, wakeAt, ctxDone, result>>

\* Any other status.
StatusOther(c) ==
    /\ pc[c] = "post"
    /\ Return(c, "error")
    /\ UNCHANGED <<now, backoffVars, wakeAt, ctxDone, asked>>

\* waitForBackoff reads notBefore once, and starts a timer.
WaitForBackoff(c) ==
    /\ pc[c] = "backoff"
    /\ wakeAt' = [wakeAt EXCEPT ![c] = Larger(now, notBefore)]
    /\ Goto(c, "waiting")
    /\ UNCHANGED <<now, backoffVars, ctxDone, result, asked>>

WaitEnds(c) ==
    /\ pc[c] = "waiting" /\ now >= wakeAt[c]
    /\ wakeAt' = [wakeAt EXCEPT ![c] = 0]
    /\ Goto(c, "post")
    /\ UNCHANGED <<now, backoffVars, ctxDone, result, asked>>

WaitCanceled(c) ==
    /\ pc[c] = "waiting" /\ ctxDone[c]
    /\ Return(c, "canceled")
    /\ UNCHANGED <<now, backoffVars, wakeAt, ctxDone, asked>>

\* The caller makes another call.
CallAgain(c) ==
    /\ pc[c] = "done" /\ ~ctxDone[c]
    /\ Goto(c, "idle")
    /\ result' = [result EXCEPT ![c] = "none"]
    /\ asked' = [asked EXCEPT ![c] = 0]
    /\ UNCHANGED <<now, backoffVars, wakeAt, ctxDone>>

Cancel(c) ==
    /\ ~ctxDone[c]
    /\ ctxDone' = [ctxDone EXCEPT ![c] = TRUE]
    /\ UNCHANGED <<now, backoffVars, pc, wakeAt, result, asked>>

Tick ==
    /\ now < MaxTime
    /\ now' = now + 1
    /\ UNCHANGED <<backoffVars, callVars>>

Reply(c) ==
    \/ StatusOK(c) \/ StatusRequestTimeout(c) \/ StatusTooManyRequests(c) \/ StatusOther(c)

Next ==
    \/ Tick
    \/ \E c \in Callers :
          \/ Call(c) \/ PostFails(c) \/ PostCanceled(c) \/ Reply(c)
          \/ WaitForBackoff(c) \/ WaitEnds(c) \/ WaitCanceled(c)
          \/ CallAgain(c) \/ Cancel(c)

Spec == Init /\ [][Next]_vars

----------------------------------------------------------------------------
(***************************************************************************)
(* Properties.                                                             *)
(***************************************************************************)
\* A caller that was told to come back after some time does not come back
\* earlier, whatever the other callers do to the common backoff in between
\* (client.go:305, backoff.go:38).
RetryAfterHonoured == \A c \in Callers : pc[c] = "post" => now >= asked[c]
============================================================================
