-------------------------- MODULE CosignedHistory --------------------------
(***************************************************************************)
(* What a witness promises about a Log, whatever the Log shows to whom: it *)
(* holds one head, which is only ever replaced by one that extends it,     *)
(* signs what lies on the history of that head, and shows clients the head *)
(* it holds.  Hence all it signs is consistent and no client goes back.    *)
(***************************************************************************)
EXTENDS Integers, Sequences

CONSTANTS Heads, Clients, None

VARIABLES
    held,       \* the head of the Log, None before the first
    signed,     \* the heads signed so far
    shown       \* per client: the head it was shown last

vars == <<held, signed, shown>>

IsBelow(s, t) == Len(s) <= Len(t) /\ \A i \in 1..Len(s) : s[i] = t[i]

Init == held = None /\ signed = {} /\ shown = [c \in Clients |-> None]

\* Trust on first use, then only growth.
Advance ==
    /\ held' \in Heads
    /\ held # None => Len(held) < Len(held') /\ IsBelow(held, held')
    /\ UNCHANGED <<signed, shown>>

Cosign ==
    /\ held # None
    /\ \E h \in signed' : IsBelow(h, held) /\ signed' = signed \cup {h}
    /\ UNCHANGED <<held, shown>>

Show(c) ==
    /\ held # None
    /\ signed' = signed \cup {held}
    /\ shown' = [shown EXCEPT ![c] = held]
    /\ UNCHANGED held

Next == Advance \/ Cosign \/ \E c \in Clients : Show(c)

Spec == Init /\ [][Next]_vars
=============================================================================
