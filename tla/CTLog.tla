------------------------------- MODULE CTLog -------------------------------
(***************************************************************************)
(* What the personality promises its clients as a Log: one leaf per        *)
(* certificate, SCTs only for leaves that are bound to be merged, a tree   *)
(* to which leaves are only ever appended, heads that are signed as they   *)
(* are and cover the tree of their time, and nobody who asks is told an    *)
(* older head than had been told before.                                   *)
(***************************************************************************)
EXTENDS Integers, Sequences, Functions

CONSTANTS Clients, Certs, Times, Nothing

VARIABLES
    promised,   \* the leaves that are in the tree or will be
    tree,       \* the merged leaves
    heads,      \* the heads published so far
    scts,       \* the SCTs issued
    asked,      \* for each client, the time of a head told when it asked
    told        \* for each client, the signed head it was told or Nothing

vars == <<promised, tree, heads, scts, asked, told>>

Init ==
    /\ promised = {} /\ tree = <<>> /\ scts = {}
    /\ heads = {[size |-> 0, ts |-> 0]}
    /\ asked = [c \in Clients |-> 0]
    /\ told = [c \in Clients |-> Nothing]

\* A certificate that has no leaf yet gets one.
Promise ==
    /\ \E l \in [cert : Certs, ts : Times] :
         /\ \A k \in promised : k.cert # l.cert
         /\ promised' = promised \cup {l}
    /\ UNCHANGED <<tree, heads, scts, asked, told>>

Issue ==
    /\ \E l \in promised : scts' = scts \cup {[timestamp |-> l.ts, signed |-> l]}
    /\ UNCHANGED <<promised, tree, heads, asked, told>>

\* A new head is of the whole tree, and later than the others.
Publish ==
    /\ \E head \in heads' :
         /\ heads' = heads \cup {head}
         /\ head.size = Len(tree') /\ \A h \in heads : h.ts < head.ts
    /\ UNCHANGED <<promised, scts, asked, told>>

Merge ==
    /\ \E l \in promised \ Range(tree) : tree' = Append(tree, l)
    /\ Publish

Refresh == UNCHANGED tree /\ Publish

\* A client, who may know of a head that some client was told, asks for one.
Ask(c) ==
    /\ \E t \in {0} \cup {told[d].head.ts : d \in {e \in Clients : told[e] # Nothing}} :
         asked' = [asked EXCEPT ![c] = t]
    /\ told' = [told EXCEPT ![c] = Nothing]
    /\ UNCHANGED <<promised, tree, heads, scts>>

Tell(c) ==
    /\ \E head \in heads :
         /\ head.ts >= asked[c]
         /\ told' = [told EXCEPT ![c] = [head |-> head, signature |-> head]]
    /\ UNCHANGED <<promised, tree, heads, scts, asked>>

\* The client turns to other matters.
Forget(c) ==
    /\ told' = [told EXCEPT ![c] = Nothing]
    /\ UNCHANGED <<promised, tree, heads, scts, asked>>

Next ==
    \/ Promise \/ Issue \/ Merge \/ Refresh
    \/ \E c \in Clients : Ask(c) \/ Tell(c) \/ Forget(c)

Spec == Init /\ [][Next]_vars
=============================================================================
