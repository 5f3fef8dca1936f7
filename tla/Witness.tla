------------------------------ MODULE Witness ------------------------------
(***************************************************************************)
(* The witness of internal/witness: a service that cosigns the tree heads  *)
(* (STHs) of a CT Log, provided they are consistent with all that it has   *)
(* cosigned before.  Feeders (cmd/feeder) read STHs from the Log and send  *)
(* them to the witness with a consistency proof; pollers (cmd/client) ask  *)
(* the witness for its latest cosigned STH.  The witness keeps one row per *)
(* Log in a database; the rows of different Logs do not affect each other, *)
(* so there is one Log here.                                               *)
(*                                                                         *)
(* A tree head is the sequence of the leaves it covers: heads of the same  *)
(* size have the same root hash iff they are equal, and a consistency      *)
(* proof between two heads exists iff one is a prefix of the other.  The   *)
(* Log may show different histories to different feeders.                  *)
(***************************************************************************)
EXTENDS Integers, Sequences, FiniteSets

CONSTANTS
    Leaves,     \* what the Log may append
    Feeders,    \* feeder processes, one goroutine each for this Log
    Pollers,    \* client processes
    Modes,      \* the values of honest
    MaxSize,    \* bound on the size of the Log
    None        \* no STH

ASSUME ModesAssumption == Modes \subseteq BOOLEAN
ASSUME SizeAssumption == MaxSize \in Nat
ASSUME NoneAssumption == None \notin Seq(Leaves) \cup Feeders

VARIABLES
    honest,     \* the Log shows one history to everybody
    view,       \* the head the Log shows to each feeder
    \* the witness
    row,        \* the STH stored for the Log, or None
    conn,       \* the request that holds the only database connection, or None
    prev,       \* per request: the row read in its transaction
    cosigned,   \* every head the witness has put its signature on
    \* feeders: where each is, its STH of the Log, the proof, and l.wsth
    pc, csth, proof, wsth,
    \* pollers: l.wsth
    seen,
    \* requests fail and the witness crashes no more
    calm

logVars == <<honest, view>>
witnessVars == <<row, conn, prev, cosigned>>
feederVars == <<pc, csth, proof, wsth>>
pollerVars == <<seen>>
vars == <<logVars, witnessVars, feederVars, pollerVars, calm>>

Heads == Seq(Leaves)

\* There is a consistency proof from head s to head t.
Prefix(s, t) == Len(s) <= Len(t) /\ \A i \in 1..Len(s) : s[i] = t[i]

TypeOK ==
    /\ honest \in BOOLEAN
    /\ view \in [Feeders -> Heads]
    /\ row \in Heads \cup {None}
    /\ conn \in Feeders \cup {None}
    /\ prev \in [Feeders -> Heads \cup {None}]
    /\ cosigned \subseteq Heads
    /\ pc \in [Feeders -> {"idle", "size", "proof", "begin", "read", "decide", "sign"}]
    /\ csth \in [Feeders -> Heads]
    /\ proof \in [Feeders -> Heads]
    /\ wsth \in [Feeders -> Heads \cup {None}]
    /\ seen \in [Pollers -> Heads \cup {None}]
    /\ calm \in BOOLEAN

Init ==
    /\ honest \in Modes
    /\ view = [f \in Feeders |-> <<>>]
    /\ row = None
    /\ conn = None
    /\ prev = [f \in Feeders |-> None]
    /\ cosigned = {}
    /\ pc = [f \in Feeders |-> "idle"]
    /\ csth = [f \in Feeders |-> <<>>]
    /\ proof = [f \in Feeders |-> <<>>]
    /\ wsth = [f \in Feeders |-> None]
    /\ seen = [c \in Pollers |-> None]
    /\ calm = FALSE

---------------------------------------------------------------------------
(* The Log, and the end of failures.                                       *)

CalmDown ==
    /\ ~calm
    /\ calm' = TRUE
    /\ UNCHANGED <<logVars, witnessVars, feederVars, pollerVars>>

LogGrows(f, x) ==
    /\ Len(view[f]) < MaxSize
    /\ view' = IF honest THEN [g \in Feeders |-> Append(view[f], x)]
               ELSE [view EXCEPT ![f] = Append(@, x)]
    /\ UNCHANGED <<honest, witnessVars, feederVars, seen, calm>>

---------------------------------------------------------------------------
(* The feeder: feedOnce and latestSize.                                    *)

Goto(f, from, to) ==
    /\ pc[f] = from
    /\ pc' = [pc EXCEPT ![f] = to]

\* The size of the witness' STH as far as the feeder knows it.
KnownSize(w) == IF w = None THEN 0 ELSE Len(w)

\* feedOnce: the latest STH of the Log.
FetchSTH(f) ==
    /\ Goto(f, "idle", "size")
    /\ csth' = [csth EXCEPT ![f] = view[f]]
    /\ UNCHANGED <<logVars, witnessVars, proof, wsth, seen, calm>>

\* The witness' GetSTH, which answers from the row: it is signed right then.
GetSTH == conn = None

\* latestSize: the cached STH, or the one the witness gives; NotFound means 0.
LatestSize(f) ==
    /\ pc[f] = "size"
    /\ \/ /\ wsth[f] # None
          /\ UNCHANGED <<wsth, cosigned>>
       \/ /\ wsth[f] = None
          /\ GetSTH
          /\ wsth' = [wsth EXCEPT ![f] = row]
          /\ cosigned' = IF row = None THEN cosigned ELSE cosigned \cup {row}
    /\ pc' = [pc EXCEPT ![f] = IF KnownSize(wsth'[f]) >= Len(csth[f]) THEN "idle" ELSE "proof"]
    /\ UNCHANGED <<logVars, row, conn, prev, csth, proof, seen, calm>>

\* GetSTHConsistency: the Log proves what it showed this feeder.
GetProof(f) ==
    /\ Goto(f, "proof", "begin")
    /\ proof' = [proof EXCEPT ![f] = SubSeq(csth[f], 1, KnownSize(wsth[f]))]
    /\ UNCHANGED <<logVars, witnessVars, csth, wsth, seen, calm>>

\* The feeder's timeout, a failing request, a database error: feedOnce ends, and the
\* cancelled context rolls the transaction back, if there is one that is not
\* committed yet.
GiveUpMutant(f) ==
    /\ ~calm
    /\ pc[f] # "idle"
    /\ pc' = [pc EXCEPT ![f] = "idle"]
    /\ UNCHANGED <<logVars, row, conn, prev, cosigned, csth, proof, wsth, seen, calm>>
GiveUp(f) ==
    /\ ~calm
    /\ pc[f] # "idle"
    /\ pc' = [pc EXCEPT ![f] = "idle"]
    /\ conn' = IF conn = f THEN None ELSE conn
    /\ UNCHANGED <<logVars, row, prev, cosigned, csth, proof, wsth, seen, calm>>

\* The answer to Update: the feeder takes it, be it a success or ErrSTHTooOld.
Reply(f, head) ==
    /\ pc' = [pc EXCEPT ![f] = "idle"]
    /\ wsth' = [wsth EXCEPT ![f] = head]

---------------------------------------------------------------------------
(* The witness: Update.                                                    *)

\* BeginTx waits for the connection (SetMaxOpenConns(1)).
BeginTx(f) ==
    /\ conn = None
    /\ Goto(f, "begin", "read")
    /\ conn' = f
    /\ UNCHANGED <<logVars, row, prev, cosigned, csth, proof, wsth, seen, calm>>

\* getLatestSTH in the transaction.
ReadRow(f) ==
    /\ Goto(f, "read", "decide")
    /\ prev' = [prev EXCEPT ![f] = row]
    /\ UNCHANGED <<logVars, row, conn, cosigned, csth, proof, wsth, seen, calm>>

\* proof.VerifyConsistency, for a head bigger than prev.
VerifyConsistencyMutant(f) == Prefix(proof[f], csth[f])
VerifyConsistency(f) == proof[f] = prev[f] /\ Prefix(prev[f], csth[f])

\* next may replace prev: trust on first use, or a bigger head with a valid proof.
AcceptsMutant(f) ==
    \/ prev[f] = None
    \/ prev[f] # None /\ csth[f] # prev[f] /\ (VerifyConsistency(f) \/ Prefix(csth[f], prev[f]))
Accepts(f) ==
    \/ prev[f] = None
    \/ prev[f] # None /\ Len(csth[f]) > Len(prev[f]) /\ VerifyConsistency(f)

\* setSTH stores nextRaw and commits.
Store(f) ==
    /\ Goto(f, "decide", "sign")
    /\ Accepts(f)
    /\ row' = csth[f]
    /\ conn' = None
    /\ UNCHANGED <<logVars, prev, cosigned, csth, proof, wsth, seen, calm>>

\* Update answers prevRaw as it was stored: for a smaller head, another head of the
\* same size or a bad proof with FailedPrecondition, for the same head without error.
Keep(f) ==
    /\ pc[f] = "decide"
    /\ ~Accepts(f)
    /\ conn' = None
    /\ Reply(f, prev[f])
    /\ UNCHANGED <<logVars, row, prev, cosigned, csth, proof, seen, calm>>

\* signSTH, after the commit.
Sign(f) ==
    /\ pc[f] = "sign"
    /\ cosigned' = cosigned \cup {csth[f]}
    /\ Reply(f, csth[f])
    /\ UNCHANGED <<logVars, row, conn, prev, csth, proof, seen, calm>>

\* The witness dies: every request is lost, what was committed stays.
Crash ==
    /\ ~calm
    /\ pc' = [f \in Feeders |-> IF pc[f] \in {"begin", "read", "decide", "sign"} THEN "idle" ELSE pc[f]]
    /\ conn' = None
    /\ UNCHANGED <<logVars, row, prev, cosigned, csth, proof, wsth, seen, calm>>

---------------------------------------------------------------------------
(* The poller: getOnce verifies both signatures and replaces its STH.      *)

GetOnce(c) ==
    /\ GetSTH
    /\ row # None
    /\ cosigned' = cosigned \cup {row}
    /\ seen' = [seen EXCEPT ![c] = row]
    /\ UNCHANGED <<logVars, row, conn, prev, feederVars, calm>>

---------------------------------------------------------------------------
FeederStep(f) ==
    \/ FetchSTH(f) \/ LatestSize(f) \/ GetProof(f)
    \/ BeginTx(f) \/ ReadRow(f) \/ Store(f) \/ Keep(f) \/ Sign(f)

Next ==
    \/ \E f \in Feeders : FeederStep(f) \/ GiveUp(f) \/ \E x \in Leaves : LogGrows(f, x)
    \/ CalmDown \/ Crash
    \/ \E c \in Pollers : GetOnce(c)

\* A feeder polls for ever (its ticker) and its requests are served; failures may be
\* many, but they come to an end.
Fairness == WF_vars(CalmDown) /\ \A f \in Feeders : WF_vars(FeederStep(f))

Spec == Init /\ [][Next]_vars /\ Fairness

---------------------------------------------------------------------------
(* Properties.                                                             *)

\* All the heads that the witness has ever cosigned lie on one history, whatever the
\* Log shows to whom and however the requests interleave ("consistent with all other
\* STHs for the same log signed by this witness", GetSTH).
CosignedConsistent == \A s, t \in cosigned : Prefix(s, t) \/ Prefix(t, s)

\* A poller that has seen a cosigned head is later shown only heads that extend it.
PollersNeverGoBack ==
    [][\A c \in Pollers : seen[c] # None => seen'[c] # None /\ Prefix(seen[c], seen'[c])]_seen

\* What the witness is for its clients: requests, transactions and crashes are hidden.
Promise ==
    INSTANCE CosignedHistory WITH held <- row, signed <- cosigned, shown <- seen, Clients <- Pollers

\* The witness implements CosignedHistory: the row is replaced only by a head that
\* extends it, what is signed, even long after its commit, lies on the history of the row,
\* and pollers are shown the row (witness.go: GetSTH, Update, setSTH).
KeepsOneHistory == Promise!Spec

\* With an honest Log the witness comes to hold every size the Log reaches, in spite of
\* stale feeders, lost answers and crashes.
CatchesUp ==
    \A n \in 1..MaxSize :
        (honest /\ \A f \in Feeders : Len(view[f]) >= n) ~> (row # None /\ Len(row) >= n)
=============================================================================
