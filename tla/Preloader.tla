----------------------------- MODULE Preloader -----------------------------
(***************************************************************************)
(* The preloader copies the entries of one log into another: matchers of a *)
(* Scanner hand entries to a pool of submitters for each of the two kinds, *)
(* and what came of each goes to a goroutine that writes it to a file.     *)
(*                                                                         *)
(* Scan is modelled by what module Scanner shows of it: every match is     *)
(* handed to a callback once, and it returns when all callbacks have.      *)
(***************************************************************************)
EXTENDS Integers, Sequences, FiniteSets

CONSTANTS
    Batches,            \* what a Scan may find: sets of entries with kind and parses
    Matchers,           \* the Scanner's workers
    Submitters,         \* parallelSubmit of each kind
    BufferSize

VARIABLES
    found, left,        \* the entries Scan finds, and those not yet handed over
    matcher,            \* each matcher: the entry its callback is to send, or none
    queue,              \* the channels certs and precerts
    submitter,          \* for each kind, each submitter: what it is doing
    addedCerts,         \* the channel of results
    file,               \* what was written
    sent,               \* entries the target log gave an SCT for
    stage               \* of main: what it waits for, or how it ended

vars == <<found, left, matcher, queue, submitter, addedCerts, file, sent, stage>>

Kinds == {"cert", "precert"}
None == [at |-> "none"]

Init ==
    /\ found \in Batches /\ left = found
    /\ matcher = [m \in Matchers |-> None]
    /\ queue = [k \in Kinds |-> <<>>]
    /\ submitter = [k \in Kinds |-> [s \in Submitters |-> None]]
    /\ addedCerts = <<>> /\ file = <<>> /\ sent = {} /\ stage = "scan"

Running == stage \notin {"ended", "fatal", "panic"}
----------------------------------------------------------------------------
(* The callbacks addChainFunc and addPreChainFunc.                         *)

Callback(m, kind) ==
    /\ Running /\ matcher[m] = None
    /\ \E e \in left :
         /\ e.kind = kind
         /\ left' = left \ {e}
         /\ matcher' = [matcher EXCEPT ![m] = IF e.parses THEN [at |-> "send", entry |-> e] ELSE None]
    /\ UNCHANGED <<found, queue, submitter, addedCerts, file, sent, stage>>

addChainFunc(m) == Callback(m, "cert")
addPreChainFunc(m) == Callback(m, "precert")

\* A send on a closed channel would panic.
SendEntry(m) ==
    /\ Running /\ matcher[m] # None
    /\ LET e == matcher[m].entry
       IN /\ Len(queue[e.kind]) < BufferSize
          /\ queue' = [queue EXCEPT ![e.kind] = Append(@, e)]
    /\ matcher' = [matcher EXCEPT ![m] = None]
    /\ stage' = IF stage = "scan" THEN stage ELSE "panic"
    /\ UNCHANGED <<found, left, submitter, addedCerts, file, sent>>

----------------------------------------------------------------------------
(* certSubmitter and precertSubmitter.                                     *)

Submit(kind, s) ==
    /\ Running /\ submitter[kind][s] = None /\ queue[kind] # <<>>
    /\ submitter' = [submitter EXCEPT ![kind][s] = [at |-> "add", entry |-> Head(queue[kind])]]
    /\ queue' = [queue EXCEPT ![kind] = Tail(@)]
    /\ UNCHANGED <<found, left, matcher, addedCerts, file, sent, stage>>

certSubmitter(s) == Submit("cert", s)
precertSubmitter(s) == Submit("precert", s)

\* The target log (external), with or without the answer getting back.
AddChain(kind, s) ==
    /\ Running /\ submitter[kind][s].at = "add"
    /\ \E ok, answered \in BOOLEAN :
         /\ sent' = IF ok THEN sent \cup {submitter[kind][s].entry} ELSE sent
         /\ submitter' = [submitter EXCEPT ![kind][s] = [at |-> IF ok /\ answered THEN "recordSct" ELSE "recordFailure", entry |-> @.entry]]
    /\ UNCHANGED <<found, left, matcher, queue, addedCerts, file, stage>>

Record(kind, s, ok) ==
    /\ Running /\ Len(addedCerts) < BufferSize
    /\ addedCerts' = Append(addedCerts, [entry |-> submitter[kind][s].entry, ok |-> ok])
    /\ submitter' = [submitter EXCEPT ![kind][s] = None]
    /\ stage' = IF stage \in {"scan", "submitters"} THEN stage ELSE "panic"
    /\ UNCHANGED <<found, left, matcher, queue, file, sent>>

recordSct(kind, s) == submitter[kind][s].at = "recordSct" /\ Record(kind, s, TRUE)
recordFailure(kind, s) == submitter[kind][s].at = "recordFailure" /\ Record(kind, s, FALSE)

----------------------------------------------------------------------------
\* sctDumper: the preloader exits when it cannot write.
sctDumper ==
    /\ Running /\ addedCerts # <<>>
    /\ \/ /\ file' = Append(file, Head(addedCerts)) /\ addedCerts' = Tail(addedCerts)
          /\ UNCHANGED stage
       \/ stage' = "fatal" /\ UNCHANGED <<file, addedCerts>>
    /\ UNCHANGED <<found, left, matcher, queue, submitter, sent>>

\* main: Scan returns and the two channels are closed, then that of the
\* results when the submitters are done, then the file when they are written.
main ==
    /\ \/ stage = "scan" /\ left = {} /\ (\A m \in Matchers : matcher[m] = None) /\ stage' = "submitters"
       \/ /\ stage = "submitters" /\ stage' = "dumper"
          /\ \A k \in Kinds : queue[k] = <<>> /\ \A s \in Submitters : submitter[k][s] = None
       \/ stage = "dumper" /\ addedCerts = <<>> /\ stage' = "ended"
    /\ UNCHANGED <<found, left, matcher, queue, submitter, addedCerts, file, sent>>

MatcherStep(m) == addChainFunc(m) \/ addPreChainFunc(m) \/ SendEntry(m)
SubmitterStep(k, s) == AddChain(k, s) \/ recordSct(k, s) \/ recordFailure(k, s)

Next ==
    \/ \E m \in Matchers : MatcherStep(m)
    \/ \E s \in Submitters : certSubmitter(s) \/ precertSubmitter(s)
    \/ \E k \in Kinds, s \in Submitters : SubmitterStep(k, s)
    \/ sctDumper \/ main

\* Every goroutine goes on as long as it can; a request ends.
Fairness ==
    /\ \A m \in Matchers : WF_vars(MatcherStep(m))
    /\ \A k \in Kinds, s \in Submitters : WF_vars(Submit(k, s) \/ SubmitterStep(k, s))
    /\ WF_vars(sctDumper) /\ WF_vars(main)

Spec == Init /\ [][Next]_vars /\ Fairness
----------------------------------------------------------------------------
\* When the preloader ends, the file has one record of every entry that could
\* be parsed, of either kind, and none that claims an SCT nobody gave; until
\* then nothing is sent on a channel that was closed.
EveryEntryIsRecorded ==
    /\ stage # "panic"
    /\ stage = "ended" =>
         /\ Len(file) = Cardinality({e \in found : e.parses})
         /\ {file[i].entry : i \in DOMAIN file} = {e \in found : e.parses}
    /\ \A i \in DOMAIN file : file[i].ok => file[i].entry \in sent

\* The preloader ends, whatever its channels can hold.
PreloaderEnds == <>~Running
=============================================================================
