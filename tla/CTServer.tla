------------------------------ MODULE CTServer ------------------------------
(***************************************************************************)
(* What stands around the personality: the validation of the chains that   *)
(* clients submit (ChainValidation, V!), the configuration ct_server       *)
(* starts from (LogConfig, C!) and the load test that is run against the   *)
(* server (Hammer, H!), side by side under names that leave room for the   *)
(* personality's own.  MCCertificates gives them values, CTFEProofs proves *)
(* what they promise.                                                      *)
(***************************************************************************)
CONSTANTS
    Unset,                  \* a limit, a chain, an STH or a field of a configuration that is not there
    Chains, TrustedRoots, OptionSets, maxChainSignatureChecks, Garbage,           \* of ChainValidation
    Malformed,                                                                    \* of LogConfig
    Source, TargetRoots, NotAfterStart, NotAfterLimit, Existing, MMD, SctCount, SthCount,   \* of Hammer
    InvalidStretch, MaxParallelChains, GetEntriesCounts, Bias, InvalidChance, DuplicateChance,
    StrictSTHConsistencySize, OversizedGetEntries, Operations, MaxRetries, MaxTime

VARIABLES
    input,      \* which of the programs runs, or what a function is asked, in a tagged record
    submitted, trusted, options, parsed, pool, stack, cache, sigChecks, phase, result,
    pos, drained, clock, entries, size, firstChain, firstChainIntegrated, heads, toProve, nextOp,
    op, tries, adders, count, cancelled, outcome, complaint

V == INSTANCE ChainValidation WITH roots <- trusted, None <- Unset
C == INSTANCE LogConfig WITH Absent <- Unset
H == INSTANCE Hammer WITH now <- clock, sth <- heads, pending <- toProve, Nil <- Unset

ASSUME ValidationAssumption == V!WellFormed
ASSUME HammerAssumption == H!WellFormed

\* ValidateChain accepts a submission only in the order of a path to a trusted root, and
\* every such submission within the limit of signature checks; chains that Verify returns,
\* also from its cache, are paths to a root with the usages asked for (cert_checker.go:
\* ValidateChain; verify.go: Verify, buildChains).
AcceptsPathsOnly == V!AcceptsPathsOnly

\* When ct_server serves, every log of its configuration has paths of its own, no two
\* logs share a tree of a backend, and a log is served as its configuration says: only
\* one that can sign takes chains, a frozen head is one its key has signed
\* (config.go: ValidateLogMultiConfig; instance.go: setUpLogInfo; ct_server/main.go).
ServesItsOwn ==
    input.kind = "config" =>
        C!ServesItsOwn([cfgs |-> input.cfgs, backends |-> input.backends],
                       input.flags.rpcBackend, input.flags.prefix)

\* The hammer never complains about a Log that keeps its promises: chains of the
\* generator are taken, what is due is proved and requests that should be refused are,
\* in spite of heads, leaves and duplicates of earlier times (hammer.go, copier.go).
NoFalseAlarm == input.kind = "hammer" => H!NoFalseAlarm
=============================================================================
