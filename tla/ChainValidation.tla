-------------------------- MODULE ChainValidation --------------------------
(***************************************************************************)
(* How the personality decides whether it takes a submitted chain:         *)
(* ValidateChain (trillian/ctfe/cert_checker.go) checks the leaf, lets     *)
(* x509's Verify build all the chains it can from the leaf to a trusted    *)
(* root, with the rest of the submission as intermediates, and accepts if  *)
(* one of them is the submission.  Other callers of Verify (the fixchain   *)
(* tool, the scanner's matchers) use it with all its checks: here they     *)
(* submit with strict = TRUE and get all chains.                           *)
(*                                                                         *)
(* buildChains is a depth-first search with a limit on signature checks    *)
(* and a cache that maps an intermediate to the chains found when it was   *)
(* first met, with the certificates that led to it then.                   *)
(*                                                                         *)
(* A certificate is a record; a signature is the name of the key that made *)
(* it, an absent key id, pathLen or date is None, and basic tells whether  *)
(* there are basic constraints and what they say.                          *)
(***************************************************************************)
EXTENDS NameConstraints, FiniteSets

CONSTANTS
    Chains,         \* what may be submitted: sequences of certificates or Garbage
    TrustedRoots,   \* the root pools a caller may have: sequences of certificates
    OptionSets,     \* the validation options
    maxChainSignatureChecks,
    Garbage,        \* bytes that are not a certificate
    None

\* A submission has at least one certificate (an empty chain never comes so far), and
\* the limit is a number.
Certs == UNION {Range(s) : s \in Chains \cup TrustedRoots}
WellFormed ==
    /\ Chains \subseteq Seq(Certs) \ {<<>>}
    /\ TrustedRoots \subseteq Seq(Certs)
    /\ maxChainSignatureChecks \in Nat

VARIABLES
    submitted, roots, options,
    parsed,     \* how many certificates of the submission are parsed
    pool,       \* the intermediates
    stack,      \* the calls of buildChains that have not returned, the innermost last
    cache, sigChecks,
    phase, result

vars == <<submitted, roots, options, parsed, pool, stack, cache, sigChecks, phase, result>>

----------------------------------------------------------------------------
(* x509util.PEMCertPool and x509.CertPool.                                 *)

contains(certs, c) == Contains(certs, c)

\* Mutant: the newest certificate comes first.
AddCertMutant(certs, c) == IF contains(certs, c) THEN certs ELSE <<c>> \o certs

AddCert(certs, c) == IF contains(certs, c) THEN certs ELSE Append(certs, c)

\* AppendCertsFromPEM: all of the blocks have to be certificates, and there is one.
AppendCertsFromPEM(certs, blocks) ==
    IF blocks = <<>> \/ Contains(blocks, Garbage) THEN Fail
    ELSE Ok(FoldLeft(AddCert, certs, blocks))

\* The numbers of the certificates in the pool that may have issued c, by key id if
\* there are some and else by name.
findPotentialParents(certs, c) ==
    LET byKeyId == {n \in DOMAIN certs : c.aki # None /\ certs[n].ski = c.aki}
        byName == {n \in DOMAIN certs : certs[n].subject = c.issuer}
    IN IF byKeyId # {} THEN byKeyId ELSE byName

----------------------------------------------------------------------------
(* The checks of one certificate as the issuer of another.                 *)

CheckSignatureFrom(c, parent) ==
    /\ parent.basic = "CA" \/ (parent.basic = "none" /\ parent.version = 1)
    /\ parent.certSign
    /\ parent.key = c.signedBy

TimeValid(c, now) == c.notBefore <= now /\ now <= c.notAfter

\* isValid, of a candidate ("leaf", "intermediate" or "root") for the end of chain.
isValid(c, type, chain, opts) ==
    /\ opts.strict => ~c.unhandledCritical
    /\ chain # <<>> => Last(chain).issuer = c.subject
    /\ opts.strict => TimeValid(c, opts.now)
    /\ opts.strict /\ type # "leaf" => NamesAllowed(c, chain[1], opts.maxComparisons, FALSE)
    /\ type = "intermediate" => c.basic = "CA"
    /\ opts.strict /\ c.basic # "none" /\ c.pathLen # None => Len(chain) - 1 <= c.pathLen

\* Each certificate of the chain that lists usages crosses out those it does not have.
AnyUsage == "any"
GatedCrypto == "sgc"

Supports(c, usage) ==
    \/ c.ekus = {}
    \/ AnyUsage \in c.ekus
    \/ usage \in c.ekus
    \/ (usage = "serverAuth" /\ GatedCrypto \in c.ekus)

checkChainForKeyUsage(chain, keyUsages) ==
    chain # <<>> /\ \E u \in keyUsages : \A i \in DOMAIN chain : Supports(chain[i], u)

KeyUsages(opts) == IF opts.ekus = {} THEN {"serverAuth"} ELSE opts.ekus

\* Verify keeps the chains that serve one of the usages.
HasUsage(ch, opts) ==
    AnyUsage \in KeyUsages(opts) \/ ~opts.strict \/ checkChainForKeyUsage(ch, KeyUsages(opts))

\* What ValidateChain asks of the leaf before it verifies anything.
LeafAllowed(c, opts) ==
    /\ opts.notAfterStart # None => c.notAfter >= opts.notAfterStart
    /\ opts.notAfterLimit # None => c.notAfter < opts.notAfterLimit
    /\ opts.acceptOnlyCA => c.basic = "CA"
    /\ opts.rejectExpired => ~(opts.now > c.notAfter)
    /\ opts.rejectUnexpired => opts.now > c.notAfter
    /\ c.exts \cap opts.rejectExtIds = {}
    /\ opts.ekus # {} => c.ekus \cap opts.ekus # {}

chainsEquivalent(in, verified) ==
    /\ Len(in) \in {Len(verified), Len(verified) - 1}
    /\ \A i \in DOMAIN in : in[i] = verified[i]

----------------------------------------------------------------------------
(* The search.                                                             *)

\* A call of buildChains on the last certificate of chain: its candidates, and the
\* chains found.
Call(chain, rootPool, intermediates) ==
    [chain |-> chain,
     rootNums |-> findPotentialParents(rootPool, Last(chain)),
     intermediateNums |-> findPotentialParents(intermediates, Last(chain)),
     found |-> <<>>]

Init ==
    /\ submitted \in Chains
    /\ roots \in TrustedRoots
    /\ options \in OptionSets
    /\ parsed = 0 /\ pool = <<>> /\ stack = <<>> /\ cache = <<>> /\ sigChecks = 0
    /\ phase = "parse" /\ result = {}

First(nums) == CHOOSE n \in nums : \A m \in nums : n <= m

\* What is left when the chains are known: ValidateChain takes the first that the
\* submission is equivalent to.
Finish(chains) ==
    LET usable == {k \in DOMAIN chains : HasUsage(chains[k], options)}
        equivalent == {k \in usable : chainsEquivalent(submitted, chains[k])}
    IN /\ phase' = "done"
       /\ result' = IF options.strict THEN {chains[k] : k \in usable}
                    ELSE IF equivalent = {} THEN {} ELSE {chains[First(equivalent)]}

\* The loop of ValidateChain over the submission: all but the leaf are intermediates.
ParseCert ==
    /\ phase = "parse" /\ parsed < Len(submitted)
    /\ LET cert == submitted[parsed + 1]
       IN \/ cert = Garbage /\ phase' = "done" /\ UNCHANGED <<parsed, pool>>
          \/ /\ cert # Garbage /\ parsed' = parsed + 1
             /\ pool' = IF parsed > 0 THEN AddCert(pool, cert) ELSE pool
             /\ UNCHANGED phase
    /\ UNCHANGED <<submitted, roots, options, stack, cache, sigChecks, result>>

\* The rest up to the search: the checks of the leaf, Verify's own checks.
StartValidation ==
    /\ phase = "parse" /\ parsed = Len(submitted)
    /\ UNCHANGED <<submitted, roots, options, parsed, pool, cache, sigChecks>>
    /\ LET leaf == submitted[1]
           accepted == /\ options.strict \/ LeafAllowed(leaf, options)
                       /\ isValid(leaf, "leaf", <<>>, options)
       IN \/ ~accepted /\ phase' = "done" /\ UNCHANGED <<stack, result>>
          \/ accepted /\ contains(roots, leaf) /\ Finish(<<<<leaf>>>>) /\ UNCHANGED stack
          \/ /\ accepted /\ ~contains(roots, leaf)
             /\ phase' = "search"
             /\ stack' = <<Call(<<leaf>>, roots, pool)>>
             /\ UNCHANGED result

Top == stack[Len(stack)]

\* considerCandidate up to the switch: a candidate that is in the chain already costs
\* no signature check.
Checks(candidate) == IF Contains(Top.chain, candidate) THEN sigChecks ELSE sigChecks + 1
Good(candidate, type) ==
    /\ ~Contains(Top.chain, candidate) /\ Checks(candidate) <= maxChainSignatureChecks
    /\ CheckSignatureFrom(Last(Top.chain), candidate)
    /\ isValid(candidate, type, Top.chain, options)

Replace(top) == [stack EXCEPT ![Len(stack)] = top]

\* A root completes a chain.
ConsiderRoot ==
    /\ phase = "search" /\ Top.rootNums # {}
    /\ LET n == First(Top.rootNums)
           rest == [Top EXCEPT !.rootNums = @ \ {n}]
       IN /\ sigChecks' = Checks(roots[n])
          /\ stack' = Replace(IF Good(roots[n], "root")
                              THEN [rest EXCEPT !.found = Append(@, Append(Top.chain, roots[n]))]
                              ELSE rest)
    /\ UNCHANGED <<submitted, roots, options, parsed, pool, cache, phase, result>>

\* After the roots an intermediate, which is searched from unless it was before.
ConsiderIntermediate ==
    /\ phase = "search" /\ Top.rootNums = {} /\ Top.intermediateNums # {}
    /\ LET n == First(Top.intermediateNums)
           rest == [Top EXCEPT !.intermediateNums = @ \ {n}]
       IN /\ sigChecks' = Checks(pool[n])
          /\ \/ ~Good(pool[n], "intermediate") /\ stack' = Replace(rest)
             \/ /\ Good(pool[n], "intermediate") /\ pool[n] \in DOMAIN cache
                /\ stack' = Replace([rest EXCEPT !.found = @ \o cache[pool[n]]])
             \/ /\ Good(pool[n], "intermediate") /\ pool[n] \notin DOMAIN cache
                /\ stack' = Append(Replace(rest), Call(Append(Top.chain, pool[n]), roots, pool))
    /\ UNCHANGED <<submitted, roots, options, parsed, pool, cache, phase, result>>

\* The end of buildChains: its caller caches and takes over what was found.
Return ==
    /\ phase = "search" /\ Top.rootNums = {} /\ Top.intermediateNums = {}
    /\ IF Len(stack) > 1
       THEN /\ stack' = [Front(stack) EXCEPT ![Len(stack) - 1].found = @ \o Top.found]
            /\ cache' = [c \in DOMAIN cache \cup {Last(Top.chain)} |->
                           IF c = Last(Top.chain) THEN Top.found ELSE cache[c]]
            /\ UNCHANGED <<phase, result>>
       ELSE /\ stack' = <<>>
            /\ Finish(Top.found)
            /\ UNCHANGED cache
    /\ UNCHANGED <<submitted, roots, options, parsed, pool, sigChecks>>

Next == ParseCert \/ StartValidation \/ ConsiderRoot \/ ConsiderIntermediate \/ Return

Spec == Init /\ [][Next]_vars

----------------------------------------------------------------------------
(* What the search is for, without the search.                             *)

\* ch[i + 1] is found as the issuer of ch[i] among certs, and has issued it.
Issued(ch, i, certs, type) ==
    /\ \E n \in findPotentialParents(certs, ch[i]) : certs[n] = ch[i + 1]
    /\ CheckSignatureFrom(ch[i], ch[i + 1])
    /\ isValid(ch[i + 1], type, SubSeq(ch, 1, i), options)

PathToRoot(ch) ==
    \/ Len(ch) = 1 /\ contains(roots, ch[1])
    \/ /\ ~contains(roots, ch[1]) /\ Len(ch) > 1
       /\ \A i, j \in DOMAIN ch : ch[i] = ch[j] => i = j
       /\ \A i \in 1..(Len(ch) - 1) :
            Issued(ch, i, IF i < Len(ch) - 1 THEN pool ELSE roots,
                   IF i < Len(ch) - 1 THEN "intermediate" ELSE "root")

\* The signature checks that the submission itself costs if it is searched first.
Cost(ch) ==
    Len(ch) + Cardinality(UNION {{i} \X findPotentialParents(roots, ch[i]) : i \in DOMAIN ch})

Acceptable(ch) ==
    /\ ~Contains(ch, Garbage)
    /\ LeafAllowed(ch[1], options)
    /\ \E path \in {ch} \cup {Append(ch, roots[i]) : i \in DOMAIN roots} : PathToRoot(path)

\* The personality accepts a submission only if, in the order of submission, it is a
\* path to a trusted root, and then does accept it if the limit of signature checks allows
\* for the submission and the roots on its way: neither other paths through the same
\* certificates, nor chains cached with another beginning, nor duplicates come between
\* (cert_checker.go:166 "uses all the certs in the order they were submitted").
AcceptsExactlyThePaths ==
    phase = "done" /\ ~options.strict =>
      /\ result # {} => Acceptable(submitted) /\ \A ch \in result : PathToRoot(ch)
      /\ Acceptable(submitted) /\ Cost(submitted) <= maxChainSignatureChecks => result # {}

\* Every chain that Verify returns is a path from the certificate to a root on which each
\* certificate may sign for the one below it, and a usage asked for holds along all of it,
\* also when the chain comes from the cache (verify.go:868).
ChainsAreValid ==
    phase = "done" /\ options.strict =>
      \A ch \in result :
        /\ PathToRoot(ch) /\ ch[1] = submitted[1]
        /\ \/ AnyUsage \in KeyUsages(options)
           \/ \E u \in KeyUsages(options) : \A i \in DOMAIN ch : Supports(ch[i], u)

\* ValidateChain and Verify accept paths to trusted roots and nothing else, and the
\* former accepts all of them within the limit of signature checks.
AcceptsPathsOnly == AcceptsExactlyThePaths /\ ChainsAreValid
============================================================================
