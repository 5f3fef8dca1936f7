--------------------------- MODULE MCCertificates ---------------------------
(***************************************************************************)
(* Certificates for ChainValidation: two roots, one of them issued twice   *)
(* and cross-signed by the other, an intermediate issued by both and once  *)
(* by itself, and leaves.  The pure functions of the packages around it    *)
(* are asked in initial states in which no chain is validated, and the two *)
(* programs that get certificates logged, SCTs (S!) and Hammer (H!), run   *)
(* in behaviours of their own.                                             *)
(***************************************************************************)
EXTENDS CTServer, MCEncodings, MCX509

CONSTANTS Setups, Workers, MaxSCTs                              \* of SCTs
VARIABLES setup, now, pending, tree, sth, scts, final, lastSTH, pc, checked, head, proof

S == INSTANCE SCTs

\* A source Log for the hammer: some of its entries are for other Logs.
SourceEntry(cert, kind, root, notAfter) ==
    [cert |-> cert, kind |-> kind, root |-> root, notAfter |-> notAfter, chain |-> 2,
     decodes |-> TRUE, rootParses |-> TRUE, leafParses |-> TRUE]
MCSource ==
    <<SourceEntry("c1", "cert", "r1", 1), SourceEntry("p1", "precert", "r1", 2),
      SourceEntry("c2", "cert", "r2", 1), SourceEntry("p2", "precert", "r1", 0),
      SourceEntry("c3", "cert", "r1", 3)>>

MCExisting == {<<>>, <<[cert |-> "c0", timestamp |-> 0]>>}

pathVars == <<submitted, trusted, options, parsed, pool, stack, cache, sigChecks, phase, result>>
hamVars == <<pos, drained, clock, entries, size, firstChain, firstChainIntegrated, heads, toProve,
             nextOp, op, tries, adders, count, cancelled, outcome, complaint>>
sctVars == <<setup, now, pending, tree, sth, scts, final, lastSTH, pc, checked, head, proof>>

NoNames == [t \in {"email", "dns", "uri", "ip"} |-> <<>>]

CA(serial, subject, issuer) ==
    [serial |-> serial, subject |-> subject, issuer |-> issuer, key |-> subject,
     signedBy |-> issuer, ski |-> subject, aki |-> issuer, version |-> 3, basic |-> "CA",
     certSign |-> TRUE, pathLen |-> Unset, notBefore |-> 0, notAfter |-> 2, ekus |-> {},
     exts |-> {}, unhandledCritical |-> FALSE, constrained |-> FALSE,
     permitted |-> NoNames, excluded |-> NoNames, sans |-> <<>>, cn |-> <<>>]

EndEntity(serial, issuer) ==
    [CA(serial, "L", issuer) EXCEPT !.basic = "end", !.ekus = {"serverAuth"},
        !.exts = {"poison"}, !.sans = <<[type |-> "dns", name |-> <<"a">>]>>]

R1 == CA(1, "R", "R")
R2 == [R1 EXCEPT !.serial = 2, !.ski = Unset, !.version = 1, !.basic = "none"]
S1 == CA(3, "S", "S")
RS == CA(4, "R", "S")
A == [CA(5, "X", "R") EXCEPT !.pathLen = 0]
B == [CA(6, "X", "S") EXCEPT !.aki = Unset, !.ekus = {"sgc"}, !.notAfter = 1]
XX == [CA(7, "X", "X") EXCEPT !.constrained = TRUE,
         !.permitted = [NoNames EXCEPT !["dns"] = <<<<".", "a">>, <<"a">>>>]]
L1 == EndEntity(8, "X")
L2 == [EndEntity(9, "X") EXCEPT !.aki = Unset, !.ekus = {"clientAuth"}, !.notAfter = 1]
L3 == [EndEntity(10, "X") EXCEPT !.ski = Unset, !.aki = "S", !.unhandledCritical = TRUE]

MCChains ==
    {<<l>> \o rest : l \in {L1, L2, L3}, rest \in BoundedSeq({A, B, XX, R1, RS}, 3)}
      \cup {<<A, R1>>, <<R1>>, <<R1, R1>>, <<L1, A, A>>, <<L1, L1, A>>, <<L1, Garbage>>, <<Garbage>>}

\* The pools that AppendCertsFromPEM reads from files, before anything is submitted.
F == INSTANCE ChainValidation WITH Chains <- {}, TrustedRoots <- {}, roots <- trusted, None <- Unset

MCTrustedRoots ==
    {F!AppendCertsFromPEM(<<>>, file).val : file \in {<<R1>>, <<R2, R1, R2, S1>>, <<S1, L2>>}}

Lax ==
    [strict |-> FALSE, notAfterStart |-> Unset, notAfterLimit |-> Unset, acceptOnlyCA |-> FALSE,
     rejectExpired |-> FALSE, rejectUnexpired |-> FALSE, rejectExtIds |-> {}, ekus |-> {},
     now |-> 2, maxComparisons |-> 100]

MCOptionSets ==
    {Lax,
     [Lax EXCEPT !.notAfterStart = 1, !.notAfterLimit = 2, !.rejectExpired = TRUE, !.now = 1],
     [Lax EXCEPT !.rejectUnexpired = TRUE, !.ekus = {"clientAuth"}],
     [Lax EXCEPT !.acceptOnlyCA = TRUE, !.rejectExtIds = {"poison"}],
     [Lax EXCEPT !.strict = TRUE, !.now = 1],
     [Lax EXCEPT !.strict = TRUE, !.now = 1, !.ekus = {"clientAuth", "serverAuth"}]}
----------------------------------------------------------------------------
(* Host names: a constrained CA and a leaf with one name.                  *)

HostStrings == BoundedSeq({"a", "A", ".", "*"}, 4) \ {<<>>}
HostInputs ==
    [permitted : {<<<<".", "a">>>>, <<<<"a">>>>, <<<<"a", ".", "A">>>>, <<<<"a", ".">>, <<"a">>>>, <<<<>>>>},
     name : HostStrings, san : BOOLEAN,
     host : {<<"a">>, <<"a", ".", "a">>, <<"a", ".", "a", ".", "a">>, <<"A", ".", "a", ".">>, <<"a", ".", ".", "a">>}]

Host(in) ==
    in.kind = "host" =>
      LET ca == [XX EXCEPT !.permitted = [NoNames EXCEPT !["dns"] = in.x.permitted]]
          leaf == [L1 EXCEPT !.sans = IF in.x.san THEN <<[type |-> "dns", name |-> in.x.name]>> ELSE <<>>,
                             !.cn = in.x.name]
      IN V!HostIsPermitted(ca, leaf, [ip |-> FALSE, name |-> in.x.host], 100, FALSE)

----------------------------------------------------------------------------
(* Configurations of ct_server: one log with every field set every way, or *)
(* two logs and the backends.                                              *)

ValidConfig ==
    [logId |-> 1, publicKey |-> "k", privateKey |-> "p", isMirror |-> FALSE, isReadonly |-> FALSE,
     frozenSTH |-> Unset, rejectExpired |-> FALSE, rejectUnexpired |-> FALSE,
     ekus |-> <<"ServerAuth">>, notAfterStart |-> Unset, notAfterLimit |-> Unset,
     maxMergeDelay |-> 1, expectedMergeDelay |-> 0, prefix |-> <<"a">>, override |-> <<>>,
     backend |-> "b1", roots |-> "pem", rejectExtensions |-> "oid"]
Keyed ==
    {[ValidConfig EXCEPT !.publicKey = k, !.privateKey = p, !.isMirror = m, !.frozenSTH = f] :
        k \in {"k", Unset, Malformed}, p \in {"p", Unset, Malformed}, m \in BOOLEAN,
        f \in {Unset, Malformed, [signedBy |-> "k"], [signedBy |-> "other"]}}
Dated ==
    {[ValidConfig EXCEPT !.notAfterStart = s, !.notAfterLimit = l, !.expectedMergeDelay = e,
                         !.maxMergeDelay = d] :
        s, l \in {Unset, Malformed, 1, 2}, e, d \in {-1, 0, 1}}
Used ==
    {[ValidConfig EXCEPT !.ekus = e, !.rejectExpired = x, !.rejectUnexpired = u, !.isReadonly = u,
                         !.roots = r, !.rejectExtensions = o, !.isMirror = (p = Unset),
                         !.privateKey = p] :
        e \in BoundedSeq({"Any", "ServerAuth", "bogus"}, 2), x, u \in BOOLEAN,
        r \in {"pem", Unset, Malformed}, o \in {"oid", Malformed}, p \in {"p", Unset}}
Second ==
    {[ValidConfig EXCEPT !.logId = i, !.prefix = p, !.override = o, !.backend = b] :
        i \in {0, 1, 2}, p \in {<<>>, <<"a">>, <<"/", "a", "/">>, <<"b">>},
        o \in {<<>>, <<"x", "/">>}, b \in {"b1", "b2", "b3"}}
Backend(name, spec) == [name |-> name, spec |-> spec]
BackendLists ==
    {<<>>, <<Backend("b1", "s1")>>, <<Backend(Unset, "s1")>>,
     <<Backend("b1", "s1"), Backend("b2", "s2")>>, <<Backend("b1", "s1"), Backend("b2", "s1")>>,
     <<Backend("b1", "s1"), Backend("b1", "s2")>>}
Flags == [rpcBackend : {Unset, "s"}, prefix : {<<>>, <<"/", "logs">>}]

ConfigInput(in) ==
    \/ in \in [kind : {"config"}, cfgs : {<<c>> : c \in Keyed \cup Dated \cup Used},
               backends : {<<Backend("b1", "s1")>>}, flags : Flags]
    \/ in \in [kind : {"config"}, cfgs : {<<ValidConfig, c>> : c \in Second} \cup {<<>>},
               backends : BackendLists, flags : Flags]

----------------------------------------------------------------------------
Idle ==
    /\ phase = "idle" /\ submitted = <<>> /\ trusted = <<>> /\ options = Lax
    /\ parsed = 0 /\ pool = <<>> /\ stack = <<>> /\ cache = <<>> /\ sigChecks = 0 /\ result = {}

NoSCTs ==
    /\ setup = Absent /\ now = 0 /\ pending = {} /\ tree = <<>> /\ sth = Absent /\ scts = <<>> /\ final = Absent
    /\ lastSTH = Absent /\ pc = <<>> /\ checked = <<>> /\ head = <<>> /\ proof = <<>>

\* HammerCTLog has completed without an operation.
NoHammer ==
    /\ pos = <<>> /\ drained = <<>> /\ clock = 0 /\ entries = <<>> /\ size = 0
    /\ firstChain = <<>> /\ firstChainIntegrated = <<>> /\ heads = <<>> /\ toProve = <<>>
    /\ nextOp = <<>> /\ op = H!Idle /\ tries = 0 /\ adders = <<>>
    /\ count = 1 /\ cancelled = FALSE /\ outcome = "completed" /\ complaint = FALSE

IssuanceInit == Idle /\ S!Init /\ NoHammer /\ input = [kind |-> "issuance"]

MCInit ==
    \/ V!Init /\ NoSCTs /\ NoHammer /\ input = [kind |-> "chain"]
    \/ Idle /\ NoSCTs /\ NoHammer /\ input \in Encodings \cup [kind : {"host"}, x : HostInputs]
    \/ Idle /\ NoSCTs /\ NoHammer /\ X509Input(input)
    \/ Idle /\ NoSCTs /\ NoHammer /\ ConfigInput(input)
    \/ IssuanceInit
    \/ Idle /\ NoSCTs /\ H!Init /\ input = [kind |-> "hammer"]

MCNext ==
    \/ V!Next /\ UNCHANGED <<input, sctVars, hamVars>>
    \/ input.kind = "issuance" /\ S!Next /\ UNCHANGED <<input, pathVars, hamVars>>
    \/ input.kind = "hammer" /\ H!Next /\ UNCHANGED <<input, pathVars, sctVars>>

allVars == <<pathVars, input, sctVars, hamVars>>
MCSpec == MCInit /\ [][MCNext]_allVars

\* Issuance and scanning by themselves.
IssuanceSpec == IssuanceInit /\ [][MCNext]_allVars

\* Every SCT a client keeps verifies for the precertificate and, embedded, for
\* the final certificate, which stand for the same entry of the log
\* (ct.MerkleTreeLeafFromChain, ct.MerkleTreeLeafForEmbeddedSCT, ctutil).
EmbeddedSCTsVerify == input.kind = "issuance" => S!EmbeddedSCTsVerify

\* "Inclusion failure may be OK if the SCT is within the Log's MMD"
\* (sctscan.go:175): sctscan reports an entry as missing only if the head in
\* which it was missing is at least MMD younger than the SCT.
MissingMeansLate == input.kind = "issuance" => S!MissingMeansLate

\* What package asn1 or tls writes it reads back as it was; the lax mode of
\* asn1 reads what the strict mode reads in the same way, a value that keeps
\* its RawContent is written as it was read, and tls reads only what it would
\* write (Marshal and Unmarshal of both packages).
EncodingsAreFaithful == DER(input) /\ TLS(input)

\* A host name that VerifyHostname accepts for a chain that Verify accepted is
\* permitted by the CA's name constraints, even where the name is only the
\* common name (verify.go: isValid, checkNameConstraints, VerifyHostname).
HostsArePermitted == Host(input)

\* A certificate, CRL or request that package x509 creates is read back as
\* the template that was meant, each extension once, and its signature holds; a
\* private key comes back whole from the format and the cipher it was put in, and
\* no other reader takes it (CreateCertificate, CreateCRL, CreateCertificateRequest,
\* MarshalPKCS1PrivateKey, MarshalPKCS8PrivateKey, MarshalECPrivateKey,
\* EncryptPEMBlock and their readers).
CreatedIsReadBack == X509Creates(input) /\ KeysAreRead(input)

\* A certificate that comes back without an error was DER all through and no
\* part of it was dropped on the way (parseCertificate and the NonFatalErrors).
AcceptedIsUnderstood == X509Parses(input)
=============================================================================
