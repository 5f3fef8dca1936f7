------------------------------- MODULE SCTs -------------------------------
(***************************************************************************)
(* The life of an SCT: a precertificate is submitted to a log, the SCTs    *)
(* that come back are embedded in the final certificate, and the tools     *)
(* (ctutil, sctcheck, sctscan) rebuild from that certificate the entry     *)
(* that was logged, check the signature and ask the log for a proof.       *)
(*                                                                         *)
(* Workers of sctscan share one LogInfo, which caches a tree head.         *)
(***************************************************************************)
EXTENDS X509Create

CONSTANTS
    Setups,             \* templates, issuers and log keys
    Workers,            \* callbacks of the scanner that run at once
    MaxSCTs, MaxTime,   \* bounds
    MMD                 \* the log merges within this time

VARIABLES setup, now,
          pending, tree, sth,               \* the log: promised, merged, the head it serves
          scts, final,                      \* what the CA has
          lastSTH, pc, checked, head, proof \* sctscan: the cache, and each worker

logVars == <<now, pending, tree, sth>>
scanVars == <<lastSTH, pc, checked, head, proof>>
vars == <<setup, logVars, scts, final, scanVars>>

Cert(created) == ParseCertificate(created.der).out
----------------------------------------------------------------------------
(* tls/signature.go and signatures.go.                                     *)

generateHash(hash) == hash \in {"MD5", "SHA1", "SHA224", "SHA256", "SHA384", "SHA512"}

CreateSignature(key, hash, data) ==
    [hash |-> hash, alg |-> key.type, by |-> key, over |-> data, form |-> "der", positive |-> TRUE]

\* Bytes after an ECDSA or DSA signature are only logged.
VerifySignature(pub, data, sig) ==
    /\ generateHash(sig.hash)
    /\ sig.alg \in {"RSA", "DSA", "ECDSA"} /\ pub.type = sig.alg
    /\ sig.alg \in {"DSA", "ECDSA"} => Reads(sig) /\ sig.positive
    /\ sig.by = pub /\ sig.over = data

\* An RSA key's n is the length of its modulus in bits.
NewSignatureVerifier(pub) ==
    \/ pub.type = "RSA" /\ pub.x.n >= 2048
    \/ pub.type = "ECDSA" /\ pub.curve = "P256"

----------------------------------------------------------------------------
(* serialization.go: Merkle tree leaves, and what an SCT signs of them.    *)

IsPreIssuer(issuer) == "CertificateTransparency" \in Range(issuer.ekus)
IsPrecertificate(c) == oidInExtensions("poison", c.exts)
X509Leaf(c, ts) == [ts |-> ts, type |-> "x509", entry |-> c.tbs]
PrecertLeaf(issuer, tbs, ts) == [ts |-> ts, type |-> "precert", entry |-> [ikh |-> issuer.pub, tbs |-> tbs]]

MerkleTreeLeafFromChain(chain, type, ts) ==
    LET pre == Len(chain) > 1 /\ IsPreIssuer(chain[2])
        tbs == BuildPrecertTBS(chain[1].tbs, IF pre THEN chain[2] ELSE Absent)
    IN IF type = "x509" THEN X509Leaf(chain[1], ts)
       ELSE IF Len(chain) < (IF pre THEN 3 ELSE 2) \/ ~tbs.ok THEN Absent
       ELSE PrecertLeaf(chain[IF pre THEN 3 ELSE 2], tbs.tbs, ts)

\* Only the first three certificates are read.
MerkleTreeLeafFromRawChain(ders, type, ts) ==
    LET parsed == [i \in 1..(IF Len(ders) > 3 THEN 3 ELSE Len(ders)) |-> ParseCertificate(ders[i])]
    IN IF \E i \in DOMAIN parsed : parsed[i].fatal THEN Absent
       ELSE MerkleTreeLeafFromChain(Map(parsed, LAMBDA p : p.out), type, ts)

MerkleTreeLeafForEmbeddedSCT(chain, ts) ==
    LET tbs == RemoveSCTList(chain[1].tbs)
    IN IF Len(chain) < 2 \/ ~tbs.ok THEN Absent ELSE PrecertLeaf(chain[2], tbs.tbs, ts)

SerializeSCTSignatureInput(sct, leaf) == [ts |-> sct.ts, type |-> leaf.type, entry |-> leaf.entry]

VerifySCTSignature(key, sct, leaf) ==
    leaf # Absent /\ VerifySignature(key, SerializeSCTSignatureInput(sct, leaf), sct.sig)

\* The log's signature on an entry of its own.
SignedBy(key, leaf) == CreateSignature(key, "SHA256", SerializeSCTSignatureInput([ts |-> leaf.ts], leaf))

----------------------------------------------------------------------------
(* ctutil.                                                                 *)

ContainsSCT(c, sct) == sct \in Range(c.scts)

createLeaf(chain, sct, embedded) ==
    IF chain = <<>> \/ (embedded /\ ~ContainsSCT(chain[1], sct)) THEN Absent
    ELSE IF embedded THEN MerkleTreeLeafForEmbeddedSCT(chain, sct.ts)
    ELSE MerkleTreeLeafFromChain(chain, IF IsPrecertificate(chain[1]) THEN "precert" ELSE "x509", sct.ts)

VerifySCT(key, chain, sct, embedded) ==
    NewSignatureVerifier(key) /\ VerifySCTSignature(key, sct, createLeaf(chain, sct, embedded))

----------------------------------------------------------------------------
(* The certificate authority: how chains.go and ct_integration.go make a   *)
(* pre-issuer and a precertificate; the final certificate differs from the *)
(* precertificate in its issuer, and in the SCTs in place of the poison.   *)

\* (The template has its random subject key identifier from the start.)
Poison == [id |-> "poison", critical |-> TRUE, value |-> NullBytes]

buildNewPrecertData(template, issuer, key) ==
    CreateCertificate([template EXCEPT !.extra = Append(@, Poison), !.aki = issuer.ski], issuer, template.pub, key)

PreIssuerTemplate(s) ==
    [s.issuer EXCEPT !.rawSubject = Absent, !.subject.CN = @ \o "PrecertIssuer", !.ski = "preIssuer", !.pub = s.preKey,
                     !.ekus = Append(@, "CertificateTransparency")]

PreIssuer(s) == CreateCertificate(PreIssuerTemplate(s), s.issuer, s.preKey, s.issuer.pub)

Under(pre, s) == <<buildNewPrecertData(s.template, Cert(pre), s.preKey).der, pre.der, s.issuerDer>>
makePreIssuerPrecertChain(s) == Under(PreIssuer(s), s)

PreCertChain(s) == <<buildNewPrecertData(s.template, s.issuer, s.issuer.pub).der, s.issuerDer>>

Submitted(s) == IF s.viaPreIssuer THEN makePreIssuerPrecertChain(s) ELSE PreCertChain(s)

----------------------------------------------------------------------------
Init ==
    /\ setup \in Setups
    /\ now = 0 /\ pending = {} /\ tree = <<>> /\ sth = [size |-> 0, ts |-> 0]
    /\ scts = <<>> /\ final = Absent
    /\ lastSTH = Absent /\ pc = [w \in Workers |-> "idle"] /\ checked = [w \in Workers |-> Absent]
    /\ head = [w \in Workers |-> Absent] /\ proof = [w \in Workers |-> Absent]

\* LogClient.addChainWithRetry: the log signs its entry, and the client keeps
\* what it can verify for the chain; a garbled answer has another time stamp.
AddPreChain ==
    /\ final = Absent /\ Len(scts) < MaxSCTs
    /\ \E ders \in {Submitted(setup)} : \E leaf \in {MerkleTreeLeafFromRawChain(ders, "precert", now)} :
         /\ pending' = pending \cup ({leaf} \ Range(tree))
         /\ \E answer \in {[ts |-> now + n, sig |-> SignedBy(setup.logKey, leaf)] : n \in {0, 1}} :
              scts' = IF VerifySCTSignature(setup.logKey, answer, MerkleTreeLeafFromRawChain(ders, "precert", answer.ts))
                      THEN Append(scts, answer) ELSE scts
    /\ UNCHANGED <<setup, now, tree, sth, final, scanVars>>

\* The CA embeds the SCTs it has.
Issue ==
    /\ final = Absent /\ scts # <<>>
    /\ final' = Cert(CreateCertificate([setup.template EXCEPT !.scts = scts], setup.issuer, setup.template.pub, setup.issuer.pub))
    /\ UNCHANGED <<setup, logVars, scts, scanVars>>

\* The log (external): it merges entries in any order and serves heads that
\* have every entry it promised at least MMD before.
Merge ==
    /\ \E leaf \in pending : tree' = Append(tree, leaf) /\ pending' = pending \ {leaf}
    /\ UNCHANGED <<setup, now, sth, scts, final, scanVars>>

Publish ==
    /\ \A leaf \in pending : leaf.ts + MMD > now
    /\ sth # [size |-> Len(tree), ts |-> now]
    /\ sth' = [size |-> Len(tree), ts |-> now]
    /\ UNCHANGED <<setup, now, pending, tree, scts, final, scanVars>>

Tick ==
    /\ now < MaxTime
    /\ now' = now + 1
    /\ UNCHANGED <<setup, pending, tree, sth, scts, final, scanVars>>

----------------------------------------------------------------------------
(* sctscan: checkCertWithEmbeddedSCT for one SCT of the certificate.       *)

\* VerifyInclusionLatest reads the cache.
Check(w) ==
    /\ pc[w] = "idle" /\ final # Absent
    /\ \E sct \in Range(final.scts) :
         checked' = [checked EXCEPT ![w] = [sct |-> sct,
           signature |-> VerifySCTSignature(setup.logKey, sct, MerkleTreeLeafForEmbeddedSCT(<<final, setup.issuer>>, 0))]]
    /\ head' = [head EXCEPT ![w] = lastSTH]
    /\ pc' = [pc EXCEPT ![w] = IF lastSTH = Absent THEN "get" ELSE "verify"]
    /\ UNCHANGED <<setup, logVars, scts, final, lastSTH, proof>>

\* GetSTH answers, or fails.
GetSTH(w) ==
    /\ pc[w] = "get"
    /\ \/ head' = [head EXCEPT ![w] = sth] /\ pc' = [pc EXCEPT ![w] = "set"] /\ UNCHANGED proof
       \/ proof' = [proof EXCEPT ![w] = "failed"] /\ pc' = [pc EXCEPT ![w] = "judge"] /\ UNCHANGED head
    /\ UNCHANGED <<setup, logVars, scts, final, lastSTH, checked>>

SetSTH(w) ==
    /\ pc[w] = "set"
    /\ lastSTH' = head[w]
    /\ pc' = [pc EXCEPT ![w] = "verify"]
    /\ UNCHANGED <<setup, logVars, scts, final, checked, head, proof>>

\* VerifyInclusionAt, for the head this worker took: GetProofByHash may fail.
VerifyInclusionAt(w) ==
    LET leaf == MerkleTreeLeafForEmbeddedSCT(<<final, setup.issuer>>, checked[w].sct.ts)
        outcome == IF \E i \in 1..head[w].size : tree[i] = leaf THEN "included" ELSE "missing"
    IN /\ pc[w] = "verify"
       /\ \E o \in {outcome, "failed"} : proof' = [proof EXCEPT ![w] = o]
       /\ pc' = [pc EXCEPT ![w] = "judge"]
       /\ UNCHANGED <<setup, logVars, scts, final, lastSTH, checked, head>>

\* A failure is excused by the head that is in the cache now.
Judge(w) ==
    /\ pc[w] = "judge"
    /\ pc' = [pc EXCEPT ![w] = IF proof[w] = "included" THEN "included"
                               ELSE IF lastSTH # Absent /\ lastSTH.ts - checked[w].sct.ts < MMD THEN "young"
                               ELSE "error"]
    /\ UNCHANGED <<setup, logVars, scts, final, lastSTH, checked, head, proof>>

Next ==
    \/ AddPreChain \/ Issue \/ Merge \/ Publish \/ Tick
    \/ \E w \in Workers : Check(w) \/ GetSTH(w) \/ SetSTH(w) \/ VerifyInclusionAt(w) \/ Judge(w)

Spec == Init /\ [][Next]_vars
----------------------------------------------------------------------------
\* Every SCT the client kept verifies for the precertificate chain, and for
\* the final certificate once it is embedded: whoever signed the
\* precertificate, both give the entry that is (or will be) in the log.
KeptVerify(chain) ==
    \A sct \in Range(scts) :
      /\ VerifySCT(setup.logKey, chain, sct, FALSE)
      /\ final # Absent =>
           /\ VerifySCT(setup.logKey, <<final, setup.issuer>>, sct, TRUE)
           /\ createLeaf(<<final, setup.issuer>>, sct, TRUE) \in pending \cup Range(tree)
EmbeddedSCTsVerify ==
    scts # <<>> => KeptVerify(Map(Submitted(setup), LAMBDA der : ParseCertificate(der).out))

\* sctscan reports that an entry is missing only if it was missing from a
\* head that is at least MMD younger than the SCT.
MissingMeansLate ==
    \A w \in Workers : pc[w] = "error" /\ proof[w] = "missing" => head[w].ts - checked[w].sct.ts >= MMD
=============================================================================
