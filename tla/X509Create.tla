---------------------------- MODULE X509Create ----------------------------
(***************************************************************************)
(* Package x509, creating: certificates from a template and a parent,      *)
(* precertificate TBSs from certificates, CRLs and certificate requests.   *)
(***************************************************************************)
EXTENDS X509

Ext(id, critical, v) == [id |-> id, critical |-> critical, value |-> Der(v)]
oidInExtensions(id, exts) == \E e \in Range(exts) : e.id = id
Map(s, F(_)) == [i \in DOMAIN s |-> F(s[i])]
----------------------------------------------------------------------------
(* Key usage: nine bits, most significant bit first.                       *)

Bit(b, i) == (b \div 2^i) % 2
reverseBitsInAByte(b) == FoldLeft(LAMBDA r, i : r + (Bit(b, i - 1) * 2^(8 - i)), 0, [i \in 1..8 |-> i])

asn1BitLength(bytes) ==
    LET set == {i \in 0..((8 * Len(bytes)) - 1) : Bit(bytes[(i \div 8) + 1], 7 - (i % 8)) = 1}
    IN IF set = {} THEN 0 ELSE (CHOOSE i \in set : \A j \in set : i >= j) + 1

\* Mutant: the ninth bit, decipherOnly, is lost with the second byte.
KeyUsageBitsMutant(usage) ==
    LET bytes == <<reverseBitsInAByte(usage % 256)>> IN [bytes |-> bytes, bitLength |-> asn1BitLength(bytes)]

KeyUsageBits(usage) ==
    LET a == <<reverseBitsInAByte(usage % 256), reverseBitsInAByte(usage \div 256)>>
        bytes == IF a[2] # 0 THEN a ELSE <<a[1]>>
    IN [bytes |-> bytes, bitLength |-> asn1BitLength(bytes)]

----------------------------------------------------------------------------
(* Names.  An address is [len, mapped, hi, lo]: its length in bytes, if it *)
(* is IPv4 mapped into 16 bytes, network and host part.                    *)

To4(ip) == IF ip.len = 4 \/ (ip.len = 16 /\ ip.mapped) THEN [ip EXCEPT !.len = 4, !.mapped = FALSE] ELSE Absent
Shortest(ip) == IF To4(ip) = Absent THEN ip ELSE To4(ip)

marshalSANs(t) ==
    LET Tag(tag, s) == Map(s, LAMBDA x : [tag |-> tag, val |-> x])
    IN Tag("dns", t.dns) \o Tag("email", t.emails) \o Tag("ip", Map(t.ips, Shortest)) \o Tag("uri", t.uris)

\* net.IP.Mask: the address in the mask's length, its host part cleared.
Masked(net) ==
    LET short == Len(net.mask) = 16 /\ net.ip.len = 4 /\ \A i \in 1..12 : net.mask[i] = 255
        len == IF short THEN 4 ELSE Len(net.mask)
        ip == IF len = 4 /\ net.ip.mapped THEN To4(net.ip) ELSE net.ip
    IN IF ip.len # len THEN [ip EXCEPT !.len = 0] ELSE [ip EXCEPT !.lo = 0]

ipAndMask(net) == [len |-> Masked(net).len + Len(net.mask), ip |-> Masked(net), mask |-> net.mask]

serialiseConstraints(c) ==
    LET Tag(tag, s) == Map(s, LAMBDA x : [tag |-> tag, val |-> x])
    IN Tag("dns", c.dns) \o Tag("ip", Map(c.ips, ipAndMask)) \o Tag("email", c.emails) \o Tag("uri", c.uris)

NotIA5(c) == \E x \in Range(c.dns \o c.emails \o c.uris) : ~isIA5String(x)

----------------------------------------------------------------------------
(* The extensions of a template: each is produced if the template has one  *)
(* of its fields and no extra extension takes its place.                   *)

Wants(t, id, fields) == fields /\ ~oidInExtensions(id, t.extra)

KeyExtensions(t, authorityKeyId) ==
    <<[want |-> Wants(t, "keyUsage", t.keyUsage # 0), ext |-> Ext("keyUsage", TRUE, KeyUsageBits(t.keyUsage))],
      [want |-> Wants(t, "eku", t.ekus # <<>> \/ t.unknownEKUs # <<>>), ext |-> Ext("eku", FALSE, t.ekus \o t.unknownEKUs)],
      [want |-> Wants(t, "basic", t.basicValid),
       ext |-> Ext("basic", TRUE, [isCA |-> t.isCA, maxPathLen |->
                     IF t.maxPathLen = 0 /\ ~t.maxPathLenZero THEN -1 ELSE t.maxPathLen])],
      [want |-> Wants(t, "ski", t.ski # Absent), ext |-> Ext("ski", FALSE, t.ski)],
      [want |-> Wants(t, "aki", authorityKeyId # Absent), ext |-> Ext("aki", FALSE, authorityKeyId)]>>

\* && binds tighter than ||: time stamps are not overridden.
AccessExtensions(t) ==
    LET Access(method, urls) == Map(urls, LAMBDA u : [method |-> method, tag |-> "uri", url |-> u])
    IN <<[want |-> Wants(t, "aia", t.ocsp # <<>> \/ t.issuing # <<>>),
          ext |-> Ext("aia", FALSE, Access("ocsp", t.ocsp) \o Access("issuing", t.issuing))],
         [want |-> t.timestamps # <<>> \/ Wants(t, "sia", t.caRepos # <<>>),
          ext |-> Ext("sia", FALSE, Access("timestamps", t.timestamps) \o Access("caRepos", t.caRepos))]>>

NameExtensions(t, subjectIsEmpty) ==
    <<[want |-> Wants(t, "san", t.dns # <<>> \/ t.emails # <<>> \/ t.ips # <<>> \/ t.uris # <<>>),
       ext |-> Ext("san", subjectIsEmpty, marshalSANs(t))],
      [want |-> Wants(t, "policies", t.policies # <<>>), ext |-> Ext("policies", FALSE, t.policies)],
      [want |-> Wants(t, "nameConstraints", t.permitted # NoConstraints \/ t.excluded # NoConstraints),
       ext |-> Ext("nameConstraints", t.ncCritical,
                   [permitted |-> serialiseConstraints(t.permitted), excluded |-> serialiseConstraints(t.excluded)])]>>

ListExtensions(t) ==
    <<[want |-> Wants(t, "crldp", t.crldps # <<>>),
       ext |-> Ext("crldp", FALSE, Map(t.crldps, LAMBDA u : <<[tag |-> "uri", val |-> u]>>))],
      [want |-> Wants(t, "sct", t.rawSCT # Absent \/ t.scts # <<>>),
       ext |-> Ext("sct", FALSE, IF t.scts # <<>> THEN Blob("tls", t.scts) ELSE t.rawSCT)]>>

buildExtensions(t, subjectIsEmpty, authorityKeyId) ==
    LET all == KeyExtensions(t, authorityKeyId) \o AccessExtensions(t) \o NameExtensions(t, subjectIsEmpty) \o ListExtensions(t)
        produced == SelectSeq(all, LAMBDA p : p.want)
    IN [ok |-> (\A i \in DOMAIN produced : produced[i].ext.id # "nameConstraints") \/ ~(NotIA5(t.permitted) \/ NotIA5(t.excluded)),
        exts |-> Map(produced, LAMBDA p : p.ext) \o t.extra]

\* Values of an attribute make one RDN, unless an extra name replaces them.
appendRDNs(n, in, values, type) ==
    IF values = <<>> \/ \E atv \in Range(n.extraNames) : atv.type = type THEN in
    ELSE Append(in, Map(values, LAMBDA v : [type |-> type, text |-> v, string |-> TRUE]))

ToRDNSequence(n) ==
    LET Text(type) == IF n[type] = "" THEN <<>> ELSE <<n[type]>>
        Values(type) == IF type \in {"CN", "SERIALNUMBER"} THEN Text(type) ELSE n[type]
    IN FoldLeft(LAMBDA in, type : appendRDNs(n, in, Values(type), type), <<>>, ListAttributes \o <<"CN", "SERIALNUMBER">>)
         \o Map(n.extraNames, LAMBDA atv : <<atv>>)

subjectBytes(cert) == IF cert.rawSubject # Absent THEN cert.rawSubject ELSE Der(ToRDNSequence(cert.subject))

Signed(key, params, pss, tbs) == Der([tbs |-> tbs, ai |-> params.ai, signature |-> Sign(key, params.hash, pss, tbs)])

\* The certificate, of all that can fail.
Assemble(t, key, params, info, issuer, subject, built) ==
    IF t.serial = Absent \/ ~params.ok \/ ~info.ok \/ ~built.ok THEN [ok |-> FALSE]
    ELSE [ok |-> TRUE,
          der |-> Signed(key, params, isRSAPSS(t.sigAlgo),
                    Der([version |-> 2, serial |-> t.serial, ai |-> params.ai, issuer |-> issuer, subject |-> subject,
                         notBefore |-> t.notBefore, notAfter |-> t.notAfter, info |-> info.info, exts |-> built.exts]))]

\* The key identifier of the authority, unless the certificate is self-signed.
AuthorityKeyId(t, parent, issuer, subject) == IF issuer # subject /\ parent.ski # Absent THEN parent.ski ELSE t.aki

CreateCertificate(t, parent, pub, key) ==
    LET issuer == subjectBytes(parent)
        subject == subjectBytes(t)
    IN Assemble(t, key, signingParamsForPublicKey(key, t.sigAlgo), marshalPublicKey(pub), issuer, subject,
                buildExtensions(t, subject = Der(<<>>), AuthorityKeyId(t, parent, issuer, subject)))

----------------------------------------------------------------------------
(* Precertificates: the TBS that is logged.  Only DER is read here.        *)

Failed == [ok |-> FALSE]
Made(tbs) == [ok |-> TRUE, tbs |-> Der(tbs)]
Positions(exts, id) == {i \in DOMAIN exts : exts[i].id = id}
First(S) == CHOOSE i \in S : \A j \in S : i <= j

removeExtension(tbs, id) ==
    LET at == Positions(tbs.v.exts, id)
    IN IF Clean(tbs) /\ Cardinality(at) = 1 THEN Made([tbs.v EXCEPT !.exts = RemoveAt(@, First(at))]) ELSE Failed

RemoveSCTList(tbs) == removeExtension(tbs, "sct")

\* Mutant: the authority key identifier is left as it is.
ReissueMutant(v, preIssuer) == [v EXCEPT !.issuer = preIssuer.rawIssuer]

\* The issuer's identity and its key identifier become the pre-issuer's own.
Reissue(v, preIssuer) ==
    LET keyAt == Positions(v.exts, "aki")
        issuerAt == Positions(preIssuer.exts, "aki")
        id == preIssuer.exts[First(issuerAt)].value
    IN [v EXCEPT !.issuer = preIssuer.rawIssuer,
                 !.exts = IF keyAt # {} /\ issuerAt # {} THEN [@ EXCEPT ![First(keyAt)].value = id]
                          ELSE IF keyAt # {} THEN RemoveAt(@, First(keyAt))
                          ELSE IF issuerAt # {} THEN Append(@, [id |-> "aki", critical |-> FALSE, value |-> id])
                          ELSE @]

BuildPrecertTBS(tbs, preIssuer) ==
    LET removed == removeExtension(tbs, "poison")
    IN IF ~removed.ok \/ preIssuer = Absent THEN removed
       ELSE IF "CertificateTransparency" \notin Range(preIssuer.ekus) THEN Failed
       ELSE Made(Reissue(removed.tbs.v, preIssuer))

RemoveCTPoison(tbs) == BuildPrecertTBS(tbs, Absent)

----------------------------------------------------------------------------
(* CRLs.                                                                   *)

ParseCRL(b) == IF Clean(b) THEN b.v ELSE Absent

CertList(c, key, params, revoked, now, expiry) ==
    IF ~params.ok THEN Absent
    ELSE Signed(key, params, FALSE,
                [ai |-> params.ai, issuer |-> ToRDNSequence(c.subject), thisUpdate |-> now, nextUpdate |-> expiry, revoked |-> revoked,
                 exts |-> IF c.ski = Absent THEN <<>> ELSE <<Ext("aki", FALSE, c.ski)>>])
CreateCRL(c, key, revoked, now, expiry) ==
    CertList(c, key, signingParamsForPublicKey(key, Absent), revoked, now, expiry)

CheckCRLSignature(c, crl) == checkSignature(SignatureAlgorithmFromAI(crl.ai), crl.tbs, crl.signature, c.pub)

----------------------------------------------------------------------------
(* Certificate requests.  An attribute is [type, values]; the extensions   *)
(* of an "extensionRequest" are read from its first value.                 *)

\* The template's attributes, and the extensions appended to the first value
\* of the first request among them that has one; those named there win.
AppendExtensions(attributes, exts) ==
    LET at == {i \in DOMAIN attributes : attributes[i].type = "extensionRequest" /\ attributes[i].values # <<>>}
        specified == {e.id : e \in UNION {Range(v) : v \in Range(attributes[First(at)].values)}}
        new == Map(SelectSeq(exts, LAMBDA e : e.id \notin specified), LAMBDA e : [e EXCEPT !.critical = FALSE])
    IN IF exts = <<>> THEN attributes
       ELSE IF at = {} THEN Append(attributes, [type |-> "extensionRequest", values |-> <<exts>>])
       ELSE [attributes EXCEPT ![First(at)].values[1] = @ \o new]

CreateCertificateRequest(t, key) ==
    LET params == signingParamsForPublicKey(key, t.sigAlgo)
        info == marshalPublicKey(key)
        names == t.dns # <<>> \/ t.emails # <<>> \/ t.ips # <<>> \/ t.uris # <<>>
        exts == (IF names /\ ~oidInExtensions("san", t.extra) THEN <<Ext("san", FALSE, marshalSANs(t))>> ELSE <<>>) \o t.extra
        tbs == [subject |-> subjectBytes(t), info |-> info.info, attributes |-> AppendExtensions(t.attributes, exts)]
    IN IF ~params.ok \/ ~info.ok THEN Absent
       \* whatever the algorithm declared, the options given to Sign are the hash
       ELSE Signed(key, params, FALSE, tbs)

parseCSRExtensions(attributes) ==
    FoldLeft(LAMBDA exts, a : IF a.type = "extensionRequest" /\ a.values # <<>> THEN exts \o a.values[1] ELSE exts,
             <<>>, attributes)

\* Nothing is tolerated but the addresses parseSANExtension drops, and the
\* last subject alternative name is the one.
ParseCertificateRequest(b) ==
    LET in == b.v
        algo == getPublicKeyAlgorithmFromOID(in.tbs.info.oid)
        pub == parsePublicKey(algo, in.tbs.info)
        exts == parseCSRExtensions(in.tbs.attributes)
        start == [out |-> [tbs |-> in.tbs, signature |-> in.signature, sigAlgo |-> SignatureAlgorithmFromAI(in.ai),
                           pub |-> pub.pub, subject |-> FillFromRDNSequence(in.tbs.subject.v), attributes |-> in.tbs.attributes] @@ NoExtensions,
                  nfe |-> {}, fatal |-> FALSE]
        r == FoldLeft(LAMBDA acc, e : IF acc.fatal \/ e.id # "san" THEN acc ELSE parseSANExtension(acc, e), start, exts)
    IN IF ~Clean(b) \/ pub.fatal \/ pub.nfe # {} \/ ~Clean(in.tbs.subject) THEN [fatal |-> TRUE]
       ELSE [r EXCEPT !.out.exts = exts]

CheckRequestSignature(r) == checkSignature(r.sigAlgo, r.tbs, r.signature, r.pub)
----------------------------------------------------------------------------
(* What creation and reading promise each other.                           *)

FieldsOf ==
    [keyUsage |-> {"keyUsage"}, eku |-> {"ekus", "unknownEKUs"}, ski |-> {"ski"}, aki |-> {"aki"},
     basic |-> {"basicValid", "isCA", "maxPathLen", "maxPathLenZero"}, aia |-> {"ocsp", "issuing"},
     sia |-> {"timestamps", "caRepos"}, san |-> {"dns", "emails", "ips", "uris"}, policies |-> {"policies"},
     nameConstraints |-> {"permitted", "excluded"}, crldp |-> {"crldps"}, sct |-> {"scts"}]

\* A name as it has to be read back: extra names take the place of others of
\* their type, and only those that are texts are found by their type.
MeantName(n) ==
    LET Extra(a) == Map(SelectSeq(n.extraNames, LAMBDA atv : atv.type = a /\ atv.string), LAMBDA atv : atv.text)
        over == {atv.type : atv \in Range(n.extraNames)}
        One(a) == IF a \notin over THEN n[a] ELSE IF Extra(a) = <<>> THEN "" ELSE Last(Extra(a))
    IN [CN |-> One("CN"), SERIALNUMBER |-> One("SERIALNUMBER")]
         @@ [a \in Range(ListAttributes) |-> IF a \in over THEN Extra(a) ELSE n[a]]

\* The name is the subject of the template, unless it has one encoded already.
NameIsRead(name, t) ==
    /\ t.rawSubject = Absent => \A a \in DOMAIN name \ {"names", "extraNames"} : name[a] = MeantName(t.subject)[a]
    /\ t.rawSubject # Absent => name = FillFromRDNSequence(t.rawSubject.v)

\* The template as the certificate has to say it: no path length is -1, an
\* IPv4 address has four bytes, a network no host part, and the issuer's key
\* identifier is the issuer's unless the certificate is self-signed.
Meant(t, parent) ==
    LET Nets(c) == [c EXCEPT !.ips = Map(@, LAMBDA n : [ip |-> Masked(n), mask |-> n.mask])]
        bc == t.basicValid
        len == IF t.maxPathLen = 0 /\ ~t.maxPathLenZero THEN -1 ELSE t.maxPathLen
    IN [t EXCEPT !.isCA = bc /\ @, !.maxPathLen = IF bc THEN len ELSE 0, !.maxPathLenZero = bc /\ len = 0,
                 !.ips = Map(@, Shortest), !.permitted = Nets(@), !.excluded = Nets(@),
                 !.aki = AuthorityKeyId(t, parent, subjectBytes(parent), subjectBytes(t))]

\* Creation accepts templates that reading refuses: a URI whose host is no
\* domain, a URI constraint that is an address, a mask with holes.
Unreadable(t) ==
    LET over == {e.id : e \in Range(t.extra)}
        constraints == t.permitted.uris \o t.excluded.uris
    IN \/ "san" \notin over /\ \E u \in Range(t.uris) : ~u.labels
       \/ /\ "nameConstraints" \notin over
          /\ \/ \E u \in Range(constraints) : u.ip
             \/ \E n \in Range(t.permitted.ips \o t.excluded.ips) : ~isValidIPMask(n.mask) \/ Masked(n).len # Len(n.mask)

\* A created certificate is read back as the template that was meant, its
\* signature holds for the signer's key, and extra extensions take the place
\* of what the template would have produced.
IsReadAs(r, t, parent, pub, key, meant, over) ==
    /\ r.fatal <=> Unreadable(t)
    /\ r.fatal \/
         /\ \A id \in DOMAIN FieldsOf \ over : \A f \in FieldsOf[id] : r.out[f] = meant[f]
         /\ \A id \in over : (id = "sia" /\ t.timestamps # <<>>) \/ Cardinality(Positions(r.out.exts, id)) = 1
         /\ r.out.pub = pub /\ NameIsRead(r.out.subject, t) /\ NameIsRead(r.out.issuer, parent)
         /\ t.sigAlgo = "MD5WithRSA" \/ checkSignature(r.out.sigAlgo, r.out.tbs, r.out.signature, key)

CreatedIsRead(t, parent, pub, key) ==
    LET c == CreateCertificate(t, parent, pub, key)
    IN c.ok => IsReadAs(ParseCertificate(c.der), t, parent, pub, key, Meant(t, parent), {e.id : e \in Range(t.extra)})

\* The same of requests: an extension named in an attribute stays as it is
\* there, and the names come back.  (A request that asks for PSS is not
\* signed with it: its signature does not hold.)
RequestIsReadAs(r, t, key, over) ==
    /\ r.fatal <=> key.curve = "P192" \/ ("san" \notin over /\ \E u \in Range(t.uris) : ~u.labels)
    /\ r.fatal \/
         /\ "san" \in over \/ \A f \in FieldsOf.san : r.out[f] = [t EXCEPT !.ips = Map(@, Shortest)][f]
         /\ \A id \in over : Cardinality(Positions(r.out.exts, id)) = 1
         /\ isRSAPSS(t.sigAlgo) \/ t.sigAlgo = "MD5WithRSA" \/ CheckRequestSignature(r.out)

RequestIsRead(t, key) ==
    LET b == CreateCertificateRequest(t, key)
    IN b # Absent => RequestIsReadAs(ParseCertificateRequest(b), t, key,
                       {e.id : e \in Range(t.extra) \cup Range(parseCSRExtensions(t.attributes))})

CRLIsReadAs(b, c, key) ==
    b # Absent => ParseCRL(b).tbs.revoked = <<1, 2>> /\ CheckCRLSignature([c EXCEPT !.pub = key], ParseCRL(b))
CRLIsRead(c, key) == CRLIsReadAs(CreateCRL(c, key, <<1, 2>>, 0, 1), c, key)

\* Everything in the certificate is DER, and every list is whole; the key of
\* an unknown algorithm is not looked at.
Understood(b) ==
    LET v == b.v.tbs.v
    IN /\ Clean(b) /\ Clean(v.subject) /\ Clean(v.issuer) 
       /\ getPublicKeyAlgorithmFromOID(v.info.oid) # "unknown" => Reads(v.info.key)
       /\ v.info.oid = "RSA" => v.info.params = NullBytes /\ v.info.key.v.n > 0
       /\ \A e \in Range(v.exts) :
            /\ e.id \in DOMAIN FieldsOf \cup {"ipPrefix", "asList"} => Clean(e.value)
            /\ e.id = "san" => \A i \in DOMAIN e.value.v : e.value.v[i].tag = "ip" => e.value.v[i].val.len \in {4, 16}
            /\ e.id = "sct" => e.value.v.form = "tls" /\ ~e.value.v.trailing
            /\ e.id = "ipPrefix" => \A x \in Range(e.value.v) :
                 x.af \in {2, 3} /\ (x.choice = NullBytes \/ (Reads(x.choice) /\ \A a \in Range(x.choice.v) : Reads(a)))
            /\ e.id = "asList" => \A c \in {e.value.v.asNum, e.value.v.rdi} :
                 c \in {NoBytes, NullBytes} \/ (Clean(c) /\ \A a \in Range(c.v) : Reads(a))

\* A certificate that is returned without an error has been understood as a
\* whole, and both entry points agree on it.
BothAgree(b, r, rs) ==
    /\ ~r.fatal /\ r.nfe = {} => Understood(b)
    /\ Clean(b) => rs.fatal = r.fatal /\ (r.fatal \/ rs = [fatal |-> FALSE, out |-> <<r.out, r.out>>, nfe |-> r.nfe])
NoErrorMeansUnderstood(b) == BothAgree(b, ParseCertificate(b), ParseCertificates(<<b, b>>))
=============================================================================
