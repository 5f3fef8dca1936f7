------------------------------- MODULE X509 -------------------------------
(***************************************************************************)
(* Package x509: certificates, certificate requests and CRLs are created   *)
(* from templates, and read leniently: what is merely not DER costs a      *)
(* NonFatalError, what cannot be understood the certificate.               *)
(*                                                                         *)
(* DER is a blob: what it says (v), how it is encoded, and whether bytes   *)
(* follow it.  Only package asn1's lax mode reads a "lax" blob.  A text    *)
(* says whether it is ASCII, a domain of valid labels, an IP address.      *)
(***************************************************************************)
EXTENDS Integers, Sequences, SequencesExt, FiniteSets, TLC

CONSTANTS
    Absent,             \* nil, or the zero value
    KnownEKUs           \* the usages of extKeyUsageOIDs

Blob(form, v) == [form |-> form, trailing |-> FALSE, v |-> v]
Der(v) == Blob("der", v)
Reads(b) == b.form = "der"
ReadsLax(b) == b.form \in {"der", "lax"}
Clean(b) == Reads(b) /\ ~b.trailing
NullBytes == Der(Absent)
NoBytes == Blob("none", Absent)
----------------------------------------------------------------------------
(* Algorithms and keys.                                                    *)

signatureAlgorithmRows ==
    <<<<"MD2WithRSA", "md2WithRSA", "RSA", "none">>, <<"MD5WithRSA", "md5WithRSA", "RSA", "MD5">>,
      <<"SHA1WithRSA", "sha1WithRSA", "RSA", "SHA1">>, <<"SHA1WithRSA", "isoSHA1WithRSA", "RSA", "SHA1">>,
      <<"SHA256WithRSA", "sha256WithRSA", "RSA", "SHA256">>, <<"SHA384WithRSA", "sha384WithRSA", "RSA", "SHA384">>,
      <<"SHA512WithRSA", "sha512WithRSA", "RSA", "SHA512">>, <<"SHA256WithRSAPSS", "rsaPSS", "RSA", "SHA256">>,
      <<"SHA384WithRSAPSS", "rsaPSS", "RSA", "SHA384">>, <<"SHA512WithRSAPSS", "rsaPSS", "RSA", "SHA512">>,
      <<"DSAWithSHA1", "dsaWithSHA1", "DSA", "SHA1">>, <<"DSAWithSHA256", "dsaWithSHA256", "DSA", "SHA256">>,
      <<"ECDSAWithSHA1", "ecdsaWithSHA1", "ECDSA", "SHA1">>, <<"ECDSAWithSHA256", "ecdsaWithSHA256", "ECDSA", "SHA256">>,
      <<"ECDSAWithSHA384", "ecdsaWithSHA384", "ECDSA", "SHA384">>, <<"ECDSAWithSHA512", "ecdsaWithSHA512", "ECDSA", "SHA512">>,
      <<"PureEd25519", "ed25519", "Ed25519", "none">>>>
Details(row) == [algo |-> row[1], oid |-> row[2], key |-> row[3], hash |-> row[4]]
signatureAlgorithmDetails == [i \in DOMAIN signatureAlgorithmRows |-> Details(signatureAlgorithmRows[i])]

isRSAPSS(algo) == algo \in {"SHA256WithRSAPSS", "SHA384WithRSAPSS", "SHA512WithRSAPSS"}
HashSize(hash) == CASE hash = "SHA256" -> 32 [] hash = "SHA384" -> 48 [] hash = "SHA512" -> 64 [] OTHER -> 20

rsaPSSParameters(hash) ==
    Der([hash |-> hash, hashParams |-> NullBytes, mgf |-> "mgf1",
         mgfParams |-> Der([hash |-> hash, params |-> NullBytes]), salt |-> HashSize(hash), trailer |-> 1])

\* Bytes after either encoding of the parameters are not looked at.
SignatureAlgorithmFromAI(ai) ==
    LET rows == {i \in DOMAIN signatureAlgorithmDetails : signatureAlgorithmDetails[i].oid = ai.oid}
        p == ai.params.v
        mgf1 == p.mgfParams.v
    IN IF ai.oid # "rsaPSS"
         THEN IF rows = {} \/ (ai.oid = "ed25519" /\ ai.params # NoBytes) THEN "unknown"
              ELSE signatureAlgorithmDetails[CHOOSE i \in rows : \A j \in rows : i <= j].algo
       ELSE IF /\ Reads(ai.params) /\ ai.params # NullBytes /\ Reads(p.mgfParams)
               /\ p.hashParams \in {NoBytes, NullBytes} /\ mgf1.params \in {NoBytes, NullBytes}
               /\ p.mgf = "mgf1" /\ mgf1.hash = p.hash /\ p.trailer = 1
               /\ p.hash \in {"SHA256", "SHA384", "SHA512"} /\ p.salt = HashSize(p.hash)
              THEN p.hash \o "WithRSAPSS" ELSE "unknown"

Curves == {"P224", "P256", "P384", "P521", "P192"}
OIDFromNamedCurve(curve) == curve \in Curves

getPublicKeyAlgorithmFromOID(oid) ==
    IF oid \in {"RSA", "DSA", "ECDSA", "RSAESOAEP", "Ed25519"} THEN oid ELSE "unknown"

\* A public key is [type, curve, x]; an RSA key's x is [n, e], a DSA key's [y, p].
marshalPublicKey(pub) ==
    CASE pub.type = "RSA" -> [ok |-> TRUE, info |-> [oid |-> "RSA", params |-> NullBytes, key |-> Der(pub.x)]]
      [] pub.type = "ECDSA" ->
           [ok |-> OIDFromNamedCurve(pub.curve),
            info |-> [oid |-> "ECDSA", params |-> Der(pub.curve), key |-> Der([curve |-> pub.curve, x |-> pub.x])]]
      [] pub.type = "Ed25519" -> [ok |-> TRUE, info |-> [oid |-> "Ed25519", params |-> NoBytes, key |-> Der(pub.x)]]
      [] OTHER -> [ok |-> FALSE, info |-> Absent]

Key(type, curve, x) == [type |-> type, curve |-> curve, x |-> x]
Parsed(fatal, nfe, pub) == [fatal |-> fatal, nfe |-> nfe, pub |-> pub]
IfLax(b) == IF Reads(b) THEN {} ELSE {"not DER"}

ParseRSA(algo, info) ==
    Parsed(\/ algo = "RSAESOAEP" /\ ~Clean(info.params)
           \/ ~ReadsLax(info.key) \/ info.key.trailing
           \/ info.key.v.e <= 0,
           IfLax(info.key)
             \cup (IF algo = "RSA" /\ info.params # NullBytes THEN {"missing NULL"} ELSE {})
             \cup (IF info.key.v.n <= 0 THEN {"modulus"} ELSE {}),
           Key("RSA", Absent, info.key.v))

ParseDSA(info) ==
    Parsed(~ReadsLax(info.key) \/ info.key.trailing \/ ~Clean(info.params)
             \/ info.key.v <= 0 \/ info.params.v <= 0,
           IfLax(info.key), Key("DSA", Absent, [y |-> info.key.v, p |-> info.params.v]))

ParseECDSA(info) ==
    Parsed(\/ ~Clean(info.params) \/ info.params.v \notin Curves
           \/ info.key.v.curve # info.params.v,                       \* elliptic.Unmarshal: not on the curve
           IF info.params.v = "P192" THEN {"insecure curve"} ELSE {},
           Key("ECDSA", info.params.v, info.key.v.x))

parsePublicKey(algo, info) ==
    CASE algo \in {"RSA", "RSAESOAEP"} -> ParseRSA(algo, info)
      [] algo = "DSA" -> ParseDSA(info)
      [] algo = "ECDSA" -> ParseECDSA(info)
      [] algo = "Ed25519" -> Parsed(FALSE, {}, Key("Ed25519", Absent, info.key.v))
      [] OTHER -> Parsed(FALSE, {}, Absent)

\* The entry point for a key by itself tolerates nothing.
KeyAlone(p) == IF ~p.fatal /\ p.nfe = {} THEN p.pub ELSE Absent
ParsePKIXPublicKey(b) ==
    IF Clean(b) /\ getPublicKeyAlgorithmFromOID(b.v.oid) # "unknown"
    THEN KeyAlone(parsePublicKey(b.v.oid, b.v)) ELSE Absent

----------------------------------------------------------------------------
(* Signatures: who signed what, with which scheme over which hash.         *)

\* What key.Sign does with the digest: PSS only if the options ask for it.
Sign(key, hash, pss, signed) ==
    [by |-> key, hash |-> hash, over |-> signed, positive |-> TRUE, form |-> "der", trailing |-> FALSE,
     scheme |-> IF key.type = "RSA" /\ pss THEN "PSS" ELSE key.type]

checkSignature(algo, signed, sig, pub) ==
    LET rows == {i \in DOMAIN signatureAlgorithmDetails : signatureAlgorithmDetails[i].algo = algo}
        d == signatureAlgorithmDetails[CHOOSE i \in rows : \A j \in rows : i >= j]
    IN /\ rows # {} /\ pub # Absent
       /\ d.hash = "none" => d.key = "Ed25519"
       /\ d.hash # "MD5"
       /\ pub.type = d.key
       /\ pub.type \in {"DSA", "ECDSA"} => Clean(sig) /\ sig.positive
       /\ sig.by = pub /\ sig.hash = d.hash /\ sig.over = signed
       /\ sig.scheme = IF isRSAPSS(algo) THEN "PSS" ELSE pub.type

signingParamsForPublicKey(pub, requested) ==
    LET rows == {i \in DOMAIN signatureAlgorithmDetails : signatureAlgorithmDetails[i].algo = requested}
        d == signatureAlgorithmDetails[CHOOSE i \in rows : \A j \in rows : i <= j]
        curveHash == CASE pub.curve \in {"P224", "P256"} -> "SHA256"
                       [] pub.curve = "P384" -> "SHA384"
                       [] OTHER -> "SHA512"
        hash == CASE pub.type = "RSA" -> "SHA256"
                  [] pub.type = "Ed25519" -> "none"
                  [] OTHER -> curveHash
        oid == CASE pub.type = "RSA" -> "sha256WithRSA"
                 [] pub.type = "Ed25519" -> "ed25519"
                 [] OTHER -> [SHA256 |-> "ecdsaWithSHA256", SHA384 |-> "ecdsaWithSHA384",
                              SHA512 |-> "ecdsaWithSHA512"][hash]
        params == IF pub.type = "RSA" THEN NullBytes ELSE NoBytes
        ok == pub.type \in {"RSA", "Ed25519"} \/ (pub.type = "ECDSA" /\ pub.curve \in Curves \ {"P192"})
    IN IF requested = Absent THEN [ok |-> ok, hash |-> hash, ai |-> [oid |-> oid, params |-> params]]
       ELSE IF ~ok \/ rows = {} THEN [ok |-> FALSE]
       ELSE [ok |-> d.key = pub.type /\ (d.hash = "none" => pub.type = "Ed25519"), hash |-> d.hash,
             ai |-> [oid |-> d.oid, params |-> IF isRSAPSS(requested) THEN rsaPSSParameters(d.hash) ELSE params]]

----------------------------------------------------------------------------
(* Reading a certificate: what is understood so far (out), the non-fatal   *)
(* errors (nfe), and whether the certificate is given up (fatal).          *)

Fatal(acc) == [acc EXCEPT !.fatal = TRUE]
Note(acc, why) == [acc EXCEPT !.nfe = @ \cup {why}]
Fill(acc, fields) == [acc EXCEPT !.out = fields @@ @]
Unhandled(acc, e) ==
    IF e.critical THEN [acc EXCEPT !.out.unhandledCritical = Append(@, e.id)] ELSE acc
FillIfClean(acc, e, fields) == IF Clean(e.value) THEN Fill(acc, fields) ELSE Fatal(acc)

\* The bit string's first bit is the most significant bit of its first byte.
At(bits, i) == IF i >= bits.bitLength THEN 0 ELSE (bits.bytes[(i \div 8) + 1] \div 2^(7 - (i % 8))) % 2
ParseKeyUsage(bits) == FoldLeft(LAMBDA usage, i : usage + (At(bits, i - 1) * 2^(i - 1)), 0, [i \in 1..9 |-> i])

parseSANExtension(acc, e) ==
    LET OfTag(t) == SelectSeq(e.value.v, LAMBDA n : n.tag = t)
        Values(s) == [i \in DOMAIN s |-> s[i].val]
        ips == SelectSeq(OfTag("ip"), LAMBDA n : n.val.len \in {4, 16})
        names == [dns |-> Values(OfTag("dns")), emails |-> Values(OfTag("email")),
                  ips |-> Values(ips), uris |-> Values(OfTag("uri"))]
        short == IF Len(ips) < Len(OfTag("ip")) THEN Note(acc, "IP address length") ELSE acc
        filled == Fill(short, names)
    IN IF ~Clean(e.value) \/ \E n \in Range(OfTag("uri")) : ~n.val.labels THEN Fatal(acc)
       ELSE IF \A f \in DOMAIN names : names[f] = <<>> THEN Unhandled(filled, e) ELSE filled

isValidIPMask(mask) ==
    /\ \A i \in DOMAIN mask : mask[i] \in {0, 128, 192, 224, 240, 248, 252, 254, 255}
    /\ \A i, j \in DOMAIN mask : i < j /\ mask[i] # 255 => mask[j] = 0

isIA5String(text) == text.ia5

BadSubtree(n) ==
    CASE n.tag = "ip" -> n.val.len \notin {8, 32} \/ ~isValidIPMask(n.val.mask)
      [] n.tag \in {"dns", "email"} -> ~isIA5String(n.val)
      [] n.tag = "uri" -> ~isIA5String(n.val) \/ n.val.ip
      [] OTHER -> FALSE

\* getValues: the constraints of each type, in order; a subtree of another
\* type is not handled, a domain that cannot be split is kept with a note.
getValues(subtrees) ==
    LET Values(t) == LET s == SelectSeq(subtrees, LAMBDA n : n.tag = t) IN [i \in DOMAIN s |-> s[i].val]
        nets == Values("ip")
    IN [dns |-> Values("dns"), ips |-> [i \in DOMAIN nets |-> [ip |-> nets[i].ip, mask |-> nets[i].mask]],
        emails |-> Values("email"), uris |-> Values("uri")]

parseNameConstraintsExtension(acc, e) ==
    LET all == e.value.v.permitted \o e.value.v.excluded
        noted == IF \E i \in DOMAIN all : all[i].tag \in {"dns", "email", "uri"} /\ ~all[i].val.labels
                 THEN Note(acc, "constraint") ELSE acc
        filled == Fill(noted, [permitted |-> getValues(e.value.v.permitted),
                               excluded |-> getValues(e.value.v.excluded), ncCritical |-> e.critical])
    IN IF ~Clean(e.value) \/ all = <<>> \/ \E i \in DOMAIN all : BadSubtree(all[i]) THEN Fatal(acc)
       ELSE IF \E i \in DOMAIN all : all[i].tag \notin {"dns", "email", "uri", "ip"} THEN Unhandled(filled, e) ELSE filled

\* Only names that are URIs are taken; a point may have no name.
parseDistributionPoints(points) ==
    FoldLeft(LAMBDA urls, p : urls \o [i \in DOMAIN SelectSeq(p, LAMBDA n : n.tag = "uri") |->
                                          SelectSeq(p, LAMBDA n : n.tag = "uri")[i].val], <<>>, points)

ParseExtKeyUsage(acc, e, known) ==
    LET oids == e.value.v
        f == Fill(acc, [ekus |-> acc.out.ekus \o SelectSeq(oids, LAMBDA o : o \in known),
                        unknownEKUs |-> acc.out.unknownEKUs \o SelectSeq(oids, LAMBDA o : o \notin known)])
    IN IF e.value = NoBytes THEN Note(acc, "empty EKU")
       ELSE IF ~ReadsLax(e.value) \/ e.value.trailing THEN Fatal(acc)
       ELSE IF Reads(e.value) THEN f ELSE Note(f, "not DER")

\* Authority and subject information access: the URIs of two methods.
ParseInfoAccess(acc, e, first, second) ==
    LET Urls(m) == LET s == SelectSeq(e.value.v, LAMBDA d : d.tag = "uri" /\ d.method = m) IN [i \in DOMAIN s |-> s[i].url]
        f == Fill(acc, first :> acc.out[first] \o Urls(first) @@ second :> acc.out[second] \o Urls(second))
    IN IF ~Clean(e.value) THEN Fatal(acc)
       ELSE IF e.value.v = <<>> THEN Note(f, "empty info access") ELSE f

ParseSCTList(acc, e) ==
    LET raw == e.value.v
    IN IF ~Reads(e.value) THEN Note(acc, "SCT list")
       ELSE IF e.value.trailing \/ raw.form # "tls" THEN Note(Fill(acc, [rawSCT |-> raw]), "SCT list")
       ELSE LET f == Fill(acc, [rawSCT |-> raw, scts |-> raw.v]) IN IF raw.trailing THEN Note(f, "SCT list") ELSE f

\* RPKI: lists of prefixes and ranges, of which what cannot be read is dropped.
Readable(list, tags) == SelectSeq(list, LAMBDA x : x.tag \in tags /\ x.form = "der")
Unread(list, tags) == \E x \in Range(list) : x.tag \notin tags \/ x.form # "der"

ParseFamily(block) ==
    [af |-> block.af, inherit |-> block.choice = NullBytes,
     addrs |-> IF block.choice = NullBytes THEN <<>> ELSE Readable(block.choice.v, {"bits", "sequence"})]

parseRPKIAddrBlocks(acc, e) ==
    LET read == SelectSeq(e.value.v, LAMBDA b : b.af \in {2, 3} /\ Reads(b.choice))
        whole == /\ Len(read) = Len(e.value.v)
                 /\ \A b \in Range(read) : b.choice # NullBytes => ~Unread(b.choice.v, {"bits", "sequence"})
        f == Fill(acc, [addrBlocks |-> [i \in DOMAIN read |-> ParseFamily(read[i])]])
    IN IF ~Clean(e.value) THEN Note(acc, "addrBlocks") ELSE IF whole THEN f ELSE Note(f, "addrBlocks")

\* Mutant: a list of which an element was dropped counts as whole.
parseASIDChoiceMutant(c) ==
    IF c = NoBytes THEN [ids |-> Absent, whole |-> TRUE]
    ELSE IF c = NullBytes THEN [ids |-> "inherit", whole |-> TRUE]
    ELSE IF ~Clean(c) THEN [ids |-> Absent, whole |-> FALSE]
    ELSE [ids |-> Readable(c.v, {"integer", "sequence"}), whole |-> TRUE]

parseASIDChoice(c) ==
    IF c = NoBytes THEN [ids |-> Absent, whole |-> TRUE]
    ELSE IF c = NullBytes THEN [ids |-> "inherit", whole |-> TRUE]
    ELSE IF ~Clean(c) THEN [ids |-> Absent, whole |-> FALSE]
    ELSE [ids |-> Readable(c.v, {"integer", "sequence"}), whole |-> ~Unread(c.v, {"integer", "sequence"})]

FillASIdentifiers(acc, asNum, rdi) ==
    LET f == Fill(acc, [asNumbers |-> asNum.ids, routingDomains |-> rdi.ids])
    IN IF asNum.whole /\ rdi.whole THEN f ELSE Note(f, "ASIdentifiers")
parseRPKIASIdentifiers(acc, e) ==
    IF ~Clean(e.value) THEN Note(acc, "ASIdentifiers")
    ELSE FillASIdentifiers(acc, parseASIDChoice(e.value.v.asNum), parseASIDChoice(e.value.v.rdi))

ParseExtension(acc0, e) ==
    LET acc == [acc0 EXCEPT !.out.exts = Append(@, e)]
        v == e.value.v
    IN IF acc0.fatal THEN acc0
       ELSE CASE e.id = "keyUsage" -> FillIfClean(acc, e, [keyUsage |-> ParseKeyUsage(v)])
              [] e.id = "basic" -> FillIfClean(acc, e, [basicValid |-> TRUE, isCA |-> v.isCA,
                                        maxPathLen |-> v.maxPathLen, maxPathLenZero |-> v.maxPathLen = 0])
              [] e.id = "san" -> parseSANExtension(acc, e)
              [] e.id = "nameConstraints" -> parseNameConstraintsExtension(acc, e)
              [] e.id = "crldp" -> FillIfClean(acc, e, [crldps |-> acc.out.crldps \o parseDistributionPoints(v)])
              [] e.id = "aki" -> FillIfClean(acc, e, [aki |-> v])
              [] e.id = "eku" -> ParseExtKeyUsage(acc, e, KnownEKUs)
              [] e.id = "ski" -> FillIfClean(acc, e, [ski |-> v])
              [] e.id = "policies" -> FillIfClean(acc, e, [policies |-> v])
              [] e.id = "aia" -> ParseInfoAccess(acc, e, "ocsp", "issuing")
              [] e.id = "sia" -> ParseInfoAccess(acc, e, "timestamps", "caRepos")
              [] e.id = "ipPrefix" -> parseRPKIAddrBlocks(acc, e)
              [] e.id = "asList" -> parseRPKIASIdentifiers(acc, e)
              [] e.id = "sct" -> ParseSCTList(acc, e)
              [] OTHER -> Unhandled(acc, e)

NoConstraints == [dns |-> <<>>, ips |-> <<>>, emails |-> <<>>, uris |-> <<>>]
NoExtensions ==
    [exts |-> <<>>, extra |-> <<>>, unhandledCritical |-> <<>>, keyUsage |-> 0, basicValid |-> FALSE, isCA |-> FALSE,
     maxPathLen |-> 0, maxPathLenZero |-> FALSE, dns |-> <<>>, emails |-> <<>>, ips |-> <<>>, uris |-> <<>>,
     permitted |-> NoConstraints, excluded |-> NoConstraints, ncCritical |-> FALSE, crldps |-> <<>>,
     aki |-> Absent, ski |-> Absent, ekus |-> <<>>, unknownEKUs |-> <<>>, policies |-> <<>>,
     ocsp |-> <<>>, issuing |-> <<>>, timestamps |-> <<>>, caRepos |-> <<>>, rawSCT |-> Absent, scts |-> <<>>,
     addrBlocks |-> <<>>, asNumbers |-> Absent, routingDomains |-> Absent]

\* pkix.Name: lists of values, but one common name and one serial number, and
\* all attributes as they come in names.
ListAttributes == <<"C", "ST", "L", "STREET", "POSTALCODE", "O", "OU">>
NoName ==
    [names |-> <<>>, extraNames |-> <<>>, CN |-> "", SERIALNUMBER |-> ""] @@ [a \in ToSet(ListAttributes) |-> <<>>]

FillFromRDNSequence(rdns) ==
    FoldLeft(LAMBDA n, atv :
               LET m == [n EXCEPT !.names = Append(@, atv)]
               IN IF ~atv.string THEN m
                  ELSE IF atv.type \in {"CN", "SERIALNUMBER"} THEN [m EXCEPT ![atv.type] = atv.text]
                  ELSE IF atv.type \in ToSet(ListAttributes) THEN [m EXCEPT ![atv.type] = Append(@, atv.text)]
                  ELSE m,
             NoName, FlattenSeq(rdns))

\* Bytes after a subject or issuer that is not DER are not looked at.
BadName(b) == ~ReadsLax(b) \/ (Reads(b) /\ b.trailing)

ReadTBS(in, tbs, algo, pub) ==
    IF pub.fatal \/ BadName(tbs.subject) \/ BadName(tbs.issuer) THEN [fatal |-> TRUE]
    ELSE FoldLeft(ParseExtension,
                  [out |-> [tbs |-> in.tbs, rawSubject |-> tbs.subject, rawIssuer |-> tbs.issuer,
                            signature |-> in.signature, sigAlgo |-> SignatureAlgorithmFromAI(tbs.ai),
                            pubAlgo |-> algo, pub |-> pub.pub, version |-> tbs.version + 1, serial |-> tbs.serial,
                            subject |-> FillFromRDNSequence(tbs.subject.v), issuer |-> FillFromRDNSequence(tbs.issuer.v),
                            notBefore |-> tbs.notBefore, notAfter |-> tbs.notAfter] @@ NoExtensions,
                   nfe |-> pub.nfe \cup IfLax(tbs.subject) \cup IfLax(tbs.issuer), fatal |-> FALSE],
                  tbs.exts)
parseCertificate(in) ==
    LET tbs == in.tbs.v
        algo == getPublicKeyAlgorithmFromOID(tbs.info.oid)
    IN ReadTBS(in, tbs, algo, parsePublicKey(algo, tbs.info))

\* The whole is read strictly and, if that fails, leniently.
WholeRead(b, r) == IF r.fatal THEN [fatal |-> TRUE] ELSE [r EXCEPT !.nfe = @ \cup IfLax(b)]
ParseCertificate(b) ==
    IF ~ReadsLax(b) \/ b.trailing THEN [fatal |-> TRUE] ELSE WholeRead(b, parseCertificate(b.v))

ParseTBSCertificate(b) == ParseCertificate([b EXCEPT !.v = [tbs |-> b, signature |-> Absent]])

\* Certificates one after the other.  After a strict read fails the bytes are
\* gone, and the lenient one is given a pointer it cannot fill: it fails.
ParseCertificates(bs) ==
    LET rs == [i \in DOMAIN bs |-> parseCertificate(bs[i].v)]
    IN IF \E i \in DOMAIN bs : ~Reads(bs[i]) \/ rs[i].fatal THEN [fatal |-> TRUE]
       ELSE [fatal |-> FALSE, out |-> [i \in DOMAIN bs |-> rs[i].out], nfe |-> UNION {rs[i].nfe : i \in DOMAIN bs}]
=============================================================================
