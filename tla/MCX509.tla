------------------------------ MODULE MCX509 ------------------------------
(***************************************************************************)
(* Templates, keys and certificates for X509Create.                        *)
(***************************************************************************)
EXTENDS Integers, Sequences, SequencesExt, TLC

CONSTANTS Absent, KnownEKUs, Radix, SeedSize, GroupOrder

X == INSTANCE X509Create
P == INSTANCE PrivateKeys

MCGroupOrder == [P224 |-> 7, P256 |-> 11, P384 |-> 19, P521 |-> 67, P192 |-> 5, odd |-> 3]

RSAKey == X!Key("RSA", Absent, [n |-> 2048, e |-> 3])
ECKey(curve) == X!Key("ECDSA", curve, "q")
EdKey == X!Key("Ed25519", Absent, "q")
Keys == {RSAKey, EdKey, ECKey("P256"), ECKey("P521"), ECKey("P192"), X!Key("DSA", Absent, [y |-> 1, p |-> 1])}

Name(s) == [s |-> s, ia5 |-> TRUE, labels |-> TRUE, ip |-> FALSE]
V4(hi, lo) == [len |-> 4, mapped |-> FALSE, hi |-> hi, lo |-> lo]
V6(hi, lo) == [len |-> 16, mapped |-> FALSE, hi |-> hi, lo |-> lo]
Mapped(hi, lo) == [len |-> 16, mapped |-> TRUE, hi |-> hi, lo |-> lo]
Mask4 == <<255, 192, 0, 0>>
Mask6(n) == [i \in 1..16 |-> IF i <= n THEN 255 ELSE 0]
Net(ip, mask) == [ip |-> ip, mask |-> mask]

CN(x) == [X!NoName EXCEPT !.CN = x]
Attribute(type, text) == [type |-> type, text |-> text, string |-> TRUE]
Subjects ==
    {[X!NoName EXCEPT !.CN = cn, !.SERIALNUMBER = "7", !.OU = ou, !.C = <<"c">>, !.extraNames = extra] :
       cn \in {"", "L"}, ou \in {<<>>, <<"u", "v">>},
       extra \in {<<>>, <<Attribute("DC", "d")>>, <<Attribute("OU", "w"), Attribute("CN", "a"), Attribute("CN", "b")>>}}
      \cup {[X!NoName EXCEPT !.CN = "L", !.O = <<"o">>, !.extraNames = <<[Attribute("O", "i") EXCEPT !.string = FALSE]>>]}

Template ==
    [serial |-> 1, sigAlgo |-> Absent, subject |-> CN("L"), rawSubject |-> Absent, notBefore |-> 0, notAfter |-> 1,
     extra |-> <<>>, pub |-> ECKey("P256"), attributes |-> <<>>] @@ X!NoExtensions

Full ==
    [Template EXCEPT !.keyUsage = 5, !.ekus = <<"serverAuth">>, !.unknownEKUs = <<"odd">>, !.basicValid = TRUE,
        !.ski = "l", !.aki = "other", !.ocsp = <<"o">>, !.issuing = <<"i">>, !.caRepos = <<"c">>, !.dns = <<"d", "e">>,
        !.emails = <<"m">>, !.ips = <<Mapped(1, 1), V6(2, 1)>>, !.uris = <<Name("u")>>, !.policies = <<"p">>,
        !.permitted = [X!NoConstraints EXCEPT !.dns = <<Name("d")>>, !.ips = <<Net(V4(1, 1), Mask4)>>],
        !.excluded = [X!NoConstraints EXCEPT !.emails = <<Name("m")>>, !.uris = <<Name("u")>>],
        !.crldps = <<"x", "y">>, !.scts = <<"s1", "s2">>]

Extra(id) ==
    CASE id = "keyUsage" -> X!Ext(id, TRUE, X!KeyUsageBits(1))
      [] id = "basic" -> X!Ext(id, TRUE, [isCA |-> TRUE, maxPathLen |-> 3])
      [] id \in {"ski", "aki"} -> X!Ext(id, FALSE, "k")
      [] id = "nameConstraints" -> X!Ext(id, FALSE, [permitted |-> <<[tag |-> "dns", val |-> Name("n")]>>, excluded |-> <<>>])
      [] id = "sct" -> X!Ext(id, FALSE, X!Blob("tls", <<>>))
      [] OTHER -> X!Ext(id, FALSE, <<>>)

Named == {[Template EXCEPT !.subject = s] : s \in Subjects}
Templates ==
    {Template, Full}
      \cup {[Template EXCEPT !.keyUsage = u] : u \in 0..511}
      \cup {[Template EXCEPT !.basicValid = v, !.isCA = v, !.maxPathLen = n, !.maxPathLenZero = z] :
              v, z \in BOOLEAN, n \in {-1, 0, 1}}
      \cup {[Full EXCEPT !.permitted.ips = <<Net(n[1], n[2])>>] :
              n \in {V4(1, 1), Mapped(1, 1), V6(1, 1)} \X {Mask4, Mask6(16), Mask6(8), Mask6(13), <<255, 0, 255, 0>>, <<254, 255, 0, 0>>}}
      \cup {[Full EXCEPT !.excluded.uris = <<[Name("u") EXCEPT ![f] = ~@]>>] : f \in {"ia5", "labels", "ip"}}
      \cup {[Full EXCEPT !.uris = <<[Name("u") EXCEPT !.labels = FALSE]>>, !.subject = X!NoName],
            [Full EXCEPT !.serial = Absent], [Full EXCEPT !.rawSubject = X!Blob("lax", X!ToRDNSequence(CN("L")))],
            [Template EXCEPT !.scts = <<>>, !.rawSCT = X!Blob("tls", <<>>)]}

Parents == {Template, [Template EXCEPT !.subject = CN("I"), !.ski = "i"], [Template EXCEPT !.subject = CN("I")]}
Algos == {Absent, "none"} \cup {X!signatureAlgorithmDetails[i].algo : i \in DOMAIN X!signatureAlgorithmDetails}

Request == [type |-> "extensionRequest", values |-> <<<<X!Ext("san", FALSE, <<[tag |-> "dns", val |-> "a"]>>), X!Ext("poison", FALSE, "")>>>>]
Attributes == {<<>>, <<Request>>, <<[type |-> "password", values |-> <<>>], [Request EXCEPT !.values = <<>>]>>,
               <<[type |-> "password", values |-> <<<<>>>>], [Request EXCEPT !.values = <<<<>>>>]>>}

Created ==
    [t : Templates, parent : Parents, pub : {ECKey("P256")}, key : {RSAKey}]
      \cup [t : {[Full EXCEPT !.sigAlgo = a] : a \in Algos}, parent : Parents, pub : Keys, key : Keys]

Requests ==
    [t : {[Full EXCEPT !.sigAlgo = a, !.attributes = x] : a \in Algos, x \in Attributes}, key : Keys]
      \cup [t : {[Full EXCEPT !.extra = e, !.uris = <<[Name("u") EXCEPT !.labels = b]>>, !.attributes = x] :
                   e \in {<<>>, <<Extra("san")>>, <<Extra("poison")>>}, b \in BOOLEAN, x \in Attributes}, key : {RSAKey}]

\* Certificates as they come: encodings that are not DER, bytes that follow.
Forms(v) == {X!Der(v), X!Blob("lax", v), X!Blob("bad", v), [X!Der(v) EXCEPT !.trailing = TRUE], [X!Blob("lax", v) EXCEPT !.trailing = TRUE]}
Atom(tag, form) == [tag |-> tag, form |-> form, v |-> 1]
Addrs == {<<Atom("bits", "der"), Atom("sequence", f)>> : f \in {"der", "bad"}} \cup {<<Atom("integer", "der")>>}
ASChoices == {X!NoBytes, X!NullBytes} \cup UNION {Forms(<<Atom("integer", "der"), Atom("sequence", f)>>) : f \in {"der", "bad"}}

Values(id) ==
    CASE id = "san" -> UNION {Forms(<<[tag |-> "ip", val |-> [V4(1, 1) EXCEPT !.len = n]], [tag |-> "other", val |-> 0]>>) : n \in {4, 5, 16}}
      [] id = "eku" -> Forms(<<"serverAuth", "odd">>) \cup {X!NoBytes}
      [] id = "sct" -> UNION {Forms(raw) : raw \in {X!Blob("tls", <<"s">>), X!Blob("bad", <<>>), [X!Blob("tls", <<"s">>) EXCEPT !.trailing = TRUE]}}
      [] id = "ipPrefix" -> UNION {Forms(<<[af |-> n, choice |-> c]>>) : n \in {1, 2, 3, 4}, c \in {X!NullBytes} \cup UNION {Forms(a) : a \in Addrs}}
      [] id = "asList" -> UNION {Forms([asNum |-> a, rdi |-> b]) : a, b \in ASChoices}
      [] OTHER -> Forms(Extra(id).value.v)

RSAInfos ==
    {[oid |-> o, params |-> p, key |-> k] : o \in {"RSA", "RSAESOAEP", "odd"}, p \in {X!NullBytes, X!NoBytes},
       k \in UNION {Forms([n |-> n, e |-> e]) : n, e \in {0, 1}}}
DSAInfos == {[oid |-> "DSA", params |-> p, key |-> k] : p \in Forms(1), k \in Forms(0) \cup Forms(1)}
ECDSAInfos ==
    {[oid |-> "ECDSA", params |-> p, key |-> X!Der([curve |-> c, x |-> "q"])] :
       p \in Forms("P192") \cup Forms("P256"), c \in {"P192", "P256"}}

Plain == X!CreateCertificate(Full, Template, RSAKey, RSAKey).der
WithTBS(f, x) == [Plain EXCEPT !.v.tbs.v[f] = x]
Parse(x) == [kind |-> "parse", x |-> x]

RSAPrivate(e, d, primes) == [type |-> "RSA", n |-> FoldLeft(LAMBDA x, p : x * p, 1, primes), e |-> e, d |-> d, primes |-> primes]
RSAPrivates == {RSAPrivate(3, 3, <<3, 5>>), RSAPrivate(5, 5, <<3, 5, 7>>)}
ECPrivates(curve) ==
    {[type |-> "ECDSA", curve |-> curve, d |-> d, point |-> P!ScalarBaseMult(curve, P!BytesOf(d))] : d \in 1..4}
PKCS1Blobs ==
    {[P!MarshalPKCS1PrivateKey(k) EXCEPT !.form = f.form, !.trailing = f.trailing, !.v[x] = @ + i] :
       k \in RSAPrivates, f \in Forms(0), x \in {"version", "n", "e", "d", "p", "q"}, i \in {-5, -1, 0, 1, 2}}
ECBlobs ==
    {[f EXCEPT !.v = [shape |-> "ec", version |-> v, d |-> d, oid |-> c, point |-> Absent]] :
       f \in Forms(0), v \in {0, 1}, d \in BoundedSeq(0..3, 4), c \in {"P256", "P521", "odd", Absent}}
IVs == {[i \in 1..n |-> i] : n \in {8, 16}}
Noise(size, run, byte) == [i \in 1..size |-> IF i > size - run THEN byte ELSE 99]
Damaged(b) ==
    {[dek |-> Absent, bytes |-> b.bytes], [b EXCEPT !.bytes.plain = Front(@)], [b EXCEPT !.bytes.plain = <<>>]}
      \cup {[b EXCEPT !.dek = d] : d \in {[b.dek EXCEPT !.comma = FALSE], [b.dek EXCEPT !.hex = FALSE], [b.dek EXCEPT !.mode = "odd"],
                                          [b.dek EXCEPT !.iv = Append(@, 0)]}}
PKCS8(algo, params, key) == [shape |-> "pkcs8", algo |-> algo, params |-> params, key |-> key]

\* The values differ in type from input to input: each is a disjunct.
X509Input(in) ==
    \/ in \in [kind : {"create"}, x : Created]
    \/ in \in [kind : {"create"}, x : [t : Named, parent : Named, pub : {ECKey("P256")}, key : {RSAKey}]]
    \/ \E id \in DOMAIN X!FieldsOf \cup {"poison"}, ts \in {<<>>, <<"t">>}, parent \in Parents :
         in = [kind |-> "create", x |-> [t |-> [Full EXCEPT !.extra = <<Extra(id)>>, !.timestamps = ts],
                                         parent |-> parent, pub |-> ECKey("P256"), key |-> RSAKey]]
    \/ in \in [kind : {"request"}, x : Requests]
    \/ \E id \in DOMAIN X!FieldsOf \cup {"ipPrefix", "asList"} : \E v \in Values(id) :
         in = Parse(WithTBS("exts", <<[id |-> id, critical |-> TRUE, value |-> v], X!Ext("poison", TRUE, "")>>))
    \/ \E i \in RSAInfos : in = Parse(WithTBS("info", i))
    \/ \E i \in DSAInfos : in = Parse(WithTBS("info", i))
    \/ \E i \in ECDSAInfos : in = Parse(WithTBS("info", i))
    \/ \E f \in {"subject", "issuer"}, x \in Forms(X!ToRDNSequence(CN("L"))), b \in Forms(0) :
         in = Parse([WithTBS(f, x) EXCEPT !.form = b.form, !.trailing = b.trailing])
    \/ \E k \in RSAPrivates \cup UNION {ECPrivates(c) : c \in X!Curves} \cup {[type |-> "Ed25519", seed |-> <<0, 1>>]} :
         in = [kind |-> "key", x |-> k]
    \/ \E b \in PKCS1Blobs \cup ECBlobs : in = [kind |-> "keyBlob", x |-> b]
    \/ \E b \in PKCS1Blobs, p \in {X!NullBytes, X!NoBytes} : in = [kind |-> "keyBlob", x |-> X!Der(PKCS8("RSA", p, b))]
    \/ \E b \in ECBlobs, p \in Forms("P256") \cup {X!Der("odd"), X!NullBytes} :
         b.v.version = 1 /\ Len(b.v.d) < 4 /\ in = [kind |-> "keyBlob", x |-> X!Der(PKCS8("ECDSA", p, b))]
    \/ \E f \in Forms(0), g \in Forms([seed |-> <<0, 1>>]) \cup Forms([seed |-> <<0>>]), p \in {X!NullBytes, X!NoBytes}, a \in {"Ed25519", "odd"} :
         in = [kind |-> "keyBlob", x |-> [f EXCEPT !.v = PKCS8(a, p, g)]]
    \/ \E iv \in IVs, n \in {0, 1, 7, 8, 15, 16, 17}, c \in {"DES", "3DES", "AES128", "AES192", "AES256", "odd"}, run, byte \in 0..17 :
         in = [kind |-> "block", iv |-> iv, data |-> [i \in 1..n |-> byte], alg |-> c,
               noise |-> Noise(Len(iv) * ((n \div Len(iv)) + 1), run, byte)]

\* Issuers with and without key identifiers, whose certificates go to a log
\* directly or by way of a pre-issuer, and logs with an elliptic or RSA key.
P256(x) == X!Key("ECDSA", "P256", [point |-> x])
Leaf == [Template EXCEPT !.subject = CN("Leaf"), !.pub = P256("leaf"), !.ski = "random", !.dns = <<"d">>]
IssuerTemplate(ski) ==
    [Template EXCEPT !.subject = CN("Issuer"), !.pub = P256("issuer"), !.ski = ski, !.basicValid = TRUE, !.isCA = TRUE]
IssuerDer(ski) == X!CreateCertificate(IssuerTemplate(ski), IssuerTemplate(ski), P256("issuer"), P256("issuer")).der

Setup(template, ski, viaPreIssuer, logKey) ==
    [template |-> template, issuer |-> X!ParseCertificate(IssuerDer(ski)).out, issuerDer |-> IssuerDer(ski),
     viaPreIssuer |-> viaPreIssuer, preKey |-> P256("pre"), logKey |-> logKey]

MCSetups ==
    {Setup(Leaf, ski, pre, P256("log")) : ski \in {Absent, "issuer"}, pre \in BOOLEAN}
      \cup {Setup([Leaf EXCEPT !.extra = <<X!Ext("odd", TRUE, "x")>>], "issuer", FALSE, RSAKey)}

X509Creates(in) ==
    /\ in.kind = "create" => X!CreatedIsRead(in.x.t, in.x.parent, in.x.pub, in.x.key) /\ X!CRLIsRead(in.x.t, in.x.key)
    /\ in.kind = "request" => X!RequestIsRead(in.x.t, in.x.key)
KeysAreRead(in) ==
    /\ in.kind = "key" => P!KeyIsRead(in.x)
    /\ in.kind = "keyBlob" => P!ReadKeyIsSound(in.x)
    /\ in.kind = "block" =>
         LET b == P!EncryptPEMBlock(in.iv, in.data, "password", in.alg)
         IN /\ P!BlockIsRead(in.iv, in.data, "password", in.alg, "guess", in.noise)
            /\ b.ok => \A d \in Damaged(b.key) : P!DamageIsNoticed(d, "password", in.noise)
X509Parses(in) == in.kind = "parse" => X!NoErrorMeansUnderstood(in.x)
=============================================================================
