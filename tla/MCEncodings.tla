---------------------------- MODULE MCEncodings ----------------------------
(***************************************************************************)
(* Types, values and bytes for the two encodings, DER and TLS.             *)
(***************************************************************************)
EXTENDS Integers, Sequences, SequencesExt

CONSTANTS Int64Bytes, Int32Bytes, Base128Bytes, MaxInt, UintBytes, Nil

D == INSTANCE ASN1
T == INSTANCE TLSEncoding

----------------------------------------------------------------------------
(* DER: types as x509 uses them, values of them, and bytes to be read.     *)

Number == D!Schema("int64")
Str == D!Schema("string")
Time == D!Schema("time")
Opt(s) == [s EXCEPT !.optional = TRUE]
Tagged(s, n) == [s EXCEPT !.tag = n]
Explicit(s, n) == [s EXCEPT !.tag = n, !.explicit = TRUE]
Struct(fields) == [D!Schema("struct") EXCEPT !.fields = fields]
Slice(elem) == [D!Schema("slice") EXCEPT !.elem = elem]

Ints == {0, 1, 127, 128, 255, 256, 32767, 32768, -1, -128, -129, -32768, -32769}
Times == [year : {0, 1949, 1950, 1968, 1969, 1999, 2000, 2049, 2050, 9999, 10000}, zone : {0, 59, 60, -1, -719}]
Strings == BoundedSeq({97, 42, 38, 195, 169}, 2)
Oids == {<<0, 39>>, <<1, 40>>, <<1, 39, 127>>, <<2, 5, 29>>, <<2, 47, 128>>, <<2, 48, 0, 1>>, <<1>>, <<2, 8111>>}

DERValues ==
    [s : {Number, D!Schema("big"), Tagged(Number, 30), Explicit(Number, 31), Opt(Explicit(Number, 127)),
          [Opt(Number) EXCEPT !.default = -1], [Tagged(Number, 128) EXCEPT !.class = D!ClassApplication],
          Opt(Tagged(Number, 3))}, v : Ints]
      \cup [s : {D!Schema("int32"), D!Schema("enum")}, v : {n \in Ints : n \in -128..127}]
      \cup [s : {Time, [Time EXCEPT !.generalized = TRUE], Explicit(Time, 0)}, v : Times]
      \cup [s : {Str, [Str EXCEPT !.str = D!TagIA5String], [Str EXCEPT !.str = D!TagPrintableString],
                 [Str EXCEPT !.str = D!TagNumericString], Explicit(Str, 1),
                 [Tagged(Str, 2) EXCEPT !.str = D!TagIA5String]}, v : Strings]
      \cup [s : {D!Schema("oid"), Tagged(D!Schema("oid"), 8)}, v : Oids]
      \cup [s : {D!Schema("bits")},
            v : {[bytes |-> b[1], bitLength |-> b[2]] : b \in {<<<<>>, 0>>, <<<<128>>, 1>>, <<<<254>>, 7>>, <<<<1, 0>>, 16>>}}]
      \cup [s : {D!Schema("octets"), Opt(Tagged(D!Schema("octets"), 0))},
            v : {<<>>, <<0>>, [i \in 1..127 |-> 1], [i \in 1..128 |-> 2], [i \in 1..300 |-> 3]}]
      \cup [s : {D!Schema("bool"), Opt(D!Schema("bool"))}, v : BOOLEAN]
      \cup [s : {Struct(<<Opt(Explicit(Number, 0)), [Opt(Tagged(Number, 1)) EXCEPT !.default = 1], Opt(D!Schema("bool")), Number>>)},
            v : {<<a, b, c, 5>> : a \in {0, 1}, b \in {0, 1}, c \in BOOLEAN}]
      \cup [s : {Slice(Number), [Slice(Number) EXCEPT !.kind = "sliceSET"], [Slice(Number) EXCEPT !.set = TRUE],
                 Opt(Tagged(Slice(Number), 3))}, v : {<<>>, <<1>>, <<128, 0>>}]
      \cup [s : {Slice(Str)}, v : {<<x, y>> : x, y \in {<<97>>, <<42>>}}]
      \cup [s : {Slice(Time)}, v : {<<x, y>> : x, y \in {t \in Times : t.year \in {1950, 2050}}}]

DERReads ==
    [s : {Number, D!Schema("int32"), D!Schema("bits"), D!Schema("oid"), D!Schema("bool"), D!Schema("any")},
     b : {<<t>> \o l \o c : t \in {1, 2, 3, 6, 34, 31}, l \in {<<0>>, <<1>>, <<2>>, <<129, 2>>}, c \in BoundedSeq({0, 1, 127, 128, 255}, 3)}]
      \cup [s : {Str, D!Schema("any")}, b : {<<t, Len(c)>> \o c : t \in {12, 19, 20, 22, 30}, c \in BoundedSeq({0, 35, 97, 195, 169}, 3)}]
      \cup [s : {[Struct(<<Number, Opt(Str), Opt(Explicit(Number, 0))>>) EXCEPT !.raw = TRUE]},
            b : {<<48, Len(c)>> \o c : c \in {x \o y \o z :
                   x \in {<<2, 1, 0>>, <<2, 2, 0, 1>>},
                   y \in {<<>>, <<19, 1, 97>>, <<19, 1, 195>>, <<12, 1, 195>>, <<12, 0>>},
                   z \in {<<>>, <<160, 0>>, <<160, 3, 2, 1, 5>>, <<160, 1, 2, 1, 5>>, <<1, 1, 255>>, <<160, 3, 2, 2, 0, 1>>}}}]

DER(in) ==
    /\ in.kind = "derValue" => \A junk \in {<<>>, <<4, 1, 0>>} : D!RoundTrip(in.x.s, in.x.v, junk)
    /\ in.kind = "derRead" => D!LaxExtendsStrict(in.x.s, in.x.b)

LaxTag(in) == in.kind = "derRead" => D!LaxTagRelaxes(in.x.s, in.x.b)
----------------------------------------------------------------------------
(* The structures of RFC 6962 in types.go; a hash has 2 bytes, a uint64    *)
(* has 2, and a certificate is at most 300 bytes long.                     *)

Hash == T!Array(2)
Uint64 == T!Uint(2)
OpaqueTag == <<<<"minlen", 1>>, <<"maxlen", 300>>>>
ListTag == <<<<"minlen", 0>>, <<"maxlen", 300>>>>
ByteTag == <<<<"maxval", 255>>>>
JSONVal == 300
When(selector, val) == <<<<"selector", selector>>, <<"val", val>>>>

ASN1Cert == T!Struct(<<T!Field("Data", OpaqueTag, T!Opaque)>>)
PreCert == T!Struct(<<T!Field("IssuerKeyHash", <<>>, Hash), T!Field("TBSCertificate", OpaqueTag, T!Opaque)>>)
JSONDataEntry == T!Struct(<<T!Field("Data", ListTag, T!Opaque)>>)
PrecertChainEntry ==
    T!Struct(<<T!Field("PreCertificate", OpaqueTag, ASN1Cert),
               T!Field("CertificateChain", ListTag, T!Vector(ASN1Cert))>>)
TimestampedEntry ==
    T!Struct(<<T!Field("Timestamp", <<>>, Uint64),
               T!Field("EntryType", <<<<"maxval", 65535>>>>, T!Enum),
               T!Choice("X509Entry", When("EntryType", 0), ASN1Cert),
               T!Choice("PrecertEntry", When("EntryType", 1), PreCert),
               T!Choice("JSONEntry", When("EntryType", JSONVal), JSONDataEntry),
               T!Field("Extensions", ListTag, T!Opaque)>>)
MerkleTreeLeaf ==
    T!Struct(<<T!Field("Version", ByteTag, T!Enum), T!Field("LeafType", ByteTag, T!Enum),
               T!Choice("TimestampedEntry", When("LeafType", 0), TimestampedEntry)>>)
DigitallySigned ==
    T!Struct(<<T!Field("Algorithm", <<>>, T!Struct(<<T!Field("Hash", ByteTag, T!Enum),
                                                      T!Field("Signature", ByteTag, T!Enum)>>)),
               T!Field("Signature", ListTag, T!Opaque)>>)
SignedCertificateTimestamp ==
    T!Struct(<<T!Field("SCTVersion", ByteTag, T!Enum), T!Field("LogID", <<>>, T!Struct(<<T!Field("KeyID", <<>>, Hash)>>)),
               T!Field("Timestamp", <<>>, Uint64), T!Field("Extensions", ListTag, T!Opaque),
               T!Field("Signature", <<>>, DigitallySigned)>>)
\* No structure of RFC 6962 has a uint24 in it.
WithUint24 == T!Struct(<<T!Field("A", <<>>, T!Uint(1)), T!Field("B", <<>>, T!Uint(3))>>)

Blobs == {<<>>, <<0>>, <<1, 2, 3>>, [i \in 1..300 |-> i % 7]}
Entries ==
    {<<258, 0, <<b>>, Nil, Nil, e>> : b \in Blobs, e \in Blobs}
      \cup {<<1, 1, Nil, <<<<9, 8>>, b>>, Nil, <<>>>> : b \in Blobs}
      \cup {<<65535, JSONVal, Nil, Nil, <<b>>, <<5>>>> : b \in Blobs}
      \cup {<<1, 0, Nil, Nil, Nil, <<>>>>, <<1, 2, Nil, Nil, Nil, <<>>>>, <<1, 1, <<<<1>>>>, Nil, Nil, <<>>>>}

TLSValues ==
    [t : {MerkleTreeLeaf}, v : {<<0, l, e>> : l \in {0, 1}, e \in Entries} \cup {<<0, 1, Nil>>, <<256, 0, Nil>>}]
      \cup [t : {PrecertChainEntry}, v : {<<<<b>>, [i \in DOMAIN c |-> <<c[i]>>]>> : b \in Blobs, c \in BoundedSeq(Blobs, 2)}]
      \cup [t : {SignedCertificateTimestamp}, v : {<<0, <<<<1, 2>>>>, 77, b, <<<<4, h>>, c>>>> : h \in {3, 256}, b, c \in Blobs}]

TLSReads ==
    [t : {TimestampedEntry},
     b : {<<0, 1>> \o x \o y : x \in {<<0, 0>>, <<0, 1, 7, 7>>, <<1, 44>>, <<0, 2>>},
                               y \in BoundedSeq({0, 1, 2}, 6)}]
      \cup [t : {T!Struct(<<T!Field("List", ListTag, T!Vector(ASN1Cert))>>)}, b : BoundedSeq({0, 1, 3, 4}, 6)]

TLS(in) ==
    /\ in.kind = "tlsValue" => \A junk \in {<<>>, <<1>>} : T!RoundTrip(in.x.t, <<>>, in.x.v, junk)
    /\ in.kind = "tlsRead" => T!OneEncoding(in.x.t, <<>>, in.x.b)

Encodings ==
    [kind : {"derValue"}, x : DERValues] \cup [kind : {"derRead"}, x : DERReads]
      \cup [kind : {"tlsValue"}, x : TLSValues] \cup [kind : {"tlsRead"}, x : TLSReads]
=============================================================================
