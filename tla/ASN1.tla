------------------------------- MODULE ASN1 -------------------------------
(***************************************************************************)
(* The DER encoder and decoder of the asn1 fork (asn1.go, marshal.go and   *)
(* common.go), which reads certificates that are not quite DER if asked to *)
(* be lax.  A byte is a number below 256.  A Go type with its field tags   *)
(* (fieldParameters) is a record, a schema; a value of it is a number, a   *)
(* Boolean, a sequence of bytes, or a sequence of values for a struct or a *)
(* slice.  The decoder is recursive in the schema.                         *)
(*                                                                         *)
(* Numbers are narrower than in Go: an int64 has Int64Bytes bytes instead  *)
(* of 8, an int32 Int32Bytes instead of 4, and a base 128 number at most   *)
(* Base128Bytes bytes instead of 5, with MaxInt in the place of 2^31 - 1.  *)
(* In a time, the digits from the month to the second are one byte.        *)
(***************************************************************************)
EXTENDS Integers, Sequences, SequencesExt

CONSTANTS Int64Bytes, Int32Bytes, Base128Bytes, MaxInt, Nil

Bad == [ok |-> FALSE]
Good(v, rest) == [ok |-> TRUE, val |-> v, rest |-> rest]

\* The next step takes the value and the rest; an error ends it all.
Then(r, Step(_, _)) == IF r.ok THEN Step(r.val, r.rest) ELSE Bad

ClassUniversal == 0
ClassApplication == 1
ClassContextSpecific == 2
ClassPrivate == 3
TagBoolean == 1
TagInteger == 2
TagBitString == 3
TagOctetString == 4
TagOID == 6
TagEnum == 10
TagUTF8String == 12
TagSequence == 16
TagSet == 17
TagNumericString == 18
TagPrintableString == 19
TagT61String == 20
TagIA5String == 22
TagUTCTime == 23
TagGeneralizedTime == 24
TagGeneralString == 27
TagBMPString == 30

OtherStringTags ==
    {TagIA5String, TagGeneralString, TagT61String, TagUTF8String, TagNumericString, TagBMPString}

\* b & mask # 0, for masks that are powers of two
Bit(b, mask) == (b \div mask) % 2 = 1
BigEndian(bytes) == FoldLeft(LAMBDA n, b : 256 * n + b, 0, bytes)
Drop(s, n) == SubSeq(s, n + 1, Len(s))
Take(s, n) == SubSeq(s, 1, n)

----------------------------------------------------------------------------
(* The contents of primitive types: the value, or Bad.                     *)

parseBool(bytes) ==
    IF bytes \in {<<0>>, <<255>>} THEN Good(bytes = <<255>>, <<>>) ELSE Bad

checkInteger(bytes, lax) ==
    /\ bytes # <<>>
    /\ \/ Len(bytes) = 1 \/ lax
       \/ bytes[1] = 0 /\ Bit(bytes[2], 128)
       \/ bytes[1] = 255 /\ ~Bit(bytes[2], 128)
       \/ bytes[1] \in 1..254

\* two's complement
Signed(bytes) == BigEndian(bytes) - IF Bit(bytes[1], 128) THEN 256^Len(bytes) ELSE 0

parseInt64(bytes, lax) ==
    IF checkInteger(bytes, lax) /\ Len(bytes) <= Int64Bytes THEN Good(Signed(bytes), <<>>) ELSE Bad

parseInt32(bytes, lax) ==
    LET half == 256^Int32Bytes \div 2 IN
    Then(parseInt64(bytes, lax), LAMBDA n, rest : IF n \in -half..(half - 1) THEN Good(n, rest) ELSE Bad)

parseBigInt(bytes, lax) ==
    IF checkInteger(bytes, lax) THEN Good(Signed(bytes), <<>>) ELSE Bad

parseBitString(bytes) ==
    IF \/ bytes = <<>> \/ bytes[1] > 7
       \/ (Len(bytes) = 1 /\ bytes[1] > 0)
       \/ Last(bytes) % 2^bytes[1] # 0
    THEN Bad
    ELSE Good([bytes |-> Tail(bytes), bitLength |-> 8 * (Len(bytes) - 1) - bytes[1]], <<>>)

\* The number ends with the first byte below 128.  It need not be minimal.
Base128Value(bytes) == FoldLeft(LAMBDA v, b : 128 * v + (b % 128), 0, bytes)
Base128Checked(v, rest) == IF v > MaxInt THEN Bad ELSE Good(v, rest)
Base128OfLength(n, bytes) ==
    IF n = 0 \/ n > Base128Bytes THEN Bad
    ELSE Base128Checked(Base128Value(Take(bytes, n)), Drop(bytes, n))
parseBase128Int(bytes) == Base128OfLength(SelectInSeq(bytes, LAMBDA b : b < 128), bytes)

RECURSIVE parseArcs(_)
parseArcs(bytes) ==
    IF bytes = <<>> THEN Good(<<>>, <<>>)
    ELSE Then(parseBase128Int(bytes), LAMBDA first, rest :
           Then(parseArcs(rest), LAMBDA others, end : Good(<<first>> \o others, end)))

FirstArcs(v) == IF v < 80 THEN <<v \div 40, v % 40>> ELSE <<2, v - 80>>
parseObjectIdentifier(bytes, lax) ==
    IF bytes = <<>> THEN (IF lax THEN Good(<<>>, <<>>) ELSE Bad)
    ELSE Then(parseArcs(bytes), LAMBDA arcs, end : Good(FirstArcs(Head(arcs)) \o Tail(arcs), end))

----------------------------------------------------------------------------
(* Times: a year and the offset of the zone in minutes.                    *)

Digit(b) == b - 48
IsDigits(s) == \A i \in DOMAIN s : s[i] \in 48..57
Seconds == 115
NoSeconds == 109
Zulu == 90

\* what time.Parse takes for "Z0700", and its zone, which must be as Format would write it
ParseZone(s) ==
    IF s = <<Zulu>> THEN Good(0, <<>>)
    ELSE IF Len(s) = 5 /\ s[1] \in {43, 45} /\ IsDigits(Tail(s))
    THEN LET minutes == 60 * (10 * Digit(s[2]) + Digit(s[3])) + 10 * Digit(s[4]) + Digit(s[5]) IN
         IF minutes = 0 \/ Digit(s[4]) > 5 THEN Bad
         ELSE Good(IF s[1] = 43 THEN minutes ELSE -minutes, <<>>)
    ELSE Bad

parseUTCTime(s) ==
    LET yy == 10 * Digit(s[1]) + Digit(s[2])
        year == IF yy >= 69 THEN 1900 + yy ELSE 2000 + yy
    IN IF Len(s) < 4 \/ ~IsDigits(Take(s, 2)) THEN Bad
       ELSE IF s[3] \notin {Seconds, NoSeconds} THEN Bad
       ELSE Then(ParseZone(Drop(s, 3)), LAMBDA zone, end :
              Good([year |-> IF year >= 2050 THEN year - 100 ELSE year, zone |-> zone], end))

parseGeneralizedTime(s) ==
    IF Len(s) < 6 \/ ~IsDigits(Take(s, 4)) THEN Bad
    ELSE IF s[5] # Seconds THEN Bad
    ELSE Then(ParseZone(Drop(s, 5)), LAMBDA zone, end :
           Good([year |-> FoldLeft(LAMBDA n, d : 10 * n + Digit(d), 0, Take(s, 4)), zone |-> zone], end))

----------------------------------------------------------------------------
(* Strings are the bytes of their UTF-8 form; code points end at 2^11.     *)

Asterisk == 42
Ampersand == 38
isNumeric(b) == b \in 48..57 \/ b = 32
isPrintable(b, also) ==
    b \in 97..122 \cup 65..90 \cup 48..57 \cup 39..41 \cup 43..47 \cup {32, 58, 61, 63} \cup also

RuneToUTF8(r) == IF r < 128 THEN <<r>> ELSE <<192 + (r \div 64), 128 + (r % 64)>>

validUTF8(s) ==
    \A i \in DOMAIN s :
      \/ s[i] < 128
      \/ (s[i] \in 194..223 /\ i < Len(s) /\ s[i + 1] \in 128..191)
      \/ (s[i] \in 128..191 /\ i > 1 /\ s[i - 1] \in 194..223)

couldBeISO8859_1(s) == \A i \in DOMAIN s : s[i] >= 32 /\ s[i] \notin 127..159
couldBeT61(s) ==
    \A i \in DOMAIN s :
      s[i] \notin {0, 35, 36, 92, 94, 96, 123, 125, 126, 165, 166, 185, 186, 192, 201,
                   222, 223, 229, 255} \cup 172..175 \cup 208..220
iso8859_1ToUTF8(s) == FlattenSeq([i \in DOMAIN s |-> RuneToUTF8(s[i])])

parsePrintableString(s, lax) ==
    CASE \A i \in DOMAIN s : isPrintable(s[i], {Asterisk, Ampersand}) -> Good(s, <<>>)
      [] OTHER -> IF ~lax THEN Bad
                  ELSE IF couldBeISO8859_1(s) THEN Good(iso8859_1ToUTF8(s), <<>>)
                  ELSE IF couldBeT61(s) THEN Good(s, <<>>)
                  ELSE Bad

\* a final zero is a terminator
parseBMPString(s) ==
    LET n == Len(s)
        t == IF n >= 2 /\ s[n] = 0 /\ s[n - 1] = 0 THEN Take(s, n - 2) ELSE s
    IN IF n % 2 # 0 THEN Bad
       ELSE Good(FlattenSeq([i \in 1..(Len(t) \div 2) |-> RuneToUTF8(256 * t[2*i - 1] + t[2*i])]), <<>>)

parseString(s, tag, lax) ==
    CASE tag = TagPrintableString -> parsePrintableString(s, lax)
      [] tag = TagNumericString -> IF \A i \in DOMAIN s : isNumeric(s[i]) THEN Good(s, <<>>) ELSE Bad
      [] tag = TagIA5String -> IF \A i \in DOMAIN s : s[i] < 128 THEN Good(s, <<>>) ELSE Bad
      [] tag = TagUTF8String -> IF validUTF8(s) THEN Good(s, <<>>) ELSE Bad
      [] tag \in {TagT61String, TagGeneralString} -> Good(s, <<>>)
      [] tag = TagBMPString -> parseBMPString(s)

----------------------------------------------------------------------------
(* Headers.                                                                *)

LengthDigits(digits) ==
    FoldLeft(LAMBDA v, b : IF v = Nil THEN Nil
                           ELSE IF v >= 2^23 \/ (v = 0 /\ b = 0) THEN Nil
                           ELSE 256 * v + b, 0, digits)
LengthChecked(v, rest) == IF v = Nil THEN Bad ELSE IF v < 128 THEN Bad ELSE Good(v, rest)
ParseLength(bytes) ==
    IF bytes = <<>> THEN Bad
    ELSE LET n == bytes[1] - 128 IN
         IF n < 0 THEN Good(bytes[1], Tail(bytes))
         ELSE IF n = 0 \/ Len(bytes) <= n THEN Bad
         ELSE LengthChecked(LengthDigits(SubSeq(bytes, 2, n + 1)), Drop(bytes, n + 1))

ParseTag(bytes) ==
    IF bytes[1] % 32 # 31 THEN Good(bytes[1] % 32, Tail(bytes))
    ELSE Then(parseBase128Int(Tail(bytes)), LAMBDA tag, rest : IF tag < 31 THEN Bad ELSE Good(tag, rest))
parseTagAndLength(bytes) ==
    IF bytes = <<>> THEN Bad
    ELSE Then(ParseTag(bytes), LAMBDA tag, rest :
           Then(ParseLength(rest), LAMBDA length, end :
             Good([class |-> bytes[1] \div 64, compound |-> Bit(bytes[1], 32), tag |-> tag, length |-> length], end)))

----------------------------------------------------------------------------
(* A schema.  class is Nil, ClassApplication or ClassPrivate as the field  *)
(* tag says; fields is for structs, whose first field may be RawContent    *)
(* (raw), elem for slices.                                                 *)

Schema(kind) ==
    [kind |-> kind, optional |-> FALSE, explicit |-> FALSE, class |-> Nil, tag |-> Nil,
     default |-> Nil, str |-> Nil, generalized |-> FALSE, set |-> FALSE, omitEmpty |-> FALSE,
     lax |-> FALSE, raw |-> FALSE, fields |-> <<>>, elem |-> <<>>]

Integer64 == {"int", "int64"}
canHaveDefaultValue(s) == s.kind \in Integer64 \cup {"int32", "enum"}

\* getUniversalType: RawValue matches everything.
matchAny(s) == s.kind = "raw"
UniversalTag(s) ==
    CASE s.kind = "oid" -> TagOID
      [] s.kind = "bits" -> TagBitString
      [] s.kind = "time" -> TagUTCTime
      [] s.kind = "enum" -> TagEnum
      [] s.kind \in {"big", "int32"} \cup Integer64 -> TagInteger
      [] s.kind \in {"bool", "flag"} -> TagBoolean
      [] s.kind = "octets" -> TagOctetString
      [] s.kind \in {"struct", "slice"} -> TagSequence
      [] s.kind = "sliceSET" -> TagSet
      [] s.kind = "string" -> TagPrintableString
      [] OTHER -> Nil
compoundType(s) == s.kind \in {"struct", "slice", "sliceSET"}

ZeroValue(s) ==
    CASE s.kind \in {"struct", "slice", "sliceSET", "octets", "oid", "string"} -> <<>>
      [] s.kind \in {"bool", "flag"} -> FALSE
      [] s.kind = "bits" -> [bytes |-> <<>>, bitLength |-> 0]
      [] OTHER -> 0

\* setDefaultValue: what an absent field is, if it may be absent.
DefaultValue(s, rest) ==
    CASE ~s.optional -> Bad
      [] s.optional /\ s.default # Nil /\ canHaveDefaultValue(s) -> Good(s.default, rest)
      [] OTHER -> Good(ZeroValue(s), rest)

TagClass(s) ==
    IF s.tag = Nil THEN ClassUniversal
    ELSE IF s.class = Nil THEN ClassContextSpecific ELSE s.class

\* The universal tag that parseField expects, given the one it finds.
WireTag(s, t) ==
    IF s.set THEN TagSet ELSE
    CASE s.kind = "string" /\ t.class = ClassUniversal /\ t.tag \in OtherStringTags -> t.tag
      [] s.kind = "string" /\ t.class # ClassUniversal /\ s.str # Nil -> s.str
      [] s.kind = "time" /\ t.class = ClassUniversal /\ t.tag = TagGeneralizedTime -> t.tag
      [] OTHER -> UniversalTag(s)

\* ANY: what it holds, tagged with the type on the wire, or nothing.
ParseAnyContent(tag, content, lax) ==
    CASE tag \in (OtherStringTags \ {TagGeneralString}) \cup {TagPrintableString} -> parseString(content, tag, lax)
      [] tag = TagInteger -> parseInt64(content, lax)
      [] tag = TagBitString -> parseBitString(content)
      [] tag = TagOID -> parseObjectIdentifier(content, lax)
      [] tag = TagUTCTime -> parseUTCTime(content)
      [] tag = TagGeneralizedTime -> parseGeneralizedTime(content)
      [] tag = TagOctetString -> Good(content, <<>>)
      [] OTHER -> Good(Nil, <<>>)
parseAny(t, content, lax) ==
    IF t.compound \/ t.class # ClassUniversal THEN Good(Nil, <<>>)
    ELSE Then(ParseAnyContent(t.tag, content, lax), LAMBDA v, end : Good(<<t.tag, v>>, end))

parsePrimitive(s, wireTag, content, lax) ==
    CASE s.kind = "oid" -> parseObjectIdentifier(content, lax)
      [] s.kind = "bits" -> parseBitString(content)
      [] s.kind = "time" -> IF wireTag = TagUTCTime THEN parseUTCTime(content)
                            ELSE parseGeneralizedTime(content)
      [] s.kind \in {"enum", "int32"} -> parseInt32(content, lax)
      [] s.kind \in Integer64 -> parseInt64(content, lax)
      [] s.kind = "big" -> parseBigInt(content, lax)
      [] s.kind = "bool" -> parseBool(content)
      [] s.kind = "flag" -> Good(TRUE, <<>>)
      [] s.kind = "octets" -> Good(content, <<>>)
      [] s.kind = "string" -> parseString(content, wireTag, lax)

\* parseSequenceOf looks at all headers first, with the string and the time types
\* taken for one.
ElementTag(t) ==
    CASE t.tag \in OtherStringTags -> TagPrintableString
      [] t.tag = TagGeneralizedTime -> TagUTCTime
      [] OTHER -> t.tag

RECURSIVE elementsMatch(_, _)
elementMatches(elem, t) ==
    IF ~t.ok THEN FALSE
    ELSE /\ t.val.length <= Len(t.rest)
         /\ \/ matchAny(elem)
            \/ /\ t.val.class = ClassUniversal /\ t.val.compound = compoundType(elem)
               /\ ElementTag(t.val) = UniversalTag(elem)
         /\ elementsMatch(elem, Drop(t.rest, t.val.length))
elementsMatch(elem, bytes) == bytes = <<>> \/ elementMatches(elem, parseTagAndLength(bytes))

\* The fields of a struct take over lax from it (asn1.go:1056).
FieldLax(field, lax) == lax

RECURSIVE parseField(_, _, _), parseFields(_, _, _), parseElements(_, _, _)

\* parseField once the outer header is t, with bytes what follows it.
ParseValue(s, wire, t, content, full, lax) ==
    CASE s.kind = "raw" ->
           Good([class |-> t.class, tag |-> t.tag, compound |-> t.compound, bytes |-> content, full |-> full], <<>>)
      [] s.kind = "struct" ->
           Then(parseFields(s.fields, content, lax), LAMBDA v, end : Good(IF s.raw THEN <<full>> \o v ELSE v, end))
      [] s.kind \in {"slice", "sliceSET"} ->
           IF elementsMatch(s.elem, content) THEN parseElements(s.elem, content, lax) ELSE Bad
      [] OTHER -> parsePrimitive(s, wire, content, lax)

parseContent(s, whole, t, bytes, lax) ==
    LET implicit == ~s.explicit /\ s.tag # Nil
        class == IF implicit THEN TagClass(s) ELSE ClassUniversal
        tag == IF implicit THEN s.tag ELSE WireTag(s, t)
        rest == Drop(bytes, t.length)
    IN IF \/ ~(matchAny(s) /\ ~implicit) /\ <<t.class, t.tag>> # <<class, tag>>
          \/ ~matchAny(s) /\ t.compound # compoundType(s)
       THEN DefaultValue(s, whole)
       ELSE IF t.length > Len(bytes) THEN Bad
       ELSE Then(ParseValue(s, WireTag(s, t), t, Take(bytes, t.length), Take(whole, Len(whole) - Len(rest)), lax),
                 LAMBDA v, end : Good(v, rest))

\* An explicit tag is unwrapped first; the element within is not held against its length.
Wraps(s, t) ==
    /\ t.class = IF s.class = ClassApplication THEN ClassApplication ELSE ClassContextSpecific
    /\ t.tag = s.tag /\ (t.length = 0 \/ t.compound)
ParseTagged(s, whole, t, bytes, lax) ==
    IF s.kind = "any"
    THEN IF t.length > Len(bytes) THEN Bad
         ELSE Then(parseAny(t, Take(bytes, t.length), lax), LAMBDA v, end : Good(v, Drop(bytes, t.length)))
    ELSE IF s.explicit /\ bytes = <<>> THEN Bad
    ELSE IF s.explicit /\ ~Wraps(s, t) THEN DefaultValue(s, whole)
    ELSE IF ~s.explicit \/ s.kind = "raw" THEN parseContent(s, whole, t, bytes, lax)
    ELSE IF t.length = 0 THEN (IF s.kind = "flag" THEN Good(TRUE, bytes) ELSE Bad)
    ELSE Then(parseTagAndLength(bytes), LAMBDA inner, rest : parseContent(s, whole, inner, rest, lax))
parseField(s, bytes, lax) ==
    IF bytes = <<>> THEN DefaultValue(s, <<>>)
    ELSE Then(parseTagAndLength(bytes), LAMBDA t, rest : ParseTagged(s, bytes, t, rest, lax))

\* Extra bytes at the end of a struct are allowed.
parseFields(fields, bytes, lax) ==
    IF fields = <<>> THEN Good(<<>>, bytes)
    ELSE Then(parseField(Head(fields), bytes, FieldLax(Head(fields), lax)), LAMBDA first, rest :
           Then(parseFields(Tail(fields), rest, lax), LAMBDA others, end : Good(<<first>> \o others, end)))

parseElements(elem, bytes, lax) ==
    IF bytes = <<>> THEN Good(<<>>, <<>>)
    ELSE Then(parseField(elem, bytes, lax), LAMBDA first, rest :
           Then(parseElements(elem, rest, lax), LAMBDA others, end : Good(<<first>> \o others, end)))

UnmarshalWithParams(s, bytes) == parseField(s, bytes, s.lax)
----------------------------------------------------------------------------
(* Marshalling: the bytes, or Bad.                                         *)

\* the bytes of a number, in as few as possible, and in base 128
RECURSIVE Bytes(_), Septets(_)
Bytes(n) == (IF n < 256 THEN <<>> ELSE Bytes(n \div 256)) \o <<n % 256>>
Septets(n) == (IF n < 128 THEN <<>> ELSE Septets(n \div 128)) \o <<n % 128>>

\* int64Encoder and makeBigInt: as many bytes as the sign leaves room for
EncodeInt(n) ==
    LET fits(k) == n \in -(256^k \div 2)..((256^k \div 2) - 1)
        size == CHOOSE k \in 1..3 : fits(k) /\ \A j \in 1..(k - 1) : ~fits(j)
        bits == Bytes(IF n < 0 THEN n + 256^size ELSE n)
    IN [i \in 1..(size - Len(bits)) |-> 0] \o bits

appendBase128Int(n) ==
    LET s == Septets(n) IN [i \in DOMAIN s |-> IF i < Len(s) THEN s[i] + 128 ELSE s[i]]

makeObjectIdentifier(oid) ==
    IF Len(oid) < 2 THEN Bad
    ELSE IF oid[1] > 2 \/ (oid[1] < 2 /\ oid[2] >= 40) THEN Bad
    ELSE Good(appendBase128Int(40 * oid[1] + oid[2])
              \o FlattenSeq([i \in 1..(Len(oid) - 2) |-> appendBase128Int(oid[i + 2])]), <<>>)

appendTagAndLength(class, tag, length, compound) ==
    LET b == 64 * class + IF compound THEN 32 ELSE 0 IN
    (IF tag >= 31 THEN <<b + 31>> \o appendBase128Int(tag) ELSE <<b + tag>>)
    \o (IF length >= 128 THEN <<128 + Len(Bytes(length))>> \o Bytes(length) ELSE <<length>>)

TwoDigits(v) == <<48 + ((v \div 10) % 10), 48 + (v % 10)>>

appendTimeCommon(t) ==
    LET off == IF t.zone < 0 THEN -t.zone ELSE t.zone IN
    <<Seconds>> \o IF t.zone = 0 THEN <<Zulu>>
                   ELSE <<IF t.zone > 0 THEN 43 ELSE 45>> \o TwoDigits(off \div 60) \o TwoDigits(off % 60)

\* Mutant: 2050 is written with two digits.
outsideUTCRangeMutant(t) == t.year < 1950 \/ t.year > 2050

outsideUTCRange(t) == t.year < 1950 \/ t.year >= 2050
AsGeneralized(s, t) == s.generalized \/ outsideUTCRange(t)

makeTime(s, t) ==
    IF ~AsGeneralized(s, t) THEN Good(TwoDigits(t.year % 100) \o appendTimeCommon(t), <<>>)
    ELSE IF t.year \notin 0..9999 THEN Bad
    ELSE Good(TwoDigits(t.year \div 100) \o TwoDigits(t.year % 100) \o appendTimeCommon(t), <<>>)

makeString(s, v) ==
    IF \/ s.str = TagIA5String /\ \E i \in DOMAIN v : v[i] > 127
       \/ s.str = TagPrintableString /\ \E i \in DOMAIN v : ~isPrintable(v[i], {Asterisk})
       \/ s.str = TagNumericString /\ \E i \in DOMAIN v : ~isNumeric(v[i])
    THEN Bad ELSE Good(v, <<>>)

Omitted(s, v) ==
    \/ s.omitEmpty /\ s.kind \in {"slice", "sliceSET", "octets", "oid"} /\ v = <<>>
    \/ s.optional /\ s.default # Nil /\ canHaveDefaultValue(s) /\ v = s.default
    \/ s.optional /\ s.default = Nil /\ v = ZeroValue(s)

\* The universal tag of the value; Bad for a string that has no type.
MakeTag(s, v) ==
    LET plain == \A i \in DOMAIN v : isPrintable(v[i], {}) IN
    CASE s.kind = "string" /\ s.str # Nil -> Good(s.str, <<>>)
      [] s.kind = "string" /\ s.str = Nil ->
           IF plain THEN Good(TagPrintableString, <<>>)
           ELSE IF validUTF8(v) THEN Good(TagUTF8String, <<>>) ELSE Bad
      [] s.kind = "time" -> Good(IF AsGeneralized(s, v) THEN TagGeneralizedTime ELSE TagUTCTime, <<>>)
      [] s.kind \notin {"string", "time"} /\ s.set -> IF UniversalTag(s) = TagSequence THEN Good(TagSet, <<>>) ELSE Bad
      [] OTHER -> Good(UniversalTag(s), <<>>)

\* one after the other, if none of them fails
Concat(parts) ==
    IF \E i \in DOMAIN parts : ~parts[i].ok THEN Bad
    ELSE Good(FlattenSeq([i \in DOMAIN parts |-> parts[i].val]), <<>>)

RECURSIVE makeField(_, _)

makeBody(s, v) ==
    CASE s.kind = "flag" -> Good(<<>>, <<>>)
      [] s.kind = "time" -> makeTime(s, v)
      [] s.kind = "bits" -> Good(<<(8 - (v.bitLength % 8)) % 8>> \o v.bytes, <<>>)
      [] s.kind = "oid" -> makeObjectIdentifier(v)
      [] s.kind = "bool" -> Good(IF v THEN <<255>> ELSE <<0>>, <<>>)
      [] s.kind \in {"big", "int32", "enum"} \cup Integer64 -> Good(EncodeInt(v), <<>>)
      [] s.kind = "octets" -> Good(v, <<>>)
      [] s.kind = "string" -> makeString(s, v)
      [] s.kind = "struct" ->
           \* stripTagAndLength of the RawContent
           IF s.raw /\ v[1] # <<>> THEN Good(parseTagAndLength(v[1]).rest, <<>>)
           ELSE LET vs == IF s.raw THEN Tail(v) ELSE v IN
                Concat([i \in DOMAIN s.fields |-> makeField(s.fields[i], vs[i])])
      [] OTHER -> Concat([i \in DOMAIN v |-> makeField(s.elem, v[i])])

AddHeader(s, tag, body) ==
    LET plain == appendTagAndLength(ClassUniversal, tag, Len(body), compoundType(s)) \o body IN
    IF s.tag = Nil THEN plain
    ELSE IF s.explicit THEN appendTagAndLength(TagClass(s), s.tag, Len(plain), TRUE) \o plain
    ELSE appendTagAndLength(TagClass(s), s.tag, Len(body), compoundType(s)) \o body
makeField(s, v) ==
    IF Omitted(s, v) THEN Good(<<>>, <<>>)
    ELSE IF s.kind = "raw"
    THEN Good(IF v.full # <<>> THEN v.full
              ELSE appendTagAndLength(v.class, v.tag, Len(v.bytes), v.compound) \o v.bytes, <<>>)
    ELSE IF s.kind = "any" THEN Bad
    ELSE Then(MakeTag(s, v), LAMBDA tag, end1 :
           Then(makeBody(s, v), LAMBDA body, end2 : Good(AddHeader(s, tag, body), <<>>)))

MarshalWithParams(s, v) == makeField(s, v)

----------------------------------------------------------------------------
\* What is written is read back, to the last byte of it and no further, by a strict and
\* by a lax reader: optional fields, defaults, tags, times that change their type and
\* lengths that change their form included.
ReadBack(s, v, junk, der) ==
    der.ok => \A lax \in BOOLEAN : parseField(s, der.val \o junk, lax) = Good(v, junk)
RoundTrip(s, v, junk) == ReadBack(s, v, junk, MarshalWithParams(s, v))

\* A lax reader is not a different one: what a strict reader takes, it reads in the same
\* way; and a value that keeps its RawContent is written as it was read, be that DER or not.
Extends(s, bytes, strict, relaxed) ==
    /\ strict.ok => relaxed = strict
    /\ relaxed.ok /\ s.kind = "struct" /\ s.raw =>
         MarshalWithParams(s, relaxed.val).val = Take(bytes, Len(bytes) - Len(relaxed.rest))
LaxExtendsStrict(s, bytes) == Extends(s, bytes, parseField(s, bytes, FALSE), parseField(s, bytes, TRUE))

\* "lax relax strict encoding checks for this field, and for any fields within it"
\* (asn1.go:1171, of the tags of struct fields): a field with the tag lax is read as
\* a top-level value with it is.
LaxTagRelaxes(s, bytes) ==
    UnmarshalWithParams([s EXCEPT !.lax = TRUE], bytes).ok =>
      UnmarshalWithParams([Schema("struct") EXCEPT !.fields = <<[s EXCEPT !.lax = TRUE]>>],
                          <<48, Len(bytes)>> \o bytes).ok
============================================================================
