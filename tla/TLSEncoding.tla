---------------------------- MODULE TLSEncoding ----------------------------
(***************************************************************************)
(* The encoder and decoder of the tls package (tls/tls.go), in which the   *)
(* structures of RFC 6962 are hashed, signed and sent.  Go types are       *)
(* records: integers and Enums, structs with tagged fields, byte arrays,   *)
(* slices of bytes and slices of a type.  A struct's value is the sequence *)
(* of its fields' values, Nil for a pointer that is not chosen.  Offsets   *)
(* count from 0, and a struct's fields are read from the same data.        *)
(*                                                                         *)
(* An Enum is a uint64 of UintBytes bytes, instead of 8.                   *)
(***************************************************************************)
EXTENDS Integers, Sequences, SequencesExt

CONSTANTS UintBytes, Nil

Bad == [ok |-> FALSE]
Good(v, off) == [ok |-> TRUE, val |-> v, off |-> off]

\* The next step takes the value and the offset; an error ends it all.
Then(r, Step(_, _)) == IF r.ok THEN Step(r.val, r.off) ELSE Bad

BigEndian(bytes) == FoldLeft(LAMBDA n, b : 256 * n + b, 0, bytes)
\* n bytes from offset off on
Slice(data, off, n) == SubSeq(data, off + 1, off + n)
\* the last n bytes of a number
Put(v, n) == [i \in 1..n |-> (v \div 256^(n - i)) % 256]

byteCount(x) == CHOOSE n \in 1..UintBytes : x < 256^n /\ (n > 1 => x >= 256^(n - 1))

----------------------------------------------------------------------------
(* Field tags: sequences of pairs such as <<"maxlen", 255>>.               *)

NoInfo == [count |-> 0, countSet |-> FALSE, minlen |-> 0, maxlen |-> 0, selector |-> Nil, val |-> 0]

\* maxval and size start afresh, the others add to what is there.
AddPart(base, part) ==
    CASE part[1] = "maxlen" ->
           [base EXCEPT !.count = byteCount(part[2]), !.countSet = TRUE, !.maxlen = part[2]]
      [] part[1] = "minlen" -> [base EXCEPT !.minlen = part[2]]
      [] part[1] = "selector" -> [base EXCEPT !.selector = part[2]]
      [] part[1] = "val" -> [base EXCEPT !.val = part[2]]
TagPart(info, part) ==
    CASE part[1] = "maxval" -> [NoInfo EXCEPT !.count = byteCount(part[2]), !.countSet = TRUE]
      [] part[1] = "size" -> [NoInfo EXCEPT !.count = part[2], !.countSet = TRUE]
      [] OTHER -> AddPart(IF info = Nil THEN NoInfo ELSE info, part)

\* A field with a name but no tag has an empty info, the top level none.
InfoChecked(info, named) ==
    CASE info = Nil -> Good(IF named THEN NoInfo ELSE Nil, 0)
      [] OTHER -> IF /\ info.selector = Nil
                     /\ \/ info.count < 1 \/ info.count > UintBytes
                        \/ info.minlen > info.maxlen \/ info.val > 0
                  THEN Bad ELSE Good(info, 0)
fieldTagToFieldInfo(tag, named) == InfoChecked(FoldLeft(TagPart, Nil, tag), named)

\* 1 << (8 * count) is 0 when it leaves the uint64.
Limit(count) == IF count >= UintBytes THEN 0 ELSE 256^count

check(info, val) ==
    /\ val < Limit(info.count)
    /\ info.maxlen # 0 => info.minlen <= val /\ val <= info.maxlen

ValueChecked(info, val, off) == IF check(info, val) THEN Good(val, off + info.count) ELSE Bad
readVarUint(data, off, info) ==
    IF info = Nil THEN Bad
    ELSE IF ~info.countSet \/ Len(data) - off < info.count THEN Bad
    ELSE ValueChecked(info, BigEndian(Slice(data, off, info.count)), off)

----------------------------------------------------------------------------
(* Types.                                                                  *)

Uint(bytes) == [kind |-> "uint", bytes |-> bytes]
Enum == [kind |-> "enum"]
Array(n) == [kind |-> "array", len |-> n]
Opaque == [kind |-> "opaque"]
Vector(elem) == [kind |-> "vector", elem |-> elem]
Struct(fields) == [kind |-> "struct", fields |-> fields]
Field(name, tag, type) == [name |-> name, tag |-> tag, type |-> type, pointer |-> FALSE]
Choice(name, tag, type) == [Field(name, tag, type) EXCEPT !.pointer = TRUE]

\* Where the value of an integer is read: a uint24 is read at the beginning of the data.
UintAt(bytes, off) == IF bytes = 3 THEN 0 ELSE off

\* What a struct's reader and writer keep: the Enums so far, the selectors met, and
\* whether one of their values was chosen.
StartStruct(off) == [ok |-> TRUE, off |-> off, vals |-> <<>>, out |-> <<>>,
                     enums |-> <<>>, seen |-> <<>>]
Put1(f, x, v) == [y \in DOMAIN f \cup {x} |-> IF y = x THEN v ELSE f[y]]
Known(f, x, default) == IF x \in DOMAIN f THEN f[x] ELSE default

\* A field with a selector: is it an error, is it the chosen one, and the selectors after it.
Select(st, field, info) ==
    LET seen == Known(st.seen, info.selector, FALSE)
        chosen == st.enums[info.selector] = info.val
    IN IF info.selector = Nil THEN [ok |-> TRUE, chosen |-> TRUE, seen |-> st.seen]
       ELSE IF info.selector \notin DOMAIN st.enums \/ ~field.pointer THEN Bad
       ELSE IF chosen /\ seen THEN Bad
       ELSE [ok |-> TRUE, chosen |-> chosen, seen |-> Put1(st.seen, info.selector, seen \/ chosen)]

AllChosen(st) == \A x \in DOMAIN st.seen : st.seen[x]

RECURSIVE parseField(_, _, _, _), parseElems(_, _)

Read(st, field, sel, v, off) ==
    [st EXCEPT !.off = off, !.vals = Append(@, v), !.seen = sel.seen,
               !.enums = IF field.type.kind = "enum" THEN Put1(@, field.name, v) ELSE @]
parseSelected(data, st, field, info, sel) ==
    IF ~sel.ok THEN Bad
    ELSE IF ~sel.chosen THEN [st EXCEPT !.vals = Append(@, Nil), !.seen = sel.seen]
    ELSE Then(parseField(field.type, info, data, st.off), LAMBDA v, off : Read(st, field, sel, v, off))
parseStructField(data, st, field) ==
    IF ~st.ok THEN st
    ELSE Then(fieldTagToFieldInfo(field.tag, TRUE), LAMBDA info, z :
           parseSelected(data, st, field, info, Select(st, field, info)))

\* readVarUint with the length of a slice, and the bytes it announces
ReadSlice(info, data, off) ==
    Then(readVarUint(data, off, info), LAMBDA n, at :
      IF n > Len(data) - at THEN Bad ELSE Good(Slice(data, at, n), at + n))

StructRead(st) == IF ~st.ok THEN Bad ELSE IF ~AllChosen(st) THEN Bad ELSE Good(st.vals, st.off)

parseField(type, info, data, off) ==
    CASE type.kind = "uint" ->
           IF Len(data) - off < type.bytes THEN Bad
           ELSE Good(BigEndian(Slice(data, UintAt(type.bytes, off), type.bytes)), off + type.bytes)
      [] type.kind = "enum" -> readVarUint(data, off, info)
      [] type.kind = "array" ->
           IF type.len > Len(data) - off THEN Bad ELSE Good(Slice(data, off, type.len), off + type.len)
      [] type.kind = "opaque" -> ReadSlice(info, data, off)
      [] type.kind = "vector" ->
           Then(ReadSlice(info, data, off), LAMBDA inner, end :
             Then(parseElems(type.elem, [data |-> inner, off |-> 0]), LAMBDA elems, z : Good(elems, end)))
      [] type.kind = "struct" ->
           StructRead(FoldLeft(LAMBDA s, f : parseStructField(data, s, f), StartStruct(off), type.fields))

parseElems(elem, in) ==
    IF in.off >= Len(in.data) THEN Good(<<>>, in.off)
    ELSE Then(parseField(elem, Nil, in.data, in.off), LAMBDA first, off :
           Then(parseElems(elem, [in EXCEPT !.off = off]), LAMBDA others, end : Good(<<first>> \o others, end)))

\* UnmarshalWithParams: the value, and where the rest begins.
Unmarshal(type, tag, data) ==
    Then(fieldTagToFieldInfo(tag, FALSE), LAMBDA info, z : parseField(type, info, data, 0))

----------------------------------------------------------------------------

RECURSIVE marshalField(_, _, _)

Written(st, field, sel, v, bytes) ==
    [st EXCEPT !.out = @ \o bytes, !.seen = sel.seen,
               !.enums = IF field.type.kind = "enum" THEN Put1(@, field.name, v) ELSE @]
marshalSelected(st, field, v, info, sel) ==
    IF ~sel.ok THEN Bad
    ELSE IF sel.chosen = (v = Nil) THEN Bad
    ELSE IF ~sel.chosen THEN [st EXCEPT !.seen = sel.seen]
    ELSE Then(marshalField(field.type, info, v), LAMBDA bytes, z : Written(st, field, sel, v, bytes))
marshalStructField(st, field, v) ==
    IF ~st.ok THEN st
    ELSE Then(fieldTagToFieldInfo(field.tag, TRUE), LAMBDA info, z :
           marshalSelected(st, field, v, info, Select(st, field, info)))

\* A slice after its length.
PutSlice(info, bytes) ==
    IF info = Nil THEN Bad
    ELSE IF check(info, Len(bytes)) THEN Good(Put(Len(bytes), info.count) \o bytes, 0) ELSE Bad

PutAll(info, elems) ==
    IF \E i \in DOMAIN elems : ~elems[i].ok THEN Bad
    ELSE PutSlice(info, FlattenSeq([i \in DOMAIN elems |-> elems[i].val]))
StructWritten(st) == IF ~st.ok THEN Bad ELSE IF ~AllChosen(st) THEN Bad ELSE Good(st.out, 0)

marshalField(type, info, v) ==
    CASE type.kind = "uint" -> IF v < 256^type.bytes THEN Good(Put(v, type.bytes), 0) ELSE Bad
      [] type.kind = "enum" ->
           IF info = Nil THEN Bad
           ELSE IF check(info, v) THEN Good(Put(v, info.count), 0) ELSE Bad
      [] type.kind = "array" -> Good(v, 0)
      [] type.kind = "opaque" -> PutSlice(info, v)
      [] type.kind = "vector" ->
           PutAll(info, [i \in DOMAIN v |-> marshalField(type.elem, Nil, v[i])])
      [] type.kind = "struct" ->
           StructWritten(FoldLeftDomain(LAMBDA s, i : marshalStructField(s, type.fields[i], v[i]),
                                        StartStruct(0), type.fields))

Marshal(type, tag, v) ==
    Then(fieldTagToFieldInfo(tag, FALSE), LAMBDA info, z : marshalField(type, info, v))

----------------------------------------------------------------------------
\* What is written is read back, and nothing behind it is touched, for every type that
\* can be written.
ReadBack(type, tag, v, junk, bytes) ==
    bytes.ok => Unmarshal(type, tag, bytes.val \o junk) = Good(v, Len(bytes.val))
RoundTrip(type, tag, v, junk) == ReadBack(type, tag, v, junk, Marshal(type, tag, v))

\* There is one encoding of a value: what is read is what would be written, so that two
\* parties hash and sign the same bytes.
WrittenAsRead(type, tag, data, r) == r.ok => Marshal(type, tag, r.val) = Good(Slice(data, 0, r.off), 0)
OneEncoding(type, tag, data) == WrittenAsRead(type, tag, data, Unmarshal(type, tag, data))
============================================================================
