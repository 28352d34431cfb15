----------------------------- MODULE ProtoWire -----------------------------
(***************************************************************************)
(* The wire format of the protobuf library that contracts are given        *)
(* (google.protobuf.internal encoder, decoder, wire_format): sizers,       *)
(* encoders and decoders of every kind of field.                           *)
(*                                                                         *)
(* A byte has Group payload bits and a continuation bit (7 and 1 in the    *)
(* code), the two integer widths are Wide and Narrow bits (64 and 32).  A  *)
(* message is its fields by number, the encoded fields nobody knows, and   *)
(* the size ByteSize() answers for it.  Parsing a buffer is kept apart     *)
(* from storing what was parsed: Parse yields the stores the decoders      *)
(* make, in order, and the ones made before an exception too.              *)
(***************************************************************************)
EXTENDS Integers, Sequences, SequencesExt, FiniteSets, Functions

CONSTANTS Group, Wide, Narrow,
          Types             \* message types: field descriptors by number, by name

More      == 2^Group
MaxVarint == (Wide + Group - 1) \div Group
Width(t)  == IF t = "fixed64" THEN Wide \div (Group + 1) ELSE Narrow \div (Group + 1)

VARINT == 0
FIXED64 == 1
LENGTH_DELIMITED == 2
START_GROUP == 3
END_GROUP == 4
FIXED32 == 5

(* Field descriptors: label is "one", "many" or "map", the entries of a    *)
(* map being messages of type sub; enums are closed.                       *)
Scalar(t)      == [type |-> t, label |-> "one", packed |-> FALSE, presence |-> FALSE, oneof |-> FALSE, sub |-> ""]
Message(t, sub) == [Scalar(t) EXCEPT !.sub = sub, !.presence = TRUE]
Repeated(fd)   == [fd EXCEPT !.label = "many"]
Packed(fd)     == [fd EXCEPT !.label = "many", !.packed = TRUE]
MapOf(entry)   == [Scalar("message") EXCEPT !.label = "map", !.sub = entry]
InOneof(fd)    == [fd EXCEPT !.oneof = TRUE, !.presence = TRUE]

WireType(t) == CASE t \in {"bytes", "message"} -> LENGTH_DELIMITED
                 [] t = "group"                -> START_GROUP
                 [] t = "fixed64"              -> FIXED64
                 [] t = "fixed32"              -> FIXED32
                 [] OTHER                      -> VARINT
IsTypePackable(t) == t \notin {"bytes", "message", "group"}
Composite(fd)     == fd.type \in {"message", "group"}
DefaultOf(t)      == IF t = "bytes" THEN <<>> ELSE 0
Enum              == {0, 1}

Empty == [f |-> <<>>, u |-> <<>>, size |-> 0]

-----------------------------------------------------------------------------
(* Varints, tags and the values of scalar types.                           *)
RECURSIVE EncodeVarint(_)
EncodeVarint(v) == IF v < More THEN <<v>> ELSE <<More + (v % More)>> \o EncodeVarint(v \div More)

VarintSize(v)       == CHOOSE n \in 1..MaxVarint : /\ n = MaxVarint \/ v < More^n
                                                   /\ \A i \in 1..(n - 1) : v >= More^i
SignedVarintSize(v) == IF v < 0 THEN MaxVarint ELSE VarintSize(v)

ZigZagEncode(v) == IF v >= 0 THEN 2 * v ELSE -2 * v - 1
ZigZagDecode(v) == IF v % 2 = 0 THEN v \div 2 ELSE -(v \div 2) - 1

TagBytes(n, wire) == EncodeVarint(8 * n + wire)
TagSize(n)        == VarintSize(8 * n)

Ok(v, pos)  == [ok |-> TRUE, v |-> v, pos |-> pos]
Err(v)      == [ok |-> FALSE, v |-> v, pos |-> 0]

RECURSIVE VarintFrom(_, _, _, _)
VarintFrom(b, pos, shift, acc) ==
    IF pos > Len(b) \/ shift >= Wide THEN Err(0)
    ELSE LET sum == acc + (b[pos] % More) * 2^shift
         IN  IF b[pos] < More THEN Ok(sum, pos + 1) ELSE VarintFrom(b, pos + 1, shift + Group, sum)

(* _VarintDecoder and _SignedVarintDecoder: the value is cut to its width  *)
(* only once all of its bytes are read.                                    *)
Masked(d, bits) == IF d.ok THEN [d EXCEPT !.v = @ % 2^bits] ELSE d
Signed(d, bits) == IF d.ok /\ d.v >= 2^(bits - 1) THEN [d EXCEPT !.v = @ - 2^bits] ELSE d
DecodeVarint(b, pos, bits)       == Masked(VarintFrom(b, pos, 0, 0), bits)
DecodeSignedVarint(b, pos, bits) == Signed(DecodeVarint(b, pos, bits), bits)

(* struct.pack and struct.unpack of a fixed-width integer.                 *)
Pack(v, n)        == [i \in 1..n |-> (v \div (2 * More)^(i - 1)) % (2 * More)]
Unpack(b, pos, n) == IF pos + n > Len(b) + 1 THEN Err(0)
                     ELSE Ok(FoldRight(LAMBDA byte, acc : byte + 2 * More * acc, SubSeq(b, pos, pos + n - 1), 0), pos + n)

EncodeValue(t, v) ==
    CASE t \in {"int32", "int64", "enum"} -> EncodeVarint(IF v < 0 THEN v + 2^Wide ELSE v)
      [] t \in {"uint32", "uint64"}       -> EncodeVarint(v)
      [] t \in {"sint32", "sint64"}       -> EncodeVarint(ZigZagEncode(v))
      [] t = "bool"                       -> <<v>>
      [] t \in {"fixed32", "fixed64"}     -> Pack(v, Width(t))
      [] t = "bytes"                      -> EncodeVarint(Len(v)) \o v

ValueSize(t, v) ==
    CASE t \in {"int32", "int64", "enum"} -> SignedVarintSize(v)
      [] t \in {"uint32", "uint64"}       -> VarintSize(v)
      [] t \in {"sint32", "sint64"}       -> SignedVarintSize(ZigZagEncode(v))
      [] t = "bool"                       -> 1
      [] t \in {"fixed32", "fixed64"}     -> Width(t)
      [] t = "bytes"                      -> VarintSize(Len(v)) + Len(v)

BytesOf(size, b, end) == IF ~ size.ok \/ size.pos + size.v > end THEN Err(<<>>)
                         ELSE Ok(SubSeq(b, size.pos, size.pos + size.v - 1), size.pos + size.v)
DecodeBytes(b, pos, end) == BytesOf(DecodeVarint(b, pos, Wide), b, end)

Bits(t) == IF t \in {"int32", "uint32", "sint32", "enum"} THEN Narrow ELSE Wide
Integer(t, v) == CASE t \in {"sint32", "sint64"} -> ZigZagDecode(v)
                   [] t = "bool"                 -> IF v = 0 THEN 0 ELSE 1
                   [] OTHER                      -> v
Converted(t, d) == IF d.ok THEN [d EXCEPT !.v = Integer(t, @)] ELSE d

DecodeValue(t, b, pos, end) ==
    CASE t \in {"int32", "int64", "enum"}  -> DecodeSignedVarint(b, pos, Bits(t))
      [] t \in {"fixed32", "fixed64"}      -> Unpack(b, pos, Width(t))
      [] t = "bytes"                       -> DecodeBytes(b, pos, end)
      [] OTHER                             -> Converted(t, DecodeVarint(b, pos, Bits(t)))

-----------------------------------------------------------------------------
(* Sizers and encoders of fields.  A nested message is preceded by the     *)
(* size it has cached; an entry of a map is a message made for the         *)
(* occasion, from a copy of its value.                                     *)
SumOf(s)   == FoldSeq(+, 0, s)

RECURSIVE Sized(_, _)
Entry(fd, k, v) == Sized(fd.sub, [Empty EXCEPT !.f = <<k, v>>])

(* What a field writes one by one: entries, elements, or itself.           *)
SortedKeys(f) == SetToSortSeq(DOMAIN f, <)
Entries(fd, v, ks) == [i \in 1..Len(ks) |-> Entry(fd, ks[i], v[ks[i]])]
Items(fd, v) == CASE fd.label = "map"  -> Entries(fd, v, SortedKeys(v))
                  [] fd.label = "many" -> v
                  [] fd.label = "one"  -> <<v>>

ItemSize(n, fd, v) == CASE fd.type = "group"   -> 2 * TagSize(n) + v.size
                        [] fd.type = "message" -> TagSize(n) + VarintSize(v.size) + v.size
                        [] OTHER               -> TagSize(n) + ValueSize(fd.type, v)
PackedSize(n, payload) == payload + VarintSize(payload) + TagSize(n)
SizesOf(t, vs) == SumOf([i \in 1..Len(vs) |-> ValueSize(t, vs[i])])
ItemSizes(n, fd, items) == SumOf([i \in 1..Len(items) |-> ItemSize(n, fd, items[i])])
FieldSize(n, fd, v) == IF fd.packed THEN PackedSize(n, SizesOf(fd.type, v)) ELSE ItemSizes(n, fd, Items(fd, v))

FieldSizes(T, m, ns) == SumOf([i \in 1..Len(ns) |-> FieldSize(ns[i], Types[T][ns[i]], m.f[ns[i]])])
SizeOf(T, m) == FieldSizes(T, m, SortedKeys(m.f)) + SumOf([i \in 1..Len(m.u) |-> Len(m.u[i])])

(* ByteSize() of messages that were all just modified.                     *)
Fresh(fd, v) == CASE ~ Composite(fd)    -> v
                  [] fd.label = "one"   -> Sized(fd.sub, v)
                  [] OTHER              -> [i \in DOMAIN v |-> Sized(fd.sub, v[i])]
ItemType(fd) == IF fd.label = "map" THEN [Types[fd.sub][2] EXCEPT !.label = "map"] ELSE fd
Measured(T, m) == [m EXCEPT !.size = SizeOf(T, m)]
Sized(T, m) == Measured(T, [m EXCEPT !.f = [n \in DOMAIN @ |-> Fresh(ItemType(Types[T][n]), @[n])]])

RECURSIVE Encode(_, _)
EncodeItem(n, fd, v) ==
    TagBytes(n, WireType(fd.type)) \o
    CASE fd.type = "group"   -> Encode(fd.sub, v) \o TagBytes(n, END_GROUP)
      [] fd.type = "message" -> EncodeVarint(v.size) \o Encode(fd.sub, v)
      [] OTHER               -> EncodeValue(fd.type, v)
EncodePacked(n, t, vs) == TagBytes(n, LENGTH_DELIMITED) \o EncodeVarint(SizesOf(t, vs))
                          \o FlattenSeq([i \in 1..Len(vs) |-> EncodeValue(t, vs[i])])
EncodeItems(n, fd, items) == FlattenSeq([i \in 1..Len(items) |-> EncodeItem(n, fd, items[i])])
EncodeField(n, fd, v) == IF fd.packed THEN EncodePacked(n, fd.type, v) ELSE EncodeItems(n, fd, Items(fd, v))

(* _InternalSerialize: fields by number, then what nobody knows.           *)
EncodeFields(T, m, ns) == FlattenSeq([i \in 1..Len(ns) |-> EncodeField(ns[i], Types[T][ns[i]], m.f[ns[i]])])
Encode(T, m) == EncodeFields(T, m, SortedKeys(m.f)) \o FlattenSeq(m.u)

-----------------------------------------------------------------------------
(* What the decoders store.  A scalar without presence that arrives as     *)
(* zero is dropped; a member of a oneof evicts the other ones.             *)
Store(n, k, v) == [n |-> n, k |-> k, v |-> v]
Unknown(bytes) == Store(0, "unknown", bytes)

Without(m, ns)   == [m EXCEPT !.f = Restrict(@, DOMAIN @ \ ns)]
Rivals(T, n)     == IF Types[T][n].oneof THEN {i \in DOMAIN Types[T] : Types[T][i].oneof} \ {n} ELSE {}
With(T, m, n, v) == [Without(m, Rivals(T, n)) EXCEPT !.f = [i \in DOMAIN @ \cup {n} |-> IF i = n THEN v ELSE @[i]]]
Held(m, n, none) == IF n \in DOMAIN m.f THEN m.f[n] ELSE none

RECURSIVE Apply(_, _, _)
Applied(T, m, e) ==
    CASE e.k = "set"     -> With(T, m, e.n, e.v)
      [] e.k = "pop"     -> Without(m, {e.n})
      [] e.k = "add"     -> With(T, m, e.n, Append(Held(m, e.n, <<>>), e.v))
      [] e.k = "sub"     -> With(T, m, e.n, Apply(Types[T][e.n].sub, Held(m, e.n, Empty), e.v))
      [] e.k = "addsub"  -> With(T, m, e.n, Append(Held(m, e.n, <<>>), Apply(Types[T][e.n].sub, Empty, e.v)))
      [] e.k = "entry"   -> LET old == Held(m, e.n, <<>>)
                            IN  With(T, m, e.n, [k \in DOMAIN old \cup {e.v[1]} |-> IF k = e.v[1] THEN e.v[2] ELSE old[k]])
      [] e.k = "unknown" -> [m EXCEPT !.u = Append(@, e.v)]
Apply(T, m, events) == FoldLeft(LAMBDA acc, e : Applied(T, acc, e), m, events)

-----------------------------------------------------------------------------
(* Decoders.  pos is the next byte to read, end the one after the last of  *)
(* the message; both are 1-based.                                          *)
ReadTag(b, pos) == LET last == {i \in pos..Len(b) : b[i] < More}
                   IN  IF last = {} THEN Err(<<>>)
                       ELSE LET i == CHOOSE x \in last : \A y \in last : x <= y IN Ok(SubSeq(b, pos, i), i + 1)

(* _DecodeUnknownField and SkipField, which read the same bytes: a group   *)
(* ends at any end-group tag.                                              *)
RECURSIVE SkipField(_, _, _, _)
RECURSIVE SkipGroup(_, _, _)
EndsGroup(tag)      == tag[1] % 8 = END_GROUP
Numbered(tag)       == DecodeVarint(tag, 1, Wide)
SkipOn(b, d, end)   == IF d.ok THEN SkipGroup(b, d.pos, end) ELSE d
SkipTag(b, tag, end) == CASE ~ tag.ok \/ ~ Numbered(tag.v).ok -> Err(<<>>)
                          [] tag.ok /\ EndsGroup(tag.v)      -> Ok(<<>>, tag.pos)
                          [] OTHER -> SkipOn(b, SkipField(b, tag.pos, end, tag.v[1] % 8), end)
SkipGroup(b, pos, end) == SkipTag(b, ReadTag(b, pos), end)
Within(d, end) == IF d.ok /\ d.pos > end THEN Err(<<>>) ELSE d
SkipField(b, pos, end, wire) ==
    CASE wire = LENGTH_DELIMITED -> DecodeBytes(b, pos, end)
      [] wire = START_GROUP      -> SkipGroup(b, pos, end)
      [] wire = VARINT           -> Within(DecodeVarint(b, pos, Wide), end)
      [] wire \in {FIXED32, FIXED64} -> Within(Unpack(b, pos, Width(IF wire = FIXED32 THEN "fixed32" ELSE "fixed64")), end)
      [] OTHER                   -> Err(<<>>)

(* cls._fields_by_tag: packable repeated fields are read in both forms.    *)
FieldsByTag(T, tag) == {n \in DOMAIN Types[T] :
                          \/ tag = TagBytes(n, WireType(Types[T][n].type))
                          \/ /\ Types[T][n].label = "many" /\ IsTypePackable(Types[T][n].type)
                             /\ tag = TagBytes(n, LENGTH_DELIMITED)}
InPackedForm(fd, tag) == tag[1] % 8 # WireType(fd.type)

RECURSIVE Parse(_, _, _, _)

(* Mutant: an unknown value of an enum goes under the tag of the packed form.*)
ScalarStorePacked(n, fd, raw, v) ==
    CASE fd.label = "one" /\ ~ fd.presence /\ v = DefaultOf(fd.type) -> Store(n, "pop", v)
      [] fd.type = "enum" /\ v \notin Enum                         -> Unknown(TagBytes(n, LENGTH_DELIMITED) \o raw)
      [] OTHER -> Store(n, IF fd.label = "many" THEN "add" ELSE "set", v)

(* A scalar: what is stored, also when it turns out to lie past the end.   *)
ScalarStore(n, fd, raw, v) ==
    CASE fd.label = "one" /\ ~ fd.presence /\ v = DefaultOf(fd.type) -> Store(n, "pop", v)
      [] fd.type = "enum" /\ v \notin Enum                         -> Unknown(TagBytes(n, VARINT) \o raw)
      [] OTHER -> Store(n, IF fd.label = "many" THEN "add" ELSE "set", v)

ScalarStored(n, fd, b, pos, d) == ScalarStore(n, fd, SubSeq(b, pos, d.pos - 1), d.v)
ScalarRead(n, fd, b, pos, end, d) ==
    CASE ~ d.ok                              -> Err(<<>>)
      [] d.ok /\ d.pos > end /\ fd.label = "one" -> Err(<<>>)
      [] OTHER -> [ok |-> d.pos <= end, v |-> <<ScalarStored(n, fd, b, pos, d)>>, pos |-> d.pos]
DecodeScalar(n, fd, b, pos, end) == ScalarRead(n, fd, b, pos, end, DecodeValue(fd.type, b, pos, end))

Prepended(v, d) == [d EXCEPT !.v = v \o @]

RECURSIVE PackedElements(_, _, _, _, _)
PackedRest(n, fd, b, pos, endpoint, d) ==
    IF ~ d.ok \/ d.pos > endpoint THEN Err(<<>>)
    ELSE Prepended(<<ScalarStored(n, fd, b, pos, d)>>, PackedElements(n, fd, b, d.pos, endpoint))
PackedElements(n, fd, b, pos, endpoint) ==
    IF pos = endpoint THEN Ok(<<>>, pos)
    ELSE PackedRest(n, fd, b, pos, endpoint, DecodeValue(fd.type, b, pos, endpoint))

PackedIn(n, fd, b, size, end) == IF ~ size.ok \/ size.pos + size.v > end THEN Err(<<>>)
                                 ELSE PackedElements(n, fd, b, size.pos, size.pos + size.v)
DecodePacked(n, fd, b, pos, end) == PackedIn(n, fd, b, DecodeVarint(b, pos, Wide), end)

(* A nested message must end where its length says, a group at its own     *)
(* end tag.  Entries of maps are parsed into a scratch message.            *)
EntryStore(n, fd, entry) ==
    LET value == Types[fd.sub][2]
    IN  Store(n, "entry", <<Held(entry, 1, 0), Held(entry, 2, IF Composite(value) THEN Empty ELSE DefaultOf(value.type))>>)
NestedStore(n, fd, stores) == CASE fd.label = "map"  -> EntryStore(n, fd, Apply(fd.sub, Empty, stores))
                                [] fd.label = "many" -> Store(n, "addsub", stores)
                                [] fd.label = "one"  -> Store(n, "sub", stores)
Closed(b, close, inner, end) == /\ inner.ok /\ inner.pos + Len(close) <= end
                                /\ SubSeq(b, inner.pos, inner.pos + Len(close) - 1) = close
NestedRead(n, fd, b, close, end, inner) ==
    CASE Closed(b, close, inner, end) /\ (close # <<>> \/ inner.pos = end) ->
            Ok(<<NestedStore(n, fd, inner.v)>>, inner.pos + Len(close))
      [] OTHER -> Err(IF fd.label = "map" THEN <<>> ELSE <<NestedStore(n, fd, inner.v)>>)
NestedIn(n, fd, b, size, end) == IF ~ size.ok \/ size.pos + size.v > end THEN Err(<<>>)
                                 ELSE NestedRead(n, fd, b, <<>>, size.pos + size.v, Parse(fd.sub, b, size.pos, size.pos + size.v))
DecodeNested(n, fd, b, pos, end) ==
    IF fd.type = "group" THEN NestedRead(n, fd, b, TagBytes(n, END_GROUP), end, Parse(fd.sub, b, pos, end))
    ELSE NestedIn(n, fd, b, DecodeVarint(b, pos, Wide), end)

DecodeOne(n, fd, b, pos, end) == IF Composite(fd) THEN DecodeNested(n, fd, b, pos, end)
                                 ELSE DecodeScalar(n, fd, b, pos, end)

(* Mutant: the next tag is trusted without a look at where the message ends.*)
PredictedPast(b, tag, pos, end) == IsPrefix(tag, SubSeq(b, pos, Len(b)))

(* Repeated fields and maps read on while the same tag follows.            *)
Predicted(b, tag, pos, end) == pos < end /\ IsPrefix(tag, SubSeq(b, pos, Len(b)))

RECURSIVE DecodeRepeated(_, _, _, _, _, _)
ReadOn(n, fd, tag, b, end, one) ==
    IF one.ok /\ fd.label # "one" /\ Predicted(b, tag, one.pos, end)
    THEN Prepended(one.v, DecodeRepeated(n, fd, tag, b, one.pos + Len(tag), end))
    ELSE one
DecodeRepeated(n, fd, tag, b, pos, end) == ReadOn(n, fd, tag, b, end, DecodeOne(n, fd, b, pos, end))

DecodeField(n, fd, tag, b, pos, end) == IF InPackedForm(fd, tag) THEN DecodePacked(n, fd, b, pos, end)
                                        ELSE DecodeRepeated(n, fd, tag, b, pos, end)

DecodeUnknown(tag, b, pos, skipped) ==
    IF ~ Numbered(tag).ok \/ Numbered(tag).v < 8 \/ ~ skipped.ok THEN Err(<<>>)
    ELSE Ok(<<Unknown(tag \o SubSeq(b, pos, skipped.pos - 1))>>, skipped.pos)

(* _InternalParse: stops early at an end-group tag, which its caller       *)
(* expects only for a group.                                               *)
ParseOn(T, b, one, end) == IF one.ok THEN Prepended(one.v, Parse(T, b, one.pos, end)) ELSE one
ParseField(T, b, tag, pos, end, ns) ==
    IF ns = {} THEN DecodeUnknown(tag, b, pos, SkipField(b, pos, end, tag[1] % 8))
    ELSE LET n == CHOOSE x \in ns : TRUE IN DecodeField(n, Types[T][n], tag, b, pos, end)
ParseTag(T, b, pos, tag, end) ==
    CASE ~ tag.ok -> Err(<<>>)
      [] tag.ok /\ EndsGroup(tag.v) /\ FieldsByTag(T, tag.v) = {} /\ Numbered(tag.v).v >= 8 -> Ok(<<>>, pos)
      [] OTHER -> ParseOn(T, b, ParseField(T, b, tag.v, tag.pos, end, FieldsByTag(T, tag.v)), end)
Parse(T, b, pos, end) == IF pos = end THEN Ok(<<>>, pos) ELSE ParseTag(T, b, pos, ReadTag(b, pos), end)

(* MergeFromString: the stores, and whether it returned.                   *)
Returned(p, end) == [ok |-> p.ok /\ p.pos = end, v |-> p.v]
MergeFromString(T, b) == Returned(Parse(T, b, 1, Len(b) + 1), Len(b) + 1)

Decode(T, b) == Sized(T, Apply(T, Empty, MergeFromString(T, b).v))

-----------------------------------------------------------------------------
(* The reference: what merging a message into another one means.           *)
RECURSIVE Merge(_, _, _)
Merge(T, into, from) ==
    LET Joined(m, n) ==
            LET fd == Types[T][n] old == m.f new == from.f[n]
            IN  CASE n \notin DOMAIN old  -> new
                  [] n \in DOMAIN old /\ fd.label = "many" -> old[n] \o new
                  [] n \in DOMAIN old /\ fd.label = "map"  -> [k \in DOMAIN new \cup DOMAIN old[n] |->
                                                                 IF k \in DOMAIN new THEN new[k] ELSE old[n][k]]
                  [] n \in DOMAIN old /\ fd.label = "one"  -> IF Composite(fd) THEN Merge(fd.sub, old[n], new) ELSE new
        all == FoldLeft(LAMBDA m, n : With(T, m, n, Joined(m, n)), into, SortedKeys(from.f))
    IN  Sized(T, [all EXCEPT !.u = @ \o from.u])
=============================================================================
