----------------------------- MODULE JsonFormat -----------------------------
(***************************************************************************)
(* Messages in JSON and back (google/protobuf/json_format.py).             *)
(*                                                                         *)
(* A JSON value is a record: its kind, a number that stands for the        *)
(* content of a scalar, and the items of a list or the pairs of an object. *)
(* Of strings the kind says what they spell: "digits", "spaced" digits, a  *)
(* "name" of an enum, "b64", "true" and "false", "inf", or other "text",   *)
(* which is empty for zero.                                                *)
(* A value of a message is a record as well: kind (of Value and Any), a    *)
(* scalar, the items of a repeated field, the fields of a message or map.  *)
(* Floats are counted in halves.  Unknown fields are not ignored, strings  *)
(* given for bytes are base64, and no oneof has the name of a field.       *)
(***************************************************************************)
EXTENDS Integers, Sequences, SequencesExt, FiniteSets

CONSTANTS FieldsOf,     \* per type of message the sequence of its fields
          Wide, Narrow, \* int64 and int32 are -Wide..Wide and -Narrow..Narrow
          EnumNumbers,  \* the numbers of the enum that have a name
          Inf,          \* a float's infinity
          MaxDepth      \* max_recursion_depth

Strings == {"digits", "spaced", "name", "b64", "true", "false", "inf", "text"}
J(j, n)        == [j |-> j, n |-> n, items |-> <<>>]
JNull          == J("null", 0)
JList(s)       == [j |-> "list", n |-> 0, items |-> s]
JObj(pairs)    == [j |-> "obj", n |-> 0, items |-> pairs]
Key(f, by)     == [f |-> f, by |-> by]
Pair(key, val) == [key |-> key, val |-> val]

V(n)        == [k |-> "", n |-> n, rep |-> <<>>, msg |-> <<>>]
VRep(s)     == [V(0) EXCEPT !.rep = s]
VMsg(f)     == [V(0) EXCEPT !.msg = f]
VKind(k, v) == [v EXCEPT !.k = k]
NewMsg      == V(0)

FieldOf(T, f)  == FieldsOf[T][f]
IsMessage(fd)  == fd.type \in DOMAIN FieldsOf \cup {"Value", "Struct", "ListValue", "Wrapper", "Duration", "Any"}
ScalarOf(type) == [type |-> type, label |-> "one", oneof |-> FALSE, key |-> ""]
Set(v, f, x)   == [v EXCEPT !.msg = [g \in DOMAIN v.msg \cup {f} |-> IF g = f THEN x ELSE v.msg[g]]]
Clear(v, f)    == [v EXCEPT !.msg = [g \in DOMAIN v.msg \ {f} |-> v.msg[g]]]
At(v, f)       == IF f \in DOMAIN v.msg THEN v.msg[f] ELSE NewMsg
SortedKeys(v)  == SetToSortSeq(DOMAIN v.msg, <)

-----------------------------------------------------------------------------
(* The printer; opt has preserving_proto_field_name as proto, use_integers *)
(* _for_enums as ints, including_default_value_fields as defaults.         *)
NumberToJson(halves) == J(IF halves % 2 = 0 THEN "float" ELSE "frac", halves \div 2)
ScalarToJson(fd, v, opt) ==
    CASE fd.type \in {"enum", "NullValue"} /\ opt.ints -> J("int", v.n)
      [] fd.type = "NullValue" -> JNull
      [] fd.type = "enum"   -> J(IF v.n \in EnumNumbers THEN "name" ELSE "int", v.n)
      [] fd.type = "bytes"  -> J("b64", v.n)
      [] fd.type = "string" -> J(IF v.k = "" THEN "text" ELSE v.k, v.n)
      [] fd.type = "bool"   -> J("bool", v.n)
      [] fd.type = "int64"  -> J("digits", v.n)
      [] fd.type = "float"  -> IF v.n \in {Inf, -Inf} THEN J("inf", v.n) ELSE NumberToJson(v.n)
      [] OTHER -> J("int", v.n)

(* A map's key is a str.                                                   *)
RecordedKey(fd, key) == IF fd.key = "bool" THEN Key(key, IF key = 1 THEN "true" ELSE "false")
                        ELSE Key(key, IF fd.key = "string" THEN "text" ELSE "digits")

RECURSIVE ValueToJson(_), MessageToJson(_, _, _), FieldToJson(_, _, _)
ValueToJson(v) ==
    CASE v.k = "list"   -> JList([i \in DOMAIN v.rep |-> ValueToJson(v.rep[i])])
      [] v.k = "struct" -> JObj([i \in 1..Len(SortedKeys(v)) |-> Pair(Key(SortedKeys(v)[i], "text"), ValueToJson(v.msg[SortedKeys(v)[i]]))])
      [] v.k = "number" -> NumberToJson(v.n)
      [] v.k \in Strings \cup {"bool"} -> J(v.k, v.n)
      [] OTHER -> JNull

FieldToJson(fd, v, opt) == IF IsMessage(fd) THEN MessageToJson(fd.type, v, opt) ELSE ScalarToJson(fd, v, opt)

NameOf(f, opt) == Key(f, IF opt.proto THEN "proto" ELSE "json")
WholeField(fd, v, opt) ==
    CASE fd.label = "map" ->
           JObj([i \in 1..Len(SortedKeys(v)) |-> Pair(RecordedKey(fd, SortedKeys(v)[i]), FieldToJson(ScalarOf(fd.type), v.msg[SortedKeys(v)[i]], opt))])
      [] fd.label = "many" -> JList([i \in DOMAIN v.rep |-> FieldToJson(fd, v.rep[i], opt)])
      [] OTHER -> FieldToJson(fd, v, opt)
HasDefault(T, v, f) == LET fd == FieldOf(T, f)
                       IN  ~ (fd.label = "one" /\ IsMessage(fd)) /\ ~ fd.oneof /\ f \notin DOMAIN v.msg
RegularToJson(T, v, opt) ==
    LET default == SelectSeq([f \in 1..Len(FieldsOf[T]) |-> f], LAMBDA f : HasDefault(T, v, f))
        all == SortedKeys(v) \o (IF opt.defaults THEN default ELSE <<>>)
    IN  [i \in 1..Len(all) |-> Pair(NameOf(all[i], opt), WholeField(FieldOf(T, all[i]), At(v, all[i]), opt))]

(* The message inside an Any has its kind and is the item.                 *)
AnyToJson(v, opt) ==
    LET inside == v.rep[1]
    IN  IF v.rep = <<>> THEN JObj(<<>>)
        ELSE JObj(<<Pair(Key(0, "@type"), J(v.k, 0))>> \o
                  (IF v.k \in DOMAIN FieldsOf THEN RegularToJson(v.k, inside, opt)
                   ELSE <<Pair(Key(0, "value"), MessageToJson(v.k, inside, opt))>>))
MessageToJson(T, v, opt) ==
    CASE T \in DOMAIN FieldsOf -> JObj(RegularToJson(T, v, opt))
      [] T = "Wrapper"  -> ScalarToJson(ScalarOf("int64"), v, opt)
      [] T = "Duration" -> J("text", v.n)
      [] T = "Any"      -> AnyToJson(v, opt)
      [] OTHER -> ValueToJson(v)

-----------------------------------------------------------------------------
(* The parser: what it makes of the message, or an exception.              *)
Good(v) == [ok |-> TRUE, v |-> v]
Bad     == [ok |-> FALSE, v |-> NewMsg]
Then(r, F(_)) == IF r.ok THEN F(r.v) ELSE Bad
AllOf(each)   == IF \A i \in DOMAIN each : each[i].ok THEN Good(VRep([i \in DOMAIN each |-> each[i].v])) ELSE Bad
MapOf(pairs)  == IF \A p \in pairs : p.key.ok /\ p.val.ok
                 THEN Good(VMsg([n \in {p.key.v.n : p \in pairs} |-> (CHOOSE p \in pairs : p.key.v.n = n).val.v])) ELSE Bad

(* _ConvertInteger, with the range that the assignment checks.             *)
ConvertInteger(js, bound) ==
    IF js.j \in {"int", "float", "digits"} /\ js.n \in -bound..bound THEN Good(V(js.n)) ELSE Bad
ConvertFloat(js) == CASE js.j \in {"int", "float", "digits", "spaced", "bool"} -> Good(V(2 * js.n))
                      [] js.j = "frac" -> Good(V(2 * js.n + 1))
                      [] js.j = "inf"  -> Good(V(js.n))
                      [] OTHER -> Bad
ConvertBool(js, requireStr) ==
    IF requireStr THEN IF js.j = "true" THEN Good(V(1)) ELSE IF js.j = "false" THEN Good(V(0)) ELSE Bad
    ELSE IF js.j = "bool" THEN Good(V(js.n)) ELSE Bad
(* Any number is accepted for an open enum, as int() reads it.             *)
ConvertEnum(js, names) == IF /\ js.j \in {"int", "float", "frac", "digits", "spaced", "bool"} \cup names
                             /\ js.n \in -Narrow..Narrow
                          THEN Good(V(js.n)) ELSE Bad

ConvertScalarFieldValue(js, type, requireStr) ==
    CASE type = "int32"  -> ConvertInteger(js, Narrow)
      [] type = "int64"  -> ConvertInteger(js, Wide)
      [] type = "float"  -> ConvertFloat(js)
      [] type = "bool"   -> ConvertBool(js, requireStr)
      [] type = "bytes"  -> IF js.j = "b64" THEN Good(V(js.n)) ELSE Bad
      [] type = "string" -> IF js.j \in Strings THEN Good(VKind(js.j, V(js.n))) ELSE Bad
      [] type = "enum"      -> ConvertEnum(js, {"name"})
      [] type = "NullValue" -> ConvertEnum(js, {})

(* _ConvertValueMessage, _ConvertListValueMessage, _ConvertStructMessage.  *)
RECURSIVE ConvertValue(_)
ConvertValue(js) ==
    CASE js.j = "obj"  -> LET keys == {p.key.f : p \in ToSet(js.items)}
                              of(key) == ConvertValue((CHOOSE p \in ToSet(js.items) : p.key.f = key).val)
                          IN  VKind("struct", VMsg([key \in keys |-> of(key)]))
      [] js.j = "list" -> VKind("list", VRep([i \in DOMAIN js.items |-> ConvertValue(js.items[i])]))
      [] js.j = "null" -> VKind("null", V(0))
      [] js.j = "bool" -> VKind("bool", V(js.n))
      [] js.j \in {"int", "float", "frac"} -> VKind("number", ConvertFloat(js).v)
      [] js.j \in Strings -> VKind(js.j, V(js.n))

RECURSIVE ConvertMessage(_, _, _, _), ConvertFieldValuePair(_, _, _, _), ConvertField(_, _, _, _)

(* One value of a repeated field or of a map, into a new message.          *)
ConvertItem(fd, js, depth) ==
    IF IsMessage(fd) THEN ConvertMessage(fd.type, js, NewMsg, depth)
    ELSE ConvertScalarFieldValue(js, fd.type, FALSE)
ConvertMany(fd, js, depth) ==
    IF js.j = "list" /\ \A i \in DOMAIN js.items : js.items[i].j = "null" => fd.type = "Value"
    THEN AllOf([i \in DOMAIN js.items |-> ConvertItem(fd, js.items[i], depth)]) ELSE Bad
ConvertMap(fd, js, depth) ==
    IF js.j = "obj"
    THEN MapOf({Pair(ConvertScalarFieldValue(J(p.key.by, p.key.f), fd.key, TRUE), ConvertItem(ScalarOf(fd.type), p.val, depth)) :
                  p \in ToSet(js.items)})
    ELSE Bad

\* Mutant: items are added to the ones the field has.
ConvertFieldOver(fd, js, old, depth) ==
    CASE fd.label = "map"  -> ConvertMap(fd, js, depth)
      [] fd.label = "many" -> Then(ConvertMany(fd, js, depth), LAMBDA v : Good(VRep(old.rep \o v.rep)))
      [] IsMessage(fd)     -> ConvertMessage(fd.type, js, old, depth)
      [] OTHER -> ConvertScalarFieldValue(js, fd.type, FALSE)

(* The value of a field; only a message is merged into what is there.      *)
ConvertField(fd, js, old, depth) ==
    CASE fd.label = "map"  -> ConvertMap(fd, js, depth)
      [] fd.label = "many" -> ConvertMany(fd, js, depth)
      [] IsMessage(fd)     -> ConvertMessage(fd.type, js, old, depth)
      [] OTHER -> ConvertScalarFieldValue(js, fd.type, FALSE)

(* A field without presence is not kept at zero; setting a member of the   *)
(* oneof clears the others.                                                *)
Rivals(T, f) == {g \in 1..Len(FieldsOf[T]) : g # f /\ FieldOf(T, g).oneof /\ FieldOf(T, f).oneof}
Store(T, v, f, x) ==
    LET fd == FieldOf(T, f)
        gone == [v EXCEPT !.msg = [g \in DOMAIN v.msg \ Rivals(T, f) |-> v.msg[g]]]
        empty == IF fd.label = "one" THEN ~ IsMessage(fd) /\ ~ fd.oneof /\ x.n = 0 /\ x.k \in {"", "text"} ELSE x.rep = <<>> /\ x.msg = <<>>
    IN  IF empty THEN Clear(gone, f) ELSE Set(gone, f, x)

(* null sets a null value and clears any other field; a repeated field has *)
(* no such attribute.                                                      *)
OnNull(T, v, f) ==
    LET fd == FieldOf(T, f)
    IN  CASE fd.type = "Value" /\ fd.label = "one"     -> Good(Store(T, v, f, VKind("null", V(0))))
          [] fd.type = "NullValue" /\ fd.label = "one" -> Good(Store(T, v, f, V(0)))
          [] fd.type \in {"Value", "NullValue"} /\ fd.label = "many" -> Bad
          [] OTHER -> Good(Clear(v, f))

(* The pairs in their order; oneof once a member of it was given.          *)
Taken(acc, counts, r) == [ok |-> r.ok, v |-> r.v, oneof |-> acc.oneof \/ counts]
ConvertPair(T, acc, key, js, depth) ==
    LET f == key.f
        counts == FieldOf(T, f).oneof /\ js.j # "null"
        known == key.by \in {"json", "proto"} /\ f \in 1..Len(FieldsOf[T])
    IN  IF ~ acc.ok \/ ~ known \/ (counts /\ acc.oneof) THEN [acc EXCEPT !.ok = FALSE]
        ELSE Taken(acc, counts,
                   IF js.j = "null" THEN OnNull(T, acc.v, f)
                   ELSE Then(ConvertField(FieldOf(T, f), js, At(acc.v, f), depth), LAMBDA x : Good(Store(T, acc.v, f, x))))
ConvertFieldValuePair(T, pairs, v, depth) ==
    Then(FoldLeft(LAMBDA acc, p : ConvertPair(T, acc, p.key, p.val, depth), [ok |-> TRUE, v |-> v, oneof |-> FALSE], pairs), Good)

ConvertAny(js, old, depth) ==
    LET named(by) == SelectSeq(js.items, LAMBDA p : p.key.by = by)
        T == named("@type")[1].val.j
        r == IF T \in DOMAIN FieldsOf THEN ConvertFieldValuePair(T, SelectSeq(js.items, LAMBDA p : p.key.by # "@type"), NewMsg, depth)
             ELSE IF named("value") = <<>> THEN Bad
             ELSE ConvertMessage(T, named("value")[1].val, NewMsg, 0)
    IN  IF js.j # "obj" THEN Bad
        ELSE IF js.items = <<>> THEN Good(old)
        ELSE IF named("@type") = <<>> THEN Bad
        ELSE IF T \notin DOMAIN FieldsOf \cup {"Wrapper", "Duration"} THEN Bad
        ELSE Then(r, LAMBDA v : Good(VKind(T, VRep(<<v>>))))

(* An empty list is taken for an object without pairs.                     *)
ConvertMessage(T, js, old, depth) ==
    IF depth >= MaxDepth THEN Bad
    ELSE CASE T \in DOMAIN FieldsOf -> IF js.j = "obj" \/ js = JList(<<>>) THEN ConvertFieldValuePair(T, js.items, old, depth + 1) ELSE Bad
           [] T = "Wrapper"   -> ConvertScalarFieldValue(js, "int64", FALSE)
           [] T = "Duration"  -> IF js.j = "text" THEN Good(V(js.n)) ELSE Bad
           [] T = "Any"       -> ConvertAny(js, old, depth + 1)
           [] T = "Struct"    -> IF js.j = "obj" THEN Good(ConvertValue(js)) ELSE Bad
           [] T = "ListValue" -> IF js.j = "list" THEN Good(ConvertValue(js)) ELSE Bad
           [] T = "Value"     -> Good(ConvertValue(js))

(* json.loads with _DuplicateChecker: no key twice, at any depth.          *)
RECURSIVE NoDuplicates(_)
NoDuplicates(js) ==
    CASE js.j = "list" -> \A i \in DOMAIN js.items : NoDuplicates(js.items[i])
      [] js.j = "obj"  -> /\ \A i, j \in DOMAIN js.items : js.items[i].key = js.items[j].key => i = j
                          /\ \A i \in DOMAIN js.items : NoDuplicates(js.items[i].val)
      [] OTHER -> TRUE

ParseDict(T, js, into) == ConvertMessage(T, js, into, 0)
Parse(T, js, into) == IF NoDuplicates(js) THEN ParseDict(T, js, into) ELSE Bad
=============================================================================
