---------------------------- MODULE MCWellKnown ----------------------------
(***************************************************************************)
(* Inputs for the well-known types of protobuf and what they must compute. *)
(***************************************************************************)
EXTENDS Integers, Sequences, SequencesExt, FiniteSets

VARIABLE input      \* the algorithm at work and its argument

FM == INSTANCE FieldMask
WK == INSTANCE WellKnown WITH Digit <- 2, Day <- 3, DurationMax <- 5, FirstDay <- -2, LastDay <- 1

JField(t)  == [type |-> t, label |-> "one", oneof |-> FALSE, key |-> ""]
JMany(t)   == [JField(t) EXCEPT !.label = "many"]
JMap(k, t) == [JField(t) EXCEPT !.label = "map", !.key = k]
JsonTypes  ==
    [M |-> <<JField("int32"), JField("int64"), JField("bool"), JField("enum"), JMany("int64"), JMap("bool", "Value"),
             [JField("int32") EXCEPT !.oneof = TRUE], [JField("NullValue") EXCEPT !.oneof = TRUE], JField("M"),
             JField("Value"), JField("Wrapper"), JField("Duration"), JField("float"), JMany("M"), JField("Any"),
             JMap("int32", "int32"), JField("string"), JField("bytes"), JMany("Value"), JField("ListValue")>>]
JF == INSTANCE JsonFormat WITH FieldsOf <- JsonTypes, Wide <- 4, Narrow <- 2, EnumNumbers <- {0, 1}, Inf <- 100, MaxDepth <- 3

-----------------------------------------------------------------------------
(* Masks over two names, three deep; masks and pairs of messages to merge; *)
(* names of four characters.                                               *)
MaskPaths  == BoundedSeq({1, 2}, 3) \ {<<>>}
FewPaths   == {<<1>>, <<1, 2>>, <<1, 2, 1>>, <<2, 1>>}
MaskPairs  == {[k |-> "masks", a |-> a, b |-> b] : a \in BoundedSeq(MaskPaths, 2), b \in BoundedSeq(FewPaths, 2)}
              \cup {[k |-> "masks", a |-> a, b |-> <<<<2>>>>] : a \in SeqOf(FewPaths, 3)}

Nested3(n, r) == FM!Msg(n, r, <<FM!Msg(7, <<9>>, <<>>)>>)
Sources    == {FM!Msg(n, <<1>>, s) : n \in {0, 1}, s \in {<<>>, <<FM!New>>, <<FM!Msg(0, <<1>>, <<FM!Msg(2, <<>>, <<>>)>>)>>}}
Targets    == {FM!Msg(5, <<6>>, <<>>), FM!Msg(0, <<>>, <<Nested3(7, <<8>>)>>)}
MergePaths == {<<1>>, <<2>>, <<3>>, <<3, 1>>, <<3, 3>>, <<3, 3, 2>>, <<1, 1>>}
Merges     == {[k |-> "merged", mask |-> m, src |-> s, dst |-> d, rm |-> x, rr |-> y] :
                 m \in BoundedSeq(MergePaths, 2), s \in Sources, d \in Targets, x, y \in BOOLEAN}
Spellings  == {[k |-> "spelt", path |-> p] : p \in BoundedSeq({"a", "A", "_", "1"}, 4)}
LeafPaths  == {<<1>>, <<2>>, <<3, 1>>, <<3, 2>>, <<3, 3, 1>>, <<3, 3, 2>>}

(* Union and intersection of masks cover what their names say, canonical   *)
(* masks are minimal, merging moves exactly what the mask covers, and a    *)
(* path has one spelling in JSON (field_mask.py).                          *)
MasksSound ==
    /\ input.k = "masks" =>
         LET a == input.a  b == input.b
             u == FM!Union(a, b)
             i == FM!Intersect(a, b)
             c == FM!CanonicalForm(a)
         IN  /\ \A p \in [1..4 -> {1, 2}] :
                  /\ FM!Covers(u, p) <=> FM!Covers(a, p) \/ FM!Covers(b, p)
                  /\ FM!Covers(i, p) <=> FM!Covers(a, p) /\ FM!Covers(b, p)
                  /\ FM!Covers(c, p) <=> FM!Covers(a, p)
             /\ FM!Minimal(u) /\ FM!Minimal(i) /\ FM!Minimal(c)
    /\ input.k = "merged" /\ FM!IsValidForDescriptor(input.mask) =>
         LET d == FM!MergeMessage(FM!TreeOf(input.mask), input.src, input.dst, input.rm, input.rr)
         IN  d.ok /\ \A p \in LeafPaths :
                       FM!Read(d.v, p) = FM!Expected(input.mask, p, input.src, input.dst, input.rm, input.rr)
    /\ input.k = "spelt" =>
         LET camel == FM!SnakeCaseToCamelCase(input.path)
             snake == FM!CamelCaseToSnakeCase(input.path)
         IN  /\ camel.ok => FM!CamelCaseToSnakeCase(camel.out) = FM!Spelt(TRUE, input.path, FALSE)
             /\ snake.ok => FM!SnakeCaseToCamelCase(snake.out) = FM!Spelt(TRUE, input.path, FALSE)

-----------------------------------------------------------------------------
(* Times around zero, around the units and around the ends of datetime.    *)
SomeNanos == {0, 1, 7, 8, 9, 56, 63, 64, 65, 448, 504, 511}
Instants == {[k |-> "instant", t |-> WK!Time(s, n), off |-> off] :
               s \in -8..7, n \in SomeNanos \cup {-1, -8, -512, 512, 1000}, off \in {-1, 0, 2}}
Texts == {[k |-> "text", w |-> WK!Written(at, d, z, off)] :
            at \in {-7, -6, -1, 0, 5, 6}, d \in BoundedSeq({0, 1}, 3) \cup {[i \in 1..n |-> 1] : n \in 9..10},
            z \in {"Z", "Z?", "+", "+?", "-", "none"}, off \in {0, 2}}
Spans == {[k |-> "span", d |-> WK!Time(s, n)] : s \in -6..6, n \in SomeNanos \cup {-m : m \in SomeNanos} \cup {512, -512}}
Counts == {[k |-> "count", n |-> n, per |-> per] : n \in -130..130, per \in {WK!Kilo, WK!Micros, WK!Nanos}}
          \cup {[k |-> "count", n |-> n, per |-> WK!Nanos] : n \in {-1025, -1024, -1023, -513, -512, -511, 511, 512, 1025}}
Packs == {[k |-> "packed", prefix |-> p] : p \in BoundedSeq({"/", "x", "T", "U"}, 4)}

TotalNanos(t) == t.seconds * WK!Nanos + t.nanos
Truncated(n, unit) == IF n < 0 THEN -((-n) \div unit) * unit ELSE (n \div unit) * unit
Short(digits) == digits = <<>> \/ \E i \in (Len(digits) - 2)..Len(digits) : digits[i] # 0

(* Instants and spans keep their value through JSON, with no group of      *)
(* three digits too many, and through datetime and timedelta to the        *)
(* microsecond; instants are rounded down to a unit, spans towards zero,   *)
(* and spans made from any unit are valid: both parts of one sign.  A      *)
(* packed message is of its own type only (well_known_types.py).           *)
TimesExact ==
    /\ input.k = "instant" =>
         LET t == input.t
             json == WK!TimestampToJson(t)
             back == IF json.ok THEN WK!TimestampFromJson(json.v) ELSE json
             dt == WK!ToDatetime(t, input.off)
         IN  /\ json.ok => back.ok /\ TotalNanos(back.v) = TotalNanos(t) /\ Short(json.v.digits)
             /\ t.nanos >= 0 /\ dt.ok => WK!FromDatetime(dt.v) = WK!FromUnits(WK!ToUnits(t, WK!Micros), WK!Micros)
             /\ \A per \in {WK!Kilo, WK!Micros, WK!Nanos} :
                  LET down == TotalNanos(WK!FromUnits(WK!ToUnits(t, per), per))
                  IN  down <= TotalNanos(t) /\ TotalNanos(t) < down + WK!Nanos \div per
    /\ input.k = "text" =>
         LET w == input.w
             t == WK!TimestampFromJson(w)
         IN  t.ok => /\ t.v.nanos \in 0..(WK!Nanos - 1)
                     /\ LET json == WK!TimestampToJson(t.v)
                        IN  /\ json.ok <=> WK!InDatetime(t.v.seconds)
                            /\ json.ok => WK!TimestampFromJson(json.v) = t
    /\ input.k = "span" /\ WK!DurationValid(input.d) =>
         LET d == input.d
         IN  /\ WK!DurationFromJson(WK!DurationToJson(d).v) = WK!Some(d)
             /\ Short(WK!DurationToJson(d).v.digits)
             /\ TotalNanos(WK!FromTimedelta(WK!ToTimedelta(d))) = Truncated(TotalNanos(d), WK!Kilo)
             /\ \A per \in {WK!Kilo, WK!Micros, WK!Nanos} :
                  WK!DurationUnits(d, per) * (WK!Nanos \div per) = Truncated(TotalNanos(d), WK!Nanos \div per)
    /\ input.k = "count" =>
         LET d == WK!DurationFromUnits(input.n, input.per)
         IN  /\ d.seconds \in -5..5 => WK!DurationValid(d)
             /\ WK!DurationUnits(d, input.per) = input.n
    /\ input.k = "packed" =>
         /\ WK!Is(WK!Pack(input.prefix, "T"), "T")
         /\ ~ WK!Is(WK!Pack(input.prefix, "T"), "U")

-----------------------------------------------------------------------------
(* Structs with up to two keys, and values of every kind inside.           *)
Ints    == {WK!Val("number", 1), WK!Val("bool", 1), WK!Null}
Inside  == Ints \cup {WK!Odd}
Given   == Inside \cup {WK!ListOf(s) : s \in BoundedSeq(Inside, 2)}
           \cup {WK!Struct([k \in ks |-> v]) : ks \in SUBSET {1, 2}, v \in Inside}
           \cup {WK!Struct([k \in {1, 2} |-> IF k = 1 THEN WK!Null ELSE WK!Odd])}
           \cup {WK!ListOf(<<WK!Struct([k \in {1} |-> v])>>) : v \in Inside}
Stored  == {v \in Given : WK!Plain(v)} \cup {WK!Unset}
Fields2 == UNION {[ks -> Stored] : ks \in {{}, {1}}} \cup {[k \in {1, 2} |-> IF k = 1 THEN v ELSE WK!Null] : v \in Stored}
Structs2 == {[k |-> "struct", f |-> f, key |-> key, x |-> x] : f \in Fields2, key \in {1, 2}, x \in Given}
           \cup {[k |-> "list", f |-> s, i |-> i, x |-> x] : s \in BoundedSeq({WK!Null, WK!Unset, WK!ListOf(<<>>)}, 2), i \in -3..2, x \in Given}

OthersKept(f, g, key) == DOMAIN g \ {key} = DOMAIN f \ {key} /\ \A k \in DOMAIN f \ {key} : g[k] = f[k]

(* What is assigned is what is read afterwards, nothing of the old value   *)
(* is left in it, no other key or item changes even if the assignment      *)
(* fails halfway, and get_or_create keeps what is there                    *)
(* (well_known_types.py Struct, ListValue).                                *)
StructsLikeDicts ==
    /\ input.k = "struct" =>
         LET f == input.f  key == input.key  x == input.x
             set == WK!SetItem(f, key, x)
             upd == WK!Update(f, [k \in {key} |-> x])
         IN  /\ set.ok <=> WK!Plain(x)
             /\ set.ok => WK!GetItem(set.f, key).v = x /\ WK!GetItem(set.f, key).f = set.f
             /\ upd = [ok |-> set.ok, v |-> set.f]
             /\ \A g \in {set.f, WK!GetItem(f, key).f, WK!DelItem(f, key).f, WK!SetItself(f, key).f} :
                  OthersKept(f, g, key)
             /\ \A e \in {WK!Struct(<<>>), WK!ListOf(<<>>)} :
                  LET made == WK!GetOrCreate(set.f, key, e)
                  IN  /\ OthersKept(f, made.f, key) /\ WK!GetItem(made.f, key).v = made.v
                      /\ set.f[key].kind = e.kind => made.f = set.f
             /\ WK!Items(set.f).ok => \A k \in DOMAIN set.f : WK!GetItem(set.f, k).ok
    /\ input.k = "list" =>
         LET l == input.f  i == input.i  x == input.x
             set == WK!ListSet(l, i, x)
             app == WK!ListAppend(l, x)
             ext == WK!Extend(l, <<x, WK!Null>>)
         IN  /\ set.ok => WK!ListGet(set.f, i).v = x /\ Len(set.f) = Len(l)
             /\ app.ok => WK!ListGet(app.f, -1).v = x /\ WK!ListDel(app.f, -1).f = l
             /\ SubSeq(ext.v, 1, Len(l)) = l /\ (ext.ok => ext.v = Append(app.f, WK!Null))
             /\ WK!AddEmpty(l, WK!ListOf(<<>>)).f = WK!ListAppend(l, WK!ListOf(<<>>)).f

-----------------------------------------------------------------------------
(* JSON: messages with up to two fields, and every kind of value for one.  *)
JNums      == {JF!VKind("number", JF!V(n)) : n \in {0, 3}}
JUnset     == JF!NewMsg
JValues    == JNums \cup {JUnset, JF!VKind("list", JF!VRep(<<JUnset>>)), JF!VKind("struct", JF!VMsg([k \in {2} |-> JUnset])),
               JF!VKind("null", JF!V(0)), JF!VKind("bool", JF!V(1)), JF!VKind("text", JF!V(1)),
               JF!VKind("list", JF!V(0)), JF!VKind("list", JF!VRep(<<JF!VKind("null", JF!V(0))>>)),
               JF!VKind("struct", JF!V(0)), JF!VKind("struct", JF!VMsg([k \in {2} |-> JF!VKind("bool", JF!V(0))]))}
JSub       == {JF!NewMsg, JF!VMsg([f \in {1} |-> JF!V(2)]), JF!VMsg([f \in {9} |-> JF!NewMsg])}
JPacked    == {JF!NewMsg, JF!VKind("M", JF!VRep(<<JF!VMsg([f \in {1} |-> JF!V(1)])>>)), JF!VKind("M", JF!VRep(<<JF!NewMsg>>)),
               JF!VKind("Wrapper", JF!VRep(<<JF!V(3)>>))}
JSamples   == <<{JF!V(-2)}, {JF!V(4)}, {JF!V(1)}, {JF!V(1), JF!V(2)}, {JF!VRep(<<JF!V(0), JF!V(-4)>>)},
                {JF!VMsg([k \in {0, 1} |-> v]) : v \in JValues}, {JF!V(0), JF!V(1)}, {JF!V(0)}, JSub,
                JValues, {JF!V(0), JF!V(3)}, {JF!V(7)}, {JF!V(3), JF!V(-100)}, {JF!VRep(<<m>>) : m \in JSub}, JPacked,
                {JF!VMsg([k \in {-1, 2} |-> JF!V(0)])}, {JF!VKind("digits", JF!V(1))}, {JF!V(1)},
                {JF!VRep(<<v>>) : v \in JValues}, {JF!VKind("list", JF!VRep(<<v>>)) : v \in JValues}>>
JMessages  == UNION {{JF!VMsg([f \in {p[1], p[2]} |-> IF f = p[1] THEN v ELSE w]) : v \in JSamples[p[1]], w \in JSamples[p[2]]} :
                       p \in {q \in (1..20) \X (1..20) : q[1] <= q[2] /\ q # <<7, 8>>}}
JOptions   == {[proto |-> a, ints |-> b, defaults |-> c] : a, b, c \in BOOLEAN}
Prints     == {[k |-> "json", m |-> m, opt |-> o] : m \in {x \in JMessages : Cardinality(DOMAIN x.msg) = 1}, o \in JOptions}
              \cup {[k |-> "json", m |-> m, opt |-> [proto |-> b, ints |-> b, defaults |-> b]] : m \in JMessages, b \in BOOLEAN}
JScalars   == {JF!J(j, n) : j \in {"int", "float", "frac", "digits", "name", "bool"}, n \in {0, 1}}
              \cup {JF!J("int", 3), JF!J("digits", 5), JF!J("spaced", 1), JF!J("text", 1), JF!J("true", 1), JF!J("inf", 100), JF!JNull}
JGiven     == JScalars \cup {JF!JList(s) : s \in BoundedSeq(JScalars, 1)} \cup {JF!JList(<<JF!JList(<<>>)>>), JF!JObj(<<>>)}
              \cup {JF!JObj(<<JF!Pair(JF!Key(1, by), v)>>) : by \in {"json", "true", "digits", "@type"}, v \in JScalars}
JSubText(f) == JF!JObj(<<JF!Pair(JF!Key(f, "json"), JF!J("int", f))>>)
JTexts     == {[k |-> "parse_json", js |-> JF!JObj(<<JF!Pair(JF!Key(f, "json"), v)>>), into |-> m] :
                 f \in (1..21) \ {18}, v \in JGiven, m \in {JF!NewMsg, JF!VMsg([f \in {7, 9} |-> IF f = 7 THEN JF!V(1) ELSE JF!VMsg([g \in {2} |-> JF!V(1)])])}}
              \cup {[k |-> "parse_json", js |-> JF!JObj(<<JF!Pair(JF!Key(f, a), v), JF!Pair(JF!Key(g, b), w)>>), into |-> JF!NewMsg] :
                 f, g \in {1, 7, 8, 9}, a, b \in {"json", "proto"}, v, w \in {JF!JNull, JF!J("int", 1), JF!JObj(<<>>), JSubText(1), JSubText(2)}}
Plainly == [proto |-> FALSE, ints |-> FALSE, defaults |-> FALSE]

(* A Value without a kind is printed as null and comes back as one.        *)
RECURSIVE KindsSet(_)
KindsSet(v) == IF v.k = "" THEN JF!VKind("null", JF!V(0))
               ELSE [v EXCEPT !.rep = [i \in DOMAIN @ |-> KindsSet(@[i])], !.msg = [k \in DOMAIN @ |-> KindsSet(@[k])]]
AsPrinted(m) ==
    JF!VMsg([f \in DOMAIN m.msg |->
              LET fd == JsonTypes.M[f]  v == m.msg[f]
              IN  IF fd.type \notin {"Value", "ListValue"} THEN v
                  ELSE IF fd.label = "one" THEN KindsSet(v)
                  ELSE [v EXCEPT !.rep = [i \in DOMAIN @ |-> KindsSet(@[i])], !.msg = [k \in DOMAIN @ |-> KindsSet(@[k])]]])

(* A message printed with any options parses to itself, in place of what   *)
(* its fields held before (a message and an empty Any are merged instead): *)
(* to itself but for a Value without a kind, which comes back as null, as  *)
(* the comment at json_format.py:325 says.  What parses at all, a          *)
(* NullValue other than zero aside, prints so that it parses to the same   *)
(* again.  Members are taken in turn, also when both spellings of one      *)
(* field are given: the later one stands, a message is merged              *)
(* (json_format.py MessageToDict, ParseDict).                              *)
JsonFaithful ==
    /\ input.k = "json" =>
         LET js == JF!MessageToJson("M", input.m, input.opt)
             held == {f \in DOMAIN input.m.msg : f # 9 /\ (f = 15 => input.m.msg[f] # JF!NewMsg)}
             back == JF!Good(AsPrinted(input.m))
         IN  /\ JF!Parse("M", js, JF!NewMsg) = back
             /\ \A f \in held : JF!Parse("M", js, JF!VMsg([g \in {f} |-> CHOOSE v \in JSamples[f] : TRUE])) = back
    /\ input.k = "parse_json" =>
         LET r == JF!Parse("M", input.js, input.into)
             Alone(i, v) == JF!Parse("M", JF!JObj(<<input.js.items[i]>>), v)
         IN  /\ r.ok /\ JF!At(r.v, 8).n = 0 => JF!Parse("M", JF!MessageToJson("M", r.v, Plainly), JF!NewMsg) = r
             /\ r.ok /\ Len(input.js.items) = 2 => Alone(1, input.into).ok /\ Alone(2, Alone(1, input.into).v) = r

WellKnownInputs == \/ input \in MaskPairs \/ input \in Merges   \/ input \in Spellings
                   \/ input \in Instants  \/ input \in Texts    \/ input \in Spans
                   \/ input \in Counts    \/ input \in Packs    \/ input \in Structs2
                   \/ input \in Prints    \/ input \in JTexts
=============================================================================
