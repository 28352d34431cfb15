------------------------------ MODULE MCCodecs ------------------------------
(***************************************************************************)
(* Inputs for the pure algorithms of the Python standard library, and what *)
(* they must compute: calldata, the EVM ABI, the Keccak sponge, slices,    *)
(* validators' votes, the choice of the method to call and events.         *)
(***************************************************************************)
EXTENDS MCWellKnown

CONSTANTS AddrSize, Rate, DigestSize

CD  == INSTANCE Calldata
ABI == INSTANCE EvmAbi
KS  == INSTANCE Sponge
SL  == INSTANCE Slices
EQ  == INSTANCE EqPrinciple
DS  == INSTANCE Dispatch WITH Topic <- 3, Encode <- CD!Encode
TT  == INSTANCE TestTools WITH Tags <- {"a", "b"}
MY  == INSTANCE MicroYaml

(* Protobuf messages: one of everything, in a world of four-bit bytes.     *)
F(t) == [type |-> t, label |-> "one", packed |-> FALSE, presence |-> FALSE, oneof |-> FALSE, sub |-> ""]
Sub(t, m) == [F(t) EXCEPT !.sub = m, !.presence = TRUE]
OneofOf(fd) == [fd EXCEPT !.oneof = TRUE, !.presence = TRUE]
Many(fd) == [fd EXCEPT !.label = "many"]
ProtoTypes ==
    [Leaf  |-> <<F("sint32"), Many(F("enum"))>>,
     Entry |-> <<F("uint32"), Sub("message", "Leaf")>>,
     Outer |-> <<F("int32"), OneofOf(F("uint32")), OneofOf(Sub("message", "Leaf")),
                 [Many(F("sint64")) EXCEPT !.packed = TRUE], Many(Sub("message", "Leaf")),
                 [F("message") EXCEPT !.label = "map", !.sub = "Entry"], Sub("group", "Leaf"),
                 F("int64")>>,
     Plain |-> <<F("fixed32"), F("fixed64"), F("bool"), F("uint64"), F("enum"), Many(F("bytes")), Many(Sub("group", "Leaf"))>>]
PW  == INSTANCE ProtoWire WITH Group <- 3, Wide <- 8, Narrow <- 4, Types <- ProtoTypes

-----------------------------------------------------------------------------
(* Calldata: values around the edges of the integers' encodings, nested    *)
(* containers, and every encoding with one octet changed, dropped, added   *)
(* or exchanged with the next.                                             *)
Scalars == {CD!None, CD!Bool(TRUE), CD!Bool(FALSE), CD!Addr(<<7, 0>>), CD!Octets(<<0, 255>>),
            CD!Text(<<>>), CD!Text(<<97, 233>>)}
           \cup {CD!PyInt(i) : i \in {0, 15, 16, -1, -16, -17, 2047, 2048, -2048, -2049}}
Strs == {<<>>, <<97>>, <<98>>, <<97, 98>>, <<233>>}
Few  == {CD!None, CD!PyInt(16), CD!Text(<<97>>)}
CalldataValues ==
    LET lists == {CD!List(s) : s \in BoundedSeq(Few, 2)}
        dicts == UNION {{CD!Dict(f) : f \in [ks -> Few]} : ks \in {d \in SUBSET Strs : Cardinality(d) <= 2}}
    IN  Scalars \cup lists \cup dicts
        \cup {CD!Object([k \in Strs |-> CD!Bool(k = <<>>)]), CD!View(CD!Encode(CD!List(<<CD!None>>)))}
        \cup {CD!List(<<x, CD!Dict([k \in {<<97>>} |-> x])>>) : x \in lists}

Edited(b) ==
    {[b EXCEPT ![i] = o] : i \in DOMAIN b, o \in {0, 1, 8, 14, 22, 97, 128, 144, 255}}
    \cup {RemoveAt(b, i) : i \in DOMAIN b}
    \cup {InsertAt(b, i, o) : i \in 1..(Len(b) + 1), o \in {0, 97, 128}}
    \cup {[b EXCEPT ![i] = b[i + 1], ![i + 1] = b[i]] : i \in 1..(Len(b) - 1)}
    \cup {SubSeq(b, i, j) \o SubSeq(b, i, Len(b)) : i, j \in DOMAIN b}

CalldataInputs == {[k |-> "value", value |-> v] : v \in CalldataValues}
                  \cup {[k |-> "octets", octets |-> b] : b \in UNION {Edited(CD!Encode(v)) : v \in CalldataValues}}

(* A value comes back from decode as what encode coerced it to; octets     *)
(* that decode at all are the only encoding of their value, so that equal  *)
(* arguments have equal hashes (calldata.py encode, decode).               *)
CalldataCanonical ==
    /\ input.k = "value"  => CD!Decode(CD!Encode(input.value)) = CD!Done(CD!Coerced(input.value), <<>>)
    /\ input.k = "octets" => LET d == CD!Decode(input.octets) IN d.ok => CD!Encode(d.v) = input.octets

-----------------------------------------------------------------------------
(* The EVM ABI: codecs nested three deep, strs of zero to two words.       *)
StrValues == {[len |-> 0, words |-> <<>>], [len |-> 32, words |-> <<5>>], [len |-> 33, words |-> <<5, 6>>]}
Plain  == {ABI!Word, ABI!BytesStr}
Once   == Plain \cup {ABI!DynArray(c) : c \in Plain} \cup {ABI!Array(c, 2) : c \in Plain}
          \cup {ABI!Tuple(cs) : cs \in {<<c, d>> : c, d \in Plain} \cup {<<c>> : c \in Plain}}
Twice  == Once \cup {ABI!DynArray(c) : c \in Once} \cup {ABI!Array(c, 2) : c \in Once}
          \cup {ABI!Tuple(<<c, d>>) : c, d \in Once}
Codecs == Twice \cup {ABI!InplaceTuple(<<c, d>>) : c \in Twice, d \in Once}
          \cup {ABI!InplaceTuple(<<c, ABI!Word>>) : c \in Once}

(* The n-th value of a codec: words are numbered, sizes vary with n.       *)
RECURSIVE Sample(_, _)
Sample(c, n) ==
    CASE c.k = "word"  -> 100 + n
      [] c.k = "bytes" -> CHOOSE v \in StrValues : v.len = (<<33, 0, 32>>)[(n % 3) + 1]
      [] c.k = "list"  -> [i \in 1..(n % 3) |-> Sample(c.item, 3 * n + i)]
      [] c.k = "array" -> [i \in 1..c.n |-> Sample(c.item, 3 * n + i)]
      [] c.k = "tuple" -> [i \in 1..Len(c.items) |-> Sample(c.items[i], 3 * n + i)]

AbiInputs == {[k |-> "abi", c |-> c, n |-> n] : c \in Codecs, n \in 1..2}

Faithful(c, v) == /\ ABI!Encode(c, v) = ABI!AbiMessage(c, v)
                  /\ Tail(ABI!EncodeCall(c, v, 77)) = ABI!Encode(c, v)
                  /\ ABI!Decode(c, ABI!Encode(c, v)) = v

(* Codecs whose scopes are written in one round produce the layout of the  *)
(* ABI, also behind a selector, and decode to the value (codecs.py).       *)
AbiFaithful == input.k = "abi" /\ ABI!OneRound(input.c) => Faithful(input.c, Sample(input.c, input.n))

(* test_eth_decoding_inverse: arguments decode to what was encoded.        *)
AbiInverse == input.k = "abi" =>
                LET v == Sample(input.c, input.n) IN ABI!Decode(input.c, ABI!Encode(input.c, v)) = v

-----------------------------------------------------------------------------
(* The sponge: messages over the two rate boundaries, cut in two updates.  *)
Messages == UNION {[1..n -> {0, 1, 128}] : n \in 0..(Rate + 1)}
            \cup {[i \in 1..n |-> 1] : n \in (Rate + 2)..(2 * Rate + 1)}

SpongeInputs == {[k |-> "sponge", msg |-> m, cut |-> n] : m \in Messages, n \in 0..(2 * Rate + 1)}

(* A digest, taken between updates or after them, is the one of all bytes  *)
(* so far, however they were cut into updates (keccak.py KeccakHash).      *)
DigestOfWholeMessage ==
    input.k = "sponge" /\ input.cut <= Len(input.msg) =>
        LET first == KS!Absorb(KS!Fresh, SubSeq(input.msg, 1, input.cut))
            both  == KS!Absorb(first, SubSeq(input.msg, input.cut + 1, Len(input.msg)))
        IN  /\ KS!Digest(first) = KS!KeccakOf(SubSeq(input.msg, 1, input.cut))
            /\ KS!Digest(both) = KS!KeccakOf(input.msg)

-----------------------------------------------------------------------------
(* Slices: arrays of up to five items, all bounds up to one past both      *)
(* ends, steps up to three.                                                *)
Bounds(n) == {SL!None} \cup {<<i>> : i \in -(n + 1)..(n + 1)}
Steps  == {SL!None} \cup {<<i>> : i \in {-3, -2, -1, 1, 2, 3}}
SliceInputs ==
    UNION {{[k |-> "slice", a |-> [i \in 1..n |-> i], s |-> SL!Slice(b, e, st), new |-> [i \in 1..m |-> 10 + i]] :
              b, e \in Bounds(n), st \in Steps, m \in 0..3} : n \in 0..5}

(* Reading and deleting a slice does what a Python list does.  So does     *)
(* assigning one, of what a list accepts, exactly when the slice is        *)
(* regular: `a[::2] = [x, y, z]' on five items inserts where it should     *)
(* replace, and `a[3:1] = [x]' raises after the items from 1 on were       *)
(* moved, although vec.py:15 calls the array a list.  In every case the    *)
(* items before the slice stay (vec.py DynArray).                          *)
SlicesLikeList ==
    input.k = "slice" =>
        LET a == input.a s == input.s new == input.new
            range == SL!Indices(s, Len(a))
            set   == SL!SetSlice(a, s, new)
        IN  /\ SL!GetSlice(a, s) = SL!ListGet(a, s)
            /\ SL!DelSlice(a, s) = SL!ListDel(a, s)
            /\ SL!ListAccepts(s, Len(a), Len(new)) =>
                 (set = [ok |-> TRUE, v |-> SL!ListSet(a, s, new)] <=> SL!Regular(s, Len(a)))
            /\ \A k \in 1..Min({range.start, range.stop}) : set.v[k] = a[k]

-----------------------------------------------------------------------------
(* Votes: values equal in Python but not in type, and outcomes that share  *)
(* their message but not their kind; a leader may send any of them.  A     *)
(* principle looks at the validator's own run or at the contract's         *)
(* function, never at both.                                                *)
VoteValues == {EQ!Str("m"), EQ!Str("exit_code 1")} \cup [t : {"bool", "int"}, n : {"0", "1"}]
            \cup [t : {"bytes"}, n : {"m"}]
VmResults == {EQ!Return(v) : v \in VoteValues} \cup {EQ!UserError(m) : m \in {"m", "other"}}
             \cup {EQ!VMError(m) : m \in {"m", "exit_code 1"}}
Answers  == {[ok |-> ok, verdict |-> b] : ok, b \in BOOLEAN}
VoteInputs == {[k |-> "vote", api |-> api, fn |-> l, llm |-> p, mine |-> f, judge |-> q, custom |-> f] :
                 api \in EQ!Apis, l, f \in VmResults, p, q \in Answers}

(* A validator agrees only with a result it accepts, and honest ones agree *)
(* when they should: EqPrinciple.tla says what that is for each principle  *)
(* (vm.py run_nondet, eq_principle.py).                                    *)
VotesSound ==
    input.k = "vote" =>
      /\ EQ!VoteSound(input.api, input.fn, input.mine, input.judge, input.custom)
      /\ EQ!HonestVote(input.api, input.fn, input.llm, input.judge, input.custom)

-----------------------------------------------------------------------------
(* Dispatch: classes with an ordinary method and the special ones.         *)
Methods == {DS!Private, DS!PublicView, DS!PublicWrite, DS!WritePayable,
            [DS!PublicWrite EXCEPT !.abstract = TRUE]}
ClassesOf == UNION {[names -> Methods] : names \in SUBSET {"foo", DS!Init, DS!Receive, DS!Undefined}}
DispatchInputs ==
    {[k |-> "call", cls |-> cls, msg |-> [init |-> init, method |-> n, value |-> v]] :
       cls \in ClassesOf, init \in BOOLEAN, v \in 0..1,
       n \in {"", "foo", "bar", DS!Init, DS!OnError, DS!GetSchema, "#other"}}

(* Value reaches payable methods only, the three calls without a check     *)
(* aside, and who goes by the schema is served as it says: its methods     *)
(* take calls, with value if payable, and no others do                     *)
(* (_genlayer_runner.py resolve_method, get_schema.py).                    *)
DispatchMatchesSchema ==
    input.k = "call" =>
        LET cls == input.cls  msg == input.msg
            r == DS!Resolve(cls, msg)
            schema == DS!GetSchemaOf(cls)
            ordinary == ~ msg.init /\ msg.method \notin {DS!OnError, DS!GetSchema}
        IN  /\ ordinary /\ r.ok => DS!Attr(cls, r.meth).public /\ (msg.value > 0 => DS!Attr(cls, r.meth).payable)
            /\ ordinary /\ DS!HasSchema(cls) =>
                 (r.ok <=> /\ msg.method \in DOMAIN schema
                           /\ ~ DS!Attr(cls, msg.method).abstract
                           /\ msg.value > 0 => schema[msg.method].payable)

(* Events: two fields declared in any way, values around a topic's size.   *)
Params == {DS!Param(n, k) : n \in {1, 2}, k \in DS!Kinds}
EventValues == {CD!None, CD!Bool(TRUE), CD!PyInt(1), CD!PyInt(16), CD!Octets(<<>>), CD!Octets(<<0>>), CD!Octets(<<0, 0>>),
                CD!Octets(<<0, 0, 0>>), CD!Octets(<<0, 0, 1>>), CD!List(<<CD!None>>), CD!List(<<CD!None, CD!None>>)}
EventInputs == {[k |-> "event", params |-> ps, args |-> <<a, b>>, named |-> n] :
                  ps \in {p \in BoundedSeq(Params, 2) : Len(p) = 2 => p[1].name # p[2].name},
                  a, b \in EventValues, n \in {{}, {2}, {3}}}

(* An event whose fields are declared in the order of their names carries  *)
(* each argument under its name, refuses a field given twice, and has a    *)
(* topic per field that no other value has, whatever zeros or hash are     *)
(* after or in place of its calldata (event.py _do_init, events.py _emit). *)
EventsFaithful ==
    input.k = "event" =>
        LET ps == input.params
            cls == DS!DoInit(ps)
            declared == {i \in DOMAIN ps : ps[i].kind = "positional_only"}
            args == SubSeq(input.args, 1, Cardinality(declared))
            ev == DS!NewEvent(cls.indexed, args, [n \in input.named |-> CD!None])
            sorted == \A i, j \in declared : i < j => ps[i].name < ps[j].name
            posted == DS!Emit("name", cls.indexed, ev.blob)
        IN  /\ cls.ok /\ sorted /\ ev.ok /\ declared \in {1..n : n \in 0..2} =>
                 \A i \in declared : ps[i].name \notin input.named /\ ev.blob[ps[i].name] = input.args[i]
            /\ cls.ok /\ ev.ok /\ Cardinality(declared) = 2 =>
                 (posted.topics[2] = posted.topics[3] <=> input.args[1] = input.args[2])

-----------------------------------------------------------------------------
(* Protobuf: messages of up to two fields, pairs of them, and every        *)
(* encoding of one with a byte changed, dropped or added.                  *)
Msg(f) == [PW!Empty EXCEPT !.f = f]
Leaves == {Msg(<<>>), Msg(<<-8>>), Msg(<<3, <<1, 0>>>>)}
OuterSamples == <<{-8, 7}, {0, 9}, Leaves, {<<-128>>, <<127, 0>>}, {<<l>> : l \in Leaves},
                  {[k \in {1} |-> Msg(<<>>)], [k \in {1, 9} |-> Msg(<<3>>)]}, Leaves, {-128, 127}>>
PlainSamples == <<{9}, {130}, {1}, {8, 255}, {1}, {<<<<>>, <<15>>>>}, {<<l, l>> : l \in Leaves}>>
MessagesOf(T, samples) ==
    LET pairs == {p \in (DOMAIN samples) \X (DOMAIN samples) : p[1] <= p[2] /\ p[1] \notin PW!Rivals(T, p[2])}
    IN  {PW!Sized(T, m) : m \in {PW!Empty}
           \cup UNION {{Msg([n \in {p[1], p[2]} |-> IF n = p[1] THEN v ELSE w]) : v \in samples[p[1]], w \in samples[p[2]]} :
                       p \in pairs}}
ProtoMessages == [Outer |-> MessagesOf("Outer", OuterSamples), Plain |-> MessagesOf("Plain", PlainSamples)]

Corrupted(b) ==
    {[b EXCEPT ![i] = o] : i \in DOMAIN b, o \in 0..15}
    \cup {RemoveAt(b, i) : i \in DOMAIN b}
    \cup {InsertAt(b, i, o) : i \in 1..(Len(b) + 1), o \in {0, 3, 9, 12}}

ProtoPairs == UNION {{[k |-> "merge", T |-> T, into |-> m, from |-> n] :
                        m \in ProtoMessages[T], n \in {x \in ProtoMessages[T] : Cardinality(DOMAIN x.f) <= 1}} : T \in {"Outer", "Plain"}}
ProtoBytes == UNION {{[k |-> "parse", T |-> T, octets |-> b] :
                        b \in UNION {Corrupted(PW!Encode(T, m)) : m \in {x \in ProtoMessages[T] : x.size <= 10}}} : T \in {"Outer", "Plain"}}

(* A buffer of two encoded messages parses to the second merged into the   *)
(* first, and ByteSize() is the length of what is written (encoder.py,     *)
(* decoder.py, python_message.py MergeFrom).                               *)
ConcatenationMerges ==
    input.k = "merge" =>
        LET T == input.T
            one == PW!Encode(T, input.into)
            two == PW!Encode(T, input.from)
        IN  /\ Len(one) = input.into.size
            /\ PW!MergeFromString(T, one \o two).ok
            /\ PW!Decode(T, one \o two) = PW!Merge(T, input.into, input.from)

(* Whatever parses is written back so that it parses to the same message:  *)
(* unknown fields, values cut to their width and oddly encoded ones too    *)
(* (python_message.py _InternalParse, decoder.py).                         *)
ParseStable ==
    input.k = "parse" /\ PW!MergeFromString(input.T, input.octets).ok =>
        LET m == PW!Decode(input.T, input.octets)
            b == PW!Encode(input.T, m)
        IN  /\ Len(b) = m.size
            /\ PW!MergeFromString(input.T, b).ok
            /\ PW!Decode(input.T, b) = m

-----------------------------------------------------------------------------
(* Tools: steps of a test case, expressions over tags, documents.          *)
CaseSteps == {TT!SetCwd(1), TT!SetCwd(2), TT!SetEnv("v", 1), TT!SetEnv("v", 2), TT!Run, TT!Python}
StepInputs == {[k |-> "steps", steps |-> s] : s \in SeqOf(CaseSteps, 5)}

Simple == {<<"a">>, <<"b">>, <<"true">>}
Bigger(E) == E \cup {<<"!">> \o e : e \in E} \cup {<<"(">> \o e \o <<")">> : e \in E}
              \cup {l \o <<op>> \o r : l \in E, op \in {"&", "|", "^"}, r \in E}
TagInputs == {[k |-> "tags", toks |-> e] : e \in Bigger(Bigger(Simple))}

Leaves0 == {MY!Leaf("str", 0), MY!Leaf("int", 0), MY!Leaf("block", 2)}
Nested(V) == {MY!ListOf(s) : s \in SeqOf(V, 2) \ {<<>>}}
            \cup UNION {{MY!MapOf(f) : f \in [ks -> V]} : ks \in {{1}, {1, 2}}}
Documents == LET one == Nested(Leaves0)
                 two == Nested({d \in one : MY!Is(d, "list") => Len(d.list) = 1} \cup {MY!Leaf("int", 0)})
             IN  one \cup two \cup {MY!MapOf(<<d, MY!Leaf("int", 0)>>) : d \in two}
YamlInputs == {[k |-> "yaml", doc |-> d, flat |-> f] : d \in Documents, f \in BOOLEAN}

(* What is run after optimize_steps is run in the directory and with the   *)
(* variables it would have had before (step.py optimize_steps, run_steps). *)
OptimizedRunsAlike == input.k = "steps" => TT!RunSteps(TT!OptimizeSteps(input.steps)) = TT!RunSteps(input.steps)

(* An expression over tags is read to its end and holds for the sets of    *)
(* tags that its operators and their priorities say (filter.py).           *)
TagsAsWritten == input.k = "tags" => TT!TagsExpr(input.toks) = TT!Ok(TT!Meaning(input.toks), Len(input.toks) + 1)

(* A document of nested lists and mappings is read back as it was written, *)
(* however deep it falls from one line to the next (micro_yaml.py).        *)
YamlAsWritten ==
    input.k = "yaml" =>
        LET d == MY!Loads(MY!Written(input.doc, 0, input.flat)) IN d.ok /\ d.v = input.doc

Idle == [k |-> "none"]
CodecInit == \/ input \in CalldataInputs \/ input \in AbiInputs  \/ input \in SpongeInputs
             \/ input \in SliceInputs    \/ input \in VoteInputs \/ input \in DispatchInputs
             \/ input \in ProtoPairs     \/ input \in ProtoBytes
             \/ input \in StepInputs     \/ input \in TagInputs  \/ input \in YamlInputs
             \/ input \in EventInputs    \/ WellKnownInputs
CodecSpec == CodecInit /\ [][UNCHANGED input]_input
=============================================================================
