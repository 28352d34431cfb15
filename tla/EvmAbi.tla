------------------------------- MODULE EvmAbi -------------------------------
(***************************************************************************)
(* The EVM ABI codecs of genlayer.py.evm: encoders that write the heads of *)
(* a scope and queue its tails, decoders that follow the offsets.          *)
(*                                                                         *)
(* Memory is a sequence of 32-byte words and offsets count words.  What a  *)
(* static codec puts in its word (an int, a bool, an address, bytesN) is   *)
(* the word itself.  A str or bytes value is its length in bytes and the   *)
(* words that hold them.                                                   *)
(***************************************************************************)
EXTENDS Integers, Sequences, SequencesExt, FiniteSets

(* Codecs, as build makes them from types.                                 *)
Word          == [k |-> "word"]
BytesStr      == [k |-> "bytes"]
DynArray(c)   == [k |-> "list", item |-> c]
Array(c, n)   == [k |-> "array", item |-> c, n |-> n]
Tuple(cs)     == [k |-> "tuple", items |-> cs, inplace |-> FALSE]
InplaceTuple(cs) == [k |-> "tuple", items |-> cs, inplace |-> TRUE]

RECURSIVE IsDynamic(_)
IsDynamic(c) == CASE c.k = "word"  -> FALSE
                  [] c.k \in {"bytes", "list"} -> TRUE
                  [] c.k = "array" -> IsDynamic(c.item)
                  [] c.k = "tuple" -> /\ ~ c.inplace
                                      /\ \E i \in DOMAIN c.items : IsDynamic(c.items[i])

-----------------------------------------------------------------------------
(* EncodeState.  A tail is a closure kept as a record: a putter, the bytes *)
(* of a str, an encode or an _encode_now with its codec and value.         *)

State(off, result, tails) == [off |-> off, result |-> result, tails |-> tails]
Putter(at, off0)          == [k |-> "putter", at |-> at, off0 |-> off0]
PutBytes(v)               == [k |-> "bytes", v |-> v]
Later(k, c, v)            == [k |-> k, c |-> c, v |-> v]

PutIloc(st) == State(st.off, Append(st.result, 0),
                     Append(st.tails, Putter(Len(st.result) + 1, st.off)))

Derived(st) == State(Len(st.result), st.result, <<>>)

(* The words that n bytes and their zero padding take.                     *)
WordsOf(n) == (n + ((32 - (n % 32)) % 32)) \div 32

RECURSIVE EncodeTo(_, _, _), EncodeNow(_, _, _), RunTails(_), EncodeAll(_, _, _)
(* elem_encoder.encode(state, v) for each value in turn.                   *)
EncodeAll(st, c, vs) == IF vs = <<>> THEN st
                        ELSE EncodeAll(EncodeTo(st, c, Head(vs)), c, Tail(vs))

EncodeTo(st, c, v) ==
    CASE c.k = "word"  -> State(st.off, Append(st.result, v), st.tails)
      [] c.k = "bytes" -> LET p == PutIloc(st) IN [p EXCEPT !.tails = Append(@, PutBytes(v))]
      [] c.k \in {"list", "array", "tuple"} /\ IsDynamic(c) ->
           LET p == PutIloc(st) IN [p EXCEPT !.tails = Append(@, Later("now", c, v))]
      [] OTHER -> EncodeNow(st, c, v)

EncodeNow(st, c, v) ==
    LET Tails(cs)    == [i \in 1..Len(v) |-> Later("encode", cs[i], v[i])]
        Inside(der)  == [st EXCEPT !.result = RunTails(der).result]
        sized        == State(st.off, Append(st.result, Len(v)), st.tails)
    IN  CASE c.k = "list"  ->
               Inside([Derived(sized) EXCEPT !.tails = Tails([i \in 1..Len(v) |-> c.item])])
          [] c.k = "array" -> IF IsDynamic(c) THEN Inside(EncodeAll(Derived(st), c.item, v))
                              ELSE EncodeAll(st, c.item, v)
          [] c.k = "tuple" -> IF IsDynamic(c) THEN Inside([Derived(st) EXCEPT !.tails = Tails(c.items)])
                              ELSE [st EXCEPT !.tails = @ \o Tails(c.items)]

\* Mutant: the offset is counted from the start of the whole message
IlocFromStart(st, t) == Len(st.result)

(* The offset a putter writes: from the start of its scope to the end.     *)
IlocOf(st, t) == Len(st.result) - t.off0

RunTail(st, t) ==
    CASE t.k = "putter" -> [st EXCEPT !.result[t.at] = IlocOf(st, t)]
      [] t.k = "bytes"  -> [st EXCEPT !.result = @ \o <<t.v.len>> \o t.v.words]
      [] t.k = "encode" -> EncodeTo(st, t.c, t.v)
      [] t.k = "now"    -> EncodeNow(st, t.c, t.v)

(* run_tails: the queued tails in order, then the ones they queued.        *)
RunTails(st) ==
    IF st.tails = <<>> THEN st
    ELSE RunTails(FoldLeft(RunTail, [st EXCEPT !.tails = <<>>], st.tails))

Encode(c, v) == RunTails(EncodeTo(State(0, <<>>, <<>>), c, v)).result

(* MethodEncoder.encode_call: the selector comes first (one place here)    *)
(* and offsets count from its end.                                         *)
EncodeCall(c, v, selector) == RunTails(EncodeTo(State(1, <<selector>>, <<>>), c, v)).result

-----------------------------------------------------------------------------
(* DecoderState: the memory, the next head and the start of the scope.     *)

At(m, i) == IF i \in 0..(Len(m) - 1) THEN m[i + 1] ELSE 0    \* a short slice reads as 0

Scope(off) == [off |-> off, off0 |-> off]

RECURSIVE DecodeAt(_, _, _), DecodeAll(_, _, _, _)
(* The values of the codecs cs and the offset after their heads.           *)
DecodeAll(m, cs, st, vs) ==
    IF cs = <<>> THEN [v |-> vs, off |-> st.off]
    ELSE LET r == DecodeAt(m, Head(cs), st) IN
         DecodeAll(m, Tail(cs), [st EXCEPT !.off = r.off], Append(vs, r.v))

DecodeAt(m, c, st) ==
    LET base   == st.off0 + At(m, st.off)          \* indirected()
        sub    == Scope(base)
        len    == At(m, base)
        items  == IF c.k = "tuple" THEN c.items ELSE <<>>
        Repeat(n) == [i \in 1..n |-> c.item]
        Indirect(r) == [v |-> r.v, off |-> st.off + 1]
    IN  CASE c.k = "word"  -> [v |-> At(m, st.off), off |-> st.off + 1]
          [] c.k = "bytes" ->
               Indirect([v |-> [len |-> len,
                                words |-> [i \in 1..WordsOf(len) |-> At(m, base + i)]]])
          [] c.k = "list"  -> Indirect(DecodeAll(m, Repeat(len), Scope(base + 1), <<>>))
          [] c.k = "array" -> IF IsDynamic(c) THEN Indirect(DecodeAll(m, Repeat(c.n), sub, <<>>))
                              ELSE DecodeAll(m, Repeat(c.n), st, <<>>)
          [] c.k = "tuple" -> IF IsDynamic(c) THEN Indirect(DecodeAll(m, items, sub, <<>>))
                              ELSE DecodeAll(m, items, st, <<>>)

Decode(c, m) == DecodeAt(m, c, Scope(0)).v

-----------------------------------------------------------------------------
(* The ABI specification: the heads of all parts, then their tails.        *)

RECURSIVE HeadSize(_), AbiParts(_, _), AbiBody(_, _)
HeadSize(c) == CASE IsDynamic(c) \/ c.k = "word" -> 1
                 [] c.k = "array" /\ ~ IsDynamic(c) -> c.n * HeadSize(c.item)
                 [] c.k = "tuple" /\ ~ IsDynamic(c) ->
                      FoldLeft(LAMBDA s, e : s + HeadSize(e), 0, c.items)

AbiParts(cs, v) ==
    LET Heads     == FoldLeft(LAMBDA s, e : s + HeadSize(e), 0, cs)
        bodies    == [i \in 1..Len(cs) |-> AbiBody(cs[i], v[i])]
        TailsTo(i) == FoldLeft(LAMBDA s, j : s + (IF IsDynamic(cs[j]) THEN Len(bodies[j]) ELSE 0),
                               0, [j \in 1..i |-> j])
        HeadOf(i) == IF IsDynamic(cs[i]) THEN <<Heads + TailsTo(i - 1)>> ELSE bodies[i]
        TailOf(i) == IF IsDynamic(cs[i]) THEN bodies[i] ELSE <<>>
    IN  FlattenSeq([i \in 1..Len(cs) |-> HeadOf(i)]) \o FlattenSeq([i \in 1..Len(cs) |-> TailOf(i)])

AbiBody(c, v) ==
    CASE c.k = "word"  -> <<v>>
      [] c.k = "bytes" -> <<v.len>> \o v.words
      [] c.k = "list"  -> <<Len(v)>> \o AbiParts([i \in 1..Len(v) |-> c.item], v)
      [] c.k = "array" -> AbiParts([i \in 1..c.n |-> c.item], v)
      [] c.k = "tuple" -> AbiParts(c.items, v)

(* A message: the parts of an inplace tuple, or the one value.             *)
AbiMessage(c, v) == IF c.k = "tuple" /\ c.inplace THEN AbiParts(c.items, v)
                    ELSE AbiParts(<<c>>, <<v>>)

(* The rounds of run_tails in which the words of c are written: a static   *)
(* tuple queues its parts once more instead of writing them where it is.   *)
RECURSIVE Rounds(_)
Rounds(c) == CASE c.k = "array" /\ ~ IsDynamic(c) -> Rounds(c.item)
               [] c.k = "tuple" /\ ~ IsDynamic(c) ->
                    {r + 1 : r \in UNION {Rounds(c.items[i]) : i \in DOMAIN c.items}}
               [] OTHER -> {0}

(* Every scope of c writes all its heads in one round.                     *)
RECURSIVE OneRound(_)
OneRound(c) == CASE c.k \in {"word", "bytes"} -> TRUE
                 [] c.k \in {"list", "array"} -> OneRound(c.item)
                 [] c.k = "tuple" ->
                      /\ \A i \in DOMAIN c.items : OneRound(c.items[i])
                      /\ Cardinality(UNION {Rounds(c.items[i]) : i \in DOMAIN c.items}) <= 1
=============================================================================
