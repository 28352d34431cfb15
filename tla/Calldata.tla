------------------------------ MODULE Calldata ------------------------------
(***************************************************************************)
(* The calldata format of GenVM (genlayer.py.calldata): encode and decode. *)
(*                                                                         *)
(* A Python value is a record of its kind and its content: an int, a str   *)
(* as its code points, bytes as octets, a sequence, a mapping or the       *)
(* fields of a dataclass as a function from strs to values.  Integers,     *)
(* octets and type tags are those of the code; an address has AddrSize     *)
(* octets (20 in the code) and code points are below 2^11.                 *)
(***************************************************************************)
EXTENDS Integers, Sequences, SequencesExt, FiniteSets

CONSTANT AddrSize

TypeSpecial == 0
TypePint    == 1
TypeNint    == 2
TypeBytes   == 3
TypeStr     == 4
TypeArr     == 5
TypeMap     == 6

Special == [null |-> 0, false |-> 8, true |-> 16, addr |-> 24]

None      == [t |-> "none"]
Bool(b)   == [t |-> IF b THEN "true" ELSE "false"]
PyInt(i)  == [t |-> "int", int |-> i]
Addr(a)   == [t |-> "addr", addr |-> a]
Octets(o) == [t |-> "bytes", octets |-> o]
View(o)   == [t |-> "view", view |-> o]         \* a memoryview
Text(s)   == [t |-> "str", chars |-> s]
List(s)   == [t |-> "list", items |-> s]
Dict(f)   == [t |-> "dict", map |-> f]
Object(f) == [t |-> "object", map |-> f]        \* a dataclass instance

(* str.encode('utf-8') and str(_, encoding='utf-8'), strict.               *)
Utf8Char(c) == IF c < 128 THEN <<c>> ELSE <<192 + c \div 64, 128 + (c % 64)>>
Utf8(s)     == FlattenSeq([i \in 1..Len(s) |-> Utf8Char(s[i])])

RECURSIVE FromUtf8(_)
FromUtf8(b) ==
    CASE b = <<>>        -> [ok |-> TRUE, v |-> <<>>]
      [] b # <<>> /\ b[1] < 128 ->
           LET r == FromUtf8(Tail(b)) IN [r EXCEPT !.v = <<b[1]>> \o @]
      [] Len(b) > 1 /\ b[1] \in 194..223 /\ b[2] \in 128..191 ->
           LET r == FromUtf8(SubSeq(b, 3, Len(b)))
           IN  [r EXCEPT !.v = <<64 * (b[1] - 192) + b[2] - 128>> \o @]
      [] OTHER           -> [ok |-> FALSE, v |-> <<>>]

(* str comparison, by code points.                                         *)
StrLess(a, b) ==
    \E n \in 0..Len(b) : /\ n <= Len(a)
                         /\ SubSeq(a, 1, n) = SubSeq(b, 1, n)
                         /\ \/ n = Len(a) /\ n < Len(b)
                            \/ n < Len(a) /\ n < Len(b) /\ a[n + 1] < b[n + 1]

SortedKeys(f) == SetToSortSeq(DOMAIN f, StrLess)

-----------------------------------------------------------------------------
(* encode                                                                  *)

RECURSIVE Uleb128(_)
Uleb128(i) == IF i < 128 THEN <<i>> ELSE <<128 + (i % 128)>> \o Uleb128(i \div 128)

Tagged(n, type) == Uleb128(8 * n + type)

RECURSIVE Encode(_), EncodeMap(_)
EncodeMap(f) ==
    LET keys  == SortedKeys(f)
        Entry(k) == Uleb128(Len(Utf8(k))) \o Utf8(k) \o Encode(f[k])
    IN  Tagged(Len(keys), TypeMap) \o FlattenSeq([i \in 1..Len(keys) |-> Entry(keys[i])])

Encode(x) ==
    CASE x.t = "none"   -> <<Special.null>>
      [] x.t = "true"   -> <<Special.true>>
      [] x.t = "false"  -> <<Special.false>>
      [] x.t = "int"    -> IF x.int >= 0 THEN Tagged(x.int, TypePint)
                           ELSE Tagged(-x.int - 1, TypeNint)
      [] x.t = "addr"   -> <<Special.addr>> \o x.addr
      [] x.t = "bytes"  -> Tagged(Len(x.octets), TypeBytes) \o x.octets
      [] x.t = "view"   -> x.view
      [] x.t = "str"    -> Tagged(Len(Utf8(x.chars)), TypeStr) \o Utf8(x.chars)
      [] x.t = "list"   -> Tagged(Len(x.items), TypeArr)
                           \o FlattenSeq([i \in 1..Len(x.items) |-> Encode(x.items[i])])
      [] x.t \in {"dict", "object"} -> EncodeMap(x.map)

-----------------------------------------------------------------------------
(* decode: each reader answers with a value and the memory left, or fails. *)

Done(v, rest) == [ok |-> TRUE, v |-> v, rest |-> rest]
Error         == [ok |-> FALSE]

FetchMem(m, n) == IF Len(m) < n THEN Error
                  ELSE Done(SubSeq(m, 1, n), SubSeq(m, n + 1, Len(m)))

(* MaxOctets: the longest integer read here, below TLC's 2^31.             *)
MaxOctets == 4

RECURSIVE UlebFrom(_, _, _, _)
UlebFrom(m, acc, off, weight) ==
    IF m = <<>> \/ off = MaxOctets THEN Error
    ELSE LET ret == acc + (m[1] % 128) * weight IN
         IF m[1] >= 128 THEN UlebFrom(Tail(m), ret, off + 1, 128 * weight)
         ELSE IF m[1] = 0 /\ off # 0 THEN Error    \* most significant octet is zero
         ELSE Done(ret, Tail(m))

ReadUleb128(m) == UlebFrom(m, 0, 0, 1)

ReadStr(m, n) == LET s == FetchMem(m, n)
                     u == FromUtf8(s.v)
                 IN  IF s.ok /\ u.ok THEN Done(u.v, s.rest) ELSE Error

\* Mutant: a key may come twice, the later entry wins
KeyNotBefore(prev, key) == prev = <<>> \/ ~ StrLess(key, prev[1])

(* prev < key, as the loop over the entries of a map demands.              *)
KeyFollows(prev, key) == prev = <<>> \/ StrLess(prev[1], key)

RECURSIVE DecodeValue(_), DecodeItems(_, _, _), DecodeEntries(_, _, _, _)
DecodeItems(m, n, items) ==
    IF n = 0 THEN Done(List(items), m)
    ELSE LET r == DecodeValue(m) IN
         IF r.ok THEN DecodeItems(r.rest, n - 1, Append(items, r.v)) ELSE Error

DecodeEntries(m, n, prev, f) ==
    IF n = 0 THEN Done(Dict(f), m)
    ELSE LET size == ReadUleb128(m)
             key  == IF size.ok THEN ReadStr(size.rest, size.v) ELSE Error
             item == IF key.ok /\ KeyFollows(prev, key.v) THEN DecodeValue(key.rest) ELSE Error
             g    == [k \in DOMAIN f \cup {key.v} |-> IF k = key.v THEN item.v ELSE f[k]]
         IN  IF item.ok THEN DecodeEntries(item.rest, n - 1, <<key.v>>, g) ELSE Error

DecodeSpecial(code, m) ==
    CASE code = Special.null  -> Done(None, m)
      [] code = Special.false -> Done(Bool(FALSE), m)
      [] code = Special.true  -> Done(Bool(TRUE), m)
      [] code = Special.addr  -> LET r == FetchMem(m, AddrSize) IN
                                 IF r.ok THEN Done(Addr(r.v), r.rest) ELSE Error
      [] OTHER                -> Error

DecodeValue(m) ==
    LET head == ReadUleb128(m)
        type == head.v % 8
        n    == head.v \div 8
        Kept(r, Make(_)) == IF r.ok THEN Done(Make(r.v), r.rest) ELSE Error
    IN  CASE ~ head.ok          -> Error
          [] head.ok /\ type = TypeSpecial -> DecodeSpecial(head.v, head.rest)
          [] head.ok /\ type = TypePint    -> Done(PyInt(n), head.rest)
          [] head.ok /\ type = TypeNint    -> Done(PyInt(-n - 1), head.rest)
          [] head.ok /\ type = TypeBytes   -> Kept(FetchMem(head.rest, n), Octets)
          [] head.ok /\ type = TypeStr     -> Kept(ReadStr(head.rest, n), Text)
          [] head.ok /\ type = TypeArr     -> DecodeItems(head.rest, n, <<>>)
          [] head.ok /\ type = TypeMap     -> DecodeEntries(head.rest, n, <<>>, <<>>)
          [] OTHER                         -> Error

Decode(m) == LET r == DecodeValue(m) IN IF r.ok /\ r.rest = <<>> THEN r ELSE Error

-----------------------------------------------------------------------------
(* What encode . decode coerces a value to: containers to list and dict, a *)
(* memoryview to the value whose calldata it holds.                        *)
RECURSIVE Coerced(_)
Coerced(x) ==
    CASE x.t = "list" -> List([i \in 1..Len(x.items) |-> Coerced(x.items[i])])
      [] x.t \in {"dict", "object"} -> Dict([k \in DOMAIN x.map |-> Coerced(x.map[k])])
      [] x.t = "view" -> Decode(x.view).v
      [] OTHER -> x
=============================================================================
