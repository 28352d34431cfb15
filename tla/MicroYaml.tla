----------------------------- MODULE MicroYaml -----------------------------
(***************************************************************************)
(* The YAML subset of the installer (post-install/micro_yaml.py).          *)
(*                                                                         *)
(* A line is its indentation, what it starts with (a dash, a key) and the  *)
(* kind of what follows; "text" is a line of a block scalar, and blank a   *)
(* comment or an empty line.  Text is a model value: its kind decides.     *)
(***************************************************************************)
EXTENDS Integers, Sequences, SequencesExt, FiniteSets, Functions

Line(indent, head, key, val) == [indent |-> indent, head |-> head, key |-> key, val |-> val]

(* Values: a leaf of some kind (a block of n lines), a list or a mapping.  *)
Leaf(kind, n) == [leaf |-> kind, n |-> n]
ListOf(s)     == [list |-> s]
MapOf(f)      == [map |-> f]
Is(v, type)   == type \in DOMAIN v

Tok(kind)     == [tok |-> kind]
Key(k)        == [tok |-> "key", key |-> k]
Val(kind, n)  == [tok |-> "value", v |-> Leaf(kind, n)]

(* Mutant: a line closes at most one level.                                *)
PoppedOnce(stack, indent) == IF Last(stack) > indent THEN Front(stack) ELSE stack

Popped(stack, indent) == SelectSeq(stack, LAMBDA x : x <= indent)

Dedents(n) == [i \in 1..n |-> Tok("dedent")]
Pushed(stack, indent) == IF Last(stack) < indent THEN Append(stack, indent) ELSE stack
Moved(stack, popped, indent) == Dedents(Len(stack) - Len(popped))
                                \o IF Last(popped) < indent THEN <<Tok("indent")>> ELSE <<>>

(* What a block scalar takes: lines at least as deep as its first one, and *)
(* blank ones.                                                             *)
RECURSIVE BlockEnd(_, _, _)
BlockEnd(lines, i, depth) ==
    IF i <= Len(lines) /\ (lines[i].indent >= depth \/ lines[i].head = "blank") THEN BlockEnd(lines, i + 1, depth) ELSE i
AfterBlock(lines, i) == IF i > Len(lines) THEN i ELSE BlockEnd(lines, i, lines[i].indent)

(* The value at the end of a line.  The special words are not wrapped in a *)
(* _Value; a number may not be followed by a comment.                      *)
ValueTokens(val, taken) == CASE val = "none"    -> <<>>
                             [] val = "special" -> <<Tok("raw")>>
                             [] val = "int #"   -> <<Tok("error")>>
                             [] val = "block"   -> <<Val("block", taken)>>
                             [] OTHER           -> <<Val(val, 0)>>

RECURSIVE Tokenize(_, _, _)
LineTokens(line) == IF line.head = "dash" THEN <<Tok("dash")>>
                    ELSE IF line.head = "key" THEN <<Key(line.key)>> ELSE <<Tok("error")>>
Rest(lines, i, next, stack, popped) ==
    Moved(stack, popped, lines[i].indent) \o LineTokens(lines[i]) \o ValueTokens(lines[i].val, next - i - 1)
    \o Tokenize(lines, next, Pushed(popped, lines[i].indent))
Tokenize(lines, i, stack) ==
    IF i > Len(lines) THEN Dedents(Len(stack) - 1)
    ELSE IF lines[i].head = "blank" THEN Tokenize(lines, i + 1, stack)
    ELSE Rest(lines, i, IF lines[i].val = "block" THEN AfterBlock(lines, i + 1) ELSE i + 1, stack,
              Popped(stack, lines[i].indent))

-----------------------------------------------------------------------------
(* _parse.                                                                 *)
Ok(v, pos) == [ok |-> TRUE, v |-> v, pos |-> pos]
Err        == [ok |-> FALSE, v |-> Leaf("none", 0), pos |-> 0]
Now(ts, pos, kind) == pos <= Len(ts) /\ ts[pos].tok = kind

RECURSIVE Parse(_, _)
RECURSIVE Items(_, _, _)
RECURSIVE Pairs(_, _, _)
Put(f, k, v)       == [x \in DOMAIN f \cup {k} |-> IF x = k THEN v ELSE f[x]]
ItemRead(ts, d, acc) == IF d.ok THEN Items(ts, d.pos, Append(acc, d.v)) ELSE Err
Items(ts, pos, acc)  == IF Now(ts, pos, "dash") THEN ItemRead(ts, Parse(ts, pos + 1), acc) ELSE Ok(ListOf(acc), pos)
PairRead(ts, k, d, acc) == IF d.ok THEN Pairs(ts, d.pos, Put(acc, k, d.v)) ELSE Err
Pairs(ts, pos, acc)  == IF Now(ts, pos, "key") THEN PairRead(ts, ts[pos].key, Parse(ts, pos + 1), acc) ELSE Ok(MapOf(acc), pos)
Closed(ts, d)        == IF d.ok /\ Now(ts, d.pos, "dedent") THEN Ok(d.v, d.pos + 1) ELSE Err
Parse(ts, pos) == CASE Now(ts, pos, "indent") -> Closed(ts, Parse(ts, pos + 1))
                    [] Now(ts, pos, "value")  -> Ok(ts[pos].v, pos + 1)
                    [] Now(ts, pos, "dash")   -> Items(ts, pos, <<>>)
                    [] Now(ts, pos, "key")    -> Pairs(ts, pos, <<>>)
                    [] OTHER                 -> Err

(* loads; a tokenizer that raises does so wherever the parser has got to.  *)
Whole(ts, d) == IF d.ok /\ d.pos = Len(ts) + 1 /\ \A i \in DOMAIN ts : ts[i].tok # "error" THEN d ELSE Err
LoadTokens(ts) == Whole(ts, Parse(ts, 1))
Loads(lines)   == LoadTokens(Tokenize(lines, 1, <<0>>))

-----------------------------------------------------------------------------
(* The reference: a document written from the value it stands for.  A list *)
(* may stand at the indentation of its key (flat) or deeper.               *)
RECURSIVE Written(_, _, _)
OfLeaf(v, head, key, indent) ==
    <<Line(indent, head, key, v.leaf)>> \o [i \in 1..v.n |-> Line(indent + 1 + i, "text", 0, "none")]
Under(v, head, key, indent, flat) ==
    IF Is(v, "leaf") THEN OfLeaf(v, head, key, indent)
    ELSE <<Line(indent, head, key, "none")>>
         \o Written(v, IF flat /\ head = "key" /\ Is(v, "list") THEN indent ELSE indent + 2, flat)
Written(v, indent, flat) ==
    IF Is(v, "list") THEN FlattenSeq([i \in 1..Len(v.list) |-> Under(v.list[i], "dash", 0, indent, flat)])
    ELSE LET keys == SetToSortSeq(DOMAIN v.map, <)
         IN  FlattenSeq([i \in 1..Len(keys) |-> Under(v.map[keys[i]], "key", keys[i], indent, flat)])
=============================================================================
