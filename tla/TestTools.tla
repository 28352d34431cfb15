----------------------------- MODULE TestTools -----------------------------
(***************************************************************************)
(* The algorithms of ya-test-runner: the steps of a case before they are   *)
(* run (exec.step) and the expressions that select cases by tag            *)
(* (stage.filter).                                                         *)
(***************************************************************************)
EXTENDS Integers, Sequences, SequencesExt, FiniteSets

CONSTANT Tags       \* tags of cases, also words of expressions

(* Steps: [op, key, val]; a key is a variable, or "" for the directory.    *)
SetCwd(path)   == [op |-> "set", key |-> "", val |-> path]
SetEnv(k, v)   == [op |-> "set", key |-> k, val |-> v]
Run            == [op |-> "run", key |-> "", val |-> 0]
Python         == [op |-> "python", key |-> "", val |-> 0]

Put(f, k, v) == [x \in DOMAIN f \cup {k} |-> IF x = k THEN v ELSE f[x]]

(* optimize_steps: a setting that repeats the one in force is ignored, one *)
(* that is in force when something runs is kept.                           *)

(* Mutant: a setting is compared with the last one that had an effect.     *)
NotedKept(steps, acc, i) ==
    LET s == steps[i]
    IN  CASE s.op = "set"    -> IF \E j \in acc.keep : steps[j].key = s.key /\ steps[j].val = s.val THEN acc
                                ELSE [acc EXCEPT !.last = Put(@, s.key, i)]
          [] s.op = "run"    -> [acc EXCEPT !.keep = @ \cup {i} \cup {acc.last[k] : k \in DOMAIN acc.last}]
          [] s.op = "python" -> [acc EXCEPT !.keep = @ \cup {i}]

Noted(steps, acc, i) ==
    LET s == steps[i]
    IN  CASE s.op = "set"    -> IF s.key \in DOMAIN acc.last /\ steps[acc.last[s.key]].val = s.val THEN acc
                                ELSE [acc EXCEPT !.last = Put(@, s.key, i)]
          [] s.op = "run"    -> [acc EXCEPT !.keep = @ \cup {i} \cup {acc.last[k] : k \in DOMAIN acc.last}]
          [] s.op = "python" -> [acc EXCEPT !.keep = @ \cup {i}]

OptimizeSteps(steps) ==
    LET acc == FoldLeft(LAMBDA a, i : Noted(steps, a, i), [keep |-> {}, last |-> <<>>], [i \in 1..Len(steps) |-> i])
    IN  [n \in 1..Cardinality(acc.keep) |-> steps[SetToSortSeq(acc.keep, <)[n]]]

(* run_steps: what is run, and under which settings.                       *)
Ran(acc, s) == CASE s.op = "set"    -> [acc EXCEPT !.env = Put(@, s.key, s.val)]
                 [] s.op = "run"    -> [acc EXCEPT !.log = Append(@, acc.env)]
                 [] s.op = "python" -> [acc EXCEPT !.log = Append(@, <<>>)]
RunSteps(steps) == FoldLeft(Ran, [env |-> <<>>, log |-> <<>>], steps).log

-----------------------------------------------------------------------------
(* _parse_tags_expr.  An expression stands for the sets of tags it holds   *)
(* for; an error is an exception of the parser.                            *)
Symbols == {"(", ")", "&", "|", "^", "!"}
All     == SUBSET Tags
Ok(v, pos) == [ok |-> TRUE, v |-> v, pos |-> pos]
Err        == [ok |-> FALSE, v |-> {}, pos |-> 0]

Word(w) == CASE w = "true" -> All [] w = "false" -> {} [] OTHER -> {t \in All : w \in t}
Op(sym, l, r) == CASE sym = "&" -> l \cap r [] sym = "|" -> l \cup r [] sym = "^" -> (l \cup r) \ (l \cap r)

(* Mutant: one priority for all of the operators.                          *)
OpsFlat(priority) == IF priority = 1 THEN {} ELSE {"&", "|", "^"}

Ops(priority) == IF priority = 1 THEN {"&"} ELSE {"|", "^"}

RECURSIVE ParseTags(_, _, _)
RECURSIVE Operands(_, _, _)
At(toks, pos) == IF pos <= Len(toks) THEN toks[pos] ELSE "end"
Not(d)         == IF d.ok THEN Ok(All \ d.v, d.pos) ELSE d
Enclosed(toks, d) == IF d.ok /\ At(toks, d.pos) = ")" THEN Ok(d.v, d.pos + 1) ELSE Err
Joined(toks, left, right, priority) ==
    IF right.ok THEN Operands(toks, Ok(Op(toks[left.pos], left.v, right.v), right.pos), priority) ELSE Err
Operands(toks, left, priority) ==
    IF left.ok /\ At(toks, left.pos) \in Ops(priority)
    THEN Joined(toks, left, ParseTags(toks, left.pos + 1, priority - 1), priority)
    ELSE left
ParseTags(toks, pos, priority) ==
    CASE priority > 0 -> Operands(toks, ParseTags(toks, pos, priority - 1), priority)
      [] priority = 0 /\ At(toks, pos) = "(" -> Enclosed(toks, ParseTags(toks, pos + 1, 2))
      [] priority = 0 /\ At(toks, pos) = "!" -> Not(ParseTags(toks, pos + 1, 0))
      [] priority = 0 /\ At(toks, pos) \in {")", "&", "|", "^", "end"} -> Err
      [] OTHER -> Ok(Word(toks[pos]), pos + 1)

(* run: what follows a complete expression is not looked at.               *)
TagsExpr(toks) == ParseTags(toks, 1, 2)

-----------------------------------------------------------------------------
(* The reference: an expression is split at its last operator of the       *)
(* lowest priority outside of parentheses.                                 *)
Depth(toks, i) == Cardinality({j \in 1..i : toks[j] = "("}) - Cardinality({j \in 1..i : toks[j] = ")"})
SplitsAt(toks, syms) == {i \in 2..(Len(toks) - 1) : toks[i] \in syms /\ Depth(toks, i) = 0}
LastOf(S) == CHOOSE i \in S : \A j \in S : j <= i

RECURSIVE Meaning(_)
Split(toks, i) == Op(toks[i], Meaning(SubSeq(toks, 1, i - 1)), Meaning(SubSeq(toks, i + 1, Len(toks))))
Meaning(toks) ==
    CASE SplitsAt(toks, {"|", "^"}) # {} -> Split(toks, LastOf(SplitsAt(toks, {"|", "^"})))
      [] SplitsAt(toks, {"|", "^"}) = {} /\ SplitsAt(toks, {"&"}) # {} -> Split(toks, LastOf(SplitsAt(toks, {"&"})))
      [] SplitsAt(toks, {"|", "^", "&"}) = {} /\ toks[1] = "!" -> All \ Meaning(Tail(toks))
      [] SplitsAt(toks, {"|", "^", "&"}) = {} /\ toks[1] = "(" -> Meaning(SubSeq(toks, 2, Len(toks) - 1))
      [] OTHER -> Word(toks[1])
=============================================================================
