----------------------------- MODULE FieldMask -----------------------------
(***************************************************************************)
(* Field masks of protobuf (internal/field_mask.py): masks as trees of     *)
(* field names, their union and intersection, what a mask merges from one  *)
(* message into another, and the spelling of paths in JSON.                *)
(*                                                                         *)
(* A mask is a sequence of paths, a path the sequence of its names.  A     *)
(* node of a tree is a function from names to nodes.  Messages are of one  *)
(* recursive type: an integer (1), repeated integers (2), a message (3).   *)
(***************************************************************************)
EXTENDS Integers, Sequences, SequencesExt, FiniteSets, FiniteSetsExt

Leaf == <<>>
Put(node, name, child) == [n \in DOMAIN node \cup {name} |-> IF n = name THEN child ELSE node[n]]
Names(node) == SetToSortSeq(DOMAIN node, <)

(* Mutant: a path above others in the tree does not take their place.      *)
RECURSIVE AddPathBelow(_, _)
AddPathBelow(node, path) ==
    IF path = <<>> THEN node
    ELSE IF Head(path) \in DOMAIN node /\ node[Head(path)] = Leaf THEN node
    ELSE Put(node, Head(path), AddPathBelow(IF Head(path) \in DOMAIN node THEN node[Head(path)] ELSE Leaf, Tail(path)))

(* Nothing is added below a leaf; what is below the path is removed.       *)
RECURSIVE AddPath(_, _)
AddPath(node, path) ==
    IF path = <<>> THEN Leaf
    ELSE IF Head(path) \notin DOMAIN node THEN Put(node, Head(path), AddPath(Leaf, Tail(path)))
    ELSE IF node[Head(path)] = Leaf THEN node
    ELSE Put(node, Head(path), AddPath(node[Head(path)], Tail(path)))

MergeFromFieldMask(tree, mask) == FoldLeft(AddPath, tree, mask)
TreeOf(mask) == MergeFromFieldMask(Leaf, mask)

(* _AddFieldPaths, in the order of the names.                              *)
RECURSIVE AddFieldPaths(_, _)
AddFieldPaths(node, prefix) ==
    IF node = Leaf /\ prefix # <<>> THEN <<prefix>>
    ELSE FlattenSeq([i \in 1..Len(Names(node)) |-> AddFieldPaths(node[Names(node)[i]], Append(prefix, Names(node)[i]))])
ToFieldMask(tree) == AddFieldPaths(tree, <<>>)

RECURSIVE AddLeafNodes(_, _, _)
AddLeafNodes(tree, prefix, node) ==
    IF node = Leaf THEN AddPath(tree, prefix)
    ELSE FoldLeft(LAMBDA t, n : AddLeafNodes(t, Append(prefix, n), node[n]), tree, Names(node))

(* The part of a path that the tree has, added to what was found before;   *)
(* rest is what is still to be walked.                                     *)
RECURSIVE IntersectPath(_, _, _, _)
IntersectPath(node, rest, path, found) ==
    IF rest = <<>> THEN AddLeafNodes(found, path, node)
    ELSE IF Head(rest) \notin DOMAIN node THEN found
    ELSE IF node[Head(rest)] = Leaf THEN AddPath(found, path)
    ELSE IntersectPath(node[Head(rest)], Tail(rest), path, found)

CanonicalForm(mask)  == ToFieldMask(TreeOf(mask))
Union(m1, m2)        == ToFieldMask(MergeFromFieldMask(TreeOf(m1), m2))
Intersect(m1, m2)    == ToFieldMask(FoldLeft(LAMBDA t, p : IntersectPath(TreeOf(m1), p, p, t), Leaf, m2))

-----------------------------------------------------------------------------
Msg(n, r, sub) == [n |-> n, r |-> r, sub |-> sub]     \* sub: at most one message
New == Msg(0, <<>>, <<>>)
Fields == 1..3
IsValidPath(path) == /\ path # <<>> /\ Last(path) \in Fields
                     /\ \A i \in 1..(Len(path) - 1) : path[i] = 3

IsValidForDescriptor(mask) == \A i \in DOMAIN mask : IsValidPath(mask[i])

(* Message.MergeFrom.                                                      *)
RECURSIVE MergeFrom(_, _)
Inner(sub) == IF sub = <<>> THEN New ELSE sub[1]
MergeFrom(dst, src) ==
    Msg(IF src.n = 0 THEN dst.n ELSE src.n, dst.r \o src.r,
        IF src.sub = <<>> THEN dst.sub ELSE <<MergeFrom(Inner(dst.sub), src.sub[1])>>)

(* _MergeMessage: the destination, whether it was modified (which makes it *)
(* present in its own parent), and whether an exception stopped it.        *)
Result(v, touched) == [ok |-> TRUE, v |-> v, touched |-> touched]
Failed == [ok |-> FALSE, v |-> New, touched |-> TRUE]
RECURSIVE MergeMessage(_, _, _, _, _)
Nested(d, inner) == IF ~ inner.ok THEN Failed
                    ELSE IF inner.touched THEN Result([d.v EXCEPT !.sub = <<inner.v>>], TRUE) ELSE d
LeafField(name, src, d, replaceMessage, replaceRepeated) ==
    LET base == IF replaceMessage THEN <<>> ELSE d.v.sub
    IN  CASE name = 1 -> Result([d.v EXCEPT !.n = src.n], TRUE)
          [] name = 2 -> Result([d.v EXCEPT !.r = (IF replaceRepeated THEN <<>> ELSE @) \o src.r], TRUE)
          [] name = 3 -> IF src.sub = <<>> THEN Result([d.v EXCEPT !.sub = base], d.touched \/ replaceMessage)
                         ELSE Result([d.v EXCEPT !.sub = <<MergeFrom(Inner(base), src.sub[1])>>], TRUE)
MergeField(child, name, src, d, replaceMessage, replaceRepeated) ==
    IF ~ d.ok \/ name \notin Fields \/ (child # Leaf /\ name # 3) THEN Failed
    ELSE IF child = Leaf THEN LeafField(name, src, d, replaceMessage, replaceRepeated)
    ELSE IF src.sub = <<>> THEN d
    ELSE Nested(d, MergeMessage(child, src.sub[1], Inner(d.v.sub), replaceMessage, replaceRepeated))
MergeMessage(node, src, dst, replaceMessage, replaceRepeated) ==
    FoldLeft(LAMBDA d, n : MergeField(node[n], n, src, d, replaceMessage, replaceRepeated),
             Result(dst, FALSE), Names(node))

-----------------------------------------------------------------------------
(* Spelling: of all letters, one in both cases.                            *)
Spelt(ok, out, after) == [ok |-> ok, out |-> out, after |-> after]
SnakeCaseToCamelCase(path) ==
    LET end == FoldLeft(LAMBDA s, c :
                   IF c = "A" \/ (s.after /\ c # "a") THEN Spelt(FALSE, s.out, FALSE)
                   ELSE IF s.after THEN Spelt(s.ok, Append(s.out, "A"), FALSE)
                   ELSE IF c = "_" THEN Spelt(s.ok, s.out, TRUE)
                   ELSE Spelt(s.ok, Append(s.out, c), FALSE), Spelt(TRUE, <<>>, FALSE), path)
    IN  [end EXCEPT !.ok = @ /\ ~ end.after]
CamelCaseToSnakeCase(path) ==
    Spelt(\A i \in DOMAIN path : path[i] # "_",
          FlattenSeq([i \in 1..Len(path) |-> IF path[i] = "A" THEN <<"_", "a">> ELSE <<path[i]>>]), FALSE)

-----------------------------------------------------------------------------
(* What masks mean, without trees: a mask covers what its paths begin.     *)
Covers(mask, p) == \E i \in DOMAIN mask : IsPrefix(mask[i], p)
Minimal(mask) == \A i, j \in DOMAIN mask : IsPrefix(mask[i], mask[j]) => i = j

(* An absent message reads as a new one.                                   *)
RECURSIVE Read(_, _)
Read(m, p) == IF Head(p) = 1 THEN <<m.n>> ELSE IF Head(p) = 2 THEN m.r ELSE Read(Inner(m.sub), Tail(p))
RECURSIVE Present(_, _)
Present(m, p) == p = <<>> \/ (m.sub # <<>> /\ Present(m.sub[1], Tail(p)))

(* What is at p after the merge, from what both messages had there.        *)
Expected(mask, p, src, dst, replaceMessage, replaceRepeated) ==
    LET q == Min({Len(p)} \cup {Len(mask[i]) : i \in {j \in DOMAIN mask : IsPrefix(mask[j], p)}})
        direct == q = Len(p)
    IN  IF ~ Covers(mask, p) \/ ~ Present(src, SubSeq(p, 1, q - 1)) THEN Read(dst, p)
        ELSE IF Last(p) = 1
        THEN IF direct \/ replaceMessage \/ Read(src, p) # <<0>> THEN Read(src, p) ELSE Read(dst, p)
        ELSE IF IF direct THEN replaceRepeated ELSE replaceMessage THEN Read(src, p) ELSE Read(dst, p) \o Read(src, p)
=============================================================================
