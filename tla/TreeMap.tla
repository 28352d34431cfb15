------------------------------ MODULE TreeMap ------------------------------
(***************************************************************************)
(* genlayer.py.storage.TreeMap: the persistent map of contracts, an AVL    *)
(* tree whose nodes are the cells of a DynArray, with a free list.         *)
(*                                                                         *)
(* A node is named by its index in _slots plus one, 0 is "no node", as in  *)
(* the code.  `cells' is the storage behind _slots: it keeps the contents  *)
(* of freed and popped nodes, because DynArray.pop, clear and              *)
(* append_new_get do not erase anything.  The two rebalancing loops are    *)
(* stepped one iteration at a time; between two iterations nobody else     *)
(* runs, but seeing the intermediate trees keeps the definitions free of   *)
(* recursion over the tree.                                                *)
(*                                                                         *)
(* An insertion links its cell before it asks for the value and            *)
(* initialises the node: a supplier that raises, or a key or value that    *)
(* cannot be stored, leaves a node nobody initialised in the tree.  The    *)
(* model goes that far and stops there; it does not follow a contract that *)
(* catches the exception and writes to that tree, nor a supplier that      *)
(* itself writes to the map.                                               *)
(***************************************************************************)
EXTENDS Integers, Sequences, SequencesExt, FiniteSets

CONSTANTS Keys,        \* integers: only "<" is used on them
          Values,
          Default,     \* what never written storage decodes to, in Values
          MaxSlots     \* bound: DynArray is limited to 2^32 cells

ASSUME SlotAssumption == /\ MaxSlots \in Nat
                         /\ Keys \subseteq Int
                         /\ Default \in Values

VARIABLES
    root,       \* _root
    cells,      \* storage behind _slots
    nslots,     \* len(_slots)
    free,       \* _free_slots
    pc,         \* "idle", the loop an operation is in, "linked" while a new
                \* node has no value yet, "raised" when it never will
    seq,        \* the local seq of __delitem__ / _get_set
    special,    \* the locals special_null and is_less: "no", or the side
    last        \* the last call: what it was and what it answered

vars == <<root, cells, nslots, free, pc, seq, special, last>>

Refs   == 1..MaxSlots
Links  == 0..MaxSlots
Node   == [key : Keys \cup {0}, value : Values, left : Links, right : Links,
           balance : {-1, 0, 1}]
Blank  == [key |-> 0, value |-> Default, left |-> 0, right |-> 0, balance |-> 0]
Absent == <<>>         \* no answer: not there, or an exception
Call(op, k, v, ret) == [op |-> op, key |-> k, arg |-> v, ret |-> ret]

TypeOK == /\ root \in Links
          /\ cells \in [Refs -> Node]
          /\ nslots \in Links
          /\ free \in Seq(Refs)
          /\ pc \in {"idle", "linked", "raised", "inserting", "deleting"}
          /\ seq \in Seq(Links)
          /\ special \in {"no", "left", "right"}

Init == /\ root = 0 /\ nslots = 0 /\ free = <<>>
        /\ cells = [i \in Refs |-> Blank]
        /\ pc = "idle" /\ seq = <<>> /\ special = "no"
        /\ last = Call("clear", 0, 0, Absent)

-----------------------------------------------------------------------------
(* Searching.                                                              *)

(* _find_seq: the nodes met on the way to k, ending with k's node or 0.    *)
FindSeq(k) ==
    LET from[d \in 0..MaxSlots, i \in Links] ==
            IF i = 0 \/ cells[i].key = k \/ d = 0 THEN <<i>>
            ELSE <<i>> \o from[d - 1, IF k < cells[i].key THEN cells[i].left
                                                         ELSE cells[i].right]
    IN  from[MaxSlots, root]

(* is_less of _find_seq: the last turn taken was to the left.              *)
FindLess(k) ==
    LET p == FindSeq(k) IN
    Len(p) > 1 => k < cells[p[Len(p) - 1]].key

(* _get_fn, behind get, __getitem__ and __contains__.                      *)
GetFn(k) == LET n == Last(FindSeq(k)) IN
            IF n = 0 THEN Absent ELSE <<cells[n].value>>

(* The leftmost path that starts at i: "go right and then left*".          *)
LeftSpine(start) ==
    LET from[d \in 0..MaxSlots, i \in Links] ==
            IF i = 0 \/ d = 0 THEN <<>> ELSE <<i>> \o from[d - 1, cells[i].left]
    IN  from[MaxSlots, start]

-----------------------------------------------------------------------------
(* Slots.                                                                  *)

(* _alloc_slot: the node, the new length of _slots and the new free list.  *)
AllocSlot ==
    IF free # <<>>
    THEN [ref |-> Last(free), len |-> nslots, free |-> Front(free)]
    ELSE [ref |-> nslots + 1, len |-> nslots + 1, free |-> <<>>]

(* _free_slot: the last cell is popped, another one joins the free list.   *)
FreeSlot(i) ==
    IF i = nslots THEN [len |-> nslots - 1, free |-> free]
                  ELSE [len |-> nslots, free |-> Append(free, i)]

-----------------------------------------------------------------------------
(* Rotations, on the cells.                                                *)

RotLeft(c, par, cur) ==
    LET flat == c[cur].balance = 0 IN
    [c EXCEPT ![cur].left = par, ![par].right = c[cur].left,
              ![par].balance = IF flat THEN 1 ELSE 0,
              ![cur].balance = IF flat THEN -1 ELSE 0]

\* Mutant: the rotation of insertion, where cur is never level.
RotRightNeverFlat(c, par, cur) ==
    [c EXCEPT ![cur].right = par, ![par].left = c[cur].right,
              ![par].balance = 0, ![cur].balance = 0]

RotRight(c, par, cur) ==
    LET flat == c[cur].balance = 0 IN
    [c EXCEPT ![cur].right = par, ![par].left = c[cur].right,
              ![par].balance = IF flat THEN -1 ELSE 0,
              ![cur].balance = IF flat THEN 1 ELSE 0]

RotRightLeft(c, gpar, par, cur) ==
    [c EXCEPT ![gpar].right = c[cur].left, ![par].left = c[cur].right,
              ![cur].left = gpar, ![cur].right = par, ![cur].balance = 0,
              ![gpar].balance = IF c[cur].balance > 0 THEN -1 ELSE 0,
              ![par].balance = IF c[cur].balance < 0 THEN 1 ELSE 0]

RotLeftRight(c, gpar, par, cur) ==
    [c EXCEPT ![gpar].left = c[cur].right, ![par].right = c[cur].left,
              ![cur].left = par, ![cur].right = gpar, ![cur].balance = 0,
              ![par].balance = IF c[cur].balance > 0 THEN -1 ELSE 0,
              ![gpar].balance = IF c[cur].balance < 0 THEN 1 ELSE 0]

(* The grandparent, if there is one, takes top in the place of par.        *)
Relink(c, gp, par, top) ==
    IF gp = 0 THEN c
    ELSE IF c[gp].left = par THEN [c EXCEPT ![gp].left = top]
                             ELSE [c EXCEPT ![gp].right = top]

(* par leans to one side by two and side is its child there: rotate, once  *)
(* or twice, and hang the result under the grandparent.                    *)
LeanLeft(c, gp, par, side) ==
    IF c[side].balance > 0
    THEN LET top == c[side].right IN
         [cells |-> Relink(RotLeftRight(c, par, side, top), gp, par, top), top |-> top]
    ELSE [cells |-> Relink(RotRight(c, par, side), gp, par, side), top |-> side]

LeanRight(c, gp, par, side) ==
    IF c[side].balance < 0
    THEN LET top == c[side].left IN
         [cells |-> Relink(RotRightLeft(c, par, side, top), gp, par, top), top |-> top]
    ELSE [cells |-> Relink(RotLeft(c, par, side), gp, par, side), top |-> side]

-----------------------------------------------------------------------------
(* What both loops share: the last two nodes of seq, and how they end.     *)
Cur      == seq[Len(seq)]
Par      == seq[Len(seq) - 1]
GrandPar == IF Len(seq) = 2 THEN 0 ELSE seq[Len(seq) - 2]

(* Go on with seq s, or leave the loop and store the root.                 *)
Continue(s, break) ==
    IF break \/ Len(s) < 2
    THEN pc' = "idle" /\ root' = s[1] /\ seq' = <<>>
    ELSE seq' = s /\ UNCHANGED <<pc, root>>

(* One iteration of the loop of _get_set.                                  *)
RebalanceInsert ==
    /\ pc = "inserting"
    /\ LET isLeft == Cur = cells[Par].left
           newB   == cells[Par].balance + (IF isLeft THEN -1 ELSE 1)
           turned == IF newB = -2 THEN LeanLeft(cells, GrandPar, Par, Cur)
                                  ELSE LeanRight(cells, GrandPar, Par, Cur)
       IN  IF newB \in {-2, 2}
           THEN /\ cells' = turned.cells
                /\ Continue(Append(Front(Front(seq)), turned.top), TRUE)
           ELSE /\ cells' = [cells EXCEPT ![Par].balance = newB]
                /\ IF newB = 0 THEN Continue(seq, TRUE)
                               ELSE Continue(Front(seq), FALSE)
    /\ UNCHANGED <<nslots, free, special, last>>

(* One iteration of the loop of __delitem__: the depth on cur's side shrank. *)
RebalanceDelete ==
    /\ pc = "deleting"
    /\ LET isLeft  == IF special # "no" THEN special = "left" ELSE Cur = cells[Par].left
           newB    == cells[Par].balance + (IF isLeft THEN 1 ELSE -1)
           sibling == IF newB = -2 THEN cells[Par].left ELSE cells[Par].right
           turned  == IF newB = -2 THEN LeanLeft(cells, GrandPar, Par, sibling)
                                   ELSE LeanRight(cells, GrandPar, Par, sibling)
       IN  IF newB \in {-2, 2}
           THEN /\ cells' = turned.cells
                /\ Continue(Append(Front(Front(seq)), turned.top),
                            cells[sibling].balance = 0)
           ELSE /\ cells' = [cells EXCEPT ![Par].balance = newB]
                /\ IF newB # 0 THEN Continue(seq, TRUE)
                               ELSE Continue(Front(seq), FALSE)
    /\ special' = "no"
    /\ UNCHANGED <<nslots, free, last>>

-----------------------------------------------------------------------------
(* Operations.                                                             *)

\* Mutant: the setter writes to a copy of the node.
FoundCopied(k, c) ==
    /\ pc = "idle" /\ Last(FindSeq(k)) # 0
    /\ UNCHANGED <<root, cells, nslots, free, pc, seq, special>>

(* _get_set when k is there: only the caller's setter may write.           *)
Found(k, c) ==
    /\ pc = "idle" /\ Last(FindSeq(k)) # 0
    /\ cells' = c
    /\ UNCHANGED <<root, nslots, free, pc, seq, special>>

(* _get_set when k is not there: a cell is taken and linked.               *)
Link(op, k, v) ==
    LET p == FindSeq(k)
        a == AllocSlot
        parent == p[Len(p) - 1]
    IN  /\ pc = "idle" /\ Last(p) = 0
        /\ a.ref \in Refs
        /\ cells' = IF Len(p) = 1 THEN cells
                    ELSE IF FindLess(k) THEN [cells EXCEPT ![parent].left = a.ref]
                                        ELSE [cells EXCEPT ![parent].right = a.ref]
        /\ nslots' = a.len /\ free' = a.free
        /\ root' = IF Len(p) = 1 THEN a.ref ELSE root
        /\ pc' = "linked" /\ seq' = [p EXCEPT ![Len(p)] = a.ref]
        /\ last' = Call(op, k, v, Absent)
        /\ UNCHANGED special

(* does_not_exist answers and the node is initialised; a default leaves    *)
(* the cell's value alone.  Then the path is rebalanced.  In               *)
(* compute_if_absent the list of answers is filled by the setter alone, so *)
(* the call raises after the insertion.                                    *)
Initialise ==
    LET value == IF last.op = "default" THEN cells[Cur].value ELSE last.arg
    IN  /\ pc = "linked"
        /\ cells' = [cells EXCEPT ![Cur] = [key |-> last.key, value |-> value, left |-> 0,
                                            right |-> 0, balance |-> 0]]
        /\ last' = [last EXCEPT !.ret = IF last.op = "compute" THEN Absent ELSE <<value>>]
        /\ IF Len(seq) = 1 THEN pc' = "idle" /\ seq' = <<>>
                           ELSE pc' = "inserting" /\ UNCHANGED seq
        /\ UNCHANGED <<root, nslots, free, special>>

(* It raises, or the key or the value cannot be stored: the exception      *)
(* passes through _get_set.  Of the value any part may have been written.  *)
Abandon ==
    /\ pc = "linked" /\ pc' = "raised"
    /\ \/ UNCHANGED cells
       \/ /\ last.op # "default"
          /\ \E v \in Values : cells' = [cells EXCEPT ![Cur].key = last.key, ![Cur].value = v]
    /\ UNCHANGED <<root, nslots, free, seq, special, last>>

SetItem(k, v) ==
    \/ Found(k, [cells EXCEPT ![Last(FindSeq(k))].value = v]) /\ last' = Call("set", k, v, <<v>>)
    \/ Link("set", k, v)

ComputeIfAbsent(k, v) ==
    \/ Found(k, cells) /\ last' = Call("compute", k, v, GetFn(k))
    \/ Link("compute", k, v)

GetOrInsertDefault(k) ==
    \/ Found(k, cells) /\ last' = Call("default", k, 0, GetFn(k))
    \/ Link("default", k, 0)

(* __delitem__ up to its loop: the node's cell is freed, its place taken   *)
(* by its only child or by its successor, and its parent relinked.         *)
DelItem(k) ==
    LET p     == FindSeq(k)
        n     == Len(p)
        del   == cells[Last(p)]
        spine == LeftSpine(del.right)
        lone  == del.left = 0 \/ del.right = 0
        moved == Last(spine)
        heir  == IF ~lone THEN moved
                 ELSE IF del.left = 0 THEN del.right ELSE del.left
        lower == IF Len(spine) = 1
                 THEN [cells EXCEPT ![moved].left = del.left]
                 ELSE [cells EXCEPT ![moved].left = del.left, ![moved].right = del.right,
                                    ![spine[Len(spine) - 1]].left = cells[moved].right]
        closed == IF lone THEN cells ELSE lower
        upper == IF n = 1 THEN closed
                 ELSE IF FindLess(k) THEN [closed EXCEPT ![p[n - 1]].left = heir]
                                     ELSE [closed EXCEPT ![p[n - 1]].right = heir]
        path  == IF lone THEN [p EXCEPT ![n] = heir]
                 ELSE [p EXCEPT ![n] = heir] \o Front(spine) \o <<cells[moved].right>>
        freed == FreeSlot(Last(p))
    IN  /\ pc = "idle" /\ Last(p) # 0
        /\ cells' = IF heir = 0 THEN upper
                    ELSE [upper EXCEPT ![heir].balance = IF lone THEN 0 ELSE del.balance]
        /\ nslots' = freed.len /\ free' = freed.free
        /\ root' = IF n = 1 THEN heir ELSE root
        /\ IF Len(path) < 2
           THEN UNCHANGED <<pc, seq, special>>
           ELSE /\ pc' = "deleting" /\ seq' = path
                /\ special' = IF ~lone THEN "no"
                              ELSE IF FindLess(k) THEN "left" ELSE "right"
        /\ last' = Call("del", k, 0, Absent)

(* Nothing but the three lengths is written.                               *)
Clear ==
    /\ pc = "idle"
    /\ root' = 0 /\ nslots' = 0 /\ free' = <<>>
    /\ last' = Call("clear", 0, 0, Absent)
    /\ UNCHANGED <<cells, pc, seq, special>>

KeyCall(k) == \/ \E v \in Values : SetItem(k, v) \/ ComputeIfAbsent(k, v)
              \/ GetOrInsertDefault(k)
              \/ DelItem(k)
Rebalance  == Initialise \/ Abandon \/ RebalanceInsert \/ RebalanceDelete

Next == (\E k \in Keys : KeyCall(k)) \/ Clear \/ Rebalance

Spec == Init /\ [][Next]_vars

-----------------------------------------------------------------------------
(* Properties.                                                             *)

(* The tree an operation works on: _root is stored when its loop ends.  A  *)
(* node that is linked but not initialised is left out.                    *)
Top    == IF pc = "idle" THEN root ELSE seq[1]
Unborn == IF pc \in {"linked", "raised"} THEN {Cur} ELSE {}

(* Iteration (_visit): the nodes under i, in order.  The first argument    *)
(* bounds the walk, so that a cycle would be noticed and not followed.     *)
Visit[d \in 0..MaxSlots, i \in Links] ==
    IF d = 0 \/ i \in {0} \cup Unborn THEN <<>>
    ELSE Visit[d - 1, cells[i].left] \o <<i>> \o Visit[d - 1, cells[i].right]

Height[d \in 0..MaxSlots, i \in Links] ==
    IF d = 0 \/ i \in {0} \cup Unborn THEN 0
    ELSE LET l == Height[d - 1, cells[i].left]
             r == Height[d - 1, cells[i].right]
         IN  1 + IF l > r THEN l ELSE r

InOrder == Visit[MaxSlots, Top]

(* The keys under i with their values.                                     *)
Pairs[d \in 0..MaxSlots, i \in Links] ==
    IF d = 0 \/ i \in {0} \cup Unborn THEN <<>>
    ELSE Pairs[d - 1, cells[i].left] @@ (cells[i].key :> cells[i].value) @@ Pairs[d - 1, cells[i].right]

Contents == Pairs[MaxSlots, Top]

(* Iteration yields strictly increasing keys, also in the middle of a      *)
(* rebalancing, and a search (_get_fn) finds exactly the keys that         *)
(* iteration shows, with their values.  While a supplier runs and after it *)
(* raised, the keys that were there before are still found (others may     *)
(* lead into the node that nobody initialised).                            *)
SearchTree ==
    LET order == InOrder
        dict  == Contents
    IN  /\ \A n \in 2..Len(order) : cells[order[n - 1]].key < cells[order[n]].key
        /\ pc \in {"idle", "linked", "raised"} => \A k \in DOMAIN dict : GetFn(k) = <<dict[k]>>
        /\ pc = "idle" => \A k \in Keys \ DOMAIN dict : GetFn(k) = Absent

(* Between operations every node's stored balance is the difference of the *)
(* heights of its subtrees (verify_invariants of the fuzzer) and no        *)
(* difference exceeds one; so it is, a node without its value left out,    *)
(* when a supplier runs or raised.                                         *)
AvlBalanced ==
    pc \in {"idle", "linked", "raised"} =>
        \A i \in ToSet(InOrder) :
            /\ cells[i].balance =
                   Height[MaxSlots, cells[i].right] - Height[MaxSlots, cells[i].left]
            /\ cells[i].balance \in {-1, 0, 1}

(* Every cell of _slots is in the tree exactly once or in the free list    *)
(* exactly once, never in both: no node is lost, shared or handed out      *)
(* twice, and len() = len(_slots) - len(_free_slots) counts the keys (and  *)
(* the node a supplier that raised left behind).                           *)
SlotsAccounted ==
    LET order == InOrder
        nodes == ToSet(order) \cup Unborn
    IN  /\ Cardinality(nodes) = Len(order) + Cardinality(Unborn) /\ IsInjective(free)
        /\ nodes \cap ToSet(free) = {}
        /\ nodes \cup ToSet(free) = 1..nslots

(* TreeMap implements a map: every call is the call of the abstract map    *)
(* with the same key, the same value and the same answer, and neither the  *)
(* iterations of rebalancing nor a call that raises half-way change what   *)
(* the map holds.  The one answer that is not the docstring's: the key was *)
(* absent and compute_if_absent raises (tree_map.py:308 promises the       *)
(* value), having stored the supplier's value.                             *)
Map == INSTANCE OrderedMap WITH dict <- Contents

MapCall(c) ==
    CASE c.op = "set"     -> Map!SetItem(c.key, c.arg)
      [] c.op = "del"     -> Map!DelItem(c.key)
      [] c.op = "clear"   -> Map!Clear
      [] c.op = "compute" -> /\ Map!InsertIfAbsent(c.key, c.arg)
                             /\ c.ret = IF c.key \in DOMAIN Contents THEN <<Contents[c.key]>> ELSE Absent
      [] c.op = "default" -> \E v \in Values : Map!InsertIfAbsent(c.key, v) /\ c.ret = <<Contents'[c.key]>>

ImplementsMap ==
    [][IF pc' # "linked" /\ (pc = "idle" \/ (pc = "linked" /\ pc' # "raised"))
       THEN MapCall(last') ELSE Contents' = Contents]_vars
=============================================================================
