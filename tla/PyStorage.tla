----------------------------- MODULE PyStorage -----------------------------
(***************************************************************************)
(* The typed view of contract storage in the Python standard library:      *)
(* descriptors that lay values out in slots, and the views through which   *)
(* contracts read and write them.                                          *)
(*                                                                         *)
(* A slot is the sequence of offsets that lead to it from the root slot:   *)
(* Slot.indirect(off) hashes the slot's id with off, and sha3 is taken to  *)
(* be injective.  A number is kept in the cell of its first byte; sizes    *)
(* and offsets are those of the code.  Storage never written reads as 0.   *)
(* A str or bytes value is a sequence of byte values.                      *)
(***************************************************************************)
EXTENDS Integers, Sequences, SequencesExt, FiniteSets

CONSTANTS Layouts,    \* descriptors of contracts
          Bytes,      \* values of a byte that contracts write
          MaxLen      \* bound on the length of arrays

VARIABLES layout,     \* the descriptor of the contract at hand
          mem,        \* written cells: <<slot, offset>> -> byte or length
          op          \* the last operation: its name, view and argument

svars == <<layout, mem, op>>

(* Descriptors (TypeDesc and its subclasses).                              *)
Num(n)        == [kind |-> "int", size |-> n]
Str           == [kind |-> "str"]
None          == [kind |-> "none"]
DynArrayOf(d) == [kind |-> "dyn", item |-> d]
ArrayOf(d, n) == [kind |-> "arr", item |-> d, len |-> n]
IndirectTo(d) == [kind |-> "ind", item |-> d]
VLAOf(d)      == [kind |-> "vla", item |-> d]
Record(ds)    == [kind |-> "rec", fields |-> ds]

LenSize == 4                 \* _u32_desc.size
VLASize == 1000              \* 2^32 - 1 in the code: nothing fits after it

RECURSIVE Size(_)
Size(d) == CASE d.kind = "int"  -> d.size
             [] d.kind = "none" -> 0
             [] d.kind \in {"str", "dyn"} -> LenSize
             [] d.kind = "ind"  -> 1
             [] d.kind = "vla"  -> VLASize
             [] d.kind = "arr"  -> d.len * Size(d.item)
             [] d.kind = "rec"  -> FoldSeq(LAMBDA f, s : s + Size(f), 0, d.fields)

(* props of _storage_build_struct: a field starts where the last one ends. *)
Offset(d, i) == FoldSeq(LAMBDA f, s : s + Size(f), 0, SubSeq(d.fields, 1, i - 1))

Indirect(slot, off) == Append(slot, off)

(* Manager.do_read and do_write of one value.                              *)
Read(m, slot, off)     == IF <<slot, off>> \in DOMAIN m THEN m[<<slot, off>>] ELSE 0
Write(m, slot, off, v) ==
    [a \in DOMAIN m \cup {<<slot, off>>} |-> IF a = <<slot, off>> THEN v ELSE m[a]]

(* to.write(to_off, frm.read(frm_off, n)): n bytes, the unwritten included. *)
CopyBytes(m, to, toOff, frm, frmOff, n) ==
    LET target == {<<to, toOff + i>> : i \in 0..(n - 1)} IN
    [a \in DOMAIN m \cup target |->
        IF a \in target THEN Read(m, frm, frmOff + a[2] - toOff) ELSE m[a]]

-----------------------------------------------------------------------------
(* copy_actions of a descriptor: a number is a memcpy of that many bytes,  *)
(* a descriptor is a copy of its own.  actions_append merges memcpys.      *)
ActionsAppend(l, r) ==
    IF l # <<>> /\ r # <<>> /\ Last(l).kind = "int" /\ Head(r).kind = "int"
    THEN Front(l) \o <<Num(Last(l).size + Head(r).size)>> \o Tail(r)
    ELSE l \o r

RECURSIVE CopyActions(_)
CopyActions(d) ==
    CASE d.kind = "none" -> <<Num(0)>>
      [] d.kind = "rec"  -> FoldLeft(LAMBDA acc, f : ActionsAppend(acc, CopyActions(f)),
                                     <<>>, d.fields)
      [] d.kind = "arr"  -> FoldLeft(LAMBDA acc, i : ActionsAppend(acc, CopyActions(d.item)),
                                     <<>>, [i \in 1..d.len |-> i])
      [] OTHER           -> <<d>>

(* actions_apply_copy, and the copy of each descriptor that has one.       *)
RECURSIVE ApplyCopy(_, _, _, _, _, _), CopyOne(_, _, _, _, _, _), CopyItems(_, _, _, _, _, _, _)
ApplyCopy(m, acts, to, toOff, frm, frmOff) ==
    IF acts = <<>> THEN m
    ELSE LET a == Head(acts) IN
         ApplyCopy(CopyOne(m, a, to, toOff, frm, frmOff), Tail(acts),
                   to, toOff + Size(a), frm, frmOff + Size(a))

(* The items first to n - 1 of an array whose items lie at offset base.    *)
CopyItems(m, d, to, frm, base, first, n) ==
    IF first = n THEN m
    ELSE CopyItems(ApplyCopy(m, CopyActions(d), to, base + first * Size(d),
                             frm, base + first * Size(d)),
                   d, to, frm, base, first + 1, n)

CopyOne(m, d, to, toOff, frm, frmOff) ==
    LET len    == Read(m, frm, frmOff)
        sized  == Write(m, to, toOff, len)
        toIn   == Indirect(to, toOff)
        frmIn  == Indirect(frm, frmOff)
    IN  CASE d.kind = "int" -> CopyBytes(m, to, toOff, frm, frmOff, d.size)
          [] d.kind = "str" -> CopyBytes(sized, toIn, 0, frmIn, 0, len)
          [] d.kind = "dyn" ->
               LET acts == CopyActions(d.item) IN
               IF Len(acts) = 1 /\ acts[1].kind = "int"
               THEN CopyBytes(sized, toIn, 0, frmIn, 0, acts[1].size * len)
               ELSE CopyItems(sized, d.item, toIn, frmIn, 0, 0, len)
          [] d.kind = "ind" -> ApplyCopy(m, CopyActions(d.item), toIn, 0, frmIn, 0)
          \* dst.truncate() comes before src is read
          [] d.kind = "vla" ->
               LET n    == IF <<to, toOff>> = <<frm, frmOff>> THEN 0 ELSE len
                   moved == [i \in 1..n |-> Read(m, frm, frmOff + LenSize + (i - 1) * Size(d.item))]
               IN  FoldLeft(LAMBDA acc, i : Write(acc, to, toOff + LenSize + (i - 1) * Size(d.item),
                                                  moved[i]),
                            Write(m, to, toOff, n), [i \in 1..n |-> i])

-----------------------------------------------------------------------------
(* Views.                                                                  *)

View(d, slot, off, path) == [d |-> d, slot |-> slot, off |-> off, path |-> path]

(* The view of item or field i of view w: __getitem__, the property getter *)
(* of a record, Indirection.get.                                           *)
Item(w, i) ==
    LET d == w.d
        p == Append(w.path, i)
    IN  CASE d.kind = "rec" -> View(d.fields[i], w.slot, w.off + Offset(d, i), p)
          [] d.kind = "arr" -> View(d.item, w.slot, w.off + (i - 1) * Size(d.item), p)
          [] d.kind = "ind" -> View(d.item, Indirect(w.slot, w.off), 0, p)
          [] d.kind = "vla" -> View(d.item, w.slot, w.off + LenSize + (i - 1) * Size(d.item), p)
          [] d.kind = "dyn" -> View(d.item, Indirect(w.slot, w.off), (i - 1) * Size(d.item), p)

(* __len__ of what a view can be indexed with.                             *)
Length(m, w) ==
    CASE w.d.kind = "rec" -> Len(w.d.fields)
      [] w.d.kind = "arr" -> w.d.len
      [] w.d.kind = "ind" -> 1
      [] w.d.kind \in {"dyn", "vla"} -> Read(m, w.slot, w.off)
      [] OTHER -> 0

RECURSIVE ViewsUnder(_, _)
ViewsUnder(m, w) == {w} \cup UNION {ViewsUnder(m, Item(w, i)) : i \in 1..Length(m, w)}

(* get, all the way down: the Python value a view stands for.              *)
RECURSIVE Decode(_, _)
Decode(m, w) ==
    CASE w.d.kind = "int"  -> Read(m, w.slot, w.off)
      [] w.d.kind = "none" -> <<>>
      [] w.d.kind = "str"  -> [i \in 1..Read(m, w.slot, w.off) |->
                                 Read(m, Indirect(w.slot, w.off), i - 1)]
      [] OTHER             -> [i \in 1..Length(m, w) |-> Decode(m, Item(w, i))]

(* set of a plain value.  A record is built in a slot of its own, the one  *)
(* of an InmemManager, and copied from there.                              *)
Inmem == <<-1>>
Forget(m) == [a \in {b \in DOMAIN m : b[1] = <<>> \/ b[1][1] # -1} |-> m[a]]

RECURSIVE SetPlain(_, _, _), SetItems(_, _, _, _)
SetItems(m, w, v, n) ==
    IF n = 0 THEN m ELSE SetPlain(SetItems(m, w, v, n - 1), Item(w, n), v[n])

SetPlain(m, w, v) ==
    CASE w.d.kind = "int"  -> Write(m, w.slot, w.off, v)
      [] w.d.kind = "none" -> m
      [] w.d.kind = "str"  ->
           FoldLeft(LAMBDA acc, i : Write(acc, Indirect(w.slot, w.off), i - 1, v[i]),
                    Write(m, w.slot, w.off, Len(v)), [i \in 1..Len(v) |-> i])
      [] w.d.kind = "dyn"  -> SetItems(Write(m, w.slot, w.off, Len(v)), w, v, Len(v))
      [] w.d.kind = "arr"  -> SetItems(m, w, v, Len(v))
      [] w.d.kind = "rec"  ->
           LET fresh == SetItems(Forget(m), View(w.d, Inmem, 0, <<>>), v, Len(v))
           IN  Forget(ApplyCopy(fresh, CopyActions(w.d), w.slot, w.off, Inmem, 0))

(* set of a view of the same type.                                         *)
SetView(m, w, frm) == ApplyCopy(m, CopyActions(w.d), w.slot, w.off, frm.slot, frm.off)

-----------------------------------------------------------------------------
(* DynArray.                                                               *)

SetLen(m, w, n) == Write(m, w.slot, w.off, n)

(* __delitem__ of an index: the items after it move down, one by one.      *)
DelIndex(m, w, i) ==
    LET n == Length(m, w)
        shifted == FoldLeft(LAMBDA acc, j : SetView(acc, Item(w, j), Item(w, j + 1)),
                            m, [k \in 1..(n - i) |-> i + k - 1])
    IN  SetLen(shifted, w, n - 1)

\* Mutant: the items move up from the first.
InsertForward(m, w, i, v) ==
    LET n == Length(m, w)
        shifted == FoldLeft(LAMBDA acc, j : SetView(acc, Item(w, j + 1), Item(w, j)),
                            SetLen(m, w, n + 1), [k \in 1..(n - i + 1) |-> i + k - 1])
    IN  SetPlain(shifted, Item(w, i), v)

(* insert: the length grows first, the items move up from the last.        *)
InsertIndex(m, w, i, v) ==
    LET n == Length(m, w)
        shifted == FoldLeft(LAMBDA acc, j : SetView(acc, Item(w, j + 1), Item(w, j)),
                            SetLen(m, w, n + 1), [k \in 1..(n - i + 1) |-> n - k + 1])
    IN  SetPlain(shifted, Item(w, i), v)

-----------------------------------------------------------------------------
Whole    == View(layout, <<>>, 0, <<>>)
AllViews == ViewsUnder(mem, Whole)

(* Plain values a contract may assign to what d describes: of lists, empty *)
(* ones and pairs of equals; the others come from appending and inserting. *)
RECURSIVE Samples(_)
Samples(d) ==
    CASE d.kind = "int"  -> Bytes
      [] d.kind = "none" -> {<<>>}
      [] d.kind = "str"  -> {[i \in 1..n |-> b] : n \in 0..2, b \in Bytes}
      [] d.kind = "dyn"  -> {[i \in 1..n |-> x] : n \in {0, 2}, x \in Samples(d.item)}
      [] d.kind = "arr"  -> [1..d.len -> Samples(d.item)]
      [] d.kind = "rec"  ->
           FoldLeft(LAMBDA acc, f : {Append(v, x) : v \in acc, x \in Samples(f)}, {<<>>}, d.fields)
      [] OTHER           -> {}

Did(name, w, m, arg) ==
    /\ mem' = m
    /\ op' = [name |-> name, path |-> w.path, arg |-> arg]
    /\ UNCHANGED layout

Assign(w, v) == /\ w.path # <<>> /\ w.d.kind \notin {"ind", "vla"}
                /\ Did("assign", w, SetPlain(mem, w, v), v)

AssignView(w, frm) == /\ w.path # <<>> /\ w.d = frm.d
                      /\ Did("copy", w, SetView(mem, w, frm), frm.path)

DynAppend(w, v) ==
    LET n == Length(mem, w) IN
    /\ w.d.kind = "dyn" /\ n < MaxLen
    /\ Did("append", w, SetPlain(SetLen(mem, w, n + 1), Item(w, n + 1), v), v)

(* append_new_get: the cell is handed out as the last owner left it.       *)
DynAppendNewGet(w) ==
    LET n == Length(mem, w) IN
    /\ w.d.kind = "dyn" /\ n < MaxLen
    /\ Did("new", w, SetLen(mem, w, n + 1), 0)

DynPop(w)   == /\ w.d.kind = "dyn" /\ Length(mem, w) > 0
               /\ Did("pop", w, SetLen(mem, w, Length(mem, w) - 1), 0)
DynClear(w) == w.d.kind = "dyn" /\ Did("clear", w, SetLen(mem, w, 0), 0)

DynDelete(w, i) == /\ w.d.kind = "dyn" /\ i <= Length(mem, w)
                   /\ Did("del", w, DelIndex(mem, w, i), i)

DynInsert(w, i, v) == /\ w.d.kind = "dyn" /\ i <= Length(mem, w) /\ Length(mem, w) < MaxLen
                      /\ Did("insert", w, InsertIndex(mem, w, i, v), <<i, v>>)

(* VLA.append writes the item before the length.                           *)
VlaAppend(w, v) ==
    LET n == Length(mem, w) IN
    /\ w.d.kind = "vla" /\ n < MaxLen
    /\ Did("append", w, SetLen(SetPlain(mem, Item(w, n + 1), v), w, n + 1), v)

VlaTruncate(w, n) == /\ w.d.kind = "vla" /\ n <= Length(mem, w)
                     /\ Did("truncate", w, SetLen(mem, w, n), n)

HeapInit == /\ layout \in Layouts /\ mem = <<>>
            /\ op = [name |-> "none", path |-> <<>>, arg |-> 0]

HeapNext ==
    \E w \in AllViews :
        \/ \E v \in Samples(w.d) : Assign(w, v)
        \/ \E frm \in AllViews : AssignView(w, frm)
        \/ DynAppendNewGet(w) \/ DynPop(w) \/ DynClear(w)
        \/ \E i \in 1..MaxLen : DynDelete(w, i)
        \/ w.d.kind = "dyn" /\ \E v \in Samples(w.d.item) :
             DynAppend(w, v) \/ \E i \in 1..MaxLen : DynInsert(w, i, v)
        \/ w.d.kind = "vla" /\ \E v \in Samples(w.d.item) : VlaAppend(w, v)
        \/ \E n \in 0..MaxLen : VlaTruncate(w, n)

HeapSpec == HeapInit /\ [][HeapNext]_svars

-----------------------------------------------------------------------------
(* Values without storage: what the same operation does to the Python      *)
(* value the whole contract stands for.                                    *)
RECURSIVE At(_, _), Put(_, _, _)
At(v, path) == IF path = <<>> THEN v ELSE At(v[Head(path)], Tail(path))
Put(v, path, x) ==
    IF path = <<>> THEN x
    ELSE [v EXCEPT ![Head(path)] = Put(v[Head(path)], Tail(path), x)]

(* A VLA assigned to itself: it is truncated before it is read.            *)
RECURSIVE SelfAssigned(_, _)
SelfAssigned(d, v) == CASE d.kind = "vla" -> <<>>
                        [] d.kind = "ind" -> <<SelfAssigned(d.item, v[1])>>
                        [] OTHER          -> v

(* The value after operation o on a view of descriptor d, which stands for *)
(* new after it.                                                           *)
ValueAfter(v, o, d, new) ==
    LET old == At(v, o.path) IN
    CASE o.name = "assign"   -> Put(v, o.path, o.arg)
      [] o.name = "copy"     -> Put(v, o.path, IF o.arg = o.path THEN SelfAssigned(d, old)
                                                                 ELSE At(v, o.arg))
      [] o.name = "append"   -> Put(v, o.path, Append(old, o.arg))
      [] o.name = "new"      -> Put(v, o.path, Append(old, Last(new)))
      [] o.name = "pop"      -> Put(v, o.path, Front(old))
      [] o.name = "clear"    -> Put(v, o.path, <<>>)
      [] o.name = "truncate" -> Put(v, o.path, SubSeq(old, 1, o.arg))
      [] o.name = "del"      -> Put(v, o.path, RemoveAt(old, o.arg))
      [] o.name = "insert"   -> Put(v, o.path, InsertAt(old, o.arg[1], o.arg[2]))
      [] OTHER               -> v

(* Storage behaves as nested values: an operation through one view changes *)
(* what that view stands for as it would a list or an object, copies are   *)
(* deep, and nothing outside the view changes, whatever earlier owners     *)
(* left in the cells.                                                      *)
StorageIsValues ==
    [][LET before == Decode(mem, Whole)
           after  == Decode(mem', Whole)
           target == CHOOSE w \in AllViews : w.path = op'.path
       IN  after = ValueAfter(before, op', target.d, At(after, op'.path))]_svars
=============================================================================
