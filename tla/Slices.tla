------------------------------- MODULE Slices -------------------------------
(***************************************************************************)
(* DynArray with slices (storage/vec.py), on the sequence of its items.    *)
(* Indices count from 0 as in Python; a bound of a slice is <<>> (None) or  *)
(* <<i>>.                                                                  *)
(***************************************************************************)
EXTENDS Integers, Sequences, SequencesExt, FiniteSets, FiniteSetsExt

None == <<>>

Slice(start, stop, step) == [start |-> start, stop |-> stop, step |-> step]

(* slice.indices(n) of Python.                                             *)
Indices(s, n) ==
    LET step   == IF s.step = None THEN 1 ELSE s.step[1]
        lower  == IF step < 0 THEN -1 ELSE 0
        upper  == IF step < 0 THEN n - 1 ELSE n
        Clip(i) == Max({lower, Min({upper, IF i < 0 THEN i + n ELSE i})})
    IN  [start |-> IF s.start = None THEN (IF step < 0 THEN upper ELSE lower) ELSE Clip(s.start[1]),
         stop  |-> IF s.stop = None THEN (IF step < 0 THEN lower ELSE upper) ELSE Clip(s.stop[1]),
         step  |-> step]

Item(a, i)       == a[i + 1]
SetItem(a, i, x) == [a EXCEPT ![i + 1] = x]

-----------------------------------------------------------------------------
(* __getitem__ with a slice.                                               *)
RECURSIVE Walk(_, _, _, _)
Walk(a, start, stop, step) ==
    LET sign == IF step >= 0 THEN 1 ELSE -1 IN
    IF start * sign >= stop * sign THEN <<>>
    ELSE <<Item(a, start)>> \o Walk(a, start + step, stop, step)

GetSlice(a, s) == LET i == Indices(s, Len(a)) IN Walk(a, i.start, i.stop, i.step)

\* Mutant: the turned slice starts where the old one stopped
SliceTurned(s, n) ==
    LET i == Indices(s, n)
    IN  IF i.step > 0 THEN i
        ELSE [start |-> i.stop + 1, stop |-> i.start + 1, step |-> -i.step]

(* _slice_to_idx: a slice with a negative step is turned around.           *)
Turned(i) ==
    IF i.step > 0 THEN i
    ELSE [start |-> i.start + ((i.start - i.stop - 1) \div (-i.step)) * i.step,
          stop  |-> i.start + 1,
          step  |-> -i.step]

SliceToIdx(s, n) == Turned(Indices(s, n))

(* __delitem__: one pass that moves what stays to the left.                *)
RECURSIVE DelPass(_, _, _, _, _, _)
DelPass(a, i, next, put, stop, step) ==
    IF i = Len(a) THEN SubSeq(a, 1, put)
    ELSE IF i = next
         THEN DelPass(a, i + 1, IF i + step >= stop THEN -1 ELSE i + step, put, stop, step)
         ELSE DelPass(SetItem(a, put, Item(a, i)), i + 1, next, put + 1, stop, step)

DelRange(a, start, stop, step) ==
    IF stop <= start THEN a ELSE DelPass(a, start, start, start, stop, step)

DelSlice(a, s) == LET i == SliceToIdx(s, Len(a)) IN DelRange(a, i.start, i.stop, i.step)

(* __setitem__ with a slice: values in common are assigned, then the rest  *)
(* of the range is deleted or the rest of the values inserted.  A raised   *)
(* exception leaves what was done before it.                               *)
Assigned(a, i, vals) ==
    LET range  == (i.stop - i.start) \div i.step
        common == Min({Len(vals), range})
        done   == IF common < 0 THEN 0 ELSE common      \* range() of a negative count
        set    == [k \in 1..Len(a) |->
                     IF \E j \in 0..(done - 1) : k = i.start + j * i.step + 1
                     THEN vals[((k - 1 - i.start) \div i.step) + 1] ELSE a[k]]
        start  == i.start + common
        more   == Len(vals) - common
    IN  CASE range - common > 0 ->
               \* del self[start:stop:step], a slice again
               LET d == Indices(Slice(<<start>>, <<i.stop>>, <<i.step>>), Len(set))
               IN  [ok |-> TRUE, v |-> DelRange(set, d.start, d.stop, d.step)]
          [] range - common <= 0 /\ more > 0 ->
               \* moved right first; when next() has nothing left the length stays
               LET left == Len(vals) - done
                   ok   == more <= left
                   Put(p) == CASE p < start -> Item(set, p)
                               [] p \in start..(start + left - 1) -> vals[done + 1 + p - start]
                               [] p \in (start + left)..(start + more - 1) -> Item(set, p)
                               [] OTHER -> Item(set, p - more)
               IN  [ok |-> ok,
                    v  |-> [k \in 1..(Len(a) + IF ok THEN more ELSE 0) |-> Put(k - 1)]]
          [] OTHER -> [ok |-> TRUE, v |-> set]

SetSlice(a, s, new) ==
    Assigned(a, SliceToIdx(s, Len(a)), IF s.step # None /\ s.step[1] < 0 THEN Reverse(new) ELSE new)

-----------------------------------------------------------------------------
(* list in Python terms.                                                   *)

(* The indices a slice selects, in its order.                              *)
SelectedBy(i, n) ==
    LET upTo == {k \in 0..(n - 1) : /\ (k - i.start) % (IF i.step > 0 THEN i.step ELSE -i.step) = 0
                                    /\ IF i.step > 0 THEN i.start <= k /\ k < i.stop
                                       ELSE i.start >= k /\ k > i.stop}
    IN  SetToSortSeq(upTo, LAMBDA x, y : IF i.step > 0 THEN x < y ELSE x > y)

Selected(s, n) == SelectedBy(Indices(s, n), n)

ListGet(a, s) == [k \in 1..Len(Selected(s, Len(a))) |-> Item(a, Selected(s, Len(a))[k])]

ListDel(a, s) == LET gone == ToSet(Selected(s, Len(a)))
                     left == SetToSortSeq((0..(Len(a) - 1)) \ gone, LAMBDA x, y : x < y)
                 IN  [k \in 1..Len(left) |-> Item(a, left[k])]

(* a[s] = new: what is between the bounds is replaced, or the selected     *)
(* items one by one.                                                       *)
ListSet(a, s, new) ==
    LET i   == Indices(s, Len(a))
        sel == Selected(s, Len(a))
    IN  IF i.step = 1
        THEN SubSeq(a, 1, i.start) \o new \o SubSeq(a, Max({i.start, i.stop}) + 1, Len(a))
        ELSE [k \in 1..Len(a) |-> IF \E j \in DOMAIN sel : sel[j] = k - 1
                                  THEN new[CHOOSE j \in DOMAIN sel : sel[j] = k - 1] ELSE a[k]]

(* A list takes any values for a slice without a step, and as many as are  *)
(* selected for one with a step.                                           *)
ListAccepts(s, n, m) == Indices(s, n).step = 1 \/ m = Len(Selected(s, n))

(* Which of these a DynArray assigns as a list does: bounds in order, and  *)
(* with a step a whole number of steps apart; backwards one by one only.   *)
Regular(s, n) ==
    LET i == Indices(s, n)
    IN  IF i.step > 0 THEN i.start <= i.stop /\ (i.stop - i.start) % i.step = 0
                      ELSE i.start >= i.stop /\ i.step = -1
=============================================================================
