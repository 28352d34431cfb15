---------------------------- MODULE ProtoMessage ----------------------------
(***************************************************************************)
(* Protobuf messages as linked Python objects (google.protobuf.internal    *)
(* python_message and containers): presence, oneofs, cached sizes and the  *)
(* listeners through which a child tells its parent that it changed.       *)
(*                                                                         *)
(* All objects are of one recursive type with a field of each kind: an     *)
(* int32 n without presence, a oneof of an int32 a and a message b,        *)
(* repeated messages r, a map k to messages and a map t to integers.  The  *)
(* client keeps a reference to every object, detached ones included.       *)
(***************************************************************************)
EXTENDS Integers, Sequences, SequencesExt, FiniteSets, Functions

CONSTANTS Group, Wide, Narrow,
          Nums, MapKeys,    \* values of scalars, keys of maps
          Buffers,          \* what MergeFromString is called with
          MaxObjs           \* bound on the objects that are not given up

VARIABLES heap,     \* objects by reference, a reference being an index
          silent,   \* history: objects whose content changed and nobody was told,
          misled,   \* and those told of a member of their oneof that they do not have
          call      \* the object of the last call, whether it only reads, and whether it ended in KeyError

mvars == <<heap, silent, misled, call>>

Field(t) == [type |-> t, label |-> "one", packed |-> FALSE, presence |-> FALSE, oneof |-> FALSE, sub |-> ""]
NodeTypes ==
    LET node == [Field("message") EXCEPT !.sub = "Node", !.presence = TRUE]
        Map(entry) == [Field("message") EXCEPT !.label = "map", !.sub = entry]
        Member(fd) == [fd EXCEPT !.oneof = TRUE, !.presence = TRUE]
    IN  [Node     |-> <<Field("int32"), Member(Field("int32")), Member(node),
                        [node EXCEPT !.label = "many"], Map("KEntry"), Map("TEntry")>>,
         KEntry   |-> <<Field("uint32"), node>>,
         TEntry   |-> <<Field("uint32"), Field("int32")>>]

W == INSTANCE ProtoWire WITH Types <- NodeTypes

NoValue == 2^Narrow     \* no int32
Nobody  == 0
A == 2
B == 3

(* cls(): _cached_byte_size, its dirty flag, that of the listener handed   *)
(* to the children, _is_present_in_parent, and the listener: the parent,   *)
(* and whether it is a _OneofListener.                                     *)
Instance(up, asMember) ==
    [n |-> 0, a |-> NoValue, b |-> Nobody, r |-> <<>>, k |-> <<>>, t |-> <<>>, u |-> <<>>,
     oneof |-> 0, size |-> 0, dirty |-> FALSE, childDirty |-> FALSE, present |-> FALSE,
     up |-> up, asMember |-> asMember]

Of(h)   == [objs |-> h, raised |-> FALSE]
Newest(h) == Len(h.objs)
Made(h, up, asMember) == [h EXCEPT !.objs = Append(@, Instance(up, asMember))]

-----------------------------------------------------------------------------
(* Content and size of a message.                                          *)
Keyed(f) == SetToSortSeq(DOMAIN f, <)
Elements(h, o) == LET m == h.objs[o] IN m.r \o [i \in 1..Len(Keyed(m.k)) |-> m.k[Keyed(m.k)[i]]]

(* ListFields.                                                             *)
Listed(h, o) == LET m == h.objs[o]
                IN  {i \in 1..6 : <<m.n # 0, m.a # NoValue, m.b # Nobody /\ h.objs[m.b].present,
                                    m.r # <<>>, m.k # <<>>, m.t # <<>>>>[i]}

(* The message as a value, its sizes left out, taken from the caches where *)
(* these are not dirty (what ByteSize() answers), or computed afresh, as   *)
(* always in the entries of maps, which are copies.                        *)
RECURSIVE Built(_, _, _)
SizeIn(m, v, sizes) == CASE sizes = "none" -> 0
                         [] sizes = "cached" /\ ~ m.dirty -> m.size
                         [] OTHER -> W!SizeOf("Node", v)
Each(h, f, sizes)   == [i \in DOMAIN f |-> Built(h, f[i], sizes)]
Value(h, m, i, sizes) == CASE i = 1 -> m.n
                           [] i = 2 -> m.a
                           [] i = 3 -> Built(h, m.b, sizes)
                           [] i = 4 -> Each(h, m.r, sizes)
                           [] i = 5 -> Each(h, m.k, IF sizes = "cached" THEN "fresh" ELSE sizes)
                           [] i = 6 -> m.t
WithSize(m, v, sizes) == [v EXCEPT !.size = SizeIn(m, v, sizes)]
Built(h, o, sizes) ==
    LET m == h.objs[o]
    IN  WithSize(m, [f |-> [i \in Listed(h, o) |-> Value(h, m, i, sizes)], u |-> m.u, size |-> 0], sizes)
Content(h, o) == Built(h, o, "none")

-----------------------------------------------------------------------------
(* Modified(), _UpdateOneofState and the two listeners.                    *)

(* Mutant: the member that is given up keeps its value.                    *)
UpdateOneofKeeping(h, o, field) == [h EXCEPT !.objs[o].oneof = field]

UpdateOneofState(h, o, field) ==
    LET m == h.objs[o] other == IF m.oneof = 0 THEN field ELSE m.oneof
    IN  CASE h.raised -> h
          [] ~ h.raised /\ other = field -> [h EXCEPT !.objs[o].oneof = field]
          [] ~ h.raised /\ other # field /\ (IF other = A THEN m.a = NoValue ELSE m.b = Nobody) -> [h EXCEPT !.raised = TRUE]
          [] ~ h.raised /\ other = A /\ field = B /\ m.a # NoValue -> [h EXCEPT !.objs[o].a = NoValue, !.objs[o].oneof = field]
          [] ~ h.raised /\ other = B /\ field = A /\ m.b # Nobody -> [h EXCEPT !.objs[o].b = Nobody, !.objs[o].oneof = field]

RECURSIVE Modified(_, _)
Notified(h, o) ==
    LET m == h.objs[o]
    IN  CASE m.up = Nobody -> h
          [] m.up # Nobody /\ m.asMember -> Modified(UpdateOneofState(h, m.up, B), m.up)
          [] m.up # Nobody /\ ~ m.asMember -> IF h.objs[m.up].childDirty THEN h ELSE Modified(h, m.up)
Modified(h, o) ==
    IF h.raised \/ h.objs[o].dirty THEN h
    ELSE Notified([h EXCEPT !.objs[o].dirty = TRUE, !.objs[o].childDirty = TRUE, !.objs[o].present = TRUE], o)

(* What a container of message o does: tell the listener it was given.     *)
ContainerModified(h, o) == IF h.objs[o].childDirty THEN h ELSE Modified(h, o)

-----------------------------------------------------------------------------
(* Fields.                                                                 *)
SetN(h, o, v) == Modified([h EXCEPT !.objs[o].n = v], o)
SetA(h, o, v) == UpdateOneofState(Modified([h EXCEPT !.objs[o].a = v], o), o, A)

(* Mutant: to read a member of the oneof is to choose it.                  *)
GetBChoosing(h, o) == UpdateOneofState([Made(h, o, TRUE) EXCEPT !.objs[o].b = Newest(h) + 1], o, B)

GetB(h, o) == IF h.objs[o].b # Nobody THEN h ELSE [Made(h, o, TRUE) EXCEPT !.objs[o].b = Newest(h) + 1]

(* ClearField by name, or by that of the oneof (field 0): the child keeps  *)
(* its listener, and _oneofs is only cleared along with a stored value.    *)
ClearField(h, o, field) ==
    LET m == h.objs[o]
        i == IF field = 0 THEN m.oneof ELSE field
        stored == (i = A /\ m.a # NoValue) \/ (i = B /\ m.b # Nobody)
        h1 == [h EXCEPT !.objs[o] = [@ EXCEPT !.n = IF i = 1 THEN 0 ELSE @,     !.a = IF i = A THEN NoValue ELSE @,
                                              !.b = IF i = B THEN Nobody ELSE @, !.r = IF i = 4 THEN <<>> ELSE @,
                                              !.k = IF i = 5 THEN <<>> ELSE @,   !.t = IF i = 6 THEN <<>> ELSE @,
                                              !.oneof = IF stored /\ @ = i THEN 0 ELSE @]]
    IN  IF i = 0 THEN h ELSE Modified(h1, o)

Clear(h, o) == Modified([h EXCEPT !.objs[o] = [@ EXCEPT !.n = 0, !.a = NoValue, !.b = Nobody, !.r = <<>>, !.k = <<>>,
                                                        !.t = <<>>, !.u = <<>>, !.oneof = 0]], o)

Put(f, key, v)   == [x \in DOMAIN f \cup {key} |-> IF x = key THEN v ELSE f[x]]
Drop(f, key)     == Restrict(f, DOMAIN f \ {key})
Add(h, o)        == ContainerModified([Made(h, o, FALSE) EXCEPT !.objs[o].r = Append(@, Newest(h) + 1)], o)
DelItem(h, o, i) == ContainerModified([h EXCEPT !.objs[o].r = RemoveAt(@, i)], o)
KItem(h, o, key) == IF key \in DOMAIN h.objs[o].k THEN h
                    ELSE ContainerModified([Made(h, o, FALSE) EXCEPT !.objs[o].k = Put(@, key, Newest(h) + 1)], o)
KDel(h, o, key)  == ContainerModified([h EXCEPT !.objs[o].k = Drop(@, key)], o)
TItem(h, o, key) == IF key \in DOMAIN h.objs[o].t THEN h ELSE [h EXCEPT !.objs[o].t = Put(@, key, 0)]
TSet(h, o, key, v) == ContainerModified([h EXCEPT !.objs[o].t = Put(@, key, v)], o)

-----------------------------------------------------------------------------
(* Whole messages.                                                         *)

(* Mutant: the messages of a map are measured in their entries only.       *)
MeasuredNoMaps(h, o) == IF B \in Listed(h, o) THEN <<h.objs[o].b>> \o h.objs[o].r ELSE h.objs[o].r

(* The messages whose ByteSize() the sizers of a message's fields call.    *)
Measured(h, o) == IF B \in Listed(h, o) THEN <<h.objs[o].b>> \o Elements(h, o) ELSE Elements(h, o)

RECURSIVE ByteSize(_, _)
ByteSize(h, o) ==
    LET h1 == FoldLeft(LAMBDA hh, c : ByteSize(hh, c), h, Measured(h, o))
    IN  IF ~ h.objs[o].dirty THEN h
        ELSE [h1 EXCEPT !.objs[o].size = Built(h1, o, "cached").size, !.objs[o].dirty = FALSE, !.objs[o].childDirty = FALSE]

(* _InternalSerialize asks the members and repeated messages, down to the  *)
(* leaves, for their size; entries of maps are copies.                     *)
RECURSIVE Serialize(_, _)
Serialize(h, o) == FoldLeft(LAMBDA hh, c : Serialize(ByteSize(hh, c), c), h,
                            IF B \in Listed(h, o) THEN <<h.objs[o].b>> \o h.objs[o].r ELSE h.objs[o].r)

(* MergeFrom copies what is present, message by message.                   *)
RECURSIVE MergeFrom(_, _, _)
CopyFrom(h, o, from) == MergeFrom(Clear(h, o), o, from)
MergeInto(h, from) == MergeFrom(h, Newest(h), from)
MergeFrom(h, o, from) ==
    LET m  == h.objs[from]
        h0 == Modified(h, o)
        h1 == IF m.n = 0 THEN h0 ELSE [h0 EXCEPT !.objs[o].n = m.n]
        h2 == IF m.a = NoValue THEN h1 ELSE UpdateOneofState([h1 EXCEPT !.objs[o].a = m.a], o, A)
        h3 == IF B \notin Listed(h, from) THEN h2
              ELSE LET g == GetB(h2, o) IN MergeFrom(g, g.objs[o].b, m.b)
        h4 == FoldLeft(LAMBDA hh, c : LET g == MergeFrom(Made(hh, o, FALSE), Newest(hh) + 1, c)
                                      IN [g EXCEPT !.objs[o].r = Append(@, Newest(hh) + 1)], h3, m.r)
        h5 == FoldLeft(LAMBDA hh, key : LET g == KItem(KDel(hh, o, key), o, key)
                                        IN CopyFrom(g, g.objs[o].k[key], m.k[key]), h4, Keyed(m.k))
        h6 == FoldLeft(LAMBDA hh, key : TSet(hh, o, key, m.t[key]), h5, Keyed(m.t))
    IN  IF h.raised THEN h ELSE [h6 EXCEPT !.objs[o].u = @ \o m.u]

AppendCopy(h, o, from) == LET g == CopyFrom(Made(h, o, FALSE), Newest(h) + 1, from)
                          IN ContainerModified([g EXCEPT !.objs[o].r = Append(@, Newest(h) + 1)], o)

(* DiscardUnknownFields of a message and the ones listed in it.            *)
RECURSIVE Discard(_, _)
Discard(h, o) == FoldLeft(Discard, [h EXCEPT !.objs[o].u = <<>>], Measured(h, o))

(* _InternalParse into the objects: what the decoders store, in order.     *)
RECURSIVE ParseInto(_, _, _)
Stored(h, o, e) ==
    CASE h.raised -> h
      [] ~ h.raised /\ e.n = 0 -> [h EXCEPT !.objs[o].u = Append(@, e.v)]
      [] ~ h.raised /\ e.n = 1 -> [h EXCEPT !.objs[o].n = e.v]
      [] ~ h.raised /\ e.n = 2 -> UpdateOneofState([h EXCEPT !.objs[o].a = e.v], o, A)
      [] ~ h.raised /\ e.n = 3 -> LET g == GetB(h, o) IN UpdateOneofState(ParseInto(g, g.objs[o].b, e.v), o, B)
      [] ~ h.raised /\ e.n = 4 -> ParseInto(Add(h, o), Newest(h) + 1, e.v)
      [] ~ h.raised /\ e.n = 6 -> TSet(h, o, e.v[1], e.v[2])
ParseInto(h, o, stores) == FoldLeft(LAMBDA hh, e : Stored(hh, o, e), Modified(h, o), stores)
MergeFromString(h, o, b) == ParseInto(h, o, W!MergeFromString("Node", b).v)

-----------------------------------------------------------------------------
RECURSIVE Reach(_, _)
Reach(h, o) == LET m == h.objs[o]
                   below == ToSet(Elements(h, o)) \cup (IF m.b = Nobody THEN {} ELSE {m.b})
               IN  {o} \cup UNION {Reach(h, c) : c \in below}

RECURSIVE Above(_, _)
Above(h, o) == IF h.objs[o].up = Nobody THEN {o} ELSE {o} \cup Above(h, h.objs[o].up)

(* A member of a oneof that its message has given up, still listened to.   *)
GivenUp(h, o) == LET m == h.objs[o] IN m.asMember /\ h.objs[m.up].b # o

(* _oneofs names a member that is not there.  It is in order again once    *)
(* neither member is there and none is named.                              *)
Astray(m)  == (m.oneof = A /\ m.a = NoValue) \/ (m.oneof = B /\ m.b = Nobody)
Settled(m) == m.oneof = 0 /\ m.a = NoValue /\ m.b = Nobody

Objs == 1..Len(heap)

(* The caller has made one message to work on, and another one, with a     *)
(* repeated message that was set, to copy from.  It may also have cleared  *)
(* a member of the first and then written to it.                           *)
Source == {2, 3}
MInit == /\ LET v == CHOOSE n \in Nums : TRUE
                h == SetN(Add(Of([o \in 1..2 |-> Instance(Nobody, FALSE)]), 2), 3, v)
            IN  heap \in {h.objs, SetN(ClearField(GetB(h, 1), 1, B), 4, v).objs}
         /\ silent = {} /\ misled = {x \in Objs : Astray(heap[x])}
         /\ call = [o |-> 1, reads |-> TRUE, raised |-> FALSE]

Does(name, o, h) == /\ Cardinality({x \in 1..Newest(h) : ~ GivenUp(h, x)}) <= MaxObjs
                    /\ heap' = h.objs
                    /\ call' = [o |-> o, reads |-> name \in {"GetB", "ByteSize", "Serialize"}, raised |-> h.raised]
                    /\ silent' = silent \cup {x \in Objs : /\ name \in {"TItem", "Discard"}
                                                           /\ heap[x].t # h.objs[x].t \/ heap[x].u # h.objs[x].u}
                    /\ misled' = {x \in 1..Newest(h) : Astray(h.objs[x]) \/ (x \in misled /\ ~ Settled(h.objs[x]))}

SetFields(o) == \/ \E v \in Nums \cup {0} : Does("SetN", o, SetN(Of(heap), o, v))
                \/ \E v \in Nums : Does("SetA", o, SetA(Of(heap), o, v))
                \/ Does("GetB", o, GetB(Of(heap), o))
                \/ \E i \in 0..6 : Does("ClearField", o, ClearField(Of(heap), o, i))
                \/ Does("SetInParent", o, Modified(Of(heap), o))
SetElements(o) == \/ Does("Add", o, Add(Of(heap), o))
                  \/ \E i \in DOMAIN heap[o].r : Does("DelItem", o, DelItem(Of(heap), o, i))
                  \/ \E key \in MapKeys : \/ Does("KItem", o, KItem(Of(heap), o, key))
                                          \/ key \in DOMAIN heap[o].k /\ Does("KDel", o, KDel(Of(heap), o, key))
                                          \/ Does("TItem", o, TItem(Of(heap), o, key))
                                          \/ \E v \in Nums : Does("TSet", o, TSet(Of(heap), o, key, v))
Whole(o) == \/ Does("Clear", o, Clear(Of(heap), o))
            \/ Does("ByteSize", o, ByteSize(Of(heap), o))
            \/ Does("Serialize", o, Serialize(Of(heap), o))
            \/ Does("Discard", o, Discard(Of(heap), o))
            \/ \E b \in Buffers : Does("MergeFromString", o, MergeFromString(Of(heap), o, b))
            \/ \E from \in Source : \/ Does("MergeFrom", o, MergeFrom(Of(heap), o, from))
                                    \/ Does("CopyFrom", o, CopyFrom(Of(heap), o, from))
                                    \/ Does("AppendCopy", o, AppendCopy(Of(heap), o, from))

MNext == \E o \in Objs \ Source : SetFields(o) \/ SetElements(o) \/ Whole(o)
MSpec == MInit /\ [][MNext]_mvars

-----------------------------------------------------------------------------
(* Every length written while a message is serialized is that of what      *)
(* follows it, whatever was modified between two calls: what ByteSize()    *)
(* answers for the message and for each message in it, cached or not, is   *)
(* its size.  Messages changed by DiscardUnknownFields or by reading an    *)
(* absent key of a map of scalars are left out, and those they are in:     *)
(* nobody is told of these (python_message.py ByteSize, _Modified).        *)
CachedSizesTrue ==
    \A o \in Objs : Reach(Of(heap), o) \cap silent = {} => Built(Of(heap), o, "cached") = Built(Of(heap), o, "fresh")

(* Setting anything inside a member of a oneof makes it the present one:   *)
(* a message with content is present in its parent and its rival is gone,  *)
(* as long as no member that was given up is written to.  That makes       *)
(* _oneofs name a field that is not there, the next assignment of the      *)
(* rival raises KeyError after it was stored (python_message.py:1474), and *)
(* then both may be present (python_message.py _Listener, _OneofListener). *)
ContentIsPresent ==
    \A o \in Objs \ misled :
        LET c == heap[o].b
        IN  c # Nobody /\ Content(Of(heap), c) # W!Empty /\ Reach(Of(heap), c) \cap silent = {} =>
              heap[c].present /\ heap[o].oneof = B /\ heap[o].a = NoValue

(* A call changes the messages its object is in and those in it, and no    *)
(* other, so that copies share nothing; reading and measuring change none. *)
(* Members given up are left out: to modify one can still evict what its   *)
(* old message holds (python_message.py ClearField, MergeFrom,             *)
(* _UpdateOneofState).                                                     *)
ChangesStayInside ==
    [][\A p \in Objs :
          LET o == call'.o h == Of(heap) g == Of(heap')
          IN  /\ ~ \E x \in Above(h, o) : GivenUp(h, x)
              /\ Reach(h, o) \cap Reach(h, p) = {} \/ call'.reads
              => Content(g, p) = Content(h, p)]_mvars
=============================================================================
