----------------------------- MODULE OrderedMap -----------------------------
(***************************************************************************)
(* What genlayer.py.storage.TreeMap promises: a finite map from keys to    *)
(* values (collections.abc.MutableMapping).  Nothing is said of nodes,     *)
(* slots or balance.  TreeMap.tla implements it.                           *)
(***************************************************************************)
EXTENDS Integers

CONSTANTS Keys, Values

VARIABLE dict       \* the map: a function from the present keys to values

Put(k, v) == LET d == dict IN [x \in DOMAIN d \cup {k} |-> IF x = k THEN v ELSE d[x]]

Init == dict = <<>>

(* m[k] = v stores v whether or not k is present.                          *)
SetItem(k, v) == dict' = Put(k, v)

(* Both conditional inserts leave a present key alone.  compute_if_absent  *)
(* stores v, which its supplier gave; get_or_insert_default stores the     *)
(* value v that it answers, and any value of the type may be that: a       *)
(* reused slot keeps what the deleted node left there.                     *)
InsertIfAbsent(k, v) == dict' = IF k \in DOMAIN dict THEN dict ELSE Put(k, v)

DelItem(k) == /\ k \in DOMAIN dict
              /\ dict' = LET d == dict IN [x \in DOMAIN d \ {k} |-> d[x]]

Clear == dict' = <<>>

Next == \/ \E k \in Keys, v \in Values : SetItem(k, v) \/ InsertIfAbsent(k, v)
        \/ \E k \in Keys : DelItem(k)
        \/ Clear

Spec == Init /\ [][Next]_dict
=============================================================================
