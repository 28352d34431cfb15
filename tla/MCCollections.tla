--------------------------- MODULE MCCollections ---------------------------
(***************************************************************************)
(* TLC instance of the libraries and tools written in Python.  A behaviour works on  *)
(* one subject with a bounded number of calls: a TreeMap, a VecDB, the     *)
(* typed storage under both, protobuf messages, the registry of their      *)
(* types, one input of a pure algorithm, a test run, or an installation.   *)
(* The variables of the others stay put.                                   *)
(***************************************************************************)
EXTENDS MCCodecs, MCTools, TreeMap, VecDB, PyStorage, FiniteSetsExt

CONSTANTS SmallKeys,       \* keys in play from the empty map
          SmallCalls,      \* bounds: calls from the empty map,
          MaxNodes,        \* nodes of the trees of height at most 4,
          DBCalls,         \* calls on a VecDB,
          HeapCalls,       \* on typed storage,
          MessageCalls,    \* on protobuf messages, less one from a misled one,
          PoolCalls        \* and on the registry of types

VARIABLES subject,
          scope,           \* keys in play
          budget           \* calls left
VARIABLES pool, answer
VARIABLES heap, silent, misled, call

-----------------------------------------------------------------------------
(* Where the checked behaviours of TreeMap start.  Two families: from the  *)
(* empty map, a few keys and SmallCalls calls, for the slots and the free  *)
(* list; and from every AVL tree of height <= 4 and MaxNodes nodes and the *)
(* sparsest ones of height 5 (12 nodes), one call, for the rebalancing.    *)
(* Inserting the nodes of such a tree level by level never rebalances, so  *)
(* it is a tree the program reaches, its cells numbered level by level.    *)
(* Shapes as sets of heap positions: 1 is the root, 2i and 2i + 1 the      *)
(* children of i.                                                          *)
Top2(i) == CHOOSE p \in {1, 2, 4, 8, 16} : p <= i /\ i < 2 * p
Join(l, r) == {1} \cup {i + Top2(i) : i \in l} \cup {i + 2 * Top2(i) : i \in r}

Avl[h \in 0..4] ==
    IF h = 0 THEN {{}}
    ELSE IF h = 1 THEN {{1}}
    ELSE {Join(l, r) : l \in Avl[h - 1], r \in Avl[h - 1]}
         \cup {Join(l, r) : l \in Avl[h - 1], r \in Avl[h - 2]}
         \cup {Join(l, r) : l \in Avl[h - 2], r \in Avl[h - 1]}

Sparse ==
    LET hi == {s \in Avl[4] : Cardinality(s) = 7}
        lo == {s \in Avl[3] : Cardinality(s) = 4}
    IN  {Join(l, r) : l \in hi, r \in lo} \cup {Join(l, r) : l \in lo, r \in hi}

Shapes == {s \in Avl[2] \cup Avl[3] \cup Avl[4] : Cardinality(s) <= MaxNodes} \cup Sparse

(* Position in symmetric order, and height below a position.               *)
InOrderPos(i) == LET p == Top2(i) IN (2 * (i - p) + 1) * (32 \div p)
Deep[h \in 0..5, i \in 1..63, s \in Shapes] ==
    IF h = 0 \/ i \notin s THEN 0
    ELSE LET l == Deep[h - 1, 2 * i, s]
             r == Deep[h - 1, 2 * i + 1, s]
         IN  1 + IF l > r THEN l ELSE r

(* The cells after the nodes of shape s were inserted level by level.      *)
Grown(s) ==
    LET ref(i) == IF i \in s THEN Cardinality({j \in s : j <= i}) ELSE 0
        pos(n) == CHOOSE i \in s : ref(i) = n
    IN  [n \in Refs |->
            IF n > Cardinality(s) THEN Blank
            ELSE LET i == pos(n) IN
                 [key |-> 2 * Cardinality({j \in s : InOrderPos(j) <= InOrderPos(i)}),
                  value |-> Default, left |-> ref(2 * i), right |-> ref(2 * i + 1),
                  balance |-> Deep[5, 2 * i + 1, s] - Deep[5, 2 * i, s]]]

TreeStart ==
    /\ free = <<>> /\ pc = "idle" /\ seq = <<>> /\ special = "no"
    /\ last = Call("clear", 0, 0, Absent)
    /\ \/ /\ root = 0 /\ nslots = 0 /\ cells = [i \in Refs |-> Blank]
          /\ scope = SmallKeys /\ budget = SmallCalls
       \/ \E s \in Shapes :
            /\ root = 1 /\ nslots = Cardinality(s) /\ cells = Grown(s)
            /\ scope = 1..(2 * Cardinality(s) + 1) /\ budget = 1

-----------------------------------------------------------------------------
(* Files: two of one name, imports public and not, a name in two files,    *)
(* extensions with one number, a file without a package, and a cycle.      *)
ProtoRef(abs, path) == [abs |-> abs, path |-> path]
Untyped  == ProtoRef(FALSE, <<>>)
Local(n) == ProtoRef(FALSE, <<n>>)
Field(type) == [name |-> "f", type |-> type]
EnumOf(name, value) == [name |-> name, values |-> <<value>>]
Ext(name, number, type) == [name |-> name, extendee |-> Local("M"), number |-> number, type |-> type]
Message(name, nested, enums, fields, exts) ==
    [name |-> name, nested |-> nested, enums |-> enums, fields |-> fields, extensions |-> exts]
Bare(name, fields) == Message(name, <<>>, <<>>, fields, <<>>)
ProtoFile(name, package, deps, public, messages, enums, extensions, services) ==
    [name |-> name, package |-> package, deps |-> deps, public |-> public, messages |-> messages,
     enums |-> enums, extensions |-> extensions, services |-> services]
MCProtos ==
    {ProtoFile("a", <<"p">>, <<>>, {},
               <<Message("M", <<Bare("N", <<Field(Untyped)>>)>>, <<EnumOf("G", "H")>>, <<Field(Local("N"))>>, <<>>)>>,
               <<EnumOf("E", "V")>>, <<>>, <<>>),
     ProtoFile("a", <<"p">>, <<>>, {}, <<Bare("M", <<Field(ProtoRef(TRUE, <<"p", "Q">>))>>)>>, <<>>, <<>>, <<>>),
     ProtoFile("b", <<"p">>, <<"a">>, {"a"},
               <<Message("Q", <<>>, <<>>, <<Field(ProtoRef(TRUE, <<"p", "M">>))>>, <<Ext("z", 2, Untyped)>>)>>, <<>>,
               <<Ext("x", 1, Untyped)>>, <<>>),
     ProtoFile("c", <<"p", "q">>, <<"b">>, {}, <<>>, <<>>, <<Ext("y", 1, Local("Q"))>>,
               <<[name |-> "S", types |-> <<Local("M"), Local("Q")>>]>>),
     ProtoFile("d", <<"p">>, <<>>, {}, <<Bare("K", <<Field(Untyped)>>), Bare("M", <<>>)>>, <<>>, <<>>, <<>>),
     ProtoFile("r", <<>>, <<"u">>, {}, <<Bare("V", <<>>)>>, <<EnumOf("R", "W")>>, <<>>, <<>>),
     ProtoFile("w", <<>>, <<"u">>, {}, <<>>, <<>>, <<>>, <<>>)}
MCFallback == <<ProtoFile("u", <<"p">>, <<"w">>, {}, <<>>, <<EnumOf("V", "U")>>, <<>>, <<>>)>>
DP == INSTANCE DescriptorPool WITH Protos <- MCProtos, Fallback <- MCFallback

PoolIdle == pool = <<>> /\ answer = ""
tvars    == <<pool, answer>>
toolvars == <<rvars, ivars>>

-----------------------------------------------------------------------------
(* Messages to parse: a, then b; an unknown field, then t; an empty r.     *)
Buffers == {<<8, 2, 1, 10, 3, 3, 8, 1, 1>>, <<8, 7, 1, 10, 6, 6, 8, 1, 1, 8, 2, 1>>, <<10, 4, 0>>}
PM == INSTANCE ProtoMessage WITH Group <- 3, Wide <- 8, Narrow <- 4, Nums <- {1}, MapKeys <- {1}, MaxObjs <- 4

pvars   == <<heap, silent, misled, call>>
allvars == <<vars, dbvars, svars, pvars, tvars, toolvars, scope, budget, subject, input>>

Pair   == Record(<<Num(1), Str>>)
Blob   == IndirectTo(VLAOf(Num(1)))
MCLayouts == {Record(<<DynArrayOf(DynArrayOf(Num(1))), Num(1)>>),
              Record(<<None, DynArrayOf(Pair), Num(1)>>),
              Record(<<Blob, Blob, ArrayOf(Str, 2)>>)}

TreeIdle == /\ free = <<>> /\ pc = "idle" /\ seq = <<>> /\ special = "no"
            /\ last = Call("clear", 0, 0, Absent) /\ root = 0 /\ nslots = 0
            /\ cells = [i \in Refs |-> Blank] /\ scope = {}
HeapIdle == layout = None /\ mem = <<>> /\ op = [name |-> "none", path |-> <<>>, arg |-> 0]
MessagesIdle == heap = <<>> /\ silent = {} /\ misled = {} /\ call = [o |-> 0, reads |-> TRUE, raised |-> FALSE]

Calls == [db |-> DBCalls, heap |-> HeapCalls, proto |-> MessageCalls, pool |-> PoolCalls,
          codec |-> 0, runner |-> 0, install |-> 0]

MCInit == /\ subject \in {"tree"} \cup DOMAIN Calls
          /\ IF subject = "proto" THEN PM!MInit ELSE MessagesIdle
          /\ IF subject = "tree" THEN TreeStart ELSE TreeIdle /\ budget = Calls[subject] - Cardinality(misled)
          /\ DBInit
          /\ IF subject = "heap" THEN HeapInit ELSE HeapIdle
          /\ IF subject = "pool" THEN DP!PoolInit ELSE PoolIdle
          /\ IF subject = "runner" THEN RunnerInit ELSE RunnerIdle
          /\ IF subject = "install" THEN InstallInit ELSE InstallIdle
          /\ IF subject = "codec" THEN CodecInit ELSE input = Idle

Called == budget > 0 /\ budget' = budget - 1

TreeStep    == /\ subject = "tree"
               /\ \/ pc = "idle" /\ Called /\ ((\E k \in scope : KeyCall(k)) \/ Clear)
                  \/ pc # "idle" /\ UNCHANGED budget /\ Rebalance
               /\ UNCHANGED <<dbvars, svars, pvars, tvars, toolvars, scope, subject, input>>
DBStep      == subject = "db" /\ Called /\ DBNext /\ UNCHANGED <<vars, svars, pvars, tvars, toolvars, scope, subject, input>>
HeapStep    == subject = "heap" /\ Called /\ HeapNext /\ UNCHANGED <<vars, dbvars, pvars, tvars, toolvars, scope, subject, input>>
ProtoStep   == subject = "proto" /\ Called /\ PM!MNext /\ UNCHANGED <<vars, dbvars, svars, tvars, toolvars, scope, subject, input>>
PoolStep    == subject = "pool" /\ Called /\ DP!PoolNext /\ UNCHANGED <<vars, dbvars, svars, pvars, toolvars, scope, subject, input>>
RunnerStep  == subject = "runner" /\ RunnerNext /\ UNCHANGED <<vars, dbvars, svars, pvars, tvars, ivars, scope, budget, subject, input>>
InstallStep == subject = "install" /\ InstallNext /\ UNCHANGED <<vars, dbvars, svars, pvars, tvars, rvars, scope, budget, subject, input>>
Spent       == (pc = "raised" \/ (pc = "idle" /\ budget = 0)) /\ ToolsEnded /\ UNCHANGED allvars

MCNext == TreeStep \/ DBStep \/ HeapStep \/ ProtoStep \/ PoolStep \/ RunnerStep \/ InstallStep \/ Spent
MCSpec == MCInit /\ [][MCNext]_allvars

-----------------------------------------------------------------------------
(* Between calls a TreeMap is a search tree, balanced as its nodes say,    *)
(* and every slot is in the tree or in the list of free ones, once         *)
(* (tree_map.py; TreeMap.tla has the parts).                               *)
TreeSound == subject = "tree" => SearchTree /\ AvlBalanced /\ SlotsAccounted

(* The cover tree of a VecDB keeps its invariants under every insertion    *)
(* and removal, and a search finds the nearest elements (vecdb.py;         *)
(* VecDB.tla has the parts).                                               *)
IndexSound == subject = "db" => CoverTree /\ KnnComplete

(* Two encodings one after the other parse to the merge of the messages,   *)
(* whatever the order fields come in, and what was parsed is encoded to    *)
(* octets that parse the same (decoder.py, encoder.py, python_message.py;  *)
(* MCCodecs.tla has the parts).                                            *)
WireFaithful == ConcatenationMerges /\ ParseStable

(* The well-known types convert without losing or inventing anything:      *)
(* masks, times, containers of values, and JSON (field_mask.py,            *)
(* well_known_types.py, json_format.py; MCWellKnown.tla has the parts).    *)
WellKnownSound == MasksSound /\ TimesExact /\ StructsLikeDicts /\ JsonFaithful

(* A contract is called and announces what happened as its class says:     *)
(* methods by its schema, events by their fields (_genlayer_runner.py,     *)
(* get_schema.py, event.py; MCCodecs.tla has the parts).                   *)
InterfaceSound == DispatchMatchesSchema /\ EventsFaithful

(* However messages are nested, shared and modified, a cached size is the  *)
(* size, and a member of a oneof with content is the present one           *)
(* (python_message.py, containers.py; ProtoMessage.tla has the parts).     *)
MessagesConsistent == subject = "proto" => PM!CachedSizesTrue /\ PM!ContentIsPresent

(* Messages do not change each other, nor when read (ProtoMessage.tla).    *)
ChangesStayInside == PM!ChangesStayInside

(* A file of the pool stands whatever failed around it, and a class knows  *)
(* the extensions of its message (descriptor_pool.py, message_factory.py;  *)
(* DescriptorPool.tla has the parts).                                      *)
PoolSound == subject = "pool" => DP!FilesStand /\ DP!ClassesComplete

(* What is written for the tools means what it says: the optimiser of      *)
(* steps changes no result, a filter of tags selects what its operators    *)
(* say, and a document of the installer is read back as it was written     *)
(* (step.py, filter.py, micro_yaml.py; MCCodecs.tla has the parts).        *)
FilesAsWritten == OptimizedRunsAlike /\ TagsAsWritten /\ YamlAsWritten
=============================================================================
