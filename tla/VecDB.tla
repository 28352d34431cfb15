------------------------------- MODULE VecDB -------------------------------
(***************************************************************************)
(* genlayer_embeddings.VecDB: vectors with values, found by nearest        *)
(* neighbour through a tree of nodes kept in storage.                      *)
(*                                                                         *)
(* The two free lists are TreeMaps used as sets (popitem takes the least   *)
(* key); OrderedMap, which TreeMap implements, is all that is used of      *)
(* them.  Indices start at 1 here and 0 stands for NO_PARENT.  Vectors are *)
(* points of a line: only their distances matter, and a distance that      *)
(* overflows the vector's float type is Inf.                               *)
(***************************************************************************)
EXTENDS Integers, Sequences, SequencesExt, FiniteSets, FiniteSetsExt

CONSTANTS Points,     \* vectors, as integers
          FarAt,      \* two points this far apart have an infinite distance
          MaxElems,   \* bound on _keys (2^32 - 1 indices)
          MaxTree     \* bound on _nodes: a node never linked is never freed

ASSUME PointsAssumption == Points \subseteq Int /\ {FarAt, MaxElems, MaxTree} \subseteq Nat

VARIABLES
    points,      \* _keys
    freeIdx,     \* _free_idx
    nodes,       \* _nodes
    freeNodes,   \* _free_nodes
    rootIdx,     \* _root_idx
    maxLevel,    \* _max_level
    lost         \* history: live elements whose insertion did not link them

dbvars == <<points, freeIdx, nodes, freeNodes, rootIdx, maxLevel, lost>>

NoParent == 0
Inf      == 1000000
Live     == DOMAIN points \ freeIdx

DBInit == /\ points = <<>> /\ freeIdx = {} /\ nodes = <<>> /\ freeNodes = {}
          /\ rootIdx = NoParent /\ maxLevel = 0 /\ lost = {}

(* EuclideanDistanceSquared, in a float type that overflows.               *)
Distance(p, q) == LET d == IF p > q THEN p - q ELSE q - p IN
                  IF d >= FarAt THEN Inf ELSE d * d

(* int(log(d) / log(1.3)) for d >= 1: the powers of 1.3, rounded up.       *)
Powers      == <<2, 2, 3, 3, 4, 5, 7, 9, 11, 14, 18, 24, 31, 40, 52, 67, 87>>
LogLevel(d) == Cardinality({n \in DOMAIN Powers : Powers[n] <= d})

(* CoverTreeNode(element_id, level): a fresh node has no children and the  *)
(* zero of storage, the first node, as its parent.                         *)
NewNode(e, l) == [element |-> e, level |-> l, children |-> <<>>, parent |-> 1]

-----------------------------------------------------------------------------
(* The nodes reached from the root, skipping what is under a freed node:   *)
(* the traversal of _find_node_by_id and knn.                              *)
Reached ==
    LET below[d \in 0..Len(nodes), s \in SUBSET DOMAIN nodes] ==
            IF d = 0 \/ s = {} THEN {}
            ELSE s \cup below[d - 1, UNION {ToSet(nodes[n].children) : n \in s} \ freeNodes]
    IN  IF rootIdx = NoParent THEN {}
        ELSE below[Len(nodes), {rootIdx} \ freeNodes]

(* _find_node_by_id                                                        *)
FindNodeById(e) ==
    LET found == {n \in Reached : nodes[n].element = e} IN
    IF found = {} THEN NoParent ELSE CHOOSE n \in found : TRUE

(* _find_nodes_at_level: down from the root through higher levels only.    *)
FindNodesAtLevel(ns, target) ==
    LET below[d \in 0..Len(ns), s \in SUBSET DOMAIN ns] ==
            IF d = 0 \/ s = {} THEN {}
            ELSE s \cup below[d - 1, UNION {ToSet(ns[n].children) :
                                            n \in {m \in s : ns[m].level > target}}]
    IN  IF rootIdx = NoParent THEN {}
        ELSE {n \in below[Len(ns), {rootIdx}] : ns[n].level = target}

(* _allocate_node: the node, the free nodes left, and the nodes.           *)
AllocateNode(e, l) ==
    IF freeNodes # {}
    THEN LET n == Min(freeNodes) IN
         [idx |-> n, free |-> freeNodes \ {n}, nodes |-> [nodes EXCEPT ![n] = NewNode(e, l)]]
    ELSE [idx |-> Len(nodes) + 1, free |-> {}, nodes |-> Append(nodes, NewNode(e, l))]

(* The candidates _insert_node_at_level may choose as the parent of a new  *)
(* node: the nearest ones, none when every distance is infinite.  Among    *)
(* equally near ones the traversal order decides.                          *)
BestParents(ns, e, level, pts) ==
    LET atLevel == FindNodesAtLevel(ns, level + 1)
        all     == IF atLevel = {} THEN {rootIdx} ELSE atLevel
        dist(n) == Distance(pts[ns[n].element], pts[e])
        finite  == {n \in all : dist(n) < Inf}
    IN  {n \in finite : \A m \in finite : dist(n) <= dist(m)}

(* insert, once the vector is stored at index e of pts: link it into the   *)
(* tree.  An infinite nearest distance makes int(log(...)) raise, and the  *)
(* vector stays stored; a node that finds no parent is never reached.      *)
InsertIntoTree(e, pts, others) ==
    LET near  == Min({Inf} \cup {Distance(pts[e], pts[o]) : o \in others})
        level == IF near = 0 THEN 0 ELSE Min({maxLevel, LogLevel(near)})
        a     == AllocateNode(e, IF rootIdx = NoParent THEN 0 ELSE level)
        put   == a.idx <= MaxTree /\ freeNodes' = a.free /\ points' = pts
    IN  CASE rootIdx = NoParent ->
               /\ put /\ nodes' = [a.nodes EXCEPT ![a.idx].parent = NoParent]
               /\ rootIdx' = a.idx /\ maxLevel' = 0 /\ lost' = lost \ {e}
          [] rootIdx # NoParent /\ near = Inf ->
               /\ points' = pts /\ lost' = lost \cup {e}
               /\ UNCHANGED <<nodes, freeNodes, rootIdx, maxLevel>>
          [] OTHER ->
               LET best == BestParents(a.nodes, e, level, pts) IN
               /\ put /\ UNCHANGED <<rootIdx, maxLevel>>
               /\ IF best = {}
                  THEN nodes' = a.nodes /\ lost' = lost \cup {e}
                  ELSE /\ \E p \in best :
                            nodes' = [a.nodes EXCEPT
                                        ![a.idx].parent = p,
                                        ![p].children = Append(@, a.idx)]
                       /\ lost' = lost \ {e}

(* insert: a freed index is taken again, the least one first.              *)
Insert(p) ==
    IF freeIdx # {}
    THEN LET e == Min(freeIdx) IN
         /\ freeIdx' = freeIdx \ {e}
         /\ InsertIntoTree(e, [points EXCEPT ![e] = p], Live)
    ELSE /\ Len(points) < MaxElems
         /\ InsertIntoTree(Len(points) + 1, Append(points, p), Live)
         /\ UNCHANGED freeIdx

\* Mutant: the children that stay behind keep their old parent.
ReattachChildrenOnly(ns, s, p) ==
    [ns EXCEPT ![p].children = @ \o s]

(* Give the nodes of s, in order, to the parent p.                         *)
Reattach(ns, s, p) ==
    [n \in DOMAIN ns |->
        IF n \in ToSet(s) THEN [ns[n] EXCEPT !.parent = p]
        ELSE IF n = p THEN [ns[n] EXCEPT !.children = @ \o s] ELSE ns[n]]

(* The child that takes the place of a removed root: the first of the      *)
(* highest level.                                                          *)
PromotedChild(s) ==
    LET top == Max({nodes[n].level : n \in ToSet(s)}) IN
    s[Min({i \in DOMAIN s : nodes[s[i]].level = top})]

(* _remove_from_tree                                                       *)
RemoveFromTree(e) ==
    LET n    == FindNodeById(e)
        p    == nodes[n].parent
        kids == nodes[n].children
        best == PromotedChild(kids)
        rest == SelectSeq(kids, LAMBDA c : c # best)
    IN  IF n = NoParent
        THEN UNCHANGED <<nodes, freeNodes, rootIdx, maxLevel>>
        ELSE /\ freeNodes' = freeNodes \cup {n}
             /\ IF p # NoParent
                THEN /\ nodes' = Reattach([nodes EXCEPT ![p].children = Remove(@, n)], kids, p)
                     /\ UNCHANGED <<rootIdx, maxLevel>>
                ELSE IF kids # <<>>
                THEN /\ nodes' = Reattach([nodes EXCEPT ![best].parent = NoParent], rest, best)
                     /\ rootIdx' = best /\ UNCHANGED maxLevel
                ELSE rootIdx' = NoParent /\ maxLevel' = 0 /\ UNCHANGED nodes

(* VecDBElement.remove, by a handle that insert, knn, get_by_id or         *)
(* iteration gave out: the element may have been removed before.           *)
RemoveElement(e) ==
    /\ RemoveFromTree(e)
    /\ freeIdx' = freeIdx \cup {e}
    /\ lost' = lost \ {e}
    /\ UNCHANGED points

DBNext == \/ \E p \in Points : Insert(p)
          \/ \E e \in DOMAIN points : RemoveElement(e)

DBSpec == DBInit /\ [][DBNext]_dbvars

-----------------------------------------------------------------------------
(* The elements knn considers for a query at q, with the nodes that hold   *)
(* them; it sorts them by distance and yields the first k.                 *)
KnnCandidates(q) ==
    {n \in Reached : /\ nodes[n].element \notin freeIdx
                     /\ Distance(points[nodes[n].element], q) < Inf}

(* knn finds every stored vector at a finite distance exactly once, except *)
(* those whose own insertion met only infinite distances, however many     *)
(* insertions, removals (also repeated ones), promotions of a root's       *)
(* children and reuses of freed indices came before.                       *)
KnnComplete ==
    \A q \in Points :
        LET found == KnnCandidates(q) IN
        /\ {nodes[n].element : n \in found} =
               {e \in Live \ lost : Distance(points[e], q) < Inf}
        /\ \A m, n \in found : nodes[m].element = nodes[n].element => m = n

(* The index is a tree: parents and children name each other, no node      *)
(* is reached twice or freed while reached, and the root has no parent.    *)
CoverTree ==
    LET reached == Reached IN
    /\ rootIdx # NoParent => nodes[rootIdx].parent = NoParent /\ rootIdx \notin freeNodes
    /\ \A n \in reached :
         /\ IsInjective(nodes[n].children)
         /\ \A c \in ToSet(nodes[n].children) : c \in reached /\ nodes[c].parent = n
         /\ n # rootIdx => /\ nodes[n].parent \in reached
                           /\ Contains(nodes[nodes[n].parent].children, n)
=============================================================================
