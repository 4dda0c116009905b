----------------------------- MODULE AgentScene -----------------------------
(***************************************************************************)
(* The scene an agent works on: the node hierarchy of kyoso_graph (tree.rs *)
(* and the change detection of lib.rs), and the handles kyoso_agent gives  *)
(* out for its nodes (apps/kyoso_agent/src/handle.rs).                     *)
(*                                                                         *)
(* Nodes are entities: numbers that are never used twice, compared by      *)
(* number where the code compares entities.  An OrderKey is a positive     *)
(* number, 0 for none.  Edges, and the messages about them, give no row to *)
(* the agent and are left out.                                             *)
(***************************************************************************)
EXTENDS Integers, FiniteSets, Sequences, SequencesExt, Maps

CONSTANTS Node,
          None,
          Name,     \* the display name of each node, None for a rectangle
          Key       \* the order keys in use; 1 is the default "a"

ASSUME SceneAssumption ==
    /\ Node \subseteq Nat \ {0} /\ IsFiniteSet(Node) /\ None \notin Node
    /\ Key \subseteq Nat \ {0} /\ 1 \in Key

VARIABLES
    born,       \* bound: the entities spawned so far
    live,       \* the entities with SceneNode
    parent,     \* ChildOf, None for a root
    key,        \* OrderKey, 0 for none
    added,      \* Added<SceneNode>, not yet detected
    removed,    \* RemovedComponents<SceneNode>, not yet read
    moved,      \* Changed<ChildOf> or Changed<OrderKey>, not yet detected
    captured,   \* RemovedPaths
    went        \* history: of each node despawned, the labels up to its root as the
                \* despawn began, and the node that was despawned

tree == <<born, live, parent, key>>
pending == <<added, removed, moved>>
scene == <<tree, pending, captured, went>>

SceneInit ==
    /\ born = {} /\ live = {}
    /\ parent = [n \in Node |-> None] /\ key = [n \in Node |-> 0]
    /\ added = {} /\ removed = {} /\ moved = {} /\ captured = EmptyMap /\ went = EmptyMap

-----------------------------------------------------------------------------
\* n's ancestors: k steps up from n.
Up(n) == LET up[k \in 0..Cardinality(Node)] ==
                 IF k = 0 THEN n
                 ELSE IF up[k - 1] = None THEN None ELSE parent[up[k - 1]]
         IN  up

\* The walk from n to its root does not end.
Looping(n) == Up(n)[Cardinality(Node)] # None

\* despawn takes the children along.
Below(n) == {m \in live : \E k \in DOMAIN Up(m) : Up(m)[k] = n}

\* world.spawn, then ChildOf and OrderKey where they are given.
Spawn(n, p, k) ==
    /\ n \notin born
    /\ born' = born \cup {n} /\ live' = live \cup {n}
    /\ parent' = [parent EXCEPT ![n] = p] /\ key' = [key EXCEPT ![n] = k]
    /\ added' = added \cup {n}
    /\ moved' = IF p # None \/ k # 0 THEN moved \cup {n} ELSE moved
    /\ UNCHANGED <<removed, captured, went>>

\* What a captured path says of a node: no sibling is looked at, and the index
\* is always 0; without a key the key is empty.
label(n) == IF Name[n] # None THEN [name |-> Name[n], index |-> 0]
            ELSE [name |-> None, index |-> key[n]]

\* capture_removal_path: the labels from n up, as far as the nodes are there.
capture_removal_path(n, there) ==
    LET chain == {k \in DOMAIN Up(n) : \A i \in 1..k : Up(n)[i] \in there}
        length == Cardinality(chain)
    IN  [k \in 1..length |-> label(Up(n)[length - k])]

\* Mutant: a child goes before its parent.
LeftWithout(n, m) == live

\* The despawn of a child is queued by that of its parent, which is gone then.
LeftFor(n, m) == IF m = n THEN live ELSE live \ {parent[m]}

\* world.despawn: capture_removal_path sees every entity that goes, before it
\* goes itself.
Despawn(n) ==
    /\ live' = live \ Below(n)
    /\ parent' = [m \in Node |-> IF m \in Below(n) THEN None ELSE parent[m]]
    /\ key' = [m \in Node |-> IF m \in Below(n) THEN 0 ELSE key[m]]
    /\ added' = added \ Below(n) /\ moved' = moved \ Below(n)
    /\ removed' = removed \cup Below(n)
    /\ captured' = PutAll(captured, [m \in Below(n) |-> capture_removal_path(m, LeftFor(n, m))])
    /\ went' = PutAll(went, [m \in Below(n) |-> [path |-> capture_removal_path(m, live), by |-> n]])
    /\ UNCHANGED born

\* ChildOf and OrderKey inserted: InsertChild, Reparent, move_node.  Bevy
\* takes a ChildOf that points at its own entity off again; nothing looks
\* for a longer cycle.
Place(n, p, k) ==
    /\ parent' = [parent EXCEPT ![n] = IF p = n THEN None ELSE p]
    /\ key' = [key EXCEPT ![n] = k]
    /\ moved' = moved \cup {n}
    /\ UNCHANGED <<born, live, added, removed, captured, went>>

-----------------------------------------------------------------------------
\* What a frame's change detection writes: the nodes added, then the nodes
\* removed, then the nodes moved, each in the order of its query.
Said(kind, nodes) == {[i \in DOMAIN s |-> [kind |-> kind, node |-> s[i]]] : s \in SetToSeqs(nodes)}

Messages ==
    {a \o r \o m : a \in Said("Added", added \cap live),
                   r \in Said("Removed", removed),
                   m \in Said("Moved", {n \in moved : key[n] # 0})}

-----------------------------------------------------------------------------
\* children_of: the children of p, or the roots.
ChildrenOf(p) == {n \in live : parent[n] = p}

\* Mutant: siblings of one key are not told apart.
SortedByKey(m, n) == key[m] < key[n]

\* Siblings sort by OrderKey, and by entity where the keys are equal.
Sorted(m, n) == key[m] < key[n] \/ (key[m] = key[n] /\ m < n)

same_name_index(n) ==
    Cardinality({m \in ChildrenOf(parent[n]) : Name[m] = Name[n] /\ Sorted(m, n)})

\* part_for_child: the name and its index, or the key, or nothing.
part_for_child(n) ==
    IF Name[n] # None THEN [name |-> Name[n], index |-> same_name_index(n)]
    ELSE [name |-> None, index |-> key[n]]

HasPart(n) == Name[n] # None \/ key[n] # 0

\* path_for: the parts from the root down to n.
Depth(n) == CHOOSE k \in DOMAIN Up(n) : Up(n)[k] # None /\ parent[Up(n)[k]] = None

HasPath(n) == ~ Looping(n) /\ \A k \in 0..Depth(n) : HasPart(Up(n)[k])

path_for(n) == [k \in 1..(Depth(n) + 1) |-> part_for_child(Up(n)[Depth(n) + 1 - k])]

\* find_named_child and find_ordered_child.  The first child with a key is the
\* first in the order Bevy keeps children in, which is not modelled: it may be
\* any of them.
Find(p, part) ==
    {n \in ChildrenOf(p) :
        IF part.name = None THEN key[n] = part.index
        ELSE Name[n] = part.name /\ same_name_index(n) = part.index}

\* resolve_path: the entities the path may lead to.
resolve_path(path) ==
    FoldLeft(LAMBDA found, part : UNION {Find(p, part) : p \in found}, {None}, path)
=============================================================================
