--------------------------- MODULE GraphTopology ---------------------------
(***************************************************************************)
(* The structural half of the replicated graph: nodes arranged in a tree   *)
(* and reference edges between them, as kept by GraphTopology in           *)
(* crates/kyoso_graph_crdt/src/topology.rs.  A topology is a value; each   *)
(* operator below is one method or one arm of apply_structural_op.         *)
(*                                                                         *)
(* Abstracted: edge categories (carried, never read by apply), the content *)
(* of order keys (members of OrderKey), and pending_moves, which only      *)
(* tells the local ECS layer what it has in flight.                        *)
(***************************************************************************)
EXTENDS Maps

CONSTANTS CrdtId,     \* identities of nodes, edges and operations
          OrderKey,   \* sibling positions
          None        \* the Rust None

ASSUME NoneAssumption == None \notin CrdtId /\ None \notin OrderKey

-----------------------------------------------------------------------------
\* What a topology holds (topology.rs: GraphTopology, NodeStructure,
\* EdgeStructure).  Entries are added under fresh ids and never removed,
\* except by restore, which replaces everything.
NodeStructure == [tombstoned  : BOOLEAN,
                  order_key   : OrderKey \cup {None},
                  tree_parent : CrdtId \cup {None}]

EdgeStructure == [from : CrdtId, to : CrdtId, tombstoned : BOOLEAN]

IsTopology(t) ==
    /\ t = [nodes |-> t.nodes, edges |-> t.edges]
    /\ DOMAIN t.nodes \subseteq CrdtId /\ t.nodes \in [DOMAIN t.nodes -> NodeStructure]
    /\ DOMAIN t.edges \subseteq CrdtId /\ t.edges \in [DOMAIN t.edges -> EdgeStructure]

EmptyTopology == [nodes |-> EmptyMap, edges |-> EmptyMap]

-----------------------------------------------------------------------------
\* Reads.  Everything a reader sees goes through the liveness filter.
is_live_node(t, id) == id \in DOMAIN t.nodes /\ ~ t.nodes[id].tombstoned
is_live_edge(t, id) == id \in DOMAIN t.edges /\ ~ t.edges[id].tombstoned

LiveNodes(t) == {i \in DOMAIN t.nodes : ~ t.nodes[i].tombstoned}
LiveEdges(t) == {i \in DOMAIN t.edges : ~ t.edges[i].tombstoned}

\* A tombstoned node has no parent as far as readers are concerned.
tree_parent(t, id) ==
    IF is_live_node(t, id) THEN t.nodes[id].tree_parent ELSE None

\* S contains everything the upward walk visits once it is inside S.
ClosedUpward(t, S) == \A i \in S : tree_parent(t, i) \in S \cup {None}

\* The loop of would_create_cycle climbs from proposed_parent and asks
\* whether it meets target.  The ids it can meet are the least set that holds
\* proposed_parent and is closed upward, so it misses target exactly when
\* some such set does.
would_create_cycle(t, target, proposed_parent) ==
    \A S \in SUBSET CrdtId :
        proposed_parent \in S /\ ClosedUpward(t, S) => target \in S

-----------------------------------------------------------------------------
\* The arms of apply_structural_op.
AddNode(t, id) ==
    IF id \in DOMAIN t.nodes THEN t
    ELSE [t EXCEPT !.nodes = Put(@, id, [tombstoned  |-> FALSE,
                                         order_key   |-> None,
                                         tree_parent |-> None])]

\* Tombstone the node and, in the same step, every edge at it.
RemoveNode(t, target) ==
    IF target \notin DOMAIN t.nodes THEN t
    ELSE [nodes |-> [t.nodes EXCEPT ![target].tombstoned = TRUE],
          edges |-> [e \in DOMAIN t.edges |->
                       [t.edges[e] EXCEPT !.tombstoned =
                           @ \/ target \in {t.edges[e].from, t.edges[e].to}]]]

\* Mutant: the edge arrives live whatever became of its ends.
AddRefEdgeUnchecked(t, id, from, to) ==
    [t EXCEPT !.edges = Put(@, id, [from |-> from, to |-> to, tombstoned |-> FALSE])]

\* An edge to a node that is gone arrives already tombstoned.
AddRefEdge(t, id, from, to) ==
    [t EXCEPT !.edges =
        Put(@, id, [from |-> from, to |-> to,
                    tombstoned |-> ~ (is_live_node(t, from) /\ is_live_node(t, to))])]

RemoveRefEdge(t, target) ==
    IF target \notin DOMAIN t.edges THEN t
    ELSE [t EXCEPT !.edges[target].tombstoned = TRUE]

\* Mutant: no cycle check.
MoveUnchecked(t, target, new_parent, position) ==
    IF target \notin DOMAIN t.nodes THEN t
    ELSE [t EXCEPT !.nodes[target].tree_parent = new_parent,
                   !.nodes[target].order_key   = position]

\* Mutant: the record is rewritten whole, its tombstone with it.
MoveRewrites(t, target, new_parent, position) ==
    IF \/ new_parent # None /\ would_create_cycle(t, target, new_parent)
       \/ target \notin DOMAIN t.nodes
    THEN t
    ELSE [t EXCEPT !.nodes[target] = [tombstoned  |-> FALSE,
                                      order_key   |-> position,
                                      tree_parent |-> new_parent]]

\* Reparent and reorder in one step, or not at all when it would close a cycle.
Move(t, target, new_parent, position) ==
    IF \/ new_parent # None /\ would_create_cycle(t, target, new_parent)
       \/ target \notin DOMAIN t.nodes
    THEN t
    ELSE [t EXCEPT !.nodes[target].tree_parent = new_parent,
                   !.nodes[target].order_key   = position]

-----------------------------------------------------------------------------
\* The operations that travel (op.rs: OpKind), an operation's own id being the
\* id of the node or edge it creates.
AddNodeOp(id)            == [kind |-> "AddNode", id |-> id]
RemoveNodeOp(id, n)      == [kind |-> "RemoveNode", id |-> id, target |-> n]
AddRefEdgeOp(id, f, t)   == [kind |-> "AddRefEdge", id |-> id, from |-> f, to |-> t]
RemoveRefEdgeOp(id, e)   == [kind |-> "RemoveRefEdge", id |-> id, target |-> e]
MoveOp(id, n, p, k)      == [kind |-> "Move", id |-> id, target |-> n,
                             new_parent |-> p, position |-> k]

apply_structural_op(t, op) ==
    CASE op.kind = "AddNode"       -> AddNode(t, op.id)
      [] op.kind = "RemoveNode"    -> RemoveNode(t, op.target)
      [] op.kind = "AddRefEdge"    -> AddRefEdge(t, op.id, op.from, op.to)
      [] op.kind = "RemoveRefEdge" -> RemoveRefEdge(t, op.target)
      [] op.kind = "Move"          -> Move(t, op.target, op.new_parent, op.position)

-----------------------------------------------------------------------------
\* What travels to a replica that does not replay: live entries only.
snapshot(t) ==
    [nodes |-> [i \in LiveNodes(t) |-> [order_key   |-> t.nodes[i].order_key,
                                        tree_parent |-> t.nodes[i].tree_parent]],
     edges |-> [i \in LiveEdges(t) |-> [from |-> t.edges[i].from,
                                        to   |-> t.edges[i].to]]]

restore(snap) ==
    [nodes |-> [i \in DOMAIN snap.nodes |->
                  [tombstoned  |-> FALSE,
                   order_key   |-> snap.nodes[i].order_key,
                   tree_parent |-> snap.nodes[i].tree_parent]],
     edges |-> [i \in DOMAIN snap.edges |->
                  [from |-> snap.edges[i].from, to |-> snap.edges[i].to,
                   tombstoned |-> FALSE]]]

-----------------------------------------------------------------------------
\* The structural conditions invariants.rs checks on a replica.

\* No set of nodes keeps every upward walk inside itself: every walk along
\* tree_parent ends.
NoTreeCycle(t) ==
    \A S \in SUBSET CrdtId : S # {} => \E i \in S : tree_parent(t, i) \notin S

\* Both ends of a live edge are live.
NoOrphanEdge(t) ==
    \A e \in LiveEdges(t) : is_live_node(t, t.edges[e].from)
                         /\ is_live_node(t, t.edges[e].to)
=============================================================================
