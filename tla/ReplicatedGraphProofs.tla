----------------------- MODULE ReplicatedGraphProofs -----------------------
(***************************************************************************)
(* For any clients and any number of operations, over a network that shows *)
(* log entries in any order and rebuilds replicas from each other: every   *)
(* replica is a fold of the log, its tree has no cycle, its edges have     *)
(* live ends, and nothing that was removed comes back.                     *)
(***************************************************************************)
EXTENDS ReplicatedGraph, TLAPS

-----------------------------------------------------------------------------
\* What readers see is the same.
Alike(a, b) ==
    /\ LiveNodes(a) = LiveNodes(b) /\ LiveEdges(a) = LiveEdges(b)
    /\ \A i \in LiveNodes(a) : /\ a.nodes[i].order_key = b.nodes[i].order_key
                               /\ a.nodes[i].tree_parent = b.nodes[i].tree_parent
    /\ \A e \in LiveEdges(a) : /\ a.edges[e].from = b.edges[e].from
                               /\ a.edges[e].to = b.edges[e].to

\* A topology in which nothing is broken.
Sound(t) == IsTopology(t) /\ NoOrphanEdge(t) /\ NoTreeCycle(t)

DeadNodes(t) == DOMAIN t.nodes \ LiveNodes(t)
DeadEdges(t) == DOMAIN t.edges \ LiveEdges(t)

\* t is what some arm made of s, with id the only entry that may be new.
Follows(s, t, id) ==
    /\ DOMAIN t.nodes \subseteq DOMAIN s.nodes \cup {id}
    /\ DOMAIN t.edges \subseteq DOMAIN s.edges \cup {id}
    /\ DeadNodes(s) \subseteq DeadNodes(t)
    /\ DeadEdges(s) \subseteq DeadEdges(t)

-----------------------------------------------------------------------------
(* Records and maps. *)

\* The entries of a well-typed topology, field by field.
LEMMA TopologyFields ==
  ASSUME NEW t, IsTopology(t)
  PROVE  /\ \A i \in DOMAIN t.nodes :
               /\ i \in CrdtId
               /\ t.nodes[i].tombstoned \in BOOLEAN
               /\ t.nodes[i].order_key \in OrderKey \cup {None}
               /\ t.nodes[i].tree_parent \in CrdtId \cup {None}
         /\ \A e \in DOMAIN t.edges :
               /\ e \in CrdtId
               /\ t.edges[e].from \in CrdtId /\ t.edges[e].to \in CrdtId
               /\ t.edges[e].tombstoned \in BOOLEAN
BY DEF IsTopology, NodeStructure, EdgeStructure

\* Two snapshots are equal exactly when readers see the same.
LEMMA SnapshotsAlike ==
  ASSUME NEW a, NEW b, IsTopology(a), IsTopology(b)
  PROVE  snapshot(a) = snapshot(b) <=> Alike(a, b)
<1>1. ASSUME snapshot(a) = snapshot(b) PROVE Alike(a, b)
  <2> DEFINE na == snapshot(a).nodes  nb == snapshot(b).nodes
             ea == snapshot(a).edges  eb == snapshot(b).edges
  <2>1. na = nb /\ ea = eb
    BY <1>1
  <2>2. /\ DOMAIN na = LiveNodes(a) /\ DOMAIN nb = LiveNodes(b)
        /\ DOMAIN ea = LiveEdges(a) /\ DOMAIN eb = LiveEdges(b)
    BY DEF snapshot
  <2>3. /\ \A i \in LiveNodes(a) : /\ na[i].order_key = a.nodes[i].order_key
                                   /\ na[i].tree_parent = a.nodes[i].tree_parent
        /\ \A i \in LiveNodes(b) : /\ nb[i].order_key = b.nodes[i].order_key
                                   /\ nb[i].tree_parent = b.nodes[i].tree_parent
        /\ \A e \in LiveEdges(a) : ea[e].from = a.edges[e].from /\ ea[e].to = a.edges[e].to
        /\ \A e \in LiveEdges(b) : eb[e].from = b.edges[e].from /\ eb[e].to = b.edges[e].to
    BY DEF snapshot
  <2> HIDE DEF na, nb, ea, eb
  <2> QED BY <2>1, <2>2, <2>3 DEF Alike
<1>2. ASSUME Alike(a, b) PROVE snapshot(a) = snapshot(b)
  BY <1>2 DEF Alike, snapshot
<1> QED BY <1>1, <1>2

\* A restored topology shows what was copied and has no tombstones.
LEMMA RestoreShows ==
  ASSUME NEW t, IsTopology(t)
  PROVE  LET r == restore(snapshot(t)) IN
         /\ IsTopology(r) /\ Alike(t, r)
         /\ DOMAIN r.nodes = LiveNodes(t) /\ DOMAIN r.edges = LiveEdges(t)
<1> DEFINE r == restore(snapshot(t))
           N(i) == [tombstoned |-> FALSE, order_key |-> t.nodes[i].order_key,
                    tree_parent |-> t.nodes[i].tree_parent]
           E(e) == [from |-> t.edges[e].from, to |-> t.edges[e].to, tombstoned |-> FALSE]
<1>1. r.nodes = [i \in LiveNodes(t) |-> N(i)] /\ r.edges = [e \in LiveEdges(t) |-> E(e)]
      /\ r = [nodes |-> r.nodes, edges |-> r.edges]
  BY DEF restore, snapshot
<1>2. \A i \in LiveNodes(t) : i \in CrdtId /\ N(i) \in NodeStructure
  BY TopologyFields DEF LiveNodes, NodeStructure
<1>3. \A e \in LiveEdges(t) : e \in CrdtId /\ E(e) \in EdgeStructure
  BY TopologyFields DEF LiveEdges, EdgeStructure
<1>4. /\ \A i \in LiveNodes(t) : /\ N(i).tombstoned = FALSE
                                 /\ N(i).order_key = t.nodes[i].order_key
                                 /\ N(i).tree_parent = t.nodes[i].tree_parent
      /\ \A e \in LiveEdges(t) : /\ E(e).tombstoned = FALSE
                                 /\ E(e).from = t.edges[e].from /\ E(e).to = t.edges[e].to
  OBVIOUS
<1> HIDE DEF r, N, E
<1>5. IsTopology(r)
  BY <1>1, <1>2, <1>3 DEF IsTopology
<1>6. LiveNodes(r) = LiveNodes(t) /\ LiveEdges(r) = LiveEdges(t)
  BY <1>1, <1>4 DEF LiveNodes, LiveEdges
<1>7. Alike(t, r)
  BY <1>1, <1>4, <1>6 DEF Alike
<1> QED BY <1>1, <1>5, <1>7 DEF r

-----------------------------------------------------------------------------
(* The arms, one at a time. *)

\* A new node is live, in nobody's tree, and the rest is as it was.
LEMMA AddNodeEffect ==
  ASSUME NEW t, IsTopology(t), NEW id \in CrdtId, id \notin DOMAIN t.nodes
  PROVE  LET u == AddNode(t, id) IN
         /\ IsTopology(u) /\ u.edges = t.edges
         /\ DOMAIN u.nodes = DOMAIN t.nodes \cup {id}
         /\ \A i \in DOMAIN t.nodes : u.nodes[i] = t.nodes[i]
         /\ u.nodes[id] = [tombstoned |-> FALSE, order_key |-> None, tree_parent |-> None]
<1> DEFINE u == AddNode(t, id)
           n == [tombstoned |-> FALSE, order_key |-> None, tree_parent |-> None]
<1>1. u = [nodes |-> Put(t.nodes, id, n), edges |-> t.edges]
  BY DEF AddNode, IsTopology
<1>2. /\ DOMAIN Put(t.nodes, id, n) = DOMAIN t.nodes \cup {id}
      /\ \A i \in DOMAIN t.nodes : Put(t.nodes, id, n)[i] = t.nodes[i]
      /\ Put(t.nodes, id, n)[id] = n
      /\ Put(t.nodes, id, n) = [i \in DOMAIN t.nodes \cup {id} |-> Put(t.nodes, id, n)[i]]
  BY DEF Put
<1>3. n \in NodeStructure
  BY DEF NodeStructure
<1> HIDE DEF n, u
<1>4. IsTopology(u)
  BY <1>1, <1>2, <1>3 DEF IsTopology
<1>5. /\ u.edges = t.edges /\ DOMAIN u.nodes = DOMAIN t.nodes \cup {id}
      /\ \A i \in DOMAIN t.nodes : u.nodes[i] = t.nodes[i]
      /\ u.nodes[id] = n
  BY <1>1, <1>2
<1> QED BY <1>4, <1>5, Zenon DEF u, n

\* Removal tombstones the node and the edges at it, and touches nothing else.
LEMMA RemoveNodeEffect ==
  ASSUME NEW t, IsTopology(t), NEW target \in DOMAIN t.nodes
  PROVE  LET u == RemoveNode(t, target) IN
         /\ IsTopology(u)
         /\ DOMAIN u.nodes = DOMAIN t.nodes /\ DOMAIN u.edges = DOMAIN t.edges
         /\ LiveNodes(u) = LiveNodes(t) \ {target}
         /\ LiveEdges(u) = {e \in LiveEdges(t) : target \notin {t.edges[e].from, t.edges[e].to}}
         /\ \A i \in DOMAIN t.nodes : /\ u.nodes[i].order_key = t.nodes[i].order_key
                                      /\ u.nodes[i].tree_parent = t.nodes[i].tree_parent
         /\ \A e \in DOMAIN t.edges : /\ u.edges[e].from = t.edges[e].from
                                      /\ u.edges[e].to = t.edges[e].to
<1> DEFINE u == RemoveNode(t, target)
           N(i) == [t.nodes[i] EXCEPT !.tombstoned = (i = target) \/ @]
           E(e) == [t.edges[e] EXCEPT !.tombstoned =
                      @ \/ target \in {t.edges[e].from, t.edges[e].to}]
<1>1. /\ u = [nodes |-> u.nodes, edges |-> u.edges]
      /\ u.nodes = [t.nodes EXCEPT ![target].tombstoned = TRUE]
      /\ u.edges = [e \in DOMAIN t.edges |-> E(e)]
  BY DEF RemoveNode
<1>2. \A i \in DOMAIN t.nodes : /\ N(i) \in NodeStructure
                                /\ N(i).tombstoned = (i = target \/ t.nodes[i].tombstoned)
                                /\ N(i).order_key = t.nodes[i].order_key
                                /\ N(i).tree_parent = t.nodes[i].tree_parent
  BY DEF IsTopology, NodeStructure
<1>3. \A e \in DOMAIN t.edges : /\ E(e) \in EdgeStructure
                                /\ E(e).tombstoned = (t.edges[e].tombstoned
                                     \/ target \in {t.edges[e].from, t.edges[e].to})
                                /\ E(e).from = t.edges[e].from /\ E(e).to = t.edges[e].to
  BY DEF IsTopology, EdgeStructure
<1>4. u.nodes = [i \in DOMAIN t.nodes |-> N(i)]
  <2>1. N(target) = [t.nodes[target] EXCEPT !.tombstoned = TRUE]
    BY DEF IsTopology, NodeStructure
  <2>2. \A i \in DOMAIN t.nodes : i # target => N(i) = t.nodes[i]
    BY DEF IsTopology, NodeStructure
  <2> QED BY <1>1, <2>1, <2>2
<1> HIDE DEF N, E
<1>5. /\ DOMAIN u.nodes = DOMAIN t.nodes /\ DOMAIN u.edges = DOMAIN t.edges
      /\ \A i \in DOMAIN t.nodes : u.nodes[i] = N(i)
      /\ \A e \in DOMAIN t.edges : u.edges[e] = E(e)
  BY <1>1, <1>4
<1> HIDE DEF u
<1>6. IsTopology(u)
  <2>1. u.nodes \in [DOMAIN t.nodes -> NodeStructure]
    BY <1>2, <1>4
  <2>2. u.edges \in [DOMAIN t.edges -> EdgeStructure]
    BY <1>1, <1>3
  <2> QED BY <1>1, <1>5, <2>1, <2>2 DEF IsTopology
<1>7. LiveNodes(u) = LiveNodes(t) \ {target}
  BY <1>2, <1>5 DEF LiveNodes
<1>8. LiveEdges(u) = {e \in LiveEdges(t) : target \notin {t.edges[e].from, t.edges[e].to}}
  BY <1>3, <1>5 DEF LiveEdges
<1> QED BY <1>2, <1>3, <1>5, <1>6, <1>7, <1>8 DEF u

\* An edge is live on arrival exactly when both ends are.
LEMMA AddRefEdgeEffect ==
  ASSUME NEW t, IsTopology(t), NEW id \in CrdtId, id \notin DOMAIN t.edges,
         NEW from \in CrdtId, NEW to \in CrdtId
  PROVE  LET u == AddRefEdge(t, id, from, to) IN
         /\ IsTopology(u) /\ u.nodes = t.nodes
         /\ DOMAIN u.edges = DOMAIN t.edges \cup {id}
         /\ \A e \in DOMAIN t.edges : u.edges[e] = t.edges[e]
         /\ u.edges[id] = [from |-> from, to |-> to,
                           tombstoned |-> ~ (is_live_node(t, from) /\ is_live_node(t, to))]
<1> DEFINE u == AddRefEdge(t, id, from, to)
           new == [from |-> from, to |-> to,
                   tombstoned |-> ~ (is_live_node(t, from) /\ is_live_node(t, to))]
<1>1. u = [nodes |-> t.nodes, edges |-> Put(t.edges, id, new)]
  BY DEF AddRefEdge, IsTopology
<1>2. /\ DOMAIN Put(t.edges, id, new) = DOMAIN t.edges \cup {id}
      /\ \A i \in DOMAIN t.edges : Put(t.edges, id, new)[i] = t.edges[i]
      /\ Put(t.edges, id, new)[id] = new
      /\ Put(t.edges, id, new) = [i \in DOMAIN t.edges \cup {id} |-> Put(t.edges, id, new)[i]]
  BY DEF Put
<1>3. new \in EdgeStructure
  <2>1. CASE is_live_node(t, from) /\ is_live_node(t, to)
    <3>1. new = [from |-> from, to |-> to, tombstoned |-> FALSE]
      BY <2>1, Zenon
    <3> QED BY <3>1 DEF EdgeStructure
  <2>2. CASE ~ (is_live_node(t, from) /\ is_live_node(t, to))
    <3>1. new = [from |-> from, to |-> to, tombstoned |-> TRUE]
      BY <2>2, Zenon
    <3> QED BY <3>1 DEF EdgeStructure
  <2> QED BY <2>1, <2>2
<1> HIDE DEF new, u
<1>4. IsTopology(u)
  BY <1>1, <1>2, <1>3 DEF IsTopology
<1> QED BY <1>1, <1>2, <1>4 DEF u, new

\* Removing an edge tombstones it.
LEMMA RemoveRefEdgeEffect ==
  ASSUME NEW t, IsTopology(t), NEW target \in DOMAIN t.edges
  PROVE  LET u == RemoveRefEdge(t, target) IN
         /\ IsTopology(u) /\ u.nodes = t.nodes
         /\ DOMAIN u.edges = DOMAIN t.edges
         /\ LiveEdges(u) = LiveEdges(t) \ {target}
         /\ \A e \in DOMAIN t.edges : /\ u.edges[e].from = t.edges[e].from
                                      /\ u.edges[e].to = t.edges[e].to
<1> DEFINE u == RemoveRefEdge(t, target)
           E == [t.edges[target] EXCEPT !.tombstoned = TRUE]
<1>1. u = [nodes |-> t.nodes, edges |-> [t.edges EXCEPT ![target] = E]]
  BY DEF RemoveRefEdge, IsTopology
<1>2. /\ E \in EdgeStructure /\ E.tombstoned = TRUE
      /\ E.from = t.edges[target].from /\ E.to = t.edges[target].to
  BY DEF IsTopology, EdgeStructure
<1> HIDE DEF E, u
<1>3. IsTopology(u)
  BY <1>1, <1>2 DEF IsTopology
<1>4. LiveEdges(u) = LiveEdges(t) \ {target}
  BY <1>1, <1>2 DEF LiveEdges
<1> QED BY <1>1, <1>2, <1>3, <1>4 DEF u

\* A move that is allowed changes one node's place, live or not.
LEMMA MoveEffect ==
  ASSUME NEW t, IsTopology(t), NEW target \in DOMAIN t.nodes,
         NEW parent \in CrdtId \cup {None}, NEW position \in OrderKey,
         parent = None \/ ~ would_create_cycle(t, target, parent)
  PROVE  LET u == Move(t, target, parent, position) IN
         /\ IsTopology(u) /\ u.edges = t.edges
         /\ DOMAIN u.nodes = DOMAIN t.nodes /\ LiveNodes(u) = LiveNodes(t)
         /\ \A i \in DOMAIN t.nodes : i # target => u.nodes[i] = t.nodes[i]
         /\ u.nodes[target].tree_parent = parent
         /\ u.nodes[target].order_key = position
<1> DEFINE u == Move(t, target, parent, position)
           N == [t.nodes[target] EXCEPT !.tree_parent = parent, !.order_key = position]
<1>1. u = [nodes |-> [t.nodes EXCEPT ![target] = N], edges |-> t.edges]
  BY DEF Move, IsTopology
<1>2. /\ N \in NodeStructure /\ N.tombstoned = t.nodes[target].tombstoned
      /\ N.order_key = position /\ N.tree_parent = parent
  BY DEF IsTopology, NodeStructure
<1> HIDE DEF N, u
<1>3. IsTopology(u)
  BY <1>1, <1>2 DEF IsTopology
<1>4. LiveNodes(u) = LiveNodes(t)
  BY <1>1, <1>2 DEF LiveNodes
<1> QED BY <1>1, <1>2, <1>3, <1>4 DEF u

-----------------------------------------------------------------------------
(* Nothing breaks. *)

\* Parents that stay, or go, cannot close a cycle.
LEMMA FewerParents ==
  ASSUME NEW t, NEW u, NoTreeCycle(t), None \notin CrdtId,
         \A i \in CrdtId : tree_parent(u, i) \in {tree_parent(t, i), None}
  PROVE  NoTreeCycle(u)
<1> SUFFICES ASSUME NEW S \in SUBSET CrdtId, S # {}
             PROVE  \E i \in S : tree_parent(u, i) \notin S
  BY DEF NoTreeCycle
<1>1. PICK i \in S : tree_parent(t, i) \notin S
  BY DEF NoTreeCycle
<1>2. tree_parent(u, i) \notin S
  BY <1>1
<1> QED BY <1>2

\* A new node comes without parent, children and edges.
LEMMA AddNodeKeeps ==
  ASSUME NEW t, Sound(t), NEW id \in CrdtId, id \notin DOMAIN t.nodes
  PROVE  Sound(AddNode(t, id)) /\ Follows(t, AddNode(t, id), id)
<1> DEFINE u == AddNode(t, id)
<1>1. /\ IsTopology(t) /\ IsTopology(u) /\ u.edges = t.edges
      /\ DOMAIN u.nodes = DOMAIN t.nodes \cup {id}
      /\ \A i \in DOMAIN t.nodes : u.nodes[i] = t.nodes[i]
      /\ u.nodes[id] = [tombstoned |-> FALSE, order_key |-> None, tree_parent |-> None]
  BY AddNodeEffect DEF Sound
<1> HIDE DEF u
<1>2. /\ LiveNodes(u) = LiveNodes(t) \cup {id} /\ LiveEdges(u) = LiveEdges(t)
      /\ u.nodes[id].tree_parent = None
  BY <1>1 DEF LiveNodes, LiveEdges
<1>3. NoOrphanEdge(u)
  BY <1>1, <1>2 DEF Sound, NoOrphanEdge, is_live_node, LiveNodes
<1>4. \A i \in CrdtId : tree_parent(u, i) \in {tree_parent(t, i), None}
  BY <1>1, <1>2 DEF tree_parent, is_live_node
<1>5. NoTreeCycle(u)
  BY <1>4, FewerParents, NoneAssumption DEF Sound
<1>6. Follows(t, u, id)
  BY <1>1, <1>2 DEF Follows, DeadNodes, DeadEdges
<1> QED BY <1>1, <1>3, <1>5, <1>6 DEF Sound, u

\* Removal takes the edges along, so none is left at a dead node.
LEMMA RemoveNodeKeeps ==
  ASSUME NEW t, Sound(t), NEW target, NEW id
  PROVE  Sound(RemoveNode(t, target)) /\ Follows(t, RemoveNode(t, target), id)
<1> DEFINE u == RemoveNode(t, target)
<1>1. CASE target \notin DOMAIN t.nodes
  BY <1>1 DEF RemoveNode, Follows
<1>2. CASE target \in DOMAIN t.nodes
  <2>1. /\ IsTopology(t) /\ IsTopology(u)
        /\ DOMAIN u.nodes = DOMAIN t.nodes /\ DOMAIN u.edges = DOMAIN t.edges
        /\ LiveNodes(u) = LiveNodes(t) \ {target}
        /\ LiveEdges(u) = {e \in LiveEdges(t) : target \notin {t.edges[e].from, t.edges[e].to}}
        /\ \A i \in DOMAIN t.nodes : u.nodes[i].tree_parent = t.nodes[i].tree_parent
        /\ \A e \in DOMAIN t.edges : /\ u.edges[e].from = t.edges[e].from
                                     /\ u.edges[e].to = t.edges[e].to
    BY <1>2, RemoveNodeEffect DEF Sound
  <2> HIDE DEF u
  <2>2. \A i : is_live_node(u, i) <=> is_live_node(t, i) /\ i # target
    BY <2>1 DEF is_live_node, LiveNodes
  <2>3. NoOrphanEdge(u)
    BY <2>1, <2>2 DEF Sound, NoOrphanEdge, LiveEdges
  <2>4. \A i \in CrdtId : tree_parent(u, i) \in {tree_parent(t, i), None}
    BY <2>1, <2>2 DEF tree_parent, is_live_node
  <2>5. NoTreeCycle(u)
    BY <2>4, FewerParents, NoneAssumption DEF Sound
  <2>6. Follows(t, u, id)
    BY <2>1 DEF Follows, DeadNodes, DeadEdges
  <2> QED BY <2>1, <2>3, <2>5, <2>6 DEF Sound, u
<1> QED BY <1>1, <1>2

\* An edge arrives live only between live nodes.
LEMMA AddRefEdgeKeeps ==
  ASSUME NEW t, Sound(t), NEW id \in CrdtId, id \notin DOMAIN t.edges,
         NEW from \in CrdtId, NEW to \in CrdtId
  PROVE  /\ Sound(AddRefEdge(t, id, from, to))
         /\ Follows(t, AddRefEdge(t, id, from, to), id)
<1> DEFINE u == AddRefEdge(t, id, from, to)
           new == [from |-> from, to |-> to,
                   tombstoned |-> ~ (is_live_node(t, from) /\ is_live_node(t, to))]
<1>1. /\ IsTopology(t) /\ IsTopology(u) /\ u.nodes = t.nodes
      /\ DOMAIN u.edges = DOMAIN t.edges \cup {id}
      /\ \A e \in DOMAIN t.edges : u.edges[e] = t.edges[e]
      /\ u.edges[id] = new
  <2>1. IsTopology(t)
    BY DEF Sound
  <2> QED BY <2>1, AddRefEdgeEffect
<1>2. /\ new.from = from /\ new.to = to
      /\ new.tombstoned = ~ (is_live_node(t, from) /\ is_live_node(t, to))
  BY Zenon
<1> HIDE DEF u, new
<1>3. /\ \A i : is_live_node(u, i) <=> is_live_node(t, i)
      /\ \A i : tree_parent(u, i) = tree_parent(t, i)
      /\ LiveNodes(u) = LiveNodes(t)
  BY <1>1 DEF is_live_node, tree_parent, LiveNodes
<1>4. NoOrphanEdge(u)
  <2> SUFFICES ASSUME NEW e \in LiveEdges(u)
               PROVE  is_live_node(t, u.edges[e].from) /\ is_live_node(t, u.edges[e].to)
    BY <1>3 DEF NoOrphanEdge
  <2>1. CASE e = id
    BY <2>1, <1>1, <1>2 DEF LiveEdges
  <2>2. CASE e # id
    BY <2>2, <1>1 DEF LiveEdges, NoOrphanEdge, Sound
  <2> QED BY <2>1, <2>2
<1>5. NoTreeCycle(u)
  BY <1>3, FewerParents, NoneAssumption DEF Sound
<1>6. Follows(t, u, id)
  BY <1>1, <1>3 DEF Follows, DeadNodes, DeadEdges, LiveEdges
<1> QED BY <1>1, <1>4, <1>5, <1>6 DEF Sound, u

\* Removing an edge leaves the nodes and the other edges alone.
LEMMA RemoveRefEdgeKeeps ==
  ASSUME NEW t, Sound(t), NEW target, NEW id
  PROVE  Sound(RemoveRefEdge(t, target)) /\ Follows(t, RemoveRefEdge(t, target), id)
<1> DEFINE u == RemoveRefEdge(t, target)
<1>1. CASE target \notin DOMAIN t.edges
  BY <1>1 DEF RemoveRefEdge, Follows
<1>2. CASE target \in DOMAIN t.edges
  <2>1. /\ IsTopology(t) /\ IsTopology(u) /\ u.nodes = t.nodes
        /\ DOMAIN u.edges = DOMAIN t.edges
        /\ LiveEdges(u) = LiveEdges(t) \ {target}
        /\ \A e \in DOMAIN t.edges : /\ u.edges[e].from = t.edges[e].from
                                     /\ u.edges[e].to = t.edges[e].to
    BY <1>2, RemoveRefEdgeEffect DEF Sound
  <2> HIDE DEF u
  <2>2. /\ \A i : is_live_node(u, i) <=> is_live_node(t, i)
        /\ \A i : tree_parent(u, i) = tree_parent(t, i)
        /\ LiveNodes(u) = LiveNodes(t)
    BY <2>1 DEF is_live_node, tree_parent, LiveNodes
  <2>3. NoOrphanEdge(u)
    BY <2>1, <2>2 DEF NoOrphanEdge, Sound, LiveEdges
  <2>4. NoTreeCycle(u)
    BY <2>2, FewerParents, NoneAssumption DEF Sound
  <2>5. Follows(t, u, id)
    BY <2>1, <2>2 DEF Follows, DeadNodes, DeadEdges
  <2> QED BY <2>1, <2>3, <2>4, <2>5 DEF Sound, u
<1> QED BY <1>1, <1>2

\* A move that the climb allows closes no cycle: if some set of nodes kept its
\* parents inside, then so would its part that the climb from the new parent
\* stays in, and that part does not hold the node that moved.
LEMMA MoveKeeps ==
  ASSUME NEW t, Sound(t), NEW target, NEW parent \in CrdtId \cup {None},
         NEW position \in OrderKey, NEW id
  PROVE  /\ Sound(Move(t, target, parent, position))
         /\ Follows(t, Move(t, target, parent, position), id)
<1> DEFINE u == Move(t, target, parent, position)
<1>1. CASE \/ target \notin DOMAIN t.nodes
           \/ parent # None /\ would_create_cycle(t, target, parent)
  <2>1. u = t
    BY <1>1, Zenon DEF Move
  <2> QED BY <2>1 DEF Follows
<1>2. CASE target \in DOMAIN t.nodes /\ (parent = None \/ ~ would_create_cycle(t, target, parent))
  <2>1. /\ IsTopology(t) /\ IsTopology(u) /\ u.edges = t.edges
        /\ DOMAIN u.nodes = DOMAIN t.nodes /\ LiveNodes(u) = LiveNodes(t)
        /\ \A i \in DOMAIN t.nodes : i # target => u.nodes[i] = t.nodes[i]
        /\ u.nodes[target].tree_parent = parent
    BY <1>2, MoveEffect DEF Sound
  <2> HIDE DEF u
  <2>2. /\ LiveEdges(u) = LiveEdges(t)
        /\ \A i : is_live_node(u, i) <=> is_live_node(t, i)
    BY <2>1 DEF is_live_node, LiveNodes, LiveEdges
  <2>3. \A i : i # target => tree_parent(u, i) = tree_parent(t, i)
    BY <2>1, <2>2 DEF tree_parent, is_live_node
  <2>4. tree_parent(u, target) \in {parent, None}
    BY <2>1 DEF tree_parent
  <2>5. NoOrphanEdge(u)
    BY <2>1, <2>2 DEF NoOrphanEdge, Sound
  <2>6. NoTreeCycle(u)
    <3> SUFFICES ASSUME NEW S \in SUBSET CrdtId, S # {},
                        \A i \in S : tree_parent(u, i) \in S
                 PROVE  FALSE
      BY DEF NoTreeCycle
    <3>1. CASE target \notin S
      BY <3>1, <2>3 DEF Sound, NoTreeCycle
    <3>2. CASE target \in S
      <4>1. parent \in S
        BY <3>2, <2>4, NoneAssumption
      <4>2. PICK C \in SUBSET CrdtId : parent \in C /\ ClosedUpward(t, C) /\ target \notin C
        BY <4>1, <1>2, NoneAssumption DEF would_create_cycle
      <4>3. \A i \in S \cap C : tree_parent(t, i) \in S \cap C
        BY <4>2, <2>3, NoneAssumption DEF ClosedUpward
      <4>4. S \cap C \in SUBSET CrdtId /\ S \cap C # {}
        BY <4>1, <4>2
      <4> QED BY <4>3, <4>4 DEF Sound, NoTreeCycle
    <3> QED BY <3>1, <3>2
  <2>7. Follows(t, u, id)
    BY <2>1, <2>2 DEF Follows, DeadNodes, DeadEdges
  <2> QED BY <2>1, <2>5, <2>6, <2>7 DEF Sound, u
<1> QED BY <1>1, <1>2, Zenon

-----------------------------------------------------------------------------
(* Tombstones make no difference. *)

\* Topologies that look alike have the same live entries and upward steps, and
\* so decide every move alike.
LEMMA AlikeReads ==
  ASSUME NEW a, NEW b, Alike(a, b)
  PROVE  /\ \A i : is_live_node(a, i) <=> is_live_node(b, i)
         /\ \A e : is_live_edge(a, e) <=> is_live_edge(b, e)
         /\ \A i : tree_parent(a, i) = tree_parent(b, i)
         /\ \A n, p : would_create_cycle(a, n, p) <=> would_create_cycle(b, n, p)
<1>1. /\ \A i : is_live_node(a, i) <=> is_live_node(b, i)
      /\ \A e : is_live_edge(a, e) <=> is_live_edge(b, e)
  BY DEF Alike, is_live_node, is_live_edge, LiveNodes, LiveEdges
<1>2. \A i : tree_parent(a, i) = tree_parent(b, i)
  BY <1>1 DEF Alike, tree_parent, is_live_node, LiveNodes
<1>3. \A n, p : would_create_cycle(a, n, p) <=> would_create_cycle(b, n, p)
  BY <1>2 DEF would_create_cycle, ClosedUpward
<1> QED BY <1>1, <1>2, <1>3

\* A fresh node is added to both.
LEMMA AddNodeAlike ==
  ASSUME NEW a, NEW b, IsTopology(a), IsTopology(b), Alike(a, b),
         NEW id \in CrdtId, id \notin DOMAIN a.nodes, id \notin DOMAIN b.nodes
  PROVE  Alike(AddNode(a, id), AddNode(b, id))
<1> DEFINE u == AddNode(a, id)
           v == AddNode(b, id)
<1>1. /\ u.edges = a.edges /\ DOMAIN u.nodes = DOMAIN a.nodes \cup {id}
      /\ \A i \in DOMAIN a.nodes : u.nodes[i] = a.nodes[i]
      /\ u.nodes[id] = [tombstoned |-> FALSE, order_key |-> None, tree_parent |-> None]
  BY AddNodeEffect
<1>2. /\ v.edges = b.edges /\ DOMAIN v.nodes = DOMAIN b.nodes \cup {id}
      /\ \A i \in DOMAIN b.nodes : v.nodes[i] = b.nodes[i]
      /\ v.nodes[id] = [tombstoned |-> FALSE, order_key |-> None, tree_parent |-> None]
  BY AddNodeEffect
<1> HIDE DEF u, v
<1>3. LiveNodes(u) = LiveNodes(a) \cup {id} /\ LiveNodes(v) = LiveNodes(b) \cup {id}
  BY <1>1, <1>2 DEF LiveNodes
<1>4. LiveEdges(u) = LiveEdges(a) /\ LiveEdges(v) = LiveEdges(b)
  BY <1>1, <1>2 DEF LiveEdges
<1>5. \A i \in LiveNodes(u) : /\ u.nodes[i].order_key = v.nodes[i].order_key
                              /\ u.nodes[i].tree_parent = v.nodes[i].tree_parent
  BY <1>1, <1>2, <1>3 DEF Alike, LiveNodes
<1> QED BY <1>1, <1>2, <1>3, <1>4, <1>5 DEF Alike, u, v

\* What a removal does to what readers see, whether or not the node is there.
LEMMA RemoveNodeShows ==
  ASSUME NEW t, Sound(t), NEW target
  PROVE  LET u == RemoveNode(t, target) IN
         /\ LiveNodes(u) = LiveNodes(t) \ {target}
         /\ LiveEdges(u) = {e \in LiveEdges(t) : target \notin {t.edges[e].from, t.edges[e].to}}
         /\ \A i \in LiveNodes(t) : /\ u.nodes[i].order_key = t.nodes[i].order_key
                                    /\ u.nodes[i].tree_parent = t.nodes[i].tree_parent
         /\ \A e \in LiveEdges(t) : /\ u.edges[e].from = t.edges[e].from
                                    /\ u.edges[e].to = t.edges[e].to
<1>1. CASE target \in DOMAIN t.nodes
  BY <1>1, RemoveNodeEffect DEF Sound, LiveNodes, LiveEdges
<1>2. CASE target \notin DOMAIN t.nodes
  <2>1. RemoveNode(t, target) = t
    BY <1>2 DEF RemoveNode
  <2>2. \A e \in LiveEdges(t) : target \notin {t.edges[e].from, t.edges[e].to}
    BY <1>2 DEF Sound, NoOrphanEdge, is_live_node
  <2> QED BY <2>1, <2>2, <1>2 DEF LiveNodes
<1> QED BY <1>1, <1>2

\* A replica that has forgotten the node has no edge at it either.
LEMMA RemoveNodeAlike ==
  ASSUME NEW a, NEW b, Sound(a), Sound(b), Alike(a, b), NEW target
  PROVE  Alike(RemoveNode(a, target), RemoveNode(b, target))
<1> DEFINE u == RemoveNode(a, target)
           v == RemoveNode(b, target)
<1>1. /\ LiveNodes(u) = LiveNodes(a) \ {target}
      /\ LiveEdges(u) = {e \in LiveEdges(a) : target \notin {a.edges[e].from, a.edges[e].to}}
      /\ \A i \in LiveNodes(a) : /\ u.nodes[i].order_key = a.nodes[i].order_key
                                 /\ u.nodes[i].tree_parent = a.nodes[i].tree_parent
      /\ \A e \in LiveEdges(a) : /\ u.edges[e].from = a.edges[e].from
                                 /\ u.edges[e].to = a.edges[e].to
  BY RemoveNodeShows
<1>2. /\ LiveNodes(v) = LiveNodes(b) \ {target}
      /\ LiveEdges(v) = {e \in LiveEdges(b) : target \notin {b.edges[e].from, b.edges[e].to}}
      /\ \A i \in LiveNodes(b) : /\ v.nodes[i].order_key = b.nodes[i].order_key
                                 /\ v.nodes[i].tree_parent = b.nodes[i].tree_parent
      /\ \A e \in LiveEdges(b) : /\ v.edges[e].from = b.edges[e].from
                                 /\ v.edges[e].to = b.edges[e].to
  BY RemoveNodeShows
<1> HIDE DEF u, v
<1> QED BY <1>1, <1>2 DEF Alike, u, v

\* Both see the ends of a fresh edge alike.
LEMMA AddRefEdgeAlike ==
  ASSUME NEW a, NEW b, IsTopology(a), IsTopology(b), Alike(a, b),
         NEW id \in CrdtId, id \notin DOMAIN a.edges, id \notin DOMAIN b.edges,
         NEW from \in CrdtId, NEW to \in CrdtId
  PROVE  Alike(AddRefEdge(a, id, from, to), AddRefEdge(b, id, from, to))
<1> DEFINE u == AddRefEdge(a, id, from, to)
           v == AddRefEdge(b, id, from, to)
           new == [from |-> from, to |-> to,
                   tombstoned |-> ~ (is_live_node(a, from) /\ is_live_node(a, to))]
<1>1. /\ u.nodes = a.nodes /\ DOMAIN u.edges = DOMAIN a.edges \cup {id}
      /\ \A e \in DOMAIN a.edges : u.edges[e] = a.edges[e]
      /\ u.edges[id] = new
  BY AddRefEdgeEffect
<1>2. /\ v.nodes = b.nodes /\ DOMAIN v.edges = DOMAIN b.edges \cup {id}
      /\ \A e \in DOMAIN b.edges : v.edges[e] = b.edges[e]
      /\ v.edges[id] = [from |-> from, to |-> to,
                        tombstoned |-> ~ (is_live_node(b, from) /\ is_live_node(b, to))]
  BY AddRefEdgeEffect
<1>3. v.edges[id] = new
  <2>1. (is_live_node(a, from) /\ is_live_node(a, to))
           <=> (is_live_node(b, from) /\ is_live_node(b, to))
    BY AlikeReads
  <2> QED BY <2>1, <1>2
<1> HIDE DEF u, v, new
<1>4. LiveNodes(u) = LiveNodes(a) /\ LiveNodes(v) = LiveNodes(b)
  BY <1>1, <1>2 DEF LiveNodes
<1>5. /\ LiveEdges(u) = LiveEdges(a) \cup (IF new.tombstoned THEN {} ELSE {id})
      /\ LiveEdges(v) = LiveEdges(b) \cup (IF new.tombstoned THEN {} ELSE {id})
  BY <1>1, <1>2, <1>3 DEF LiveEdges
<1>6. \A e \in LiveEdges(u) : /\ u.edges[e].from = v.edges[e].from
                              /\ u.edges[e].to = v.edges[e].to
  <2> SUFFICES ASSUME NEW e \in LiveEdges(u)
               PROVE  u.edges[e].from = v.edges[e].from /\ u.edges[e].to = v.edges[e].to
    OBVIOUS
  <2>1. CASE e = id
    BY <2>1, <1>1, <1>3
  <2>2. CASE e # id
    <3>1. e \in LiveEdges(a) /\ e \in LiveEdges(b)
      BY <2>2, <1>5 DEF Alike
    <3> QED BY <3>1, <1>1, <1>2 DEF Alike, LiveEdges
  <2> QED BY <2>1, <2>2
<1> QED BY <1>1, <1>2, <1>4, <1>5, <1>6 DEF Alike, u, v

\* Both lose the edge, if they have it.
LEMMA RemoveRefEdgeAlike ==
  ASSUME NEW a, NEW b, IsTopology(a), IsTopology(b), Alike(a, b), NEW target
  PROVE  Alike(RemoveRefEdge(a, target), RemoveRefEdge(b, target))
<1>1. ASSUME NEW t, IsTopology(t)
      PROVE  LET u == RemoveRefEdge(t, target) IN
             /\ u.nodes = t.nodes /\ LiveEdges(u) = LiveEdges(t) \ {target}
             /\ \A e \in LiveEdges(t) : /\ u.edges[e].from = t.edges[e].from
                                        /\ u.edges[e].to = t.edges[e].to
  <2>1. CASE target \in DOMAIN t.edges
    BY <1>1, <2>1, RemoveRefEdgeEffect DEF LiveEdges
  <2>2. CASE target \notin DOMAIN t.edges
    <3>1. RemoveRefEdge(t, target) = t
      BY <2>2 DEF RemoveRefEdge
    <3> QED BY <3>1, <2>2 DEF LiveEdges
  <2> QED BY <2>1, <2>2
<1> DEFINE u == RemoveRefEdge(a, target)
           v == RemoveRefEdge(b, target)
<1>2. /\ u.nodes = a.nodes /\ LiveEdges(u) = LiveEdges(a) \ {target}
      /\ \A e \in LiveEdges(a) : u.edges[e].from = a.edges[e].from /\ u.edges[e].to = a.edges[e].to
  BY <1>1
<1>3. /\ v.nodes = b.nodes /\ LiveEdges(v) = LiveEdges(b) \ {target}
      /\ \A e \in LiveEdges(b) : v.edges[e].from = b.edges[e].from /\ v.edges[e].to = b.edges[e].to
  BY <1>1
<1> HIDE DEF u, v
<1>4. LiveNodes(u) = LiveNodes(a) /\ LiveNodes(v) = LiveNodes(b)
  BY <1>2, <1>3 DEF LiveNodes
<1> QED BY <1>2, <1>3, <1>4 DEF Alike, u, v

\* The climb goes through live nodes only, so that both allow the same moves; a
\* move of a node that is gone shows nowhere.
LEMMA MoveAlike ==
  ASSUME NEW a, NEW b, IsTopology(a), IsTopology(b), Alike(a, b), NEW target,
         NEW parent \in CrdtId \cup {None}, NEW position \in OrderKey
  PROVE  Alike(Move(a, target, parent, position), Move(b, target, parent, position))
<1> DEFINE Refused(t) == parent # None /\ would_create_cycle(t, target, parent)
<1>1. ASSUME NEW t, IsTopology(t), ~ Refused(t)
      PROVE  LET u == Move(t, target, parent, position) IN
             /\ u.edges = t.edges /\ LiveNodes(u) = LiveNodes(t)
             /\ \A i \in LiveNodes(t) :
                  /\ u.nodes[i].order_key = IF i = target THEN position ELSE t.nodes[i].order_key
                  /\ u.nodes[i].tree_parent = IF i = target THEN parent ELSE t.nodes[i].tree_parent
  <2>1. CASE target \in DOMAIN t.nodes
    <3>1. parent = None \/ ~ would_create_cycle(t, target, parent)
      BY <1>1
    <3> QED BY <1>1, <2>1, <3>1, MoveEffect DEF LiveNodes
  <2>2. CASE target \notin DOMAIN t.nodes
    <3>1. Move(t, target, parent, position) = t
      BY <2>2 DEF Move
    <3> QED BY <3>1, <2>2 DEF LiveNodes
  <2> QED BY <2>1, <2>2
<1> DEFINE u == Move(a, target, parent, position)
           v == Move(b, target, parent, position)
<1>2. Refused(a) <=> Refused(b)
  BY AlikeReads
<1>3. CASE Refused(a)
  <2>1. u = a /\ v = b
    BY <1>2, <1>3, Zenon DEF Move
  <2> QED BY <2>1
<1>4. CASE ~ Refused(a)
  <2>1. /\ u.edges = a.edges /\ LiveNodes(u) = LiveNodes(a)
        /\ \A i \in LiveNodes(a) :
             /\ u.nodes[i].order_key = IF i = target THEN position ELSE a.nodes[i].order_key
             /\ u.nodes[i].tree_parent = IF i = target THEN parent ELSE a.nodes[i].tree_parent
    BY <1>1, <1>4
  <2>2. /\ v.edges = b.edges /\ LiveNodes(v) = LiveNodes(b)
        /\ \A i \in LiveNodes(b) :
             /\ v.nodes[i].order_key = IF i = target THEN position ELSE b.nodes[i].order_key
             /\ v.nodes[i].tree_parent = IF i = target THEN parent ELSE b.nodes[i].tree_parent
    BY <1>1, <1>2, <1>4
  <2> HIDE DEF u, v
  <2>3. LiveEdges(u) = LiveEdges(a) /\ LiveEdges(v) = LiveEdges(b)
    BY <2>1, <2>2 DEF LiveEdges
  <2> QED BY <2>1, <2>2, <2>3 DEF Alike, u, v
<1> QED BY <1>3, <1>4

-----------------------------------------------------------------------------

-----------------------------------------------------------------------------
(* Operations and records. *)

\* What an op of each kind carries.
LEMMA OpFields ==
  ASSUME NEW op \in Op
  PROVE  /\ op.id \in CrdtId
         /\ op.kind \in {"AddNode", "RemoveNode", "RemoveRefEdge", "SetProperty",
                         "AddRefEdge", "Move"}
         /\ op.kind \in {"RemoveNode", "RemoveRefEdge", "SetProperty", "Move"}
              => op.target \in CrdtId
         /\ op.kind = "AddRefEdge" => op.from \in CrdtId /\ op.to \in CrdtId
         /\ op.kind = "Move" => /\ op.new_parent \in CrdtId \cup {None}
                                /\ op.position \in OrderKey
BY DEF Op

\* Making a default record shows nowhere.
LEMMA OrDefaultEffect ==
  ASSUME NEW s, DOMAIN s \subseteq CrdtId, s \in [DOMAIN s -> Nat], NEW id \in CrdtId
  PROVE  LET o == OrDefault(s, id) IN
         /\ DOMAIN o = DOMAIN s \cup {id} /\ o \in [DOMAIN s \cup {id} -> Nat]
         /\ \A i \in DOMAIN s : o[i] = s[i]
         /\ id \notin DOMAIN s => o[id] = 0
<1>1. CASE id \in DOMAIN s
  BY <1>1 DEF OrDefault
<1>2. CASE id \notin DOMAIN s
  <2>1. OrDefault(s, id) = [x \in DOMAIN s \cup {id} |-> IF x = id THEN 0 ELSE s[x]]
    BY <1>2 DEF OrDefault, Put
  <2> QED BY <2>1, <1>2
<1> QED BY <1>1, <1>2

\* The value an entity shows after an op.
LEMMA AppliedSchemas ==
  ASSUME NEW b, IsBackend(b), NEW seq \in Nat, NEW op \in Op
  PROVE  LET u == Applied(b, seq, op) IN
         /\ DOMAIN u.schemas \subseteq CrdtId /\ u.schemas \in [DOMAIN u.schemas -> Nat]
         /\ \A i \in CrdtId :
              Prop(u, i) = IF op.kind = "SetProperty" /\ i = op.target
                           THEN LwwApply(Prop(b, i), seq) ELSE Prop(b, i)
<1> DEFINE u == Applied(b, seq, op)
           s == b.schemas
<1>1. DOMAIN s \subseteq CrdtId /\ s \in [DOMAIN s -> Nat]
  BY DEF IsBackend
<1>2. CASE op.kind = "SetProperty"
  <2> DEFINE o == OrDefault(s, op.target)
  <2>1. op.target \in CrdtId
    BY <1>2, OpFields
  <2>2. /\ DOMAIN o = DOMAIN s \cup {op.target} /\ o \in [DOMAIN s \cup {op.target} -> Nat]
        /\ \A i \in DOMAIN s : o[i] = s[i]
        /\ op.target \notin DOMAIN s => o[op.target] = 0
    BY <1>1, <2>1, OrDefaultEffect
  <2>3. u.schemas = [o EXCEPT ![op.target] = LwwApply(@, seq)]
    BY <1>2 DEF Applied
  <2> HIDE DEF u, o
  <2>4. LwwApply(o[op.target], seq) \in Nat
    BY <2>2 DEF LwwApply
  <2> QED BY <1>1, <1>2, <2>1, <2>2, <2>3, <2>4 DEF Prop, u
<1>3. CASE op.kind # "SetProperty"
  <2>1. CASE op.kind \in {"AddNode", "AddRefEdge"}
    <3>1. u.schemas = OrDefault(s, op.id)
      BY <1>3, <2>1 DEF Applied
    <3>2. op.id \in CrdtId
      BY OpFields
    <3> DEFINE o == OrDefault(s, op.id)
    <3>3. /\ DOMAIN o = DOMAIN s \cup {op.id} /\ o \in [DOMAIN s \cup {op.id} -> Nat]
          /\ \A i \in DOMAIN s : o[i] = s[i]
          /\ op.id \notin DOMAIN s => o[op.id] = 0
      BY <1>1, <3>2, OrDefaultEffect
    <3> HIDE DEF u, o
    <3>4. u.schemas = o
      BY <3>1 DEF o
    <3> QED BY <1>1, <1>3, <3>2, <3>3, <3>4 DEF Prop, u
  <2>2. CASE op.kind \notin {"AddNode", "AddRefEdge"}
    <3>1. u.schemas = s
      BY <1>3, <2>2 DEF Applied
    <3> HIDE DEF u
    <3> QED BY <1>1, <1>3, <3>1 DEF Prop, u
  <2> QED BY <2>1, <2>2
<1> QED BY <1>2, <1>3

-----------------------------------------------------------------------------
(* One op. *)

\* id names no entry of t.
Fresh(t, id) == id \notin DOMAIN t.nodes /\ id \notin DOMAIN t.edges

\* Any op leaves a sound topology sound.
LEMMA StructuralKeeps ==
  ASSUME NEW t, Sound(t), NEW op \in Op, op.kind # "SetProperty", Fresh(t, op.id)
  PROVE  /\ Sound(apply_structural_op(t, op))
         /\ Follows(t, apply_structural_op(t, op), op.id)
<1>1. CASE op.kind = "AddNode"
  <2>1. apply_structural_op(t, op) = AddNode(t, op.id)
    BY <1>1 DEF apply_structural_op
  <2> QED BY <2>1, OpFields, AddNodeKeeps DEF Fresh
<1>2. CASE op.kind = "RemoveNode"
  <2>1. apply_structural_op(t, op) = RemoveNode(t, op.target)
    BY <1>2 DEF apply_structural_op
  <2> QED BY <2>1, RemoveNodeKeeps
<1>3. CASE op.kind = "AddRefEdge"
  <2>1. apply_structural_op(t, op) = AddRefEdge(t, op.id, op.from, op.to)
    BY <1>3 DEF apply_structural_op
  <2> QED BY <1>3, <2>1, OpFields, AddRefEdgeKeeps DEF Fresh
<1>4. CASE op.kind = "RemoveRefEdge"
  <2>1. apply_structural_op(t, op) = RemoveRefEdge(t, op.target)
    BY <1>4 DEF apply_structural_op
  <2> QED BY <2>1, RemoveRefEdgeKeeps
<1>5. CASE op.kind = "Move"
  <2>1. apply_structural_op(t, op) = Move(t, op.target, op.new_parent, op.position)
    BY <1>5 DEF apply_structural_op
  <2> QED BY <1>5, <2>1, OpFields, MoveKeeps
<1> QED BY <1>1, <1>2, <1>3, <1>4, <1>5, OpFields

\* Any op does the same to topologies that look alike.
LEMMA StructuralAlike ==
  ASSUME NEW a, NEW b, Sound(a), Sound(b), Alike(a, b), NEW op \in Op,
         op.kind # "SetProperty", Fresh(a, op.id), Fresh(b, op.id)
  PROVE  Alike(apply_structural_op(a, op), apply_structural_op(b, op))
<1>1. IsTopology(a) /\ IsTopology(b)
  BY DEF Sound
<1>2. CASE op.kind = "AddNode"
  <2>1. \A t : apply_structural_op(t, op) = AddNode(t, op.id)
    BY <1>2 DEF apply_structural_op
  <2> QED BY <1>1, <2>1, OpFields, AddNodeAlike DEF Fresh
<1>3. CASE op.kind = "RemoveNode"
  <2>1. \A t : apply_structural_op(t, op) = RemoveNode(t, op.target)
    BY <1>3 DEF apply_structural_op
  <2> QED BY <2>1, RemoveNodeAlike
<1>4. CASE op.kind = "AddRefEdge"
  <2>1. \A t : apply_structural_op(t, op) = AddRefEdge(t, op.id, op.from, op.to)
    BY <1>4 DEF apply_structural_op
  <2> QED BY <1>1, <1>4, <2>1, OpFields, AddRefEdgeAlike DEF Fresh
<1>5. CASE op.kind = "RemoveRefEdge"
  <2>1. \A t : apply_structural_op(t, op) = RemoveRefEdge(t, op.target)
    BY <1>5 DEF apply_structural_op
  <2> QED BY <1>1, <2>1, RemoveRefEdgeAlike
<1>6. CASE op.kind = "Move"
  <2>1. \A t : apply_structural_op(t, op) = Move(t, op.target, op.new_parent, op.position)
    BY <1>6 DEF apply_structural_op
  <2> QED BY <1>1, <1>6, <2>1, OpFields, MoveAlike
<1> QED BY <1>2, <1>3, <1>4, <1>5, <1>6, OpFields

\* The next op leaves a backend a backend, and numbers it.
LEMMA AppliedKeeps ==
  ASSUME NEW b, IsBackend(b), Sound(b.topology), NEW seq \in Nat, NEW op \in Op,
         Fresh(b.topology, op.id)
  PROVE  LET u == Applied(b, seq, op) IN
         /\ IsBackend(u) /\ Sound(u.topology) /\ u.applied_seq = seq
         /\ Follows(b.topology, u.topology, op.id)
<1> DEFINE u == Applied(b, seq, op)
<1>1. /\ u = [applied_seq |-> u.applied_seq, topology |-> u.topology, schemas |-> u.schemas]
      /\ u.applied_seq = seq
      /\ u.topology = IF op.kind = "SetProperty" THEN b.topology
                      ELSE apply_structural_op(b.topology, op)
  BY DEF Applied
<1>2. DOMAIN u.schemas \subseteq CrdtId /\ u.schemas \in [DOMAIN u.schemas -> Nat]
  BY AppliedSchemas
<1> HIDE DEF u
<1>3. Sound(u.topology) /\ Follows(b.topology, u.topology, op.id)
  <2>1. CASE op.kind = "SetProperty"
    BY <1>1, <2>1 DEF Follows
  <2>2. CASE op.kind # "SetProperty"
    BY <1>1, <2>2, StructuralKeeps
  <2> QED BY <2>1, <2>2
<1> QED BY <1>1, <1>2, <1>3 DEF IsBackend, Sound, u

\* Backends that no reader can tell apart stay so under the same op.
LEMMA AppliedAgrees ==
  ASSUME NEW b, NEW c, IsBackend(b), IsBackend(c), Sound(b.topology), Sound(c.topology),
         Agree(b, c), NEW seq \in Nat, NEW op \in Op,
         Fresh(b.topology, op.id), Fresh(c.topology, op.id)
  PROVE  Agree(Applied(b, seq, op), Applied(c, seq, op))
<1> DEFINE u == Applied(b, seq, op)
           v == Applied(c, seq, op)
<1>1. /\ IsBackend(u) /\ IsBackend(v) /\ u.applied_seq = v.applied_seq
      /\ Sound(u.topology) /\ Sound(v.topology)
  BY AppliedKeeps
<1>2. \A i \in CrdtId : Prop(u, i) = Prop(v, i)
  <2>1. \A i \in CrdtId : Prop(u, i) = IF op.kind = "SetProperty" /\ i = op.target
                                       THEN LwwApply(Prop(b, i), seq) ELSE Prop(b, i)
    BY AppliedSchemas
  <2>2. \A i \in CrdtId : Prop(v, i) = IF op.kind = "SetProperty" /\ i = op.target
                                       THEN LwwApply(Prop(c, i), seq) ELSE Prop(c, i)
    BY AppliedSchemas
  <2> HIDE DEF u, v
  <2> QED BY <2>1, <2>2 DEF Agree
<1>3. Alike(b.topology, c.topology)
  BY SnapshotsAlike DEF Agree, IsBackend
<1>4. Alike(u.topology, v.topology)
  <2>1. CASE op.kind = "SetProperty"
    <3>1. u.topology = b.topology /\ v.topology = c.topology
      BY <2>1 DEF Applied
    <3> QED BY <3>1, <1>3
  <2>2. CASE op.kind # "SetProperty"
    <3>1. /\ u.topology = apply_structural_op(b.topology, op)
          /\ v.topology = apply_structural_op(c.topology, op)
      BY <2>2 DEF Applied
    <3> QED BY <3>1, <2>2, <1>3, StructuralAlike
  <2> QED BY <2>1, <2>2
<1>5. snapshot(u.topology) = snapshot(v.topology)
  <2> HIDE DEF u, v
  <2> QED BY <1>1, <1>4, SnapshotsAlike DEF IsBackend
<1> QED BY <1>1, <1>2, <1>5 DEF Agree

\* A replica rebuilt from a snapshot shows what its source shows.
LEMMA RestoreAgrees ==
  ASSUME NEW b, IsBackend(b), Sound(b.topology)
  PROVE  LET u == Restore(Snapshot(b)) IN
         /\ IsBackend(u) /\ Sound(u.topology) /\ Agree(u, b)
         /\ DOMAIN u.topology.nodes \subseteq DOMAIN b.topology.nodes
         /\ DOMAIN u.topology.edges \subseteq DOMAIN b.topology.edges
<1> DEFINE u == Restore(Snapshot(b))
           t == b.topology
<1>1. u = [applied_seq |-> b.applied_seq, topology |-> restore(snapshot(t)),
           schemas |-> b.schemas]
  BY DEF Restore, Snapshot
<1>2. IsTopology(t)
  BY DEF IsBackend
<1>3. /\ IsTopology(u.topology) /\ Alike(t, u.topology)
      /\ DOMAIN u.topology.nodes = LiveNodes(t) /\ DOMAIN u.topology.edges = LiveEdges(t)
  BY <1>1, <1>2, RestoreShows
<1> HIDE DEF u
<1>4. IsBackend(u)
  BY <1>1, <1>3 DEF IsBackend
<1>5. snapshot(u.topology) = snapshot(t)
  BY <1>2, <1>3, SnapshotsAlike
<1>6. Sound(u.topology)
  <2>1. /\ \A i : is_live_node(t, i) <=> is_live_node(u.topology, i)
        /\ \A i : tree_parent(t, i) = tree_parent(u.topology, i)
    BY <1>3, AlikeReads
  <2>2. NoTreeCycle(u.topology)
    BY <2>1 DEF Sound, NoTreeCycle
  <2>3. NoOrphanEdge(u.topology)
    BY <2>1, <1>3 DEF Sound, NoOrphanEdge, Alike
  <2> QED BY <1>3, <2>2, <2>3 DEF Sound
<1>7. Agree(u, b)
  BY <1>1, <1>5 DEF Agree, Prop
<1> QED BY <1>3, <1>4, <1>6, <1>7 DEF u, LiveNodes, LiveEdges

-----------------------------------------------------------------------------
(* The inductive invariant. *)

\* No id is minted twice.
IdsAreUnique ==
    /\ \A m, n \in DOMAIN log : log[m].id = log[n].id => m = n
    /\ \A c \in Client : \A k \in DOMAIN pending[c] :
         \A n \in DOMAIN log : pending[c][k].id # log[n].id
    /\ \A c, d \in Client : \A k \in DOMAIN pending[c], j \in DOMAIN pending[d] :
         pending[c][k].id = pending[d][j].id => c = d /\ k = j

FirstIds(l, n) == {l[k].id : k \in 1..n}

\* b is sound, has applied ops of l only, and holds no entry of any other op.
OfLog(b, l) == /\ Sound(b.topology)
               /\ b.applied_seq \in 0..Len(l)
               /\ DOMAIN b.topology.nodes \subseteq FirstIds(l, b.applied_seq)
               /\ DOMAIN b.topology.edges \subseteq FirstIds(l, b.applied_seq)

\* canon is the fold of each prefix of the log, and in step with it.
CanonFolds ==
    /\ \A n \in 0..Len(log) : OfLog(canon[n], log) /\ canon[n].applied_seq = n
    /\ \A n \in 1..Len(log) : canon[n] = Applied(canon[n - 1], n, log[n])

\* Every replica holds a prefix of the log and nothing else.
ReplicasOfLog == \A r \in Replica : OfLog(replica[r], log)

IInv == /\ TypeOK /\ IdsAreUnique /\ CanonFolds
        /\ ReplicasOfLog /\ ReplicaFoldsLog /\ NoResurrection

-----------------------------------------------------------------------------
(* The beginning. *)

\* Nothing applied yet is a backend, and sound.
LEMMA EmptyIsSound ==
  /\ IsBackend(EmptyBackend) /\ Sound(EmptyBackend.topology)
  /\ EmptyBackend.applied_seq = 0
  /\ DOMAIN EmptyBackend.topology.nodes = {} /\ DOMAIN EmptyBackend.topology.edges = {}
<1>1. DOMAIN EmptyMap = {} /\ \A T : EmptyMap \in [{} -> T]
  BY DEF EmptyMap
<1> DEFINE t == EmptyTopology
<1>2. t = [nodes |-> EmptyMap, edges |-> EmptyMap]
  BY DEF EmptyTopology
<1> HIDE DEF t
<1>3. IsTopology(t)
  BY <1>1, <1>2 DEF IsTopology
<1>4. NoOrphanEdge(t)
  BY <1>1, <1>2 DEF NoOrphanEdge, LiveEdges
<1>5. NoTreeCycle(t)
  BY <1>1, <1>2, NoneAssumption DEF NoTreeCycle, tree_parent, is_live_node
<1>6. EmptyBackend = [applied_seq |-> 0, topology |-> t, schemas |-> EmptyMap]
  BY DEF EmptyBackend, t
<1> QED BY <1>1, <1>2, <1>3, <1>4, <1>5, <1>6 DEF IsBackend, Sound

\* Nothing has happened yet: every replica is empty.
LEMMA Initial == Init => IInv
<1> SUFFICES ASSUME Init PROVE IInv
  OBVIOUS
<1>1. /\ log = << >> /\ Len(log) = 0 /\ DOMAIN log = {}
      /\ \A c \in Client : pending[c] = << >> /\ DOMAIN pending[c] = {}
      /\ \A r \in Replica : replica[r] = EmptyBackend
      /\ DOMAIN canon = {0} /\ canon[0] = EmptyBackend
  BY DEF Init
<1>2. TypeOK
  BY <1>1, EmptyIsSound DEF Init, TypeOK
<1>3. OfLog(EmptyBackend, log)
  BY <1>1, EmptyIsSound DEF OfLog
<1>4. IdsAreUnique
  BY <1>1 DEF IdsAreUnique
<1>5. CanonFolds /\ ReplicasOfLog
  BY <1>1, <1>3, EmptyIsSound DEF CanonFolds, ReplicasOfLog
<1>6. ReplicaFoldsLog
  BY <1>1, EmptyIsSound DEF ReplicaFoldsLog, Agree
<1>7. NoResurrection
  BY <1>1 DEF NoResurrection
<1> QED BY <1>2, <1>4, <1>5, <1>6, <1>7 DEF IInv

-----------------------------------------------------------------------------
(* What a mutator does. *)

\* A client can only name what was minted.
LEMMA KnownIds ==
  ASSUME TypeOK, NEW c \in Client, NEW kind
  PROVE  Known(c, kind) \subseteq CrdtId
<1>1. \A n \in DOMAIN log : log[n].id \in CrdtId
  BY OpFields DEF TypeOK
<1>2. \A k \in DOMAIN pending[c] : pending[c][k].id \in CrdtId
  <2>1. pending[c] \in Seq(Op)
    BY DEF TypeOK
  <2> QED BY <2>1, OpFields
<1> QED BY <1>1, <1>2 DEF Known

\* A mutator queues an op under a fresh id, and at most makes a default record.
LEMMA MutateStep ==
  ASSUME TypeOK, NEW c \in Client, Mutate(c)
  PROVE  /\ \E op \in Op : /\ op.id \notin Minted
                           /\ pending' = [pending EXCEPT ![c] = Append(@, op)]
         /\ log' = log /\ canon' = canon
         /\ \/ replica' = replica
            \/ \E id \in CrdtId :
                 replica' = [replica EXCEPT ![c].schemas = OrDefault(@, id)]
<1>1. CASE add_node(c)
  <2>1. PICK id \in CrdtId :
          /\ Queue(c, AddNodeOp(id))
          /\ replica' = [replica EXCEPT ![c].schemas = OrDefault(@, id)]
    BY <1>1 DEF add_node
  <2>2. AddNodeOp(id) \in Op
    BY DEF AddNodeOp, Op
  <2> QED BY <2>1, <2>2 DEF Queue
<1>2. CASE remove_node(c)
  <2>1. PICK id \in CrdtId, n \in Known(c, "AddNode") :
          Queue(c, RemoveNodeOp(id, n)) /\ replica' = replica
    BY <1>2 DEF remove_node
  <2>2. RemoveNodeOp(id, n) \in Op
    BY KnownIds DEF RemoveNodeOp, Op
  <2> QED BY <2>1, <2>2 DEF Queue
<1>3. CASE move_node(c)
  <2>1. PICK id \in CrdtId, n \in Known(c, "AddNode"),
             p \in Known(c, "AddNode") \cup {None}, k \in OrderKey :
          Queue(c, MoveOp(id, n, p, k)) /\ replica' = replica
    BY <1>3 DEF move_node
  <2>2. MoveOp(id, n, p, k) \in Op
    BY KnownIds DEF MoveOp, Op
  <2> QED BY <2>1, <2>2 DEF Queue
<1>4. CASE add_edge(c)
  <2>1. PICK id \in CrdtId, f \in Known(c, "AddNode"), t \in Known(c, "AddNode") :
          Queue(c, AddRefEdgeOp(id, f, t)) /\ replica' = replica
    BY <1>4 DEF add_edge
  <2>2. AddRefEdgeOp(id, f, t) \in Op
    BY KnownIds DEF AddRefEdgeOp, Op
  <2> QED BY <2>1, <2>2 DEF Queue
<1>5. CASE remove_edge(c)
  <2>1. PICK id \in CrdtId, e \in Known(c, "AddRefEdge") :
          Queue(c, RemoveRefEdgeOp(id, e)) /\ replica' = replica
    BY <1>5 DEF remove_edge
  <2>2. RemoveRefEdgeOp(id, e) \in Op
    BY KnownIds DEF RemoveRefEdgeOp, Op
  <2> QED BY <2>1, <2>2 DEF Queue
<1>6. CASE set_property(c)
  <2>1. PICK id \in CrdtId, n \in Known(c, "AddNode") \cup Known(c, "AddRefEdge") :
          Queue(c, SetPropertyOp(id, n)) /\ replica' = replica
    BY <1>6 DEF set_property
  <2>2. SetPropertyOp(id, n) \in Op
    BY KnownIds DEF SetPropertyOp, Op
  <2> QED BY <2>1, <2>2 DEF Queue
<1> QED BY <1>1, <1>2, <1>3, <1>4, <1>5, <1>6 DEF Mutate

-----------------------------------------------------------------------------
(* The steps. *)

\* A replica in step with the log stays so when the log grows, and when it
\* makes a default record.
LEMMA OfLogKept ==
  ASSUME NEW b, OfLog(b, log), NEW op \in Op, TypeOK, log' = log \/ log' = Append(log, op)
  PROVE  OfLog(b, log')
<1>1. Len(log') >= Len(log) /\ \A k \in 1..Len(log) : log'[k] = log[k]
  BY DEF TypeOK
<1>2. b.applied_seq \in 0..Len(log) /\ Len(log) \in Nat /\ Len(log') \in Nat
  BY DEF OfLog, TypeOK
<1>3. FirstIds(log', b.applied_seq) = FirstIds(log, b.applied_seq)
  BY <1>1, <1>2 DEF FirstIds
<1> QED BY <1>1, <1>2, <1>3 DEF OfLog

\* A mutator keeps everything: what readers see does not move before the log
\* does.
LEMMA MutateKeeps ==
  ASSUME IInv, NEW c \in Client, Mutate(c)
  PROVE  IInv'
<1>1. TypeOK /\ IdsAreUnique
  BY DEF IInv
<1>2. PICK op \in Op : op.id \notin Minted /\ pending' = [pending EXCEPT ![c] = Append(@, op)]
  BY <1>1, MutateStep
<1>3. log' = log /\ canon' = canon
  BY <1>1, MutateStep
<1> DEFINE ShowsSame(r) == /\ IsBackend(replica'[r])
                            /\ replica'[r].topology = replica[r].topology
                            /\ replica'[r].applied_seq = replica[r].applied_seq
                            /\ \A i \in CrdtId : Prop(replica'[r], i) = Prop(replica[r], i)
<1>4. \A r \in Replica : ShowsSame(r)
  <2>1. CASE replica' = replica
    BY <2>1, <1>1 DEF TypeOK
  <2>2. ASSUME NEW id \in CrdtId, replica' = [replica EXCEPT ![c].schemas = OrDefault(@, id)]
        PROVE  \A r \in Replica : ShowsSame(r)
    <3> SUFFICES ASSUME NEW r \in Replica PROVE ShowsSame(r)
      OBVIOUS
    <3>1. IsBackend(replica[r]) /\ r \in DOMAIN replica
      BY <1>1 DEF TypeOK
    <3>2. CASE r # c
      BY <2>2, <3>1, <3>2
    <3>3. CASE r = c
      <4> DEFINE s == replica[r].schemas
                 o == OrDefault(s, id)
      <4>1. DOMAIN s \subseteq CrdtId /\ s \in [DOMAIN s -> Nat]
        BY <3>1 DEF IsBackend
      <4>2. /\ DOMAIN o = DOMAIN s \cup {id} /\ o \in [DOMAIN s \cup {id} -> Nat]
            /\ \A i \in DOMAIN s : o[i] = s[i]
            /\ id \notin DOMAIN s => o[id] = 0
        BY <4>1, OrDefaultEffect
      <4>3. replica'[r] = [applied_seq |-> replica[r].applied_seq,
                           topology |-> replica[r].topology, schemas |-> o]
        BY <2>2, <3>1, <3>3 DEF IsBackend
      <4> HIDE DEF o
      <4> QED BY <3>1, <4>1, <4>2, <4>3 DEF IsBackend, Prop
    <3> QED BY <3>2, <3>3
  <2> QED BY <1>1, <2>1, <2>2, MutateStep
<1>5. TypeOK'
  <2>1. DOMAIN replica' = Replica
    BY <1>1, MutateStep DEF TypeOK
  <2>2. pending' \in [Client -> Seq(Op)]
    BY <1>1, <1>2 DEF TypeOK
  <2> QED BY <1>1, <1>3, <1>4, <2>1, <2>2 DEF TypeOK
<1>6. IdsAreUnique'
  <2>1. /\ \A d \in Client : d # c => pending'[d] = pending[d]
        /\ DOMAIN pending'[c] = 1..Len(pending[c]) + 1
        /\ DOMAIN pending[c] = 1..Len(pending[c]) /\ Len(pending[c]) \in Nat
        /\ \A k \in 1..Len(pending[c]) : pending'[c][k] = pending[c][k]
        /\ pending'[c][Len(pending[c]) + 1] = op
    BY <1>1, <1>2 DEF TypeOK
  <2>2. /\ \A n \in DOMAIN log : op.id # log[n].id
        /\ \A d \in Client : \A k \in DOMAIN pending[d] : op.id # pending[d][k].id
    BY <1>2 DEF Minted
  <2>3. \A d \in Client : \A k \in DOMAIN pending'[d] :
          \/ k \in DOMAIN pending[d] /\ pending'[d][k] = pending[d][k]
          \/ d = c /\ k = Len(pending[c]) + 1 /\ pending'[d][k] = op
    BY <2>1
  <2> QED BY <1>1, <1>3, <2>2, <2>3 DEF IdsAreUnique
<1>7. CanonFolds' /\ NoResurrection'
  BY <1>3 DEF IInv, CanonFolds, NoResurrection
<1>8. ReplicasOfLog'
  BY <1>3, <1>4 DEF IInv, ReplicasOfLog, OfLog, FirstIds
<1>9. ReplicaFoldsLog'
  BY <1>3, <1>4 DEF IInv, ReplicaFoldsLog, Agree
<1> QED BY <1>5, <1>6, <1>7, <1>8, <1>9 DEF IInv

\* The id of an op that is not in the log yet names nothing in a replica.
LEMMA UnloggedIsFresh ==
  ASSUME NEW b, OfLog(b, log), TypeOK, NEW id, \A n \in DOMAIN log : id # log[n].id
  PROVE  Fresh(b.topology, id)
<1>1. b.applied_seq \in 0..Len(log) /\ DOMAIN log = 1..Len(log) /\ Len(log) \in Nat
  BY DEF OfLog, TypeOK
<1>2. id \notin FirstIds(log, b.applied_seq)
  BY <1>1 DEF FirstIds
<1> QED BY <1>2 DEF OfLog, Fresh

\* Nor does the id of an op that is later in the log than what was applied.
LEMMA LaterIsFresh ==
  ASSUME NEW b, OfLog(b, log), TypeOK, IdsAreUnique, NEW n \in 1..Len(log), b.applied_seq < n
  PROVE  Fresh(b.topology, log[n].id)
<1>1. /\ b.applied_seq \in 0..Len(log) /\ DOMAIN log = 1..Len(log) /\ Len(log) \in Nat
  BY DEF OfLog, TypeOK
<1>2. log[n].id \notin FirstIds(log, b.applied_seq)
  BY <1>1 DEF FirstIds, IdsAreUnique
<1> QED BY <1>2 DEF OfLog, Fresh

\* An appended op extends the fold of the log, and what was gone stays gone.
LEMMA StampKeeps ==
  ASSUME IInv, NEW c \in Client, Stamp(c)
  PROVE  IInv'
<1> DEFINE op == Head(pending[c])
           n == Len(log) + 1
           u == Applied(canon[Len(log)], n, op)
<1>1. TypeOK /\ IdsAreUnique /\ CanonFolds
  BY DEF IInv
<1>2. /\ pending[c] # << >> /\ log' = Append(log, op)
      /\ canon' = Put(canon, n, u)
      /\ pending' = [pending EXCEPT ![c] = Tail(@)] /\ replica' = replica
  BY DEF Stamp
<1>3. op \in Op /\ 1 \in DOMAIN pending[c] /\ op = pending[c][1] /\ pending[c] \in Seq(Op)
  BY <1>1, <1>2 DEF TypeOK
<1>4. /\ Len(log) \in Nat /\ DOMAIN log = 1..Len(log)
      /\ Len(log') = n /\ DOMAIN log' = 1..n /\ log' \in Seq(Op)
      /\ \A k \in 1..Len(log) : log'[k] = log[k]
      /\ log'[n] = op
  BY <1>1, <1>2, <1>3 DEF TypeOK
<1>5. /\ DOMAIN canon' = 0..n /\ canon'[n] = u
      /\ \A k \in 0..Len(log) : canon'[k] = canon[k]
  BY <1>1, <1>2, <1>4 DEF TypeOK, Put
<1>6. /\ IsBackend(canon[Len(log)]) /\ OfLog(canon[Len(log)], log)
      /\ canon[Len(log)].applied_seq = Len(log)
  BY <1>1, <1>4 DEF TypeOK, CanonFolds
<1>7. \A k \in DOMAIN log : op.id # log[k].id
  BY <1>1, <1>3 DEF IdsAreUnique
<1>8. Fresh(canon[Len(log)].topology, op.id)
  BY <1>1, <1>6, <1>7, UnloggedIsFresh
<1>9. /\ IsBackend(u) /\ Sound(u.topology) /\ u.applied_seq = n
      /\ Follows(canon[Len(log)].topology, u.topology, op.id)
  BY <1>3, <1>4, <1>6, <1>8, AppliedKeeps DEF OfLog
<1> HIDE DEF u
<1>10. TypeOK'
  <2>1. pending' \in [Client -> Seq(Op)]
    BY <1>1, <1>2 DEF TypeOK
  <2>2. \A k \in DOMAIN canon' : IsBackend(canon'[k])
    BY <1>1, <1>4, <1>5, <1>9 DEF TypeOK
  <2> QED BY <1>1, <1>2, <1>4, <1>5, <2>1, <2>2 DEF TypeOK
<1>11. IdsAreUnique'
  <2>1. /\ \A d \in Client : d # c => pending'[d] = pending[d]
        /\ \A k \in DOMAIN pending'[c] :
             k + 1 \in DOMAIN pending[c] /\ k \in Nat \ {0} /\ pending'[c][k] = pending[c][k + 1]
    BY <1>1, <1>2, <1>3 DEF TypeOK
  <2>2. \A m, k \in DOMAIN log' : log'[m].id = log'[k].id => m = k
    BY <1>1, <1>4, <1>7 DEF IdsAreUnique
  <2>3. ASSUME NEW d \in Client, NEW k \in DOMAIN pending'[d]
        PROVE  \E j \in DOMAIN pending[d] : /\ pending'[d][k] = pending[d][j]
                                            /\ j = IF d = c THEN k + 1 ELSE k
                                            /\ d = c => j # 1
    BY <2>1
  <2>4. \A d \in Client : \A k \in DOMAIN pending'[d] : \A m \in DOMAIN log' :
          pending'[d][k].id # log'[m].id
    <3> SUFFICES ASSUME NEW d \in Client, NEW k \in DOMAIN pending'[d], NEW m \in DOMAIN log'
                 PROVE  pending'[d][k].id # log'[m].id
      OBVIOUS
    <3>1. PICK j \in DOMAIN pending[d] : /\ pending'[d][k] = pending[d][j]
                                         /\ d = c => j # 1
      BY <2>3
    <3>2. CASE m \in DOMAIN log
      BY <1>1, <1>4, <3>1, <3>2 DEF IdsAreUnique
    <3>3. CASE m = n
      BY <1>1, <1>3, <1>4, <3>1, <3>3 DEF IdsAreUnique
    <3> QED BY <1>4, <3>2, <3>3
  <2>5. ASSUME NEW d \in Client, NEW e \in Client,
               NEW k \in DOMAIN pending'[d], NEW j \in DOMAIN pending'[e],
               pending'[d][k].id = pending'[e][j].id
        PROVE  d = e /\ k = j
    <3>1. PICK kk \in DOMAIN pending[d] : /\ pending'[d][k] = pending[d][kk]
                                          /\ kk = IF d = c THEN k + 1 ELSE k
      BY <2>3
    <3>2. PICK jj \in DOMAIN pending[e] : /\ pending'[e][j] = pending[e][jj]
                                          /\ jj = IF e = c THEN j + 1 ELSE j
      BY <2>3
    <3>3. d = e /\ kk = jj
      BY <1>1, <2>5, <3>1, <3>2 DEF IdsAreUnique
    <3>4. CASE d = c
      BY <2>1, <3>1, <3>2, <3>3, <3>4
    <3>5. CASE d # c
      BY <3>1, <3>2, <3>3, <3>5
    <3> QED BY <3>3, <3>4, <3>5
  <2> QED BY <2>2, <2>4, <2>5 DEF IdsAreUnique
<1>12. \A b : OfLog(b, log) => OfLog(b, log')
  BY <1>1, <1>2, <1>3, OfLogKept
<1>13. CanonFolds'
  <2>1. OfLog(u, log')
    <3>1. /\ FirstIds(log, Len(log)) \cup {op.id} \subseteq FirstIds(log', n)
      BY <1>4 DEF FirstIds
    <3>2. /\ DOMAIN u.topology.nodes \subseteq FirstIds(log', n)
          /\ DOMAIN u.topology.edges \subseteq FirstIds(log', n)
      BY <1>6, <1>9, <3>1 DEF Follows, OfLog
    <3> QED BY <1>4, <1>9, <3>2 DEF OfLog
  <2>2. \A k \in 0..n : OfLog(canon'[k], log') /\ canon'[k].applied_seq = k
    <3> SUFFICES ASSUME NEW k \in 0..n PROVE OfLog(canon'[k], log') /\ canon'[k].applied_seq = k
      OBVIOUS
    <3>1. CASE k = n
      BY <1>5, <1>9, <2>1, <3>1
    <3>2. CASE k \in 0..Len(log)
      BY <1>1, <1>5, <1>12, <3>2 DEF CanonFolds
    <3> QED BY <1>4, <3>1, <3>2
  <2>3. \A k \in 1..n : canon'[k] = Applied(canon'[k - 1], k, log'[k])
    <3> SUFFICES ASSUME NEW k \in 1..n PROVE canon'[k] = Applied(canon'[k - 1], k, log'[k])
      OBVIOUS
    <3>1. CASE k = n
      BY <1>4, <1>5, <3>1 DEF u
    <3>2. CASE k \in 1..Len(log)
      <4>1. k \in 0..Len(log) /\ k - 1 \in 0..Len(log)
        BY <1>4, <3>2
      <4> QED BY <1>1, <1>4, <1>5, <3>2, <4>1 DEF CanonFolds
    <3> QED BY <1>4, <3>1, <3>2
  <2> QED BY <1>4, <2>2, <2>3 DEF CanonFolds
<1>14. ReplicasOfLog'
  BY <1>2, <1>12 DEF IInv, ReplicasOfLog
<1>15. ReplicaFoldsLog'
  BY <1>1, <1>2, <1>4, <1>5 DEF IInv, ReplicaFoldsLog, ReplicasOfLog, OfLog
<1>16. NoResurrection'
  <2> DEFINE Gone(s, t) == /\ DeadNodes(s) \subseteq DeadNodes(t)
                           /\ DeadEdges(s) \subseteq DeadEdges(t)
  <2>1. \A k \in 0..Len(log) : \A m \in k..Len(log) : Gone(canon[k].topology, canon[m].topology)
    BY <1>1 DEF IInv, NoResurrection, DeadNodes, DeadEdges, TypeOK
  <2>2. Gone(canon[Len(log)].topology, u.topology)
    BY <1>9 DEF Follows
  <2>3. \A s, t, v : Gone(s, t) /\ Gone(t, v) => Gone(s, v)
    OBVIOUS
  <2>4. \A s : Gone(s, s)
    OBVIOUS
  <2> HIDE DEF Gone
  <2>5. ASSUME NEW k \in 0..n, NEW m \in k..n
        PROVE  Gone(canon'[k].topology, canon'[m].topology)
    <3>1. CASE m \in 0..Len(log)
      <4>1. k \in 0..Len(log)
        BY <1>4, <3>1
      <4> QED BY <1>4, <1>5, <2>1, <3>1, <4>1
    <3>2. CASE m = n /\ k \in 0..Len(log)
      <4>1. Gone(canon[k].topology, canon[Len(log)].topology)
        <5>1. Len(log) \in k..Len(log)
          BY <1>4, <3>2
        <5> QED BY <2>1, <3>2, <5>1
      <4> QED BY <1>4, <1>5, <2>2, <2>3, <3>2, <4>1
    <3>3. CASE m = n /\ k = n
      BY <2>4, <3>3
    <3> QED BY <1>4, <3>1, <3>2, <3>3
  <2> QED BY <1>4, <1>5, <2>5 DEF NoResurrection, DeadNodes, DeadEdges, Gone
<1> QED BY <1>10, <1>11, <1>13, <1>14, <1>15, <1>16 DEF IInv

\* Steps that only give one replica another value.
LEMMA ReplicaKeeps ==
  ASSUME IInv, NEW r \in Replica, NEW b, IsBackend(b), OfLog(b, log),
         Agree(b, canon[b.applied_seq]),
         replica' = [replica EXCEPT ![r] = b], UNCHANGED <<log, pending, canon>>
  PROVE  IInv'
<1>1. \A q \in Replica : replica'[q] = IF q = r THEN b ELSE replica[q]
  BY DEF IInv, TypeOK
<1>2. TypeOK'
  BY <1>1 DEF IInv, TypeOK
<1>3. \A q \in Replica : OfLog(replica'[q], log) /\ Agree(replica'[q], canon[replica'[q].applied_seq])
  BY <1>1 DEF IInv, ReplicasOfLog, ReplicaFoldsLog
<1>4. ReplicasOfLog'
  BY <1>3 DEF ReplicasOfLog, OfLog, FirstIds
<1>5. ReplicaFoldsLog'
  BY <1>3 DEF ReplicaFoldsLog, OfLog, Agree, IInv, TypeOK
<1>6. IdsAreUnique'
  BY DEF IInv, IdsAreUnique
<1>7. CanonFolds' /\ NoResurrection'
  BY DEF IInv, CanonFolds, NoResurrection
<1> QED BY <1>2, <1>4, <1>5, <1>6, <1>7 DEF IInv

\* An entry is applied in its place or not at all.
LEMMA DeliverKeeps ==
  ASSUME IInv, NEW r \in Replica, Deliver(r)
  PROVE  IInv'
<1>1. PICK n \in DOMAIN log : /\ replica' = [replica EXCEPT ![r] = apply_remote(@, n, log[n])]
                              /\ UNCHANGED <<log, pending, canon>>
  BY DEF Deliver
<1> DEFINE b == replica[r]
           u == apply_remote(b, n, log[n])
<1>2. /\ TypeOK /\ IdsAreUnique /\ CanonFolds
      /\ IsBackend(b) /\ OfLog(b, log) /\ Agree(b, canon[b.applied_seq]) /\ r \in DOMAIN replica
  BY DEF IInv, TypeOK, ReplicasOfLog, ReplicaFoldsLog
<1>3. replica' = [replica EXCEPT ![r] = u]
  BY <1>1
<1>4. /\ n \in 1..Len(log) /\ Len(log) \in Nat /\ log[n] \in Op
      /\ b.applied_seq \in 0..Len(log)
  BY <1>2 DEF TypeOK, OfLog
<1>5. CASE u = b
  BY <1>1, <1>2, <1>3, <1>5, ReplicaKeeps
<1>6. CASE n = b.applied_seq + 1 /\ u = Applied(b, n, log[n])
  <2> DEFINE c == canon[b.applied_seq]
  <2>1. /\ IsBackend(c) /\ OfLog(c, log) /\ c.applied_seq = b.applied_seq
        /\ canon[n] = Applied(c, n, log[n])
    <3>1. n - 1 = b.applied_seq /\ b.applied_seq \in DOMAIN canon
      BY <1>2, <1>4, <1>6 DEF TypeOK
    <3> QED BY <1>2, <1>4, <3>1 DEF TypeOK, CanonFolds
  <2>2. Fresh(b.topology, log[n].id) /\ Fresh(c.topology, log[n].id)
    BY <1>2, <1>4, <1>6, <2>1, LaterIsFresh
  <2>3. /\ IsBackend(u) /\ Sound(u.topology) /\ u.applied_seq = n
        /\ Follows(b.topology, u.topology, log[n].id)
    BY <1>2, <1>4, <1>6, <2>2, AppliedKeeps DEF OfLog
  <2>4. Agree(u, canon[n])
    BY <1>2, <1>4, <1>6, <2>1, <2>2, AppliedAgrees DEF OfLog
  <2> HIDE DEF u
  <2>5. FirstIds(log, b.applied_seq) \cup {log[n].id} \subseteq FirstIds(log, n)
    BY <1>4, <1>6 DEF FirstIds
  <2>6. OfLog(u, log)
    BY <1>2, <1>4, <2>3, <2>5 DEF OfLog, Follows
  <2> QED BY <1>1, <1>3, <2>3, <2>4, <2>6, ReplicaKeeps
<1>7. u = b \/ (n = b.applied_seq + 1 /\ u = Applied(b, n, log[n]))
  <2>1. apply_error(b, n) = "Ok" => n = b.applied_seq + 1
    BY <1>4, SeqAssumption DEF apply_error
  <2> QED BY <2>1 DEF apply_remote
<1> QED BY <1>5, <1>6, <1>7

\* A restored replica is as far as its source and shows the same.
LEMMA HydrateKeeps ==
  ASSUME IInv, NEW r \in Replica, Hydrate(r)
  PROVE  IInv'
<1>1. PICK s \in Replica : /\ replica' = [replica EXCEPT ![r] = Restore(Snapshot(replica[s]))]
                           /\ UNCHANGED <<log, pending, canon>>
  BY DEF Hydrate
<1> DEFINE b == replica[s]
           u == Restore(Snapshot(b))
<1>2. IsBackend(b) /\ OfLog(b, log) /\ Agree(b, canon[b.applied_seq])
  BY DEF IInv, TypeOK, ReplicasOfLog, ReplicaFoldsLog
<1>3. /\ IsBackend(u) /\ Sound(u.topology) /\ Agree(u, b)
      /\ DOMAIN u.topology.nodes \subseteq DOMAIN b.topology.nodes
      /\ DOMAIN u.topology.edges \subseteq DOMAIN b.topology.edges
  BY <1>2, RestoreAgrees DEF OfLog
<1>4. replica' = [replica EXCEPT ![r] = u]
  BY <1>1
<1> HIDE DEF u, b
<1>5. OfLog(u, log) /\ Agree(u, canon[u.applied_seq])
  BY <1>2, <1>3 DEF OfLog, Agree
<1> QED BY <1>1, <1>3, <1>4, <1>5, ReplicaKeeps

\* Whatever the clients, the server and the network do next.
LEMMA Inductive == IInv /\ [Next]_vars => IInv'
<1> SUFFICES ASSUME IInv, [Next]_vars PROVE IInv'
  OBVIOUS
<1>1. CASE \E c \in Client : Mutate(c)
  BY <1>1, MutateKeeps
<1>2. CASE \E c \in Client : Stamp(c)
  BY <1>2, StampKeeps
<1>3. CASE \E r \in Replica : Deliver(r)
  BY <1>3, DeliverKeeps
<1>4. CASE \E r \in Replica : Hydrate(r)
  BY <1>4, HydrateKeeps
<1>5. CASE UNCHANGED vars
  BY <1>5 DEF vars, IInv, TypeOK, IdsAreUnique, CanonFolds, ReplicasOfLog, ReplicaFoldsLog,
              NoResurrection
<1> QED BY <1>1, <1>2, <1>3, <1>4, <1>5 DEF Next

-----------------------------------------------------------------------------
(* What follows. *)

\* Every reachable state is well typed (backend.rs: Backend).
THEOREM TypeCorrect == Spec => []TypeOK
<1>1. IInv => TypeOK
  BY DEF IInv
<1> QED BY <1>1, Initial, Inductive, PTL DEF Spec

\* Convergence: a replica that has applied n ops shows what folding the first
\* n log entries gives, however it came to it (id.rs:28-31).
THEOREM Convergence == Spec => []ReplicaFoldsLog
<1>1. IInv => ReplicaFoldsLog
  BY DEF IInv
<1> QED BY <1>1, Initial, Inductive, PTL DEF Spec

\* Concurrent moves never close a cycle on any replica (op.rs:9).
THEOREM TreesStayTrees == Spec => []NoTreeCycles
<1>1. IInv => NoTreeCycles
  BY DEF IInv, ReplicasOfLog, OfLog, Sound, NoTreeCycles
<1> QED BY <1>1, Initial, Inductive, PTL DEF Spec

\* No replica ever shows an edge at a node that is gone (topology.rs:233-239).
THEOREM EdgesHaveEnds == Spec => []NoOrphanEdges
<1>1. IInv => NoOrphanEdges
  BY DEF IInv, ReplicasOfLog, OfLog, Sound, NoOrphanEdges
<1> QED BY <1>1, Initial, Inductive, PTL DEF Spec

\* What an op has removed from the tree no later op brings back (topology.rs:
\* the arms of apply_structural_op).
THEOREM RemovalIsFinal == Spec => []NoResurrection
<1>1. IInv => NoResurrection
  BY DEF IInv
<1> QED BY <1>1, Initial, Inductive, PTL DEF Spec
=============================================================================
