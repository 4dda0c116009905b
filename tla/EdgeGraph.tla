------------------------------ MODULE EdgeGraph ------------------------------
(***************************************************************************)
(* The entity edges of a scene as kyoso_graph queries them (queries.rs,    *)
(* traverse.rs): every edge is an entity with an EdgeFrom and an EdgeTo,   *)
(* and a node lists its edges in the order they were connected.            *)
(***************************************************************************)
EXTENDS Integers, FiniteSets, Sequences, SequencesExt

CONSTANTS Vertex  \* the nodes, numbers

VARIABLE graph    \* the edges in the order of their making, each <<from, to>>

nodes == SetToSortSeq(Vertex, <)

EdgesWith(end, n) == SelectSeq([e \in DOMAIN graph |-> e], LAMBDA e : graph[e][end] = n)

\* The edges of n, each with the node at its other end.
Neighbours(end, other, n) ==
    LET arcs == EdgesWith(end, n)
    IN  [i \in DOMAIN arcs |-> [edge |-> arcs[i], node |-> graph[arcs[i]][other]]]

outgoing(n) == Neighbours(1, 2, n)
incoming(n) == Neighbours(2, 1, n)

\* The far ends alone; a node stands once for every edge that leads to it.
successors(n) == [i \in DOMAIN outgoing(n) |-> outgoing(n)[i].node]
predecessors(n) == [i \in DOMAIN incoming(n) |-> incoming(n)[i].node]
=============================================================================
