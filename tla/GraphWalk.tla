------------------------------ MODULE GraphWalk ------------------------------
(***************************************************************************)
(* Walks over a scene's edges: BfsWalk and DfsWalk (kyoso_graph/src/       *)
(* traverse.rs) under the policy of a TraversalQuery (traversal/runner.rs, *)
(* the agent's walk), and bounded_bfs (kyoso_agent/src/navigate.rs), one   *)
(* step for each node the walk takes up.                                   *)
(***************************************************************************)
EXTENDS EdgeGraph

CONSTANTS WalkGraphs,  \* the graphs walked
          Walks        \* the walks asked for

VARIABLES
    asked,     \* order, start, max_depth, the step of each node, direction
    frontier,  \* the queue, or the stack with its top at the end
    visited,
    yielded,      \* the TraversalNodes yielded
    walking    \* "running" or "over"; "idle" where nobody asked

walkVars == <<asked, frontier, visited, yielded, walking>>

\* A max_depth no walk can reach: none was given.
Unbounded == Cardinality(Vertex)

\* The direction is navigate's; a TraversalQuery goes to the successors.
Around(n) ==
    (IF asked.direction \in {"out", "both"} THEN successors(n) ELSE <<>>)
    \o (IF asked.direction \in {"in", "both"} THEN predecessors(n) ELSE <<>>)

\* run_traversal's policy: the cap on the depth comes before the caller's step.
policy(row) == IF row.depth >= asked.max_depth THEN "skip" ELSE asked.step[row.node]

Rows(ns, row) == [i \in DOMAIN ns |-> [node |-> ns[i], depth |-> row.depth + 1, parent |-> row.node]]

\* The neighbours of n not visited yet, each once.
Fresh(n) ==
    FoldLeft(LAMBDA ns, m : IF m \in visited \cup ToSet(ns) THEN ns ELSE Append(ns, m),
             <<>>, Around(n))

-----------------------------------------------------------------------------
WalkIdle ==
    /\ asked = [order |-> "bfs", start |-> 0, max_depth |-> 0, step |-> <<>>, direction |-> "out"]
    /\ frontier = <<>> /\ visited = {} /\ yielded = <<>> /\ walking = "idle"

\* BfsWalk::new, DfsWalk::new, the head of bounded_bfs.
WalkInit ==
    /\ graph \in WalkGraphs /\ asked \in Walks
    /\ frontier = <<[node |-> asked.start, depth |-> 0, parent |-> 0]>>
    /\ visited = IF asked.order = "dfs" THEN {} ELSE {asked.start}
    /\ yielded = <<>> /\ walking = "running"

\* The frontier is empty.
WalkEnds ==
    /\ walking = "running" /\ asked.order # "bfs_path" /\ frontier = <<>>
    /\ walking' = "over"
    /\ UNCHANGED <<graph, asked, frontier, visited, yielded>>

Yield(row) == yielded' = IF policy(row) = "prune" THEN yielded ELSE Append(yielded, row)

Halt(row) == walking' = IF policy(row) = "stop" THEN "over" ELSE walking

\* BfsWalk::next takes the head of the queue, and marks what it queues.
BfsStep ==
    /\ walking = "running" /\ asked.order = "bfs" /\ frontier # <<>>
    /\ LET row == Head(frontier)
           fresh == IF policy(row) = "visit" THEN Fresh(row.node) ELSE <<>>
       IN  /\ frontier' = Tail(frontier) \o Rows(fresh, row)
           /\ visited' = visited \cup ToSet(fresh)
           /\ Yield(row) /\ Halt(row)
    /\ UNCHANGED <<graph, asked>>

\* DfsWalk::next takes the top of the stack, and marks what it takes: a node
\* on the stack twice is dropped the second time.
DfsStep ==
    /\ walking = "running" /\ asked.order = "dfs" /\ frontier # <<>>
    /\ LET row == Last(frontier)
           after == visited \cup {row.node}
           onward == SelectSeq(Around(row.node), LAMBDA m : m \notin after)
       IN  \/ /\ row.node \in visited
              /\ frontier' = Front(frontier)
              /\ UNCHANGED <<visited, yielded, walking>>
           \/ /\ row.node \notin visited
              /\ visited' = after
              /\ frontier' = Front(frontier)
                             \o IF policy(row) = "visit" THEN Rows(onward, row) ELSE <<>>
              /\ Yield(row) /\ Halt(row)
    /\ UNCHANGED <<graph, asked>>

\* One round of bounded_bfs: what it finds is in the answer at once, the node
\* it starts from never.
NearStep ==
    /\ walking = "running" /\ asked.order = "near" /\ frontier # <<>>
    /\ LET row == Head(frontier)
           found == IF row.depth >= asked.max_depth THEN <<>> ELSE Rows(Fresh(row.node), row)
       IN  /\ frontier' = Tail(frontier) \o found
           /\ visited' = visited \cup {r.node : r \in ToSet(found)}
           /\ yielded' = yielded \o found
    /\ UNCHANGED <<graph, asked, walking>>

WalkNext == WalkEnds \/ BfsStep \/ DfsStep \/ NearStep

-----------------------------------------------------------------------------
\* The nodes at most k steps from the start, over nodes the policy expands.
Within ==
    LET ball[k \in 0..Unbounded] ==
            IF k = 0 THEN {asked.start}
            ELSE ball[k - 1] \cup UNION {ToSet(Around(n)) :
                     n \in {m \in ball[k - 1] : asked.order = "near" \/ asked.step[m] = "visit"}}
    IN  ball

Ball == Within[asked.max_depth]
Distance(n) == CHOOSE k \in 0..Unbounded : n \in Within[k] /\ \A j \in 0..(k - 1) : n \notin Within[j]

\* The nodes of the ball a finished walk should have yielded: a pruned node is
\* hidden unless the cap is reached with it, when nobody asks for its step.
Expected ==
    IF asked.order = "near" THEN Ball \ {asked.start}
    ELSE {n \in Ball : asked.step[n] # "prune" \/ Distance(n) = asked.max_depth}

Seen == {yielded[i].node : i \in DOMAIN yielded}
Halted == \E i \in DOMAIN yielded : asked.order # "near" /\ policy(yielded[i]) = "stop"

\* Every row is yielded once, at most max_depth steps from the start, one step
\* further than the row it was reached from; none is pruned, and nothing follows
\* a stop.
RowsAreSteps ==
    /\ \A i, j \in DOMAIN yielded : yielded[i].node = yielded[j].node => i = j
    /\ \A i \in DOMAIN yielded :
          LET row == yielded[i]
          IN  /\ row.depth <= asked.max_depth
              /\ \/ row.parent = 0 /\ row.depth = 0 /\ row.node = asked.start
                 \/ row.node \in ToSet(Around(row.parent))
                    /\ (\/ asked.order = "near" /\ row.depth = 1 /\ row.parent = asked.start
                        \/ \E j \in 1..(i - 1) : yielded[j].node = row.parent
                                                 /\ yielded[j].depth + 1 = row.depth)
    /\ asked.order # "near" =>
          /\ \A i \in DOMAIN yielded : policy(yielded[i]) # "prune"
          /\ \A i \in 1..(Len(yielded) - 1) : policy(yielded[i]) # "stop"

\* In the ball every node can be entered from one other node at most, and the
\* start from none.
TreeLike ==
    \A n \in Ball : Cardinality({m \in Ball : n \in ToSet(Around(m))}) <= IF n = asked.start THEN 0 ELSE 1

\* A finished walk has yielded the nodes within its depth, no more; a breadth
\* first one all of them, at their distances and the nearest first, a depth
\* first one all of them where no cap is set or no node can be entered twice:
\* elsewhere it may meet a node on a long way first and stop at the cap.
\* (traverse.rs:101-112, query.rs:82-84, navigate.rs.)
WalksAreExact ==
    walking # "idle" /\ asked.order \in {"bfs", "dfs", "near"} =>
        /\ RowsAreSteps
        /\ Seen \subseteq (IF asked.order = "dfs" THEN Ball ELSE Expected)
        /\ asked.order # "dfs" =>
              /\ \A i \in DOMAIN yielded : yielded[i].depth = Distance(yielded[i].node)
              /\ \A i, j \in DOMAIN yielded : i < j => yielded[i].depth <= yielded[j].depth
        /\ /\ walking = "over" /\ ~ Halted
           /\ asked.order # "dfs" \/ asked.max_depth = Unbounded \/ TreeLike
           => Seen = Expected
=============================================================================
