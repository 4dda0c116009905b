----------------------------- MODULE GraphSearch -----------------------------
(***************************************************************************)
(* The iterators every view of a graph has (kyoso_graph/src/traverse.rs)   *)
(* and the algorithms built of them (algo.rs), one step for each node that *)
(* is taken up.  An order of the edges at a node stands for the order keys *)
(* of an ordered view; Reverse(view) is direction "in".                    *)
(***************************************************************************)
EXTENDS GraphWalk

CONSTANTS SearchGraphs,  \* the graphs searched
          Searches       \* the searches asked for: asked as in GraphWalk, and goal, accepts

Queues == {"bfs_iter", "edge_bfs_iter", "bfs_iter_with_depth", "ordered_bfs_iter",
           "affected_subgraph", "connected_component", "bfs_path"}
Stacks == {"dfs_iter", "edge_dfs_iter", "dfs_iter_with_depth", "ordered_dfs_iter"}

Begun(n) == [node |-> n, edge |-> 0, depth |-> 0, parent |-> 0]

\* What a row of the frontier leads to, edge by edge; the undirected searches
\* go to the successors first.
Onward(row) ==
    LET arcs == (IF asked.direction = "in" THEN <<>> ELSE outgoing(row.node))
                \o (IF asked.direction = "out" THEN <<>> ELSE incoming(row.node))
    IN  [i \in DOMAIN arcs |-> [node |-> arcs[i].node, edge |-> arcs[i].edge,
                                depth |-> row.depth + 1, parent |-> row.node]]

\* The rows whose node is not visited yet, the first one of each node.
Unvisited(rows) ==
    FoldLeft(LAMBDA rs, r : IF r.node \in visited \cup {s.node : s \in ToSet(rs)} THEN rs
                            ELSE Append(rs, r),
             <<>>, rows)

SearchInit ==
    /\ graph \in SearchGraphs /\ asked \in Searches
    /\ frontier = IF asked.order = "find_paths" THEN <<<<asked.start>>>> ELSE <<Begun(asked.start)>>
    /\ visited = IF asked.order \in Queues THEN {asked.start} ELSE {}
    /\ yielded = <<>> /\ walking = "running"

Searching(order) == walking = "running" /\ asked.order = order /\ frontier # <<>>

-----------------------------------------------------------------------------
\* A queue marks what it takes in, and yields its head.
Dequeue(onward) ==
    LET fresh == Unvisited(onward)
    IN  /\ frontier' = Tail(frontier) \o fresh
        /\ visited' = visited \cup {r.node : r \in ToSet(fresh)}
        /\ UNCHANGED <<graph, asked>>

Item(row, fields) == [f \in fields |-> row[f]]

BfsIter ==
    /\ Searching("bfs_iter")
    /\ yielded' = Append(yielded, Item(Head(frontier), {"node"}))
    /\ Dequeue(Onward(Head(frontier))) /\ UNCHANGED walking

BfsIterWithDepth ==
    /\ Searching("bfs_iter_with_depth")
    /\ yielded' = Append(yielded, Item(Head(frontier), {"node", "depth", "parent"}))
    /\ Dequeue(Onward(Head(frontier))) /\ UNCHANGED walking

EdgeBfsIter ==
    /\ Searching("edge_bfs_iter")
    /\ yielded' = Append(yielded, Item(Head(frontier), {"node", "edge"}))
    /\ Dequeue(Onward(Head(frontier))) /\ UNCHANGED walking

OrderedBfsIter ==
    /\ Searching("ordered_bfs_iter")
    /\ yielded' = Append(yielded, Item(Head(frontier), {"node"}))
    /\ Dequeue(Onward(Head(frontier))) /\ UNCHANGED walking

\* A stack marks what it takes out: a node on it twice is dropped the second
\* time.
Pop(onward, fields) ==
    LET row == Last(frontier)
    IN  /\ frontier' = Front(frontier) \o IF row.node \in visited THEN <<>> ELSE onward
        /\ visited' = visited \cup {row.node}
        /\ yielded' = IF row.node \in visited THEN yielded ELSE Append(yielded, Item(row, fields))
        /\ UNCHANGED <<graph, asked, walking>>

DfsIter == Searching("dfs_iter") /\ Pop(Onward(Last(frontier)), {"node"})

DfsIterWithDepth ==
    Searching("dfs_iter_with_depth") /\ Pop(Onward(Last(frontier)), {"node", "depth", "parent"})

EdgeDfsIter == Searching("edge_dfs_iter") /\ Pop(Onward(Last(frontier)), {"node", "edge"})

\* Mutant: the children are not turned round.
OrderedDfsIterUnturned == Searching("ordered_dfs_iter") /\ Pop(Onward(Last(frontier)), {"node"})

\* The first child is pushed last.
OrderedDfsIter == Searching("ordered_dfs_iter") /\ Pop(Reverse(Onward(Last(frontier))), {"node"})

-----------------------------------------------------------------------------
\* connected_component_undirected returns what it visited.
Component ==
    /\ Searching("connected_component")
    /\ Dequeue(Onward(Head(frontier))) /\ UNCHANGED <<yielded, walking>>

\* affected_subgraph with a depth.
Affected ==
    /\ Searching("affected_subgraph")
    /\ yielded' = Append(yielded, Item(Head(frontier), {"node"}))
    /\ Dequeue(IF Head(frontier).depth < asked.max_depth THEN Onward(Head(frontier)) ELSE <<>>)
    /\ UNCHANGED walking

\* The path back from the goal along the parents met so far.
PathTo(row) ==
    LET met == yielded \o <<row>>
        parent(n) == met[CHOOSE i \in DOMAIN met : met[i].node = n].parent
        back[k \in 0..row.depth] == IF k = 0 THEN row.node ELSE parent(back[k - 1])
    IN  [i \in 1..(row.depth + 1) |-> [node |-> back[row.depth + 1 - i]]]

\* bfs_path: the rows are the parents found, until the goal turns up and the
\* answer takes their place.
Path ==
    /\ Searching("bfs_path")
    /\ LET row == Head(frontier)
       IN  /\ yielded' = IF row.node = asked.goal THEN PathTo(row) ELSE Append(yielded, row)
           /\ walking' = IF row.node = asked.goal THEN "over" ELSE walking
           /\ Dequeue(Onward(row))

NoPath ==
    /\ walking = "running" /\ asked.order = "bfs_path" /\ frontier = <<>>
    /\ walking' = "over" /\ yielded' = <<>>
    /\ UNCHANGED <<graph, asked, frontier, visited>>

\* find_paths_recurse, the paths it has yet to look at on a stack: a path of
\* the length asked for is an answer, a shorter one goes on to the successors
\* it does not hold yet.
Paths ==
    /\ Searching("find_paths")
    /\ LET path == Last(frontier)
           next == Len(path) + 1
           onward == SelectSeq(successors(Last(path)),
                               LAMBDA n : n \notin ToSet(path) /\ n \in asked.accepts[next])
       IN  \/ /\ Len(path) = asked.max_depth \/ path[1] \notin asked.accepts[1]
              /\ frontier' = Front(frontier)
              /\ yielded' = IF path[1] \in asked.accepts[1] THEN Append(yielded, path) ELSE yielded
           \/ /\ Len(path) < asked.max_depth /\ path[1] \in asked.accepts[1]
              /\ frontier' = Front(frontier)
                             \o Reverse([i \in DOMAIN onward |-> Append(path, onward[i])])
              /\ UNCHANGED yielded
    /\ UNCHANGED <<graph, asked, visited, walking>>

SearchNext ==
    \/ BfsIter \/ BfsIterWithDepth \/ EdgeBfsIter \/ OrderedBfsIter
    \/ DfsIter \/ DfsIterWithDepth \/ EdgeDfsIter \/ OrderedDfsIter
    \/ Component \/ Affected \/ Path \/ NoPath \/ Paths

-----------------------------------------------------------------------------
\* The nodes next to n, in the order the search is offered them.
Beside(n) ==
    LET rows == Onward(Begun(n)) IN [i \in DOMAIN rows |-> rows[i].node]

Known(i) == {yielded[j].node : j \in 1..(i - 1)}

\* What lies next to the j-th node and was not met before the i-th.
Open(j, i) == SelectSeq(Beside(yielded[j].node), LAMBDA n : n \notin Known(i))

Expands(j) == asked.order # "affected_subgraph" \/ Distance(yielded[j].node) < asked.max_depth

\* The node the i-th is found from: a breadth-first search goes on from the
\* earliest node that still leads to a new one, a depth-first one from the latest.
Finder(i) ==
    LET open == {j \in 1..(i - 1) : Expands(j) /\ Open(j, i) # <<>>}
    IN  IF asked.order \in Queues THEN Min(open) ELSE Max(open)

\* Only a stack whose children are not turned round takes the last one first.
Taken1(i) ==
    LET open == Open(Finder(i), i)
    IN  IF asked.order \in Stacks \ {"ordered_dfs_iter"} THEN Last(open) ELSE Head(open)

InOrder ==
    \A i \in DOMAIN yielded :
        LET row == yielded[i]
        IN  IF i = 1 THEN row.node = asked.start
            ELSE /\ row.node = Taken1(i)
                 /\ "edge" \in DOMAIN row =>
                       graph[row.edge] \in {<<yielded[Finder(i)].node, row.node>>,
                                            <<row.node, yielded[Finder(i)].node>>}
                 /\ "depth" \in DOMAIN row =>
                       /\ row.parent = yielded[Finder(i)].node
                       /\ row.depth = yielded[Finder(i)].depth + 1

IsPath(p) == \A i \in 1..(Len(p) - 1) : p[i + 1].node \in ToSet(Beside(p[i].node))

\* How many ways the edges make one path.
Ways(p) ==
    LET ways[i \in 1..Len(p)] ==
            IF i = 1 THEN 1
            ELSE ways[i - 1] * Cardinality({e \in DOMAIN graph : graph[e] = <<p[i - 1], p[i]>>})
    IN  ways[Len(p)]

Simple == {p \in [1..asked.max_depth -> Vertex] :
              IsInjective(p) /\ p[1] = asked.start /\ \A i \in DOMAIN p : p[i] \in asked.accepts[i]}

\* The iterators take up each node in the one order that their name promises
\* and miss none that can be reached; a depth, a parent or an edge that comes
\* with a node is that of the node it was found from.  bfs_path finds a
\* shortest path, or none where there is none; find_paths_matching every path
\* of its length without repeated nodes, once for each choice of edges.
\* (traverse.rs, OrderedTraverse and TraversalNode; algo.rs.)
SearchesAreExact ==
    LET over == walking = "over"
    IN  /\ walking # "idle" /\ asked.order \in (Queues \cup Stacks) \ {"bfs_path", "connected_component"} =>
              InOrder /\ (over => Seen = Ball)
        /\ over /\ asked.order = "connected_component" => visited = Ball
        /\ over /\ asked.order = "bfs_path" =>
              IF asked.goal \in Ball
              THEN /\ yielded[1].node = asked.start /\ Last(yielded).node = asked.goal
                   /\ IsPath(yielded) /\ Len(yielded) = Distance(asked.goal) + 1
              ELSE yielded = <<>>
        /\ over /\ asked.order = "find_paths" =>
              \A p \in Simple : Cardinality({i \in DOMAIN yielded : yielded[i] = p}) = Ways(p)
        /\ asked.order = "find_paths" => ToSet(yielded) \subseteq Simple

\* Whatever traverses a graph yields what its definition says.  (traverse.rs,
\* algo.rs, walk.rs, navigate.rs.)
TraversalsAreExact == WalksAreExact /\ SearchesAreExact
=============================================================================
