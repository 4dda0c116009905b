---------------------------- MODULE MCSceneAgent ----------------------------
EXTENDS SceneAgent

\* Two frames of one name and a rectangle, which has none.
MCName == 1 :> "frame" @@ 2 :> "frame" @@ 3 :> None

\* Every way to connect three nodes by three edges, parallel ones and loops
\* included.
MCMatchGraphs == [1..3 -> (1..3) \X (1..3)]

Slot(a) == [anchor |-> a, pred |-> Vertex]
Ahead(i, j) == [from |-> i, to |-> j, back |-> FALSE, pred |-> 1..3]
Astern(i, j) == [Ahead(i, j) EXCEPT !.back = TRUE]
Shape(slots, arcs) == [nodes |-> slots, edges |-> arcs]

MCPatterns == {
    \* a path, with and without a predicate or an anchor
    Shape(<<Slot(0), Slot(0), Slot(0)>>, <<Ahead(1, 2), Ahead(2, 3)>>),
    Shape(<<Slot(0), [Slot(0) EXCEPT !.pred = {1, 2}], Slot(0)>>, <<Ahead(1, 2), Ahead(3, 2)>>),
    Shape(<<Slot(0), Slot(0), Slot(3)>>, <<Ahead(1, 2), Ahead(2, 3)>>),
    \* two anchors
    Shape(<<Slot(1), Slot(3)>>, <<Ahead(1, 2)>>),
    \* there and back; twice the same way, as edges of either direction
    Shape(<<Slot(0), Slot(0)>>, <<Ahead(1, 2), Ahead(2, 1)>>),
    Shape(<<Slot(0), Slot(0)>>, <<Ahead(1, 2), Ahead(1, 2)>>),
    Shape(<<Slot(0), Slot(0)>>, <<Ahead(1, 2), Astern(2, 1)>>),
    \* triangles: a cycle, and one with an edge predicate
    Shape(<<Slot(0), Slot(0), Slot(0)>>, <<Ahead(1, 2), Ahead(2, 3), Astern(1, 3)>>),
    Shape(<<Slot(0), Slot(0), Slot(0)>>,
          <<[Ahead(1, 2) EXCEPT !.pred = {1, 3}], Ahead(2, 3), Ahead(1, 3)>>),
    \* in two parts; with a loop; a node alone; nothing
    Shape(<<Slot(0), Slot(0), Slot(0)>>, <<Ahead(1, 2)>>),
    Shape(<<Slot(0), Slot(0)>>, <<Ahead(1, 2), Ahead(2, 2)>>),
    Shape(<<Slot(0)>>, <<>>),
    Shape(<<>>, <<>>)}

\* Four edges out of six, in any order: a diamond, cycles, and trees.
MCWalkGraphs ==
    {g \in [1..4 -> {<<1, 2>>, <<1, 3>>, <<2, 3>>, <<3, 2>>, <<3, 4>>, <<4, 1>>}] : IsInjective(g)}

\* Every node is visited but one, and no cap, or a cap some node is beyond.
MCSteps ==
    {[n \in Vertex |-> IF n = odd THEN s ELSE "visit"] :
        odd \in Vertex, s \in {"visit", "skip", "prune", "stop"}}

MCWalks ==
    [order : {"bfs", "dfs"}, start : {1}, max_depth : {1, 2, 4}, step : MCSteps, direction : {"out"}]
    \cup [order : {"near"}, start : {1}, max_depth : {0, 1, 2, 4}, step : {<<>>},
          direction : {"out", "in", "both"}]

\* Four edges, parallel ones and loops included.
MCSearchGraphs ==
    {<<a, b, c, d>> : a \in {<<1, 2>>, <<1, 3>>}, b \in {<<1, 2>>, <<1, 3>>, <<2, 1>>},
                      c \in {<<2, 3>>, <<3, 2>>, <<2, 2>>}, d \in {<<3, 4>>, <<2, 4>>, <<4, 3>>}}

Asked(order, direction, depth, goal, accepts) ==
    [order |-> order, start |-> 1, max_depth |-> depth, direction |-> direction,
     goal |-> goal, accepts |-> accepts, step |-> [n \in Vertex |-> "visit"]]

MCSearches ==
    {Asked(o, d, 4, 0, <<>>) : o \in (Queues \cup Stacks) \ {"affected_subgraph", "connected_component", "bfs_path"},
                               d \in {"out", "in"}}
    \cup {Asked("affected_subgraph", "both", k, 0, <<>>) : k \in {0, 1, 2}}
    \cup {Asked("connected_component", "both", 4, 0, <<>>)}
    \cup {Asked("bfs_path", "out", 4, g, <<>>) : g \in Vertex}
    \cup {Asked("find_paths", "out", Len(a), 0, a) :
              a \in {<<Vertex>>, <<Vertex, Vertex, Vertex>>, <<Vertex, {2, 3}, {3, 4}>>, <<{2}, Vertex>>}}

\* All nodes at the top, two of them under the third, or one under the first.
MCScenes ==
    [parent : {[n \in Node |-> None], [n \in Node |-> IF n = 2 THEN 1 ELSE None],
               [n \in Node |-> IF n = 3 THEN 1 ELSE None]}
              \cup {[n \in Node |-> IF n = top THEN None ELSE top] : top \in Node},
     key : [Node -> Key]]

\* What has a meaning in a path, a letter and a digit.
Words(longest) == UNION {[1..n -> {"/", "a", "#", "[", "]", "\\", "1"}] : n \in 0..longest}

Spellings(longest) ==
    [kind : {"Named"}, name : Words(longest), index : {0, 1, 12}]
    \cup [kind : {"Ordered"}, key : Words(longest)]

MCSpokenPaths == UNION {[1..2 -> Spellings(1)], [1..1 -> Spellings(2)], {<<>>}}

\* Every text of up to five characters; the least index that is too large, and
\* the one before it.
MCHeardTexts ==
    {<<>>, <<"a">>} \cup {<<"/">> \o w : w \in Words(4)}
    \cup {<<"/", "a", "#", "6", "5", "5", "3", d>> : d \in {"5", "6"}}
=============================================================================
