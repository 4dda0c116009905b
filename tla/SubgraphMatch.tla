---------------------------- MODULE SubgraphMatch ----------------------------
(***************************************************************************)
(* Pattern matching (kyoso_graph/src/pattern.rs and subgraph.rs): the plan *)
(* a pattern is given when it is built, and the backtracking search that   *)
(* streams its matches, one step for each candidate it looks at.           *)
(*                                                                         *)
(* A pattern has slots and edges between slots; a predicate is the set of  *)
(* the entities it accepts.  Slots, pattern edges, nodes and graph edges   *)
(* are numbered from 1, and 0 is none.                                     *)
(***************************************************************************)
EXTENDS EdgeGraph

CONSTANTS MatchGraphs,  \* the graphs searched
          Patterns      \* the patterns searched for

VARIABLES
    pattern,
    plan,       \* Pattern.plan.steps
    stack,      \* the frames, the last one on top
    bound,      \* mapping, edge_mapping, used_nodes, used_edges
    found,      \* the matches yielded so far
    searching   \* "running", "done" or "panicked"; "idle" where nobody asked

matchVars == <<pattern, plan, stack, bound, found, searching>>

-----------------------------------------------------------------------------
\* compute_plan: the order in which the slots are bound.
Touching(p, i) == {e \in DOMAIN p.edges : i \in {p.edges[e].from, p.edges[e].to}}

\* The edges between slot i and the slots placed already.
Joins(p, i, placed) ==
    {e \in DOMAIN p.edges : \/ p.edges[e].from = i /\ p.edges[e].to \in placed
                            \/ p.edges[e].to = i /\ p.edges[e].from \in placed}

\* An anchored slot, or the last of those with the most edges.
FirstSlot(p) ==
    LET anchored == {i \in DOMAIN p.nodes : p.nodes[i].anchor # 0}
        busiest == {i \in DOMAIN p.nodes : \A j \in DOMAIN p.nodes :
                        Cardinality(Touching(p, j)) <= Cardinality(Touching(p, i))}
    IN  IF anchored # {} THEN Min(anchored) ELSE Max(busiest)

\* Mutant: the lowest slot, whether or not it joins one placed.
PickInOrder(p, placed) == Min(DOMAIN p.nodes \ placed)

\* The slot with the most joins, then the most edges, then the lowest number.
Pick(p, placed) ==
    LET joins(i) == Cardinality(Joins(p, i, placed))
        degree(i) == Cardinality(Touching(p, i))
    IN  CHOOSE i \in DOMAIN p.nodes \ placed : \A j \in DOMAIN p.nodes \ placed :
            \/ joins(j) < joins(i)
            \/ joins(j) = joins(i) /\ degree(j) < degree(i)
            \/ joins(j) = joins(i) /\ degree(j) = degree(i) /\ i <= j

SlotOrder(p) ==
    FoldLeft(LAMBDA order, k : Append(order, Pick(p, ToSet(order))),
             <<FirstSlot(p)>>, [k \in 1..(Len(p.nodes) - 1) |-> k])

\* The edges that link the k-th slot to earlier ones, the one to the earliest
\* first: that one is the join, the others are constraints.
Linking(p, order, k) ==
    LET placed == {order[j] : j \in 1..(k - 1)}
        other(e) == IF p.edges[e].from = order[k] THEN p.edges[e].to ELSE p.edges[e].from
        position(e) == CHOOSE j \in DOMAIN order : order[j] = other(e)
    IN  SetToSortSeq(Joins(p, order[k], placed),
                     LAMBDA d, e : position(d) < position(e) \/ (position(d) = position(e) /\ d < e))

compute_plan(p) ==
    LET order == SlotOrder(p)
    IN  [k \in DOMAIN order |->
            IF k = 1 THEN [slot |-> order[1], join |-> 0, constraints |-> <<>>]
            ELSE LET linking == Linking(p, order, k)
                 IN  [slot |-> order[k], join |-> Head(linking), constraints |-> Tail(linking)]]

\* linking[0] is there for every slot but the first, and there is a first slot.
CanPlan(p) ==
    /\ p.nodes # <<>>
    /\ \A k \in 2..Len(p.nodes) : Linking(p, SlotOrder(p), k) # <<>>

-----------------------------------------------------------------------------
Unbound(p) ==
    [mapping |-> [i \in DOMAIN p.nodes |-> 0], edge_mapping |-> [e \in DOMAIN p.edges |-> 0],
     used_nodes |-> {}, used_edges |-> {}]

\* The candidates of a step: the anchor or every node at first, then the
\* neighbours of the slot the join leads to.
make_step_iter(k, mapping) ==
    LET step == plan[k]
        e == pattern.edges[step.join]
        slot_is_to == e.to = step.slot
        anchor == mapping[IF slot_is_to THEN e.from ELSE e.to]
    IN  IF k = 1
        THEN LET ns == IF pattern.nodes[step.slot].anchor # 0
                       THEN <<pattern.nodes[step.slot].anchor>> ELSE nodes
             IN  [i \in DOMAIN ns |-> [edge |-> 0, node |-> ns[i]]]
        ELSE IF slot_is_to # e.back THEN outgoing(anchor) ELSE incoming(anchor)

Frame1(k, mapping) == [step |-> k, rest |-> make_step_iter(k, mapping), committed |-> <<>>]

Top == Last(stack)
WithTop(frame) == Append(Front(stack), frame)

\* Mutant: the edges stay in use.
UnbindNodes ==
    IF Top.committed = <<>> THEN bound
    ELSE LET step == plan[Top.step]
         IN  [bound EXCEPT !.mapping[step.slot] = 0,
                           !.edge_mapping = [e \in DOMAIN @ |->
                               IF e = step.join \/ e \in ToSet(step.constraints) THEN 0 ELSE @[e]],
                           !.used_nodes = @ \ {Top.committed[1].node}]

unbind_top ==
    IF Top.committed = <<>> THEN bound
    ELSE LET step == plan[Top.step]
         IN  [bound EXCEPT !.mapping[step.slot] = 0,
                           !.edge_mapping = [e \in DOMAIN @ |->
                               IF e = step.join \/ e \in ToSet(step.constraints) THEN 0 ELSE @[e]],
                           !.used_nodes = @ \ {Top.committed[1].node},
                           !.used_edges = @ \ Top.committed[1].edges]

\* find_edge_dir: the first edge from one slot's node to the other's, 0 if
\* there is none.
find_edge_dir(e, mapping) ==
    LET a == mapping[IF pattern.edges[e].back THEN pattern.edges[e].to ELSE pattern.edges[e].from]
        b == mapping[IF pattern.edges[e].back THEN pattern.edges[e].from ELSE pattern.edges[e].to]
    IN  LET hits == {x \in DOMAIN graph : graph[x] = <<a, b>>} IN IF hits = {} THEN 0 ELSE Min(hits)

\* The edges try_commit chooses for the constraints of step k.
Chosen(k, node, b) ==
    [i \in DOMAIN plan[k].constraints |->
        find_edge_dir(plan[k].constraints[i], [b.mapping EXCEPT ![plan[k].slot] = node])]

\* try_commit accepts the candidate.  An edge chosen for a constraint is
\* compared with the edges of earlier steps and of earlier constraints, not
\* with the join of its own step.
Fits(k, candidate, b) ==
    LET step == plan[k]
        chosen == Chosen(k, candidate.node, b)
    IN  /\ candidate.node \notin b.used_nodes
        /\ candidate.node \in pattern.nodes[step.slot].pred
        /\ k > 1 => /\ candidate.edge \notin b.used_edges
                    /\ candidate.edge \in pattern.edges[step.join].pred
        /\ IsInjective(chosen)
        /\ \A i \in DOMAIN chosen :
              chosen[i] \in pattern.edges[step.constraints[i]].pred \ ({0} \cup b.used_edges)

Committed(k, candidate, b) ==
    LET step == plan[k]
        chosen == Chosen(k, candidate.node, b)
        taken(e) == IF e = step.join THEN candidate.edge
                    ELSE IF e \in ToSet(step.constraints)
                    THEN chosen[CHOOSE i \in DOMAIN chosen : step.constraints[i] = e]
                    ELSE b.edge_mapping[e]
    IN  [mapping |-> [b.mapping EXCEPT ![step.slot] = candidate.node],
         edge_mapping |-> [e \in DOMAIN b.edge_mapping |-> taken(e)],
         used_nodes |-> b.used_nodes \cup {candidate.node},
         used_edges |-> b.used_edges \cup ToSet(chosen) \cup ({candidate.edge} \ {0})]

-----------------------------------------------------------------------------
MatchIdle ==
    /\ pattern = [nodes |-> <<>>, edges |-> <<>>] /\ plan = <<>> /\ stack = <<>>
    /\ bound = Unbound(pattern) /\ found = <<>> /\ searching = "idle"

\* PatternBuilder::build and SubgraphMatches::new.
MatchInit ==
    /\ graph \in MatchGraphs /\ pattern \in Patterns
    /\ bound = Unbound(pattern) /\ found = <<>>
    /\ \/ /\ CanPlan(pattern) /\ plan = compute_plan(pattern)
          /\ stack = <<Frame1(1, bound.mapping)>> /\ searching = "running"
       \/ /\ ~ CanPlan(pattern) /\ plan = <<>> /\ stack = <<>> /\ searching = "panicked"

\* One round of next's loop: the top frame lets go of what it bound, and has
\* no candidate left,
Exhausted ==
    /\ searching = "running" /\ Top.rest = <<>>
    /\ bound' = unbind_top /\ stack' = Front(stack)
    /\ searching' = IF Len(stack) = 1 THEN "done" ELSE searching
    /\ UNCHANGED <<graph, pattern, plan, found>>

\* or has one that does not fit,
Rejected ==
    /\ searching = "running" /\ Top.rest # <<>>
    /\ ~ Fits(Top.step, Head(Top.rest), unbind_top)
    /\ bound' = unbind_top
    /\ stack' = WithTop([Top EXCEPT !.rest = Tail(@), !.committed = <<>>])
    /\ UNCHANGED <<graph, pattern, plan, found, searching>>

\* or one that does: the search descends, or yields a match.  An edge of the
\* pattern no step has bound makes current_match panic.
Taken ==
    /\ searching = "running" /\ Top.rest # <<>>
    /\ Fits(Top.step, Head(Top.rest), unbind_top)
    /\ bound' = Committed(Top.step, Head(Top.rest), unbind_top)
    /\ LET edges == bound'.used_edges \ unbind_top.used_edges
           bindings == [node |-> Head(Top.rest).node, edges |-> edges]
           frames == WithTop([Top EXCEPT !.rest = Tail(@), !.committed = <<bindings>>])
       IN  \/ /\ Top.step < Len(plan)
              /\ stack' = Append(frames, Frame1(Top.step + 1, bound'.mapping))
              /\ UNCHANGED <<found, searching>>
           \/ /\ Top.step = Len(plan) /\ stack' = frames
              /\ \/ /\ 0 \notin Range(bound'.edge_mapping)
                    /\ found' = Append(found, [nodes |-> bound'.mapping, edges |-> bound'.edge_mapping])
                    /\ UNCHANGED searching
                 \/ /\ 0 \in Range(bound'.edge_mapping)
                    /\ searching' = "panicked" /\ UNCHANGED found
    /\ UNCHANGED <<graph, pattern, plan>>

MatchNext == Exhausted \/ Rejected \/ Taken

-----------------------------------------------------------------------------
\* What the search has in use is what its frames have bound: backtracking gives
\* back everything, and nothing else.  (subgraph.rs, unbind_top.)
InUseIsBound ==
    searching = "running" =>
        LET committed == {f \in ToSet(stack) : f.committed # <<>>}
        IN  /\ \A k \in DOMAIN stack : stack[k].step = k
            /\ bound.used_nodes = Range(bound.mapping) \ {0}
            /\ bound.used_nodes = {f.committed[1].node : f \in committed}
            /\ bound.used_edges = Range(bound.edge_mapping) \ {0}

\* Whether m, nodes for slots and edges for pattern edges, has the pattern's
\* shape in the graph.
IsMatch(m) ==
    /\ IsInjective(m.nodes) /\ IsInjective(m.edges)
    /\ \A i \in DOMAIN m.nodes :
          /\ m.nodes[i] \in pattern.nodes[i].pred
          /\ pattern.nodes[i].anchor \in {0, m.nodes[i]}
    /\ \A e \in DOMAIN m.edges :
          LET a == m.nodes[pattern.edges[e].from]
              b == m.nodes[pattern.edges[e].to]
          IN  /\ m.edges[e] \in pattern.edges[e].pred
              /\ graph[m.edges[e]] = IF pattern.edges[e].back THEN <<b, a>> ELSE <<a, b>>

AllMatches ==
    {m \in [nodes : [DOMAIN pattern.nodes -> Vertex], edges : [DOMAIN pattern.edges -> DOMAIN graph]] :
        IsMatch(m)}

\* The pattern's edges that ask for the same direction between the same slots.
Doubled ==
    \E d, e \in DOMAIN pattern.edges :
        /\ d # e
        /\ LET x == pattern.edges[d]
               y == pattern.edges[e]
           IN  IF x.back = y.back THEN x.from = y.from /\ x.to = y.to
               ELSE x.from = y.to /\ x.to = y.from

Anchors == Cardinality({i \in DOMAIN pattern.nodes : pattern.nodes[i].anchor # 0})

\* A constraint is given the first edge of a bundle only: where two edges of
\* the graph run in parallel it can miss matches.
Constrained == \E k \in DOMAIN plan : plan[k].constraints # <<>>

Linked(p, i, j) == \E e \in DOMAIN p.edges : {i, j} = {p.edges[e].from, p.edges[e].to}

Connected(p) ==
    \A part \in SUBSET DOMAIN p.nodes :
        part \notin {{}, DOMAIN p.nodes} =>
            \E i \in part, j \in DOMAIN p.nodes \ part : Linked(p, i, j)

\* The search panics only over an empty pattern, one in several parts
\* (pattern.rs: linking[0]) or one with an edge from a slot to itself, which no
\* step binds (subgraph.rs: "complete").
PanicsHaveCauses ==
    searching = "panicked" =>
        \/ pattern.nodes = <<>> \/ ~ Connected(pattern)
        \/ \E e \in DOMAIN pattern.edges : pattern.edges[e].from = pattern.edges[e].to

\* Backtracking gives back exactly what it took, no search panics but over the
\* patterns above, and one that ends has yielded every match of the pattern,
\* once each, and nothing else: for patterns without doubled edges and with one
\* anchor at most (only the first is looked at), and all of them where no
\* constraint meets parallel edges.
\* (subgraph.rs:14-23.)
MatchesAreExact ==
    /\ InUseIsBound
    /\ PanicsHaveCauses
    /\ ~ Doubled /\ Anchors <= 1 =>
        /\ IsInjective(found)
        /\ \A i \in DOMAIN found : IsMatch(found[i])
        /\ searching = "done" /\ (Constrained => IsInjective(graph)) => AllMatches = Range(found)
=============================================================================
