--------------------------- MODULE StructuralSync ---------------------------
(***************************************************************************)
(* How the nodes and edges of a client's ECS world become those of the     *)
(* room, and back (crates/kyoso_graph_sync).  That a node or an edge       *)
(* exists is itself a component, NodePresence or EdgeEndpoints, that the   *)
(* component pipeline of ComponentSync replicates field by field.          *)
(*                                                                         *)
(* One frame of the Update schedule is one step: its systems are chained   *)
(* and their commands are applied between them.  Users act between frames. *)
(* Every client has its Welcome before it spawns anything, and frames of   *)
(* the server arrive in order: RoomSync and PeerSession drop these assumptions.*)
(***************************************************************************)
EXTENDS Maps, Integers, FiniteSets, Sequences, SequencesExt, FiniteSetsExt

CONSTANTS Client,     \* the clients that run GraphSyncPlugin
          First,      \* those that are connected from the start
          Settled,    \* per client, how many nodes it has in the room already
          MaxIds,     \* bound: per client, the nodes and edges it spawns
          MaxActs,    \* bound: what the users do
          MaxPeerOps, \* bound: tombstones of a client without an ECS
          None

ASSUME ClientAssumption ==
    /\ First \subseteq Client /\ Client \subseteq Nat /\ IsFiniteSet(Client)
    /\ Settled \in [Client -> Nat] /\ \A c \in Client \ First : Settled[c] = 0

ASSUME NoneAssumption == None \notin BOOLEAN

ASSUME BoundAssumption == MaxIds \in [Client -> Nat]

VARIABLES
    world,    \* per client, its ECS world, index and engine
    log,      \* the room's log of property ops
    wire,     \* per client, the ops shipped and not yet logged
    joined,   \* the clients that have had their Welcome
    acts,     \* bound: what the users did so far
    peerOps,  \* bound: the tombstones of others so far
    gone,     \* history: per client, the ids whose entity its user despawned
    bare      \* history: the node ids despawned without their edges

vars == <<world, log, wire, joined, acts, peerOps, gone, bare>>

\* EdgeEndpoints::default().  from and to are written together, once, and
\* never looked at apart, so they are one field here, "ends": a set of two.
NoEndpoints == [ends |-> None, alive |-> FALSE]

\* A world before its first frame.  Entities are numbers; a despawned one may
\* lend its number to the next, for nothing refers to it any more.
Empty ==
    [presence |-> EmptyMap,    \* entity -> NodePresence.alive
     endpoints |-> EmptyMap,   \* entity -> EdgeEndpoints
     links |-> EmptyMap,       \* edge entity -> the entities of its EdgeFrom and EdgeTo
     pending |-> {},           \* EdgePending
     added |-> {},             \* Added, for either structural component
     changed |-> {},           \* Changed
     removed |-> {},           \* RemovedComponents not yet read
     node_of_entity |-> EmptyMap, entity_of_node |-> EmptyMap,
     edge_of_entity |-> EmptyMap, entity_of_edge |-> EmptyMap,
     queue |-> << >>,          \* the engine's pending ops
     applied |-> 0,            \* how much of the log is in its documents
     next |-> 0]               \* the ids it gave its nodes and edges

\* The order a query gives its entities in, which nothing depends on.
InOrder(S) == SetToSeq(S)

Op(id, isNode, field, value) == [target |-> id, node |-> isNode, field |-> field, value |-> value]

SettledNodes == UNION {{c} \X (0..Settled[c] - 1) : c \in Client}

\* The nodes are known to all that are connected, with nothing under way.
Init ==
    /\ log = InOrder({Op(id, TRUE, "alive", TRUE) : id \in SettledNodes})
    /\ world = [c \in Client |->
                  LET mine == 0..Settled[c] - 1
                  IN [Empty EXCEPT !.presence = [e \in mine |-> TRUE],
                                   !.node_of_entity = [e \in mine |-> <<c, e>>],
                                   !.entity_of_node = [id \in {c} \X mine |-> id[2]],
                                   !.next = Settled[c],
                                   !.applied = IF c \in First THEN Len(log) ELSE 0]]
    /\ wire = [c \in Client |-> << >>]
    /\ joined = First
    /\ acts = 0 /\ peerOps = 0
    /\ gone = [c \in Client |-> {}] /\ bare = {}

Entities(w) == DOMAIN w.presence \cup DOMAIN w.endpoints
Named(w) == Entities(w) \cup DOMAIN w.node_of_entity \cup DOMAIN w.edge_of_entity \cup w.removed
Unused(w) == CHOOSE e \in 0..Cardinality(Named(w)) : e \notin Named(w)

\* bind_node and bind_edge, of the entities in the domain of ids
Bind(w, ids, isNode) ==
    IF isNode
    THEN [w EXCEPT !.node_of_entity = PutAll(@, ids), !.entity_of_node = PutAll(@, AntiFunction(ids))]
    ELSE [w EXCEPT !.edge_of_entity = PutAll(@, ids), !.entity_of_edge = PutAll(@, AntiFunction(ids))]

\* unbind_node and unbind_edge, of those of es that are bound
Unbind(w, es, isNode) ==
    IF isNode
    THEN [w EXCEPT !.node_of_entity = Restrict(@, DOMAIN @ \ es),
                   !.entity_of_node =
                     Restrict(@, DOMAIN @ \ Range(Restrict(w.node_of_entity, es \cap DOMAIN w.node_of_entity)))]
    ELSE [w EXCEPT !.edge_of_entity = Restrict(@, DOMAIN @ \ es),
                   !.entity_of_edge =
                     Restrict(@, DOMAIN @ \ Range(Restrict(w.edge_of_entity, es \cap DOMAIN w.edge_of_entity)))]

\* EntityCommands::despawn.  The relationship hooks take the EdgeFrom or
\* EdgeTo off the edges of a despawned node; the edges stay.
Despawn(w, gones) ==
    LET live == Entities(w) \cap gones
    IN [w EXCEPT !.presence = Restrict(@, DOMAIN @ \ live),
                 !.endpoints = Restrict(@, DOMAIN @ \ live),
                 !.links = [e \in DOMAIN @ \ live |-> @[e] \ live],
                 !.pending = @ \ live, !.added = @ \ live, !.changed = @ \ live,
                 !.removed = @ \cup live]

\* OutgoingEdges and IncomingEdges
Incident(w, e) == {x \in DOMAIN w.links : e \in w.links[x]}

\* The documents are registers: the last op on a field among the first n.
Register(n, id, field) ==
    LET ops == {k \in 1..n : log[k].target = id /\ log[k].field = field}
    IN IF ops = {} THEN None ELSE log[CHOOSE k \in ops : \A j \in ops : j <= k].value

Written(n, id, field, was) == LET r == Register(n, id, field) IN IF r = None THEN was ELSE r

-----------------------------------------------------------------------------
\* The systems of a frame, in their order.

Spawn(w, e, isNode) ==
    IF isNode THEN [w EXCEPT !.presence = Put(@, e, FALSE),
                             !.added = @ \cup {e}, !.changed = @ \cup {e}]
    ELSE [w EXCEPT !.endpoints = Put(@, e, NoEndpoints), !.links = Put(@, e, {}),
                   !.added = @ \cup {e}, !.changed = @ \cup {e}]

\* A placeholder for an id met on the wire.
Placeholder(w, id, isNode) ==
    LET e == Unused(w)
        spawned == Bind(Spawn(w, e, isNode), [x \in {e} |-> id], isNode)
    IN IF isNode THEN spawned ELSE [spawned EXCEPT !.pending = @ \cup {e}]

\* Mutant: the index is not asked.
EnsureAlways(w, op) == Placeholder(w, op.target, op.node)

ensure_inbound_entity(w, op) ==
    IF op.target \in DOMAIN (IF op.node THEN w.entity_of_node ELSE w.entity_of_edge) THEN w
    ELSE Placeholder(w, op.target, op.node)

graph_inbound_system(w, n) ==
    [FoldLeft(LAMBDA x, k : ensure_inbound_entity(x, log[k]), w,
              [k \in 1..n - w.applied |-> w.applied + k]) EXCEPT !.applied = n]

resolve_pending_edges(w) ==
    LET found == {e \in w.pending :
                    /\ w.endpoints[e].alive
                    /\ w.endpoints[e].ends # None
                    /\ w.endpoints[e].ends \subseteq DOMAIN w.entity_of_node}
    IN [w EXCEPT !.pending = @ \ found,
                 !.links = [e \in DOMAIN @ |->
                              IF e \in found
                              THEN {w.entity_of_node[id] : id \in w.endpoints[e].ends} ELSE @[e]]]

\* PeerIdGen::next, once for each of new
NewIds(w, c, new) ==
    LET place == AntiFunction(InOrder(new))
    IN [e \in new |-> <<c, w.next + place[e] - 1>>]

assign_local_node_ids(w, c) ==
    LET new == {e \in w.added \cap DOMAIN w.presence : e \notin DOMAIN w.node_of_entity}
    IN [Bind(w, NewIds(w, c, new), TRUE) EXCEPT
          !.next = @ + Cardinality(new),
          !.presence = [e \in DOMAIN @ |-> e \in new \/ @[e]]]

\* An edge that has lost an end, or whose ends are not bound, gets no id, and
\* is not looked at again.
assign_local_edge_ids(w, c) ==
    LET new == {e \in w.added \cap DOMAIN w.links :
                  /\ e \notin DOMAIN w.edge_of_entity
                  /\ Cardinality(w.links[e]) = 2
                  /\ w.links[e] \subseteq DOMAIN w.node_of_entity}
    IN [Bind(w, NewIds(w, c, new), FALSE) EXCEPT
          !.next = @ + Cardinality(new),
          !.endpoints = [e \in DOMAIN @ |->
                           IF e \in new
                           THEN [ends |-> {w.node_of_entity[n] : n \in w.links[e]}, alive |-> TRUE]
                           ELSE @[e]]]

\* Mutant: the node is despawned and stays bound.
DespawnBound(w) ==
    LET dead == {e \in w.changed \cap DOMAIN w.presence :
                   ~w.presence[e] /\ e \in DOMAIN w.node_of_entity}
    IN Despawn(w, dead \cup UNION {Incident(w, e) : e \in dead})

\* Mutant: its edges are left where they are.
DespawnAlone(w) ==
    LET dead == {e \in w.changed \cap DOMAIN w.presence :
                   ~w.presence[e] /\ e \in DOMAIN w.node_of_entity}
    IN Despawn(Unbind(w, dead, TRUE), dead)

despawn_tombstoned_nodes(w) ==
    LET dead == {e \in w.changed \cap DOMAIN w.presence :
                   ~w.presence[e] /\ e \in DOMAIN w.node_of_entity}
    IN Despawn(Unbind(w, dead, TRUE), dead \cup UNION {Incident(w, e) : e \in dead})

despawn_tombstoned_edges(w) ==
    LET dead == {e \in w.changed \cap DOMAIN w.endpoints :
                   ~w.endpoints[e].alive /\ e \in DOMAIN w.edge_of_entity}
    IN Despawn(Unbind(w, dead, FALSE), dead)

\* detect_local_node_despawn and detect_local_edge_despawn
detect_local_despawn(w, isNode) ==
    LET index == IF isNode THEN w.node_of_entity ELSE w.edge_of_entity
        lost == InOrder(w.removed \cap DOMAIN index)
    IN [Unbind(w, w.removed, isNode) EXCEPT
          !.queue = @ \o [k \in 1..Len(lost) |-> Op(index[lost[k]], isNode, "alive", FALSE)]]

\* An op for a field whose register does not say what the component says.
Diff(m, id, isNode, field, value) ==
    IF Written(m, id, field, IF field = "alive" THEN FALSE ELSE None) = value THEN << >>
    ELSE <<Op(id, isNode, field, value)>>

\* An entity spawned for a document with contents is skipped.
Edited(w, m, e, isNode) ==
    LET id == IF isNode THEN w.node_of_entity[e] ELSE w.edge_of_entity[e]
    IN IF e \in w.added /\ \E f \in {"ends", "alive"} : Register(m, id, f) # None THEN << >>
       ELSE IF isNode THEN Diff(m, id, TRUE, "alive", w.presence[e])
       ELSE Diff(m, id, FALSE, "ends", w.endpoints[e].ends)
              \o Diff(m, id, FALSE, "alive", w.endpoints[e].alive)

detect_local_changes(w, m, isNode) ==
    LET bound == IF isNode THEN DOMAIN w.node_of_entity ELSE DOMAIN w.edge_of_entity
        seen == InOrder(w.changed \cap bound)
    IN FlattenSeq([k \in 1..Len(seen) |-> Edited(w, m, seen[k], isNode)])

\* Mutant: the document's default is written where no op has been.
ProjectDefaults(w, m) ==
    [w EXCEPT !.presence = [e \in DOMAIN @ |->
                              IF e \in DOMAIN w.node_of_entity
                              THEN Register(w.applied, w.node_of_entity[e], "alive") = TRUE
                              ELSE @[e]],
              !.added = {}, !.removed = {},
              !.changed = IF m = w.applied THEN {} ELSE DOMAIN w.node_of_entity]

\* apply_remote_changes and project_to_components, of both components: every
\* bound entity is written, and marked, when an op of its kind has arrived.
project_to_components(w, m) ==
    LET Arrived(isNode) == \E k \in m + 1..w.applied : log[k].node = isNode
        nodes == IF Arrived(TRUE) THEN DOMAIN w.node_of_entity ELSE {}
        edges == IF Arrived(FALSE) THEN DOMAIN w.edge_of_entity ELSE {}
    IN [w EXCEPT
          !.presence = [e \in DOMAIN @ |->
             IF e \in nodes THEN Written(w.applied, w.node_of_entity[e], "alive", @[e]) ELSE @[e]],
          !.endpoints = [e \in DOMAIN @ |->
             IF e \in edges
             THEN [f \in DOMAIN NoEndpoints |-> Written(w.applied, w.edge_of_entity[e], f, @[e][f])]
             ELSE @[e]],
          !.added = {}, !.removed = {}, !.changed = nodes \cup edges]

\* SyncSet::Structural up to op n of the log.
Structural(w, c, n) ==
    LET bound == assign_local_edge_ids(assign_local_node_ids(
                   resolve_pending_edges(graph_inbound_system(w, n)), c), c)
    IN detect_local_despawn(detect_local_despawn(
         despawn_tombstoned_edges(despawn_tombstoned_nodes(bound)), TRUE), FALSE)

\* The frame of a client whose documents hold m ops, up to op n: what it
\* queued is shipped at its end.  The pipelines of the two components run in
\* either order.
Update(c, w, m, n) ==
    \E bound \in {Structural(w, c, n)} :
      /\ world' = [world EXCEPT ![c] =
                     [project_to_components(bound, w.applied) EXCEPT !.queue = << >>]]
      /\ LET nodes == detect_local_changes(bound, m, TRUE)
             edges == detect_local_changes(bound, m, FALSE)
         IN \E ops \in {nodes \o edges, edges \o nodes} :
              wire' = [wire EXCEPT ![c] = @ \o bound.queue \o ops]

-----------------------------------------------------------------------------
Spawns(c, w) == Cardinality(w.added) + w.next < MaxIds[c]
Acts == acts < MaxActs /\ acts' = acts + 1

UserSpawnNode(c) ==
    /\ Acts /\ Spawns(c, world[c])
    /\ world' = [world EXCEPT ![c] = Spawn(@, Unused(@), TRUE)]
    /\ UNCHANGED <<log, wire, joined, peerOps, gone, bare>>

\* GraphCommand::Connect and the like
UserSpawnEdge(c) ==
    /\ Acts /\ Spawns(c, world[c])
    /\ \E a, b \in DOMAIN world[c].presence :
         /\ a < b
         /\ LET e == Unused(world[c])
            IN world' = [world EXCEPT ![c] =
                           [Spawn(@, e, FALSE) EXCEPT !.links[e] = {a, b}]]
    /\ UNCHANGED <<log, wire, joined, peerOps, gone, bare>>

Ids(w, es) == {w.node_of_entity[e] : e \in es \cap DOMAIN w.node_of_entity}
              \cup {w.edge_of_entity[e] : e \in es \cap DOMAIN w.edge_of_entity}

UserDespawns(c, es) ==
    /\ Acts
    /\ world' = [world EXCEPT ![c] = Despawn(@, es)]
    /\ gone' = [gone EXCEPT ![c] = @ \cup Ids(world[c], es)]
    /\ UNCHANGED <<log, wire, joined, peerOps>>

\* commands.entity(e).despawn(), of a node or an edge
UserDespawn(c) ==
    \E e \in Entities(world[c]) :
      /\ UserDespawns(c, {e})
      /\ bare' = bare \cup Ids(world[c], {e} \cap DOMAIN world[c].presence)

\* GraphCommand::RemoveNode
UserRemoveNode(c) ==
    \E e \in DOMAIN world[c].presence :
      UserDespawns(c, {e} \cup Incident(world[c], e)) /\ bare' = bare

Frame(c) ==
    /\ c \in joined
    /\ \E n \in world[c].applied..Len(log) : Update(c, world[c], world[c].applied, n)
    /\ UNCHANGED <<log, joined, acts, peerOps, gone, bare>>

\* The first frame of a client that joins: placeholders for every record of
\* the snapshot, hydrate_typed_schemas, and the rest of the frame.
Join(c) ==
    /\ c \notin joined
    /\ joined' = joined \cup {c}
    /\ Update(c, Empty, Len(log), Len(log))
    /\ UNCHANGED <<log, acts, peerOps, gone, bare>>

\* The server logs an op.
Log(c) ==
    /\ wire[c] # << >>
    /\ log' = Append(log, Head(wire[c]))
    /\ wire' = [wire EXCEPT ![c] = Tail(@)]
    /\ UNCHANGED <<world, joined, acts, peerOps, gone, bare>>

Alive(id) == Register(Len(log), id, "alive") = TRUE

\* Any other client of the room tombstones what is alive.
PeerTombstone ==
    /\ peerOps < MaxPeerOps
    /\ \E k \in 1..Len(log) :
         /\ Alive(log[k].target)
         /\ log' = Append(log, Op(log[k].target, log[k].node, "alive", FALSE))
    /\ peerOps' = peerOps + 1
    /\ UNCHANGED <<world, wire, joined, acts, gone, bare>>

Next ==
    \/ \E c \in joined : \/ UserSpawnNode(c) \/ UserSpawnEdge(c)
                         \/ UserDespawn(c) \/ UserRemoveNode(c)
    \/ \E c \in Client : Frame(c) \/ Join(c) \/ Log(c)
    \/ PeerTombstone

Spec == Init /\ [][Next]_vars

-----------------------------------------------------------------------------
\* The two halves of the index mirror each other, a bound entity lives or its
\* removal is yet to be read, and a living one is bound, or new, or an edge
\* that lost an end before it got its id (index.rs).
IndexIsExact ==
    \A c \in Client :
      LET w == world[c]
          Mirror(f, g) == /\ Range(f) = DOMAIN g /\ Range(g) = DOMAIN f
                          /\ \A e \in DOMAIN f : g[f[e]] = e
          bound == DOMAIN w.node_of_entity \cup DOMAIN w.edge_of_entity
      IN /\ Mirror(w.node_of_entity, w.entity_of_node)
         /\ Mirror(w.edge_of_entity, w.entity_of_edge)
         /\ bound \subseteq Entities(w) \cup w.removed
         /\ \A e \in Entities(w) \ (bound \cup w.added) :
              e \in DOMAIN w.links /\ Cardinality(w.links[e]) < 2

Tombstones(s, id) ==
    {k \in 1..Len(s) : s[k].target = id /\ s[k].field = "alive" /\ s[k].value = FALSE}

\* A client announces the end of a node only if its user despawned it: the
\* removal that follows a remote tombstone is not announced again.  No id is
\* announced dead twice, but for the tombstones of others
\* (despawn_tombstoned_nodes, detect_local_node_despawn).
TombstonesAreOwn ==
    \A c \in Client :
      /\ \A op \in Range(wire[c]) : op.node /\ ~op.value => op.target \in gone[c]
      /\ \A id \in {c} \X (0..MaxIds[c] - 1) :
           Cardinality(Tombstones(log, id)) + Cardinality(Tombstones(wire[c], id)) <= 1 + peerOps

AtRest(c) ==
    /\ c \in joined /\ wire[c] = << >>
    /\ world[c].applied = Len(log)
    /\ world[c].added \cup world[c].changed \cup world[c].removed = {}

Bound(c) == DOMAIN world[c].entity_of_node \cup DOMAIN world[c].entity_of_edge

\* An announcement of id was logged after a tombstone of it.  A projection
\* marks every bound entity, and the next detection announces again what has
\* not come back yet, so the second may follow another client's tombstone.
Revived(id) ==
    \E j, k \in 1..Len(log) :
      /\ j < k
      /\ log[j] = Op(id, log[j].node, "alive", FALSE)
      /\ log[k] = Op(id, log[k].node, "alive", TRUE)

\* At rest a client's world holds exactly what of its own is alive in the
\* room: what the user spawned and nobody removed, nothing else, however
\* despawns, tombstones and echoes crossed; but for what was Revived.
RestingWorldIsTheRoom ==
    \A c \in Client : AtRest(c) =>
      \A id \in {c} \X (0..MaxIds[c] - 1) : Revived(id) \/ (id \in Bound(c) <=> Alive(id))

\* At rest no living edge of the room hangs on a dead node, unless a user
\* despawned the node without its edges or the edge was Revived
\* (despawn_tombstoned_nodes, RemoveNode).
EdgesDieWithTheirNodes ==
    (\A c \in joined : AtRest(c)) =>
      \A op \in Range(log) : op.field = "ends" /\ Alive(op.target)
                             => \/ \A id \in op.value : Alive(id) \/ id \in bare
                                \/ Revived(op.target)

\* plugin.rs, apply_one: "ensure the local entity exists before downstream
\* typed-schema projection runs".  So at rest a client has an entity for all
\* that is alive in the room.
EntitiesExist ==
    \A c \in Client : AtRest(c) => {op.target : op \in {x \in Range(log) : Alive(x.target)}} \subseteq Bound(c)
=============================================================================
