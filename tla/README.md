# Kyosync, modelled and checked

Kyosync keeps one document, a graph of nodes and edges with properties, in step on
many clients. A server holds a room per document. Clients send it operations; it
gives each one the next global sequence number (`GlobalSeq`), keeps it in a log,
folds it into its own replica (the *mirror*) and broadcasts it. Every replica folds
the log in sequence order, so every replica that has applied `n` operations should
show the same graph. On top of that core stand the bridge to the ECS world of a
client, two editors, and an agent that reads and edits a scene. This directory holds
TLA+ modules of that system, TLC runs over small instances of them, and TLAPS
proofs.

## Inventory

| part | state | operations | talks to |
|---|---|---|---|
| graph topology (`kyoso_graph_crdt/src/topology.rs`, `view.rs`) | nodes with parent, order key and tombstone; edges with ends and tombstone | `apply_structural_op` (add, remove, move, add edge, remove edge), `snapshot`, `restore`, the cycle check | called by the backend |
| CRDT backend (`kyoso_crdt/src/backend.rs`) | topology, one property record per entity, `applied_seq`, queue of pending ops | `apply_remote`, `queue_op`, `snapshot`, `restore` | called by mutators, handler and client plugin |
| graph mutators (`kyoso_graph_crdt/src/graph_backend.rs`) | none of their own | `add_node`, `remove_node`, `move_node`, `add_edge`, `remove_edge`, property setters | queue ops in the backend |
| op store (`kyoso_server/src/services/store.rs`) | per room: head, ops by seq, snapshots by seq, compaction threshold, ack per peer; in memory or in Postgres | `append`, `slice`, `save_snapshot`, `latest_snapshot`, `record_ack`, `clear_peer`, `min_ack`, `compact_below` | called by the handler |
| graph room handler (`services/handlers/graph.rs`) | mirror, append lock | `restore`, `submit`, `welcome_for`, `catchup`, `record_ack`, `release_peer`, `take_snapshot`, `run_gc` | the store, under awaits |
| scheduler (`services/scheduler.rs`) | two loops | snapshot every room, compact every room | the handler |
| room (`services/room.rs`) | broadcast channel of 256, next peer id, presence map | `submit` then broadcast, `subscribe`, presence | handler, connection tasks |
| connection (`handlers/room_ws.rs`) | a reader task, an outbox, a writer task (live, or coalescing for `Tier::Read`) | Hello and Welcome, Submit, Ping, Catchup, presence, close | the room, one client |
| client transport (`kyoso_sync/src/transport.rs`, `client.rs`) | socket, queues, status, raw presence | connect, drain, presence | connection, plugins |
| identifiers (`kyoso_crdt/src/id.rs`) | peer id and counter | mint, `set_peer`, `bump_to` | every backend of a client |
| CRDT types (`kyoso_crdt/src/types`, `schema.rs`, `opaque.rs`) | registers, sets, counters, sequences, maps, move tree; typed, or as the server's opaque record | `mutate`, `apply`, `join`, `apply_wire` | property records |
| component sync (`kyoso_sync/src/component_sync.rs`, `schema.rs`) | typed documents per node | diff a component into ops, project a document into a component | backend, ECS |
| structural sync (`kyoso_graph_sync`) | entity index, `NodePresence`, `EdgeEndpoints` | announce spawns and despawns, bind and despawn entities | component sync, ECS |
| presence (`kyoso_client/src/presence.rs`) | typed view, own state, cursors | set, clear, decode, draw | transport |
| local graph library (`kyoso_graph`) | nodes in trees, edges between entities | tree commands, change detection, walks, searches, pattern matching, order keys | ECS, agent, editors |
| agent (`kyoso_agent`) | a scene world, a watch buffer, handles | create, delete, move, watch, match, walk, neighbours, resolve | graph library |
| desktop client (`kyoso_client`) | tool, selection, command streams, external ids | commands, clicks, keys, events to the outside | sync, graph library |
| circuit client (`kyoso_circuit_client`) | layers and their index, grid, snap | spawn, connect, remove, hide a layer, snap a drag | sync, `kyoso_drag`, camera |
| editor libraries (`kyoso_drag`, `kyoso_camera_controls`, ...) | a drag, a camera lock | start, move, end | circuit client |

What is hard here, and what correctness means:

* **Awaits.** A Welcome is put together over three reads of the store, a compaction
  over two reads and a write, a submit over two awaits under a lock, a snapshot over
  a copy and a save; all of them interleave. Correct: the log stays dense, what was
  stored can be recovered, an answer never says anything that is not in the log.
* **Ordering.** A broadcast is not under the lock that numbers the op, and a
  connection subscribes after its Welcome was read. Correct: a client's replica is
  always a prefix of the log; ideally it misses nothing.
* **Concurrency of editors.** Moves and removals are checked where they are made and
  applied where they land. Correct: no cycles, no live edges to dead nodes, nothing
  comes back, and all replicas agree.
* **Snapshots without tombstones.** A replica that was restored must decide every
  later op as one that replayed the log.
* **Echoes.** A client hears its own ops again, while its user goes on editing and
  while remote changes are projected into the components that the next diff reads.
  Correct: every edit becomes ops that mean it, once; a despawn on behalf of the
  room is not announced as one of the user's; worlds at rest are the room.
* **Sessions.** Peer ids come with the Welcome, ids are minted before it too, and
  presence is copied before the subscription. Correct: no two ids are one, and
  nobody is shown who has gone; each up to causes that are named.
* **Crashes and failed statements** (Postgres). Correct: the store alone gives the
  log back, and the mirror is never anything else.
* **Limits.** The broadcast channel drops what a slow receiver has not read, the
  watch buffer drops rows.
* **Frames.** In an editor most systems may run in any order within a frame, their
  commands wait for a sync point, and messages live for two frames.
* **Search state.** Matches, walks and keys are found by loops that keep state
  between steps: bindings to undo, visited sets, depths, midpoints. Correct: what is
  found is what a definition says, all of it, once.

`PROJECT.json` lists each such hazard at its line, with the properties for it.

## Modules

| module | models | uses |
|---|---|---|
| `Maps` | `HashMap` and `BTreeMap` | |
| `GraphTopology` | the topology as a value, one operator per arm of `apply_structural_op` | `Maps` |
| `GraphBackend` | a replica as a value: `apply_remote`, `snapshot`, `restore`, the guards of the mutators | `GraphTopology` |
| `ReplicatedGraph` | clients and the mirror folding one log over an adversarial network | `GraphBackend` |
| `OpStore` | a room in the store as a value, one operator per call | `Maps` |
| `GraphRoomHandler` | store, mirror, lock, connection tasks, loops, crash and restart | `OpStore` |
| `RoomSync` | the handler with the broadcast channel, the writers and the client engines | `GraphRoomHandler` |
| `AbstractLog` | what a room promises: one growing log, every client on a prefix of it | |
| `CrdtTypes` | mutation, delta and join of every value type | `Maps` |
| `SchemaSync` | one field: typed document, opaque record, diff and projection | `CrdtTypes` |
| `ComponentSync` | one property on every client, from the edit to the echo | `SchemaSync` |
| `StructuralSync` | nodes and edges of a client's world against those of the room, frame by frame | `Maps` |
| `PeerSession` | peer ids, minted ids, presence and its view, a restart of the server | `Maps` |
| `AgentScene` | the node hierarchy and its change detection, paths of nodes | |
| `AgentWatch` | the agent's edits, the watch buffer, and a client that believes what it reads | `AgentScene`, `Maps` |
| `NodeHandles` | a handle that is kept over edits and over a new run | `AgentScene` |
| `ScenePaths` | the text of a path, written and read | |
| `EdgeGraph` | the edge queries of a view | |
| `SubgraphMatch` | pattern plans and the backtracking search | `EdgeGraph` |
| `GraphWalk` | walks with a policy, and the agent's bounded navigation | `EdgeGraph` |
| `GraphSearch` | the iterators and algorithms over a view | `GraphWalk` |
| `OrderKeys` | the keys of siblings and how one is made between two | |
| `SceneAgent` | composes the agent's calls: edit and watch, or ask | the nine above |
| `EditorClient` | the desktop client: tools, command bus, events | |
| `CircuitLayers` | the layers of a board and what is hidden with them | |
| `CircuitGrid` | a drag over the grid, the snap, the camera lock, and the sync of where parts lie | |
| `Editors` | the two editors | the three above |
| `FoldProofs` | lemmas: induction over numbers and folds over the elements of a set in order, sums over sets and lists, and the operators on lists | TLAPS |
| `ReplicatedGraphProofs` | each arm of the topology keeps trees and edges sound, and decides alike on replicas that look alike; the theorems about `ReplicatedGraph` | TLAPS |
| `RoomSyncProofs` | the theorems about `GraphRoomHandler`, then about `RoomSync` and its refinement of `AbstractLog` | TLAPS |
| `PeerSessionProofs` | the theorems about `PeerSession` | TLAPS |
| `ComponentSyncProofs` | the laws of the value types and what a delta does to each, then the theorems about `ComponentSync` | `FoldProofs` |
| `StructuralSyncProofs` | the theorems about `StructuralSync` | `FoldProofs` |
| `SceneAgentProofs` | the theorems about `AgentWatch` and `OrderKeys`, as parts of `SceneAgent` | `FoldProofs` |
| `EditorsProofs` | the theorems about `CircuitGrid`, `CircuitLayers` and `EditorClient`, as parts of `Editors` | `FoldProofs` |
| `MC...` | symmetry, bounds and inputs for TLC | |

The split of the core follows one observation: an op's *meaning* and an op's
*journey* are independent. `ReplicatedGraph` keeps the meaning (what folding a log
gives) and lets the network do anything; `GraphRoomHandler` and `RoomSync` keep the
journey and treat a document as the sequence of ops it has folded. `ReplicaFoldsLog`
is the bridge: it says that the sequence determines the document, also through
snapshots. `ComponentSync` and `StructuralSync` add what happens to an op at its two
ends, on a journey without gaps, and `PeerSession` where its id comes from. The
agent and the editors are programs over a local world; their modules take what the
network does as steps of others.

### GraphTopology, GraphBackend, ReplicatedGraph

A topology is a record of two maps. `would_create_cycle` is a loop in the code; here
it says that the target is in every set that holds the proposed parent and is closed
under the upward step, which is that loop's reachable set without recursion. Every
entity's properties are one number, the sequence number of the last-writer-wins
value it shows.

In `ReplicatedGraph` a client queues ops under the guards the mutators use, on
whatever state its replica is in (`add_node` also makes the record at once, as the
code does). `Stamp` appends the head of a client's queue to the log. `Deliver` shows
a replica *any* log entry: too early, in place, or again. `Hydrate` replaces a
replica by the restored snapshot of any other. `canon` records what folding each
prefix of the log gives, which is what `ReplicaFoldsLog` compares with. The server's
pre-checks and a Bevy client's own use of the topology are the same functions. Ids
are minted fresh here; `PeerSession` says when that is so.

The Bevy client encodes structure as properties of the components `NodePresence` and
`EdgeEndpoints` rather than with the structural ops; the structural ops are what the
mirror, the tests and the harness binaries drive. The ECS encoding is
`StructuralSync`.

### OpStore and GraphRoomHandler

The store's calls are atomic (the mutex of the in-memory store, a statement or a
transaction of Postgres). The two backends differ in what they keep of an op: memory
keeps it stamped, Postgres keeps the bytes encoded before it was stamped. `Replay`
is the loop that applies rows to a document and stops at the first row that is
refused.

`GraphRoomHandler` has one task per connection, each at one place: `new`, then the
three reads of `welcome_for` (`head read`, `snapshot read`, `answered`), then
`reading`, from which it acks, catches up (two reads), submits (`locking`,
`appended`, `stamped`) or goes. `append_lock` is the queue of tokio's fair mutex.
`TakeSnapshot`/`SaveSnapshot` are the two halves of `take_snapshot`,
`GcReadAcks`/`GcReadSnapshot`/`GcCompact` the three of `run_gc`. With Postgres the
process may crash anywhere and `restore` rebuilds the mirror, and `AppendFails`
returns an error with or without a commit. `ledger` is a history variable: every op
ever given a number.

### RoomSync and AbstractLog

`RoomSync` adds `sent` (the channel), a `cursor` per receiver, the Welcome in the
outbox, the writer's state, a reader's buffer, and each client's engine as the ops
it has applied. A Welcome that ends short of the head it announces does so for one
of two causes (`Shortfall`): compaction passed its start, or, with Postgres, its rows
carry no number. A receiver that is more than `Capacity` behind is `Lagging`, and its
writer stops. `raced` is a history variable that records which of the known races a
connection went through. A client says `since = 0`, never asks for a Catchup and
never reconnects, because nothing in the code does.

`AbstractLog` is the promise: a log that only grows, and views that are prefixes of
it and only grow after the Welcome. `ImplementsLog` is the refinement, with the
ledger for the log and `connected` for `welcomed`.

### CrdtTypes, SchemaSync, ComponentSync

`CrdtTypes` has an operator per operation of each type of `kyoso_crdt/src/types`:
the delta a mutation makes, what a delta does, and `join`. `SchemaSync` is one field
of a component in its three forms: the typed document of a client, the record the
server folds without knowing the schema, and the value in the component, with `diff`
from the component to the document and `project_to` back.

`ComponentSync` runs one such field, of every kind, on all clients. A user edits the
component (`UserEdit`); the frame detects the change, diffs it and ships the ops
(`detect_local_changes`); the room logs them and folds its record (`Log`); every
client hears every op, its own too, folds it and projects the document into the
component (`Integrate`). Projection is all or nothing, as in the code: an op on any
node that has the schema writes back every component (`Stirred`), so `Integrate` may
project without an op of this node. `changed` and `at` are the ticks of change
detection, on which it depends that an echo is not taken for an edit. A client
without the component edits the document (`mutate_node`).

Such a client joins late. `Join` hydrates it from the record, and the ops that were
in the log and not yet broadcast when it subscribed come again (`Receive`). It has
two documents: the backend's, whose `apply_remote` skips what it has, and the
`SchemaDoc` beside it (`late`), which is handed every op that was answered `Ok`, the
repeated ones included. How much can be repeated is limited by the connections: each
has at most one op that is stored and not yet broadcast (`AuthorsDiffer`). The
component such a client's own user may edit is not modelled; holders are those that
were there when the node was.

`Said` is the reference: what the ops up to a point mean, with no CRDT in it.
`meant` and `mixed` are histories: what the user did to a counter, and whether an
edit met an op of its own in flight or a projection in its frame, which are the cases
in which an edit can be lost or counted twice.

### StructuralSync

One step is one frame of one client: its systems, in the order in which the plugin
chains them, with the commands applied between them. `world[c]` has the two
structural components, the links of edges, the index in both directions, and the
three logs of change detection (`added`, `changed`, `removed`). Users spawn and
despawn nodes and edges between frames; an edge may go with its node or be left to
the systems. `PeerTombstone` is a removal by a client without an ECS. An entity that
ops name and nobody has gets a placeholder. `Revived` names the one excuse that two
properties take: an id whose announcement was logged again after its tombstone.

### PeerSession

Server side: `Handshake` (the peer id and the copy of the presence), `Subscribe`,
`WriteWelcome`, `WriteBroadcast`, `Disconnect` with a release that may fail, and
`Restart`, which keeps the log and forgets the rooms. Client side: the drain of each
kind of frame, which sets the peer of the id generator once in the transport and
once more in the model plugin; `Mint` at any time; presence set and cleared, with
the deduplication of `LocalPresence`; and the chain from the raw map over the typed
view to the cursors on the screen. An update is inserted into the room's map and
then broadcast, which is one step here: whoever joins in between is told twice, and
a repetition changes nothing.

### The agent and the graph library

`AgentScene` is the hierarchy: spawn, despawn with what is below, reparent, and what
change detection reports in the next frame. A despawn captures the path of each
entity when that entity goes, which for a child is after its parent (`LeftFor`); `path_for` and `resolve_path` build a
path from names and order keys and follow it back. `AgentWatch` adds the verbs, each
an edit, one frame and an answer, the `WatchBuffer` with its coalescing, and a
client that believes what it reads (`mirror`), with the cursors it may hold: from
`watch`, from a verb, from another session. `NodeHandles` keeps one `NodeRef`, whole
or with some of its hints, over an edit by others, two deletes through it and a new
run, in which every node may be another entity. `ScenePaths` writes and reads the
text of a path character by character, because what it may contain is the point.

`SubgraphMatch` is the plan a pattern is given and the search as a machine: a stack
of frames, what is bound and used, a step per candidate. `GraphWalk` and
`GraphSearch` are the walks and searches with their queue or stack, a step per node.
A query has the world to itself, so each starts from a graph of its own and runs to
its end; the references (`MatchesAreExact`, `TraversalsAreExact`) are stated over
the graph: the set of all matches, the nodes within reach by distance, the order a
queue gives. `OrderKeys` places siblings anywhere among each other. `SceneAgent`
puts them next to each other: one behaviour edits and watches, or asks.

### The editors

In both editors the schedule orders only the sync pipeline. In `EditorClient` and
`CircuitLayers` a frame is therefore a set of systems that have yet to run
(`waiting`, `systems`), taken in any order; what a system queues as `Commands` is
applied at a later sync point, by the sync system at the latest; a message is
readable for two frames. `meant` is the selection that the commands would give one
after the other, `told` what the outside observer believes. In `CircuitLayers`,
`due` is change detection on the `LayerManager`: a system that applies visibility
runs if it was written since. In `CircuitGrid` the drag and the snap read the same
pointer messages in either order, and the room's systems run anywhere among them:
what moved is told (`detect_local_changes`), and what arrives, echoes included, is
written over every part (`project_to_components`), the one under the pointer too.
Another client may move a part or remove it meanwhile. A place is a cell and whether
it is its centre. `Editors` runs one of the three at a time: they are separate
programs, and a drag and a layer touch different components.

## Runs

| run | instance | shows |
|---|---|---|
| `graph` | 2 clients, 4 ops, the first two `AddNode`, queue of 1 | replicas are folds of the log; no cycles; no orphan edges; no resurrection |
| `handler` | in memory, 2 connections, 3 ops | dense, recoverable log; current mirror; honest answers; compaction waits |
| `handler_postgres` | Postgres, 2 connections, 2 ops, 1 fault | the mirror never leaves the log, whatever crashed or failed; every submit gets the lock and returns it |
| `handler_reopen` | Postgres, 2 connections, 2 ops, 1 fault | *violated*: a restarted room opens |
| `room` | 2 writers, 3 ops, channel of 1 | the promise; the ways to miss an op are the named ones |
| `room_live` | a writer and a reader, 2 ops | every op arrives, unless one of the named causes prevents it |
| `values` | a holder, a client with the document and one that joins late; 7 kinds of field, 3 edits, 3 ops | documents that take each op once say what the log means, and keep the order of a sequence; joining by record and by ops agree; edits become ops that mean them, once; components agree at rest; what a repeated op does passes, but for a counter |
| `ecs` | 2 clients, one of them in the room with a node, 3 acts, 1 tombstone from elsewhere | the index is exact; nobody announces a removal that was not theirs; worlds at rest are the room |
| `ecs_placeholder` | the same | *violated*: whatever is alive in the room has an entity |
| `session` | 2 clients, 2 states, 1 restart, 3 ids minted or 2 changes of presence | ids collide, presence is stale and ghosts stay only for the causes named |
| `agent` | 3 nodes, buffer of 2; lists of patterns, walks and searches over graphs of 3 and 4 edges; 8 siblings; a kept handle; short texts | a watcher's picture is right; removals are named as far as the code can; handles lead home; matches and traversals are exact; keys separate |
| `editor` | 2 frames and an edge, 2 inputs, 1 remote op; 2 parts and a wire, one act each of bus, keys and room; 2 parts, 3 acts of the pointer, 1 toggle, 1 move or removal by others | the observer is right; the selection is what lone commands mean; no create command is lost; what is hidden is on a hidden layer; a drag gives back the camera; a part lies where the room has it |

### Bounds

The bounds are the smallest at which the interesting cases happen.

* Core. Four ops are an edge or a move between two nodes and the removal that races
  with it, from two clients. Two connections are one that joins while another
  submits, and three ops are one before a snapshot, one between it and a compaction,
  and one after. A channel of one lags as soon as two ops are unread. One fault is
  one crash at every point of every behaviour.
* Values. Three edits are one that is in flight, one that meets its echo, and one
  against which a remote write lands; two items are enough for two elements of a
  sequence to be put in either order, for a key to be removed and written again, and
  for two moves to close a cycle. `Wrap = 2` is a component that cannot show the sum
  of two increments. The third client joins when two ops are in the log and nothing
  else is under way, and from then on only it takes steps (`Quiet`): up to two ops
  come to it twice, in the order of the log, and what it has to show for it does not
  depend on the others.
* ECS. Three acts are two nodes and an edge, or a spawn, a despawn and an act of the
  other client; client 2 joins at any point and spawns nothing, so that everything
  it has is projected.
* Session. Three ids are two under one peer and one that may collide with them; a
  restart comes at any point of either handshake. Ids and presence are not both
  exercised in one behaviour (`MintsAlone`, `SaysAlone`), since neither reads what
  the other writes.
* Agent. Three nodes are a child under either of two parents, with two keys for
  three siblings; a buffer of two overflows. Matches are looked for in every way to
  connect three nodes by three edges, loops and parallel edges included, with
  patterns of every shape the plan tells apart. Four edges are a diamond with a way
  back. Eight siblings are enough to exhaust the room in front of the first key and
  to come to the second byte from either side. One edit by others between the making
  of a handle and its use can take away, add or move any node. Texts are all of up
  to five characters out of those with a meaning, a letter and a digit, and the
  indices around the largest.
* Editor. Two inputs are two commands in one frame or in two, one of which may
  change the tool; a message outlives one frame and not two. Three acts of the
  pointer are a drag, and the start of a second one that meets its end in one frame;
  one cell is enough for a part to be at its centre or not, and the proofs are for
  any number of acts and cells.

`MaxOps`, `MaxQueue`, `MaxFaults`, `MaxEdits`, `MaxIds`, `MaxActs`, `MaxPeerOps`,
`MaxMints`, `MaxSets`, `MaxRestarts`, `MaxGeneration`, `MaxSiblings`, `MaxChanges`,
`MaxInputs`, `MaxRemote`, `MaxPointer`, `MaxToggles`, `MaxOthers` and the size of
`Op` are the only bounds, with the constraints named in the MC modules
(`MintInOrder`, `LowestOpFirst`, `TwoNodesFirst`, `FirstItemFirst`, `MirrorIdle`,
`NoCompaction`), each with its reason there. Deadlock is checked in the run `editor`,
where frames go on for ever; everywhere else an instance ends, because the ops, edits or steps run
out and the clients leave.

Symmetry (`Interchangeable`, `Alike`) is used in safety runs only: clients,
connections of one tier, ops and states of presence are never compared or ordered by
the code there. Where they are (peer ids in `values` and `ecs`, entities in
`agent`), they are numbers and there is no symmetry.

### Fairness

`handler_postgres` assumes weak fairness for a task that waits for the append lock,
or holds it: the executor polls a task that is woken, and the mutex wakes its
waiters in order. Nothing makes a crashed process restart. `room_live` assumes it
for each connection task and for the branches of each writer: tokio's `select!`
polls its branches in random order, so a branch that stays ready is taken, and the
interval keeps ticking. Nothing makes a client join, submit, ack or leave, and
nothing makes the loops run. The other modules state what holds at rest instead:
when nothing is under way, a world, a document or a picture is what it should be.

### What the violated runs show

Each is a statement of a comment that the code does not keep:

* `handler_reopen`: after a restart, a Postgres room with ops past its last snapshot
  does not open, because the stored ops have no sequence number.
* `ecs_placeholder`: a client that is shown the announcement of a node spawns an
  entity for it and despawns it in the same frame, since the op is not yet projected
  and the placeholder is not alive. The node is alive in the room, and absent from
  that client.

`HolesHaveKnownCauses` and `OpsArrive` are the positive side of a session: outside
of a compaction under a Welcome, rows of a Postgres store without a number, a late
subscription, an Apply that overtakes the Welcome, and a broadcast out of order, no
subscribed client that keeps up ever misses an op. The runs `room` and `room_live`
have the in-memory store, where every row has its number; that the rows of a
Postgres store are a cause, and the only one it adds, is in the theorem
`HolesExplained`.

### Met while modelling

Not made runs of their own; where a property has to except a case, its comment says
so.

The room:

* A Welcome can lack ops below the head it announces, since snapshot and compaction
  run between its reads (graph.rs:101) and the joiner has no ack row yet, while
  protocol.rs:80-81 says it is everything the client needs to reach `head`.
* An op broadcast between a Welcome and the subscription (room_ws.rs:59) is lost to
  that client, which then refuses all later ones. And two ops can be broadcast in
  the other order than they were numbered, since `Room::submit` broadcasts
  (room.rs:112) after the append lock is released. crdt-overview.md:879 says that
  every peer receives every op in the same order. Both are among the races of
  `HolesHaveKnownCauses`.
* A lagging client is not dropped, as the message at room_ws.rs:291 says: only its
  writer ends. It goes on submitting, hears nothing, and its ack row stops
  compaction.
* crdt-overview.md:867 says that clients receive an op whose fold into the mirror
  failed, while `submit` returns an error before the broadcast (graph.rs:79-84).
* The Postgres `min_ack` decodes `MIN()` of no rows, which is NULL, into an integer
  and so returns an error when no peer is connected (store.rs:350-357), which the
  loop logs.

The document:

* Records of removed entities stay (backend.rs:368), in snapshots too, where
  backend.rs:357 says "only live entities"; and they make `remove_node` accept a
  node that is already gone, which graph_backend.rs:128 says it refuses. The second
  removal changes nothing (`NoResurrection`, `ReplicaFoldsLog`).
* The cycle check stops at tombstones (topology.rs:91), against HARNESS.md:247. The
  code is right here: with the fix described there, a replica restored from a
  snapshot would decide differently from one that replayed the log.

* An op that was stored and not yet broadcast when a client was welcomed is in the
  Welcome and comes again. The backend skips it and answers `Ok` (backend.rs:294-297),
  so it is handed on, and a counter of the `SchemaDoc` adds it twice, for good, while
  pn_counter.rs:4-6 relies on each op being applied once. `RepeatsHeal` says what
  becomes of the other kinds.

Presence:

* After `Disconnected` the raw map is cleared without an event
  (transport.rs:346-349), so the typed view and the cursors stay, and after a new
  Welcome a client can see its own as another's.
* A snapshot replaces the view without a `Left` for those it leaves out.
* Clearing the presence leaves `LocalPresence` as it was, so setting the same state
  again is taken for a repetition and not sent.

The agent:

* A despawn frees the parent before it gets to the children, so the path captured for
  a child is its own label and nothing above it, where watch.rs:87-90 and :101-103
  speak of its place in the tree. `RemovalsAreNamed` says how far a removal is named.
* An overflow of the watch buffer is reported for ever: nothing calls `reset`
  (watch.rs:124-127), which says it is called after a re-scan. `read_page` drains
  rows its filter left out (watch.rs:527), where :419 speaks of the rows returned.
* A `NodeRef` from a path alone is not the "durable identity" of handle.rs:13-17
  where names repeat: `#index` shifts to another node when a sibling goes, a delete
  that is tried again can delete the namesake, and siblings of one name and one key,
  which `create` gives by default, are ordered by entity and swap in a new run.
  `find_ordered_child` also finds named siblings that have the key.
* The text of a path is not always read back (handle.rs:148, "the inverse"): a `/`
  in an order key is not escaped, and `/#0` reads as an empty name, which is written
  as the root.
* A match drops an anchor whose target does not resolve, so that it finds more and
  not less (lib.rs:434). A doubled edge of a pattern binds one graph edge twice as a
  constraint (subgraph.rs:210 against :18-19).
* A truncated walk that is issued again from its last row (query's
  `Walk::truncated`) goes on below that row only; what the first walk had still
  queued is in neither.
* `EdgeRemoved` is never written: the query for the ends of a removed edge asks for
  the marker that was removed (kyoso_graph lib.rs, `detect_edge_changes`).
* The fifth sibling put in front of "n" gets the key "a", and a sixth panics, where
  tree.rs:53-56 says that there is always room; between "a" and "aa" the key has a
  byte that is no letter, against tree.rs:85. Two siblings with equal keys have
  nothing between them. Only tests and examples call `between` so far.

The editors:

* `RemoveNode` despawns the node alone, against "and all incident edges"
  (msg/graph.rs:42 of both clients).
* The select handler is not gated by the tool (select.rs:63), against
  command.rs:18-19; and two select commands in one frame are both answered from the
  old selection.
* Entities of other clients carry no `SceneNode` or `SceneEdge`, so nobody outside
  is told of them, while msg/graph.rs:55-58 says that remote changes produce the
  same events; own ones that an emitter meets before they have an id are never
  announced.
* The markers of edge kinds are local (lib.rs:71), against weave.rs:20-22.
* The circuit client gives remote nodes no `CircuitNode`, which its test
  two_clients.rs waits for; `emit_edge_removed` names the edge itself as both of its
  ends.
* An edge that comes after the last change to the `LayerManager` is shown whatever
  its ends are, the "ghost edge" of layer_manager.rs:243. A node whose layer becomes
  unknown keeps its visibility and its place in the index. `set_active` to the
  active layer still marks the manager as changed, since it is reached through a
  mutable borrow (:63-64).
* Dragging moves y for good, though grid_manager.rs:183-184 says who owns it. The
  camera stays locked when the dragged node is removed by another client, and is
  free during a drag that starts in the frame another ends in. A snap that runs
  before the drag in the frame of the release leaves the node off its cell, and so
  does the echo of the drag: the drag tells the room a place off the centre, the snap
  puts the part back where the document still has it, so nothing more is told, and
  the echo is written over the part (component_sync.rs:413-436), while
  grid_manager.rs:179-181 says that the part "commits to a cell on release". Parts are
  also spawned off the centre, where another client or a command puts them
  (handlers.rs:61-65).

## Proofs

Every theorem holds for all values of the constants: any ids, clients, ops and
connections, either store, any capacity of the channel, any number of faults and of
log entries. TLC checked each statement on the instances above first.

| module | theorem | statement |
|---|---|---|
| `ReplicatedGraphProofs` | `TypeCorrect` | `Spec => []TypeOK` |
| | `Convergence` | `Spec => []ReplicaFoldsLog` |
| | `TreesStayTrees` | `Spec => []NoTreeCycles` |
| | `EdgesHaveEnds` | `Spec => []NoOrphanEdges` |
| | `RemovalIsFinal` | `Spec => []NoResurrection` |
| `RoomSyncProofs` | `TypeCorrect` | `Spec => []TypeOK` |
| | `LogDensity` | `Spec => []LogIsDense` |
| | `LogRecovery` | `Spec => []Recoverable` |
| | `MirrorIsFold` | `Spec => []MirrorFoldsLog` |
| | `CompactionSafety` | `Spec => []CompactionWaitsForAcks` |
| | `MirrorFollows`, `MirrorStaysAtHead` | `[]MirrorAtHead`: until something fails; with the memory backend always |
| | `AnswersComplete` | `[]AnswersReachHead`, with the memory backend |
| | `RoomTypes` | `RoomSpec => []RoomTypeOK` |
| | `KeepsPromise` | `RoomSpec => ImplementsLog` |
| | `HolesExplained` | `RoomSpec => []HolesHaveKnownCauses` |
| `PeerSessionProofs` | `TypeCorrect` | `Spec => []TypeOK` |
| | `IdsAreApart` | `Spec => []IdsCollideOnlyIf` |
| | `PresentAreHere` | `Spec => []GhostsHaveCauses` |
| | `PresenceIsShown` | `Spec => []PresenceAgrees` |
| `ComponentSyncProofs` | `RecordIsTheLog` | `Spec => []HydratedIsReplayed` |
| | `TreesAreForests` | `Spec => []ForestHasNoCycle` |
| | `ComponentsShowTheirDocuments` | `Spec => []RestingComponentsAgree` |
| | `DocumentsMeanTheLog` | `Spec => []DocsMeanTheLog` |
| | `EditsReachTheLogOnce` | `Spec => []EditsCountOnce` |
| | `OrderDoesStay` | `Spec => OrderIsKept` |
| | `DiffsDoReach` | `Spec => []DiffReaches` |
| | `RegisterLaws`, `SetLaws`, `CounterLaws`, `SequenceLaws`, `TreeLaws` | `join` is idempotent, commutative and associative |
| | `RegisterGrows` | any write leaves a register no older than it was and than the write; a repeated one changes nothing, and writes of different stamps commute |
| | `AddWins` | an addition survives a removal that has not seen it |
| | `DeltaCounts` | a delta moves a counter by what it says, whoever's slot it lands in |
| | `ForestIsAForest` | the moves of any log leave a forest: no node is its own ancestor |
| `StructuralSyncProofs` | `IndexStaysExact` | `Spec => []IndexIsExact` |
| | `OnlyOwnTombstones` | `Spec => []TombstonesAreOwn` |
| | `RestIsTheRoom` | `Spec => []RestingWorldIsTheRoom` |
| | `EdgesDie` | `Spec => []EdgesDieWithTheirNodes` |
| `SceneAgentProofs` | `RemovalsHavePaths` | `AgentSpec => []RemovalsAreNamed` |
| | `MirrorIsExact` | `AgentSpec => []MirrorTracksScene` |
| | `KeysDoSeparate` | `AgentSpec => []KeysSeparate` |
| `EditorsProofs` | `DragsDoEnd` | `EditorsSpec => []DragsEnd` |
| | `PartsDoLie` | `EditorsSpec => []PartsLieAsTold` |
| | `LayersDoShow` | `EditorsSpec => []LayersAreShown` |
| | `CommandsDoReach` | `EditorsSpec => []CommandsReachTheirTool` |
| | `EventsDoTell` | `EditorsSpec => []EventsTellTheScene` |
| | `ToolStateDoesMean` | `EditorsSpec => []ToolStateIsMeant` |

Assumed are only the modules' own assumptions, which the runs evaluate: the store is
one of two, `None` is neither a number nor an id nor an order key nor an item nor a
register, the mirror is not a client, `MaxFaults` is a number, readers are
connections, the channel holds at least one frame, clients are numbers (peer ids) and
holders are clients, there are finitely many items, a field has one of the seven
kinds, and a counter wraps at a positive number; in the world, that there are
finitely many clients, that `None` is no Boolean and that each client may mint a
number of ids; of the agent, that there are finitely many nodes and the buffer holds
a row; of the editors, that the entities at the start are finitely many numbers with
edges between nodes among them, and that the bounds are numbers. The laws of values carry
hypotheses, named under "The values" below. The type invariants of `ReplicatedGraph`,
`GraphRoomHandler`, `RoomSync` and `PeerSession` are proved and so not run; that of
`ComponentSync` is the `Typed` of its proof.

### The document

`Sound(t)` says that a topology is well typed, that no live edge has a dead end and
that its live nodes have no cycle. `Alike(a, b)` says that two topologies show the
same, whatever tombstones each of them has. `ReplicatedGraphProofs` shows for each arm
of `apply_structural_op` that it keeps `Sound` and, where the id it creates is new
to both, keeps `Alike`: no arm reads a tombstone otherwise than an absent entry.
That is why a replica restored from a snapshot, which has no tombstones, decides
every later op as one that replayed the log.

A cycle after a move would have to go through the moved node, because it is the only
one whose parent changed. The part of such a cycle that can be reached upwards from
the new parent is closed under the old upward step, so it contains the moved node
already, and the check would have refused the move (`MoveKeeps`).

The inductive invariant of `ReplicatedGraph` adds to the properties:

* `IdsAreUnique`: no id is queued or logged twice, which is what makes the id of a
  later entry new to every replica;
* `CanonFolds`: `canon` is the fold of each prefix of the log, sound and well typed;
* `ReplicasOfLog`: a replica is sound and its topology holds only entries whose ids
  are those of the ops it has applied.

### The room

`IInv` is the invariant of `GraphRoomHandler`. Beyond the properties it says:

* `FirstInLine`: whoever is between append and fold holds the lock. Without it two
  connections could both be there, and the mirror would fold out of order.
* `SnapshotsFold`: each snapshot is filed under its length and is a prefix of the
  ledger, and the newest is the one `snapshot_seq` names.
* `PendingSave`, `PendingCompaction`: the copy the snapshot loop holds is such a
  prefix, and the threshold the compaction loop holds is at most the newest
  snapshot. This is what makes the steps of the loops, which act on what they read
  earlier, harmless.
* `AppendedIsStored`: an op between append and fold is in the ledger under the
  number its task holds.
* `AcksAreJoined`, `PendingAcks`: an ack row belongs to a connection that has joined
  and not gone; and the peers the compaction loop counted have, if they are still
  there, acks at least as high as what it read (acks only grow, and a peer that left
  does not come back).

Three further parts, on top of `IInv`, say how far the mirror and the answers are:

* `RowsAreStamped`: the in-memory store keeps a row under the number it is stamped
  with. Postgres keeps the bytes encoded before the stamp, so its rows carry no
  number and whoever is given them refuses them.
* `MirrorKeepsUp`: the mirror is the ledger but for the one op that the holder of the
  lock has stored and not yet folded, until something fails (`faults = 0`): an append
  whose answer is lost after it committed leaves the mirror behind for good.
  `MirrorFollows` is what it says of either store, `MirrorStaysAtHead` of the in-memory
  one, where nothing fails.
* `AsksAreOld`, `AnswersReach`: what a task asked for is no more than was there, and
  what it was given ends short of the head it was told only if compaction passed its
  start. `AnswersComplete` follows, for the in-memory store; with Postgres the rows
  are refused, and `handler_postgres` does not claim it.

Every step of `Next` is split off once, in `StoreSteps` (which call on the store a
step makes) and `TaskMoves` (where it takes its task); `TypeStep`,
`FirstInLineStep`, `LogStep`, `MirrorStep` and `AckStep` then show that each part is
kept, and `Inductive` puts them together.

`RoomSync` takes the handler's steps or none (`HandlerSteps`), so it inherits
`IInv`. `RoomInv` then follows an op to the clients: what is stamped, broadcast,
held for a reader, or read for a Welcome carries the ledger's op at its number,
however long ago it was read (`StampedIsStored`, `AnswersFollow`, `SentFollows`,
`BuffersFollow`, `OutboxesFollow`); every client is on a prefix (`ViewsFollow`);
nothing is sent to a client before its handshake ends, and the Welcome is sent once
(`WelcomedOnce`). A frame, a batch of frames in any order and a Welcome each leave a
client on a prefix (`AppliedFollows`, `BatchFollows`, `WelcomeFollows`).
`PromiseStep` maps each step: a Welcome that is written to `Welcome`, an Apply or a
batch to `Advance`, an append to `Submit`, everything else to a stutter.

`HolesExplained` needs an account of where each op is that a client has not got.
`RoomIInv` adds it to `RoomInv`: every stored op is broadcast or held by the task
that will broadcast it (`SentOrHeld`); a connection has no cursor, no buffer and no
frames before the step that gives it one (`Stages`); a reader's buffer is the end of
what was broadcast before its cursor, in that order (`HeldInOrder`). `Unraced` is
about a client for which none of the races is recorded: its outbox holds a Welcome
that reaches the head it announces and, while broadcasts keep the order of the log,
nothing was taken off the channel that is neither in its buffer nor in its document
or Welcome (`Uncut`, `Reached`, `InOrder`). So an op above its document is in one of
the places `OnTheWay` lists. `RoomSync` takes no step that fails, which is the
`NoFaults` of the invariant.

### The session

Ids: since its start a server has handed each peer id out once, and only peers it
gave are present (`Peering`); a client has nothing before it connects (`NewIsBlank`),
then hears one Welcome, of its own peer (`OneWelcome`); and an id minted under a peer
is behind the count of its client, or the count has started again since
(`MintsAreOld`). Two equal ids then come from one client whose count started again,
from two epochs of the server, or from peer 0: these are the cases
`IdsCollideOnlyIf` allows.

Presence: `Heard` is what a client will show of a peer when everything under way to
it has arrived, the copy in its Welcome and the frames behind it. `NewsArrives` says
that this is what the room's map has, except for peers whose news the client missed.
`OneView` says that the raw map and the typed view of an open connection are one, and
`OwnUnseen` that a client never draws its own cursor. A client with nothing under way
therefore draws what the room has (`PresenceIsShown`).

### The values

The laws of `Lattice` are not laws of the joins on arbitrary states; each theorem
assumes what the code guarantees of the states that meet, and no more. Two registers
under one stamp hold one value (`Agreed`): a stamp is a place in the log and a peer.
Two sequences that know an element agree on its value and its predecessor
(`OneHistory`), so that only the tombstone is joined. Two move logs agree on the
moves at the places they share. Sets and counters need nothing but their shape.
Counters rest on the maximum per entry (`EntriesLaws`); sequences on the fact that
the elements of a join are those of either, deleted where either deletes them.

Two more theorems are about what a document computes. Both need an induction along
a log, and the library's induction takes an operator as a parameter. `FoldProofs`
does without: the set of the lengths for which a fact holds is an ordinary set, and
a set of numbers that contains 0 and with each number the next contains all of them
(`UpTo`); and a fold over the elements of a set, in order, is a function on its
subsets (`Iterates`), so the value after a step is a value of the same function.
`ForestIsAForest` gives each node of the forest a rank, one above its parent's, and
shows that a move the check lets through leaves a ranking (`Forests`); `DeltaCounts`
carries `IsSummedCounter`, that a counter's value is the sum of its slots. The walk
of a sequence is well defined by the same means: every element of it has a rank
above that of its predecessor (`Rooted`).

### The components

`Core` is the invariant all theorems about `ComponentSync` rest on:

* `Logged`: each op of the log was possible where it was made. Its id is new, its
  author had seen less than the log up to it, what it hangs on is there, and a removal
  observed exactly the tags its author had from what it had applied (`LogOp`).
* `Waiting`: the same of the ops that are made and not yet logged, one after the other.
* `Kept`, `Held`, `Recorded`: a client's document is the replay of the prefix of the log
  it has applied, and the server's record that of all of it. The record folds without
  knowing the schema, so this is where the record's shape is compared with that of the
  typed document; `RecordIsTheLog` says that hydrating from it gives the same.
* `Shown`: what a component holds is what its kind can hold.

`TreesAreForests` is `Kept` with `ForestIsAForest`. For `ComponentsShowTheirDocuments`,
`Shows` says of a component that it is to be looked at (`changed`), that an op of its
own is still to come back (`Pending`), or that it is the projection of the document.

`DocumentsMeanTheLog` compares each kind with `Said`, by one lemma per kind on the
replay of a longer and longer prefix: a counter is the sum of what was said
(`CounterSays`); a register is the last write (`RegisterSays`); an entry of a map is
the last op on its key (`MapSays`, with `LastOn` and `EntryOf`); a set holds an item
if an addition of it was not observed by any later removal (`SetSays`, with `Tagged`
and `Untagged`), which is where `LogOp` is needed.

`EditsReachTheLogOnce` rests on `Counts`, which follows a counter over the frames: a
component that is not edited shows its document, unless a change is already on its
way; a user who was never mixed with an echo means what the log says of it and what
is under way; and while an edit waits for its frame, the component is ahead of its
document by exactly what is meant and not yet sent. It is stated for the numbers
modulo `w`: with `w = 0` of a counter, with `w = Wrap` of a component that cannot show
the value, whose diff mints the multiples of `Wrap` it cannot see as ops of its own.

`DocsMeanTheLog` is proved of the documents that take each op once. What a repeated
op does to the others (`RepeatsHeal`) is left to the run.

`OrderDoesStay` is about steps: of two documents a client has one after the other, the
later has all elements of the earlier, hanging where they hung (`Enlarges`), because
ids are new when they are logged (`ReplaysEnlarge`). The rest is about the walk of a
document, and is shown from the leaves of the tree upwards, with the set of the
elements below which it holds (`ByDepth`): the children of an element in the earlier
document are listed in the same order among those in the later one
(`ChildrenAreAll`), and lists that keep an order keep it when they are put one after
the other (`FlattenKeepsOrder`), so the walk does (`WalkKeepsOrder`). What is found
below two siblings has nothing in common, since the highest element that is below
both would have its parent there too (`SiblingsApart`): so no element is walked
twice (`WalkIsInjective`).

`DiffsDoReach` follows the diff of a component through the copy it is tried on, one
mutation after the other (`Drafts`). What it asks for says the component's value of
an item or a key, and it names all that differ (`SetAsked`, `MapAsked`); each
mutation sets what it names and touches nothing else. That it does so needs the log:
a write is taken because its stamp is above every stamp in the document
(`RegisterSays`, `MapIsAged`), an addition because its id is in no removal
(`SetIsUntaken`), and a removal because no two items share a tag. For a sequence,
`Stage` says after each op that the live elements are those of the common prefix with
what was inserted behind them, then those of the common suffix. A new element
comes right behind the one it was put after if its id is above those of its siblings
(`NewestLeads`, `NewestFollows`), which is so unless the document has an element of a
higher peer; and whatever its place, the others keep their order and it is there once,
so that the items and how often they occur are right in any case (`InsertStages`). A
list that keeps the order of another with the same elements is that list
(`SameOrder`): this is why it is enough to follow the order.

### The world

`IInv` of `StructuralSyncProofs` says of every client, between two frames:

* `Sane`: the two halves of the index mirror each other; an entity is a node or an
  edge; what is bound lives or its removal is yet to be read, and what lives is
  bound, new, or an edge that lost an end; and no id is bound but the client's own,
  since placeholders do not outlive the frame they are made in (the run
  `ecs_placeholder`).
* `Agrees`: what change detection still has to say. A bound entity whose component
  says *dead* has the tombstone in the client's documents; one that is *alive* has
  its announcement in the log or under way; and where the document says dead and the
  component does not, the entity is still marked as changed.
* `Ended`: an id that was given and is not bound any more has its tombstone in the
  log or under way. `Counted`: it has as many as others made, and one more.
  `Grieved`: a removal still to be read is of an entity its user despawned, which is
  why no despawn on behalf of the room is announced.
* `Hangs`: a bound edge has its links to the nodes it names, or one of them was
  despawned by a user on its own (`bare`).
* `Fit`: an op under way is one its client can have made: a tombstone or an
  announcement of what it has, with the field its kind has.

A frame is followed as the chain of worlds its systems make of one another: each
system has a lemma that says what it keeps and what it does to the change logs, and
the invariant, which is one of the worlds between frames, is put together again at
the end. The order of the systems matters: `despawn_tombstoned_nodes` unbinds before
it despawns, so that `detect_local_despawn`, which reads the removals after it, finds
nothing of the room's to announce.

### The watcher

`IInv` of `SceneAgentProofs` says at every step, and not only when nothing is under
way: changes of nodes that are alive and removals of nodes that are not wait for
their frame, the removals with their captured paths (`SceneFits`); a row of the
buffer says that its node is gone, and by which path, or its node is alive or about
to be reported (`RowsFit`); and a node the client is wrong about has a row in the
buffer, a change that waits for its frame, or was dropped (`PictureFits`). Coalescing
keeps a row where there was one, so this is kept however many changes meet in a row.

### The keys

`KeysInv` says that the keys of siblings are in order, that each ends in a byte above
the one below 'a' and is no longer than the siblings are many, and that the first has
no byte below 'a'. The last two are what the code relies on and does not check: a left
key that ends early is followed by bytes below 'a', so a right key has to have a byte
above it before its end (`MidpointSeparates`); and when there is no room in front of
the first key, that key is all 'a's. `Parts` says at which byte two keys differ, and
`Halfway` what `midpoint` makes: the left key up to the first gap, and a byte in it.

### The editors

* `GridInv`: `Camera` says what the lock will be once the drag has read what it has
  not read yet. `Stream` says of the way to the room and back that its systems run
  in their order (`Ordered`), that what came in is taken before the frame is over
  (`Taken`), and that a part lies where its document has it, or changed since the
  room's systems looked, or word of it is on its way or came in (`Comes`).
* `LayersInv`: `NodesShown`, `EdgesShown` and `IndexFits` are the property, stated of
  any board rather than of the variables, so that one lemma for each command says
  that a queue of any length keeps them; `Apart` says that an entity is minted once
  and is a node, an edge or gone. What `Gone` does to hidden nodes and to the ends of
  edges is where they need each other.
* `BusInv`: the streams hold what their readers expect; a create command that is due
  and has one frame behind it is read in this frame, with the tool being `Create`,
  and one that is due and has none has `Create` ahead of it.
* `SceneInv`: what is told is alive or its removal waits to be told, the cache is
  what was told, and what is selected, spawned, unseen and removed fits. It is stated
  of a world as commands see it (`Sound`), so that again one lemma for each command
  carries it through the queue.
* `ToolInv`: the queued commands lead from what is selected to what is meant, among
  the nodes there are (`Aims`). Until the selection commands of a frame were read
  nothing in the queue is about the selection, and what is selected is what is meant.

### Only model-checked

* All liveness: `WF`, `SF` and ENABLED are out of the prover's reach.
* `RepeatsHeal`, in the run `values`.
* The agent: `HandlesResolve`, `MatchesAreExact` and
  `TraversalsAreExact`. What a path or a text leads to, what a
  search finds and what a reference finds are each computed along the data itself.

## Not modelled

* Wire formats and derive macros: encoding has no state, and generated code is what
  `SchemaSync` does for a field. Lattice traits have no code of their own.
* The server with several models in a room, two first connections that create one
  room, and decoding errors.
* The agent's bindings for other languages, its `query` and `scan` verbs and the
  projections of rows; `TreeQuery` and the other reads over a tree; event
  propagation along edges, and the costs of edges.
* In the editors: rendering, picking, the drag that connects from a handle, the
  kinds of edges, moves; the select and connect tools of the circuit client and its
  presence, which are the desktop client's over again; the stream of its place tool.
* The Figma import, a one-shot conversion; the load generators and scenarios, which
  are harnesses over the code that is modelled here.

Of the lines that are not mapped, the greater part are of these kinds: harnesses,
rendering and input, import, generated code and its generator, and the tests and doc
comments in the modelled files themselves. `PROJECT.json` gives the status of each
part.

## Plan

What is left, in the order of what it would say:

1. The component of a client that joins late, edited by its own user, with the rule
   of `detect_local_changes` for components that were just added.
2. Rooms with several models, and the client's behaviour on a Catchup if something
   comes to send one.
