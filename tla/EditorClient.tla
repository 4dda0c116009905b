---------------------------- MODULE EditorClient ----------------------------
(***************************************************************************)
(* The desktop client (apps/kyoso_client): its tools, the command bus that *)
(* people, scripts and agents share, and the events that tell an observer  *)
(* outside of the process what the scene holds.                            *)
(*                                                                         *)
(* The Update schedule orders only the systems of the sync pipeline.  Any  *)
(* other system runs once in a frame, anywhere, and what it queues as      *)
(* Commands is applied at some sync point after it: a system is a step, and*)
(* so is a sync point.  Input (the Duplex channel, picking, keys) comes    *)
(* between frames.  An entity stands for its id too, and is used once.     *)
(* A command on an entity that is gone changes nothing.                    *)
(***************************************************************************)
EXTENDS Integers, FiniteSets, Sequences, SequencesExt, FiniteSetsExt

CONSTANTS Frame,     \* the nodes at the start
          Edge,      \* the edges at the start, with their ends
          MaxInputs, \* bound: what the users and the other side of the bus do
          MaxRemote, \* bound: what other clients of the room do
          None

ASSUME EditorAssumption ==
    /\ Frame \subseteq Nat /\ IsFiniteSet(Frame)
    /\ DOMAIN Edge \subseteq Nat \ Frame /\ IsFiniteSet(DOMAIN Edge)
    /\ Edge \in [DOMAIN Edge -> Frame \X Frame]
    /\ {MaxInputs, MaxRemote} \subseteq Nat /\ None \notin Int

VARIABLES
    nodes,     \* the living frames
    edges,     \* living edge -> its EdgeFrom and EdgeTo, None when its end is gone
    own,       \* what has SceneNode or SceneEdge: spawned by this client
    index,     \* EntityCrdtIndex: what is bound to an id
    tool, next_tool, \* State<Tool> and NextState<Tool>
    selected,  \* the frames with Selected
    armed,     \* ConnectState.from
    app, select, \* the messages AppCommand and SelectCommand
    create,    \* CreateCommand: how many <<aged, due>> there are of each kind
    buffer,    \* Commands queued and not yet applied
    unnamed, unseen,     \* Added, as yet for the sync pipeline and for the emitters
    removed,   \* RemovedComponents, as yet for the emitters
    cache,     \* ExternalIdCache
    told,      \* what the observer was told appeared, and not that it is removed
    waiting,   \* the systems this frame has yet to run
    inputs, remotes, spawned, \* bounds: so many so far
    missed,    \* history: what an emitter passed over because it had no id yet
    meant,     \* history: the selection that the commands mean one after the
               \* other; None once several were handled at one time
    owed       \* history: how many create commands the Create tool has yet to have

scene == <<nodes, edges, own, index, spawned>>
tools == <<tool, next_tool, selected, armed, meant>>
bus == <<app, select, create, owed>>
views == <<unnamed, unseen, removed, cache, told, missed>>
vars == <<scene, tools, bus, buffer, views, waiting, inputs, remotes>>

Tool == {"Select", "Create", "Connect"}
System == {"dispatch", "select", "delete", "create", "appeared", "removed", "sync"}

Living == nodes \cup DOMAIN edges

\* A session under way: the client spawned what there is, and announced it.
Init ==
    /\ nodes = Frame /\ edges = Edge
    /\ own = Living /\ index = Living /\ cache = Living /\ told = Living
    /\ spawned = Max(Living \cup {0})
    /\ tool \in Tool /\ next_tool = None
    /\ selected = {} /\ armed = None /\ meant = {}
    /\ app = << >> /\ select = << >> /\ buffer = << >>
    /\ create = [m \in BOOLEAN \X BOOLEAN |-> 0]
    /\ unnamed = {} /\ unseen = {} /\ removed = {}
    /\ waiting = {} /\ inputs = 0 /\ remotes = 0
    /\ missed = {} /\ owed = 0

-----------------------------------------------------------------------------
\* Input, between two frames.

Input == waiting = {} /\ buffer = << >> /\ inputs < MaxInputs /\ inputs' = inputs + 1
Send(cmd) == app' = Append(app, cmd)

Cmd(kind, target) == [cmd |-> kind, target |-> target]

Pairs == {ends \in nodes \X nodes : ends[1] # ends[2]}

\* Whoever sends a command knows ids that the room has or had.  The removals
\* of several nodes one after the other are one command.
AppCommand ==
    {Cmd("SetTool", t) : t \in Tool}
    \cup {Cmd(kind, ends) : kind \in {"Connect", "Disconnect"}, ends \in Pairs}
    \cup {Cmd(kind, e) : kind \in {"Select", "Toggle"}, e \in nodes}
    \cup {Cmd(kind, {e}) : kind \in {"RemoveNode", "DeleteTargets"}, e \in nodes}
    \cup {Cmd("RemoveEdge", {e}) : e \in DOMAIN edges}
    \cup {Cmd(kind, None) : kind \in {"ClearSelection", "Create"}}

\* receive_external_event, of the Duplex channel; the hotkeys, the toolbar and
\* a click on the canvas write the same commands.
External ==
    /\ Input
    /\ \E cmd \in AppCommand : Send(cmd)
    /\ UNCHANGED <<scene, tools, select, create, owed, buffer, views, waiting, remotes>>

\* on_node_clicked_for_select
ClickForSelect(e) ==
    /\ tool = "Select" /\ e \in index
    /\ \E kind \in {"Select", "Toggle"} : Send(Cmd(kind, e))
    /\ UNCHANGED armed

\* on_node_clicked_for_connect
ClickForConnect(e) ==
    /\ tool = "Connect"
    /\ \/ armed = None /\ e \in index /\ armed' = e /\ UNCHANGED app
       \/ armed = e /\ armed' = None /\ UNCHANGED app
       \/ /\ armed \notin index \cup {None, e}
          /\ armed' = None /\ UNCHANGED app
       \/ /\ armed \in index \ {e} /\ e \in index
          /\ armed' = None /\ Send(Cmd("Connect", <<armed, e>>))

Click ==
    /\ Input
    /\ \E e \in nodes : ClickForSelect(e) \/ ClickForConnect(e)
    /\ UNCHANGED <<scene, tool, next_tool, selected, meant, select, create, owed,
                   buffer, views, waiting, remotes>>

\* cancel_on_escape, and handle_connect_commands on Cancel
Cancel ==
    /\ Input /\ tool = "Connect" /\ armed # None
    /\ armed' = None
    /\ UNCHANGED <<scene, tool, next_tool, selected, meant, bus, buffer, views, waiting, remotes>>

-----------------------------------------------------------------------------
\* A frame begins: create commands that two frames did not read are dropped,
\* and a tool that was set, be it the active one, is left and entered.

\* Mutant: what the tool holds stays.
LeaveAsIs == meant' = (IF tool = "Select" THEN {} ELSE meant) /\ UNCHANGED <<selected, armed>>

\* clear_selection_on_tool_exit, reset_connect_state
Leave ==
    /\ selected' = IF tool = "Select" THEN {} ELSE selected
    /\ meant' = IF tool = "Select" THEN {} ELSE meant
    /\ armed' = IF tool = "Connect" THEN None ELSE armed

StateTransition == Leave /\ tool' = next_tool /\ next_tool' = None

BeginFrame ==
    /\ waiting = {} /\ buffer = << >>
    /\ waiting' = System
    /\ IF next_tool = None THEN UNCHANGED tools ELSE StateTransition
    /\ create' = [m \in BOOLEAN \X BOOLEAN |-> IF m[1] THEN create[<<FALSE, m[2]>>] ELSE 0]
    /\ UNCHANGED <<scene, app, select, owed, buffer, views, inputs, remotes>>

-----------------------------------------------------------------------------
\* Commands and the sync points.

Queue(op, e) == <<[op |-> op, entity |-> e]>>

\* The part of the world that commands touch.
World == [nodes |-> nodes, edges |-> edges, own |-> own, spawned |-> spawned,
          selected |-> selected, meant |-> meant, unnamed |-> unnamed,
          unseen |-> unseen, removed |-> removed]

\* EntityCommands::despawn.  Its relationship hooks take the end off the edges
\* of a node; they stay.
Despawned(w, es) ==
    [w EXCEPT !.nodes = @ \ es, !.own = @ \ es,
              !.edges = [e \in DOMAIN @ \ es |->
                           [k \in 1..2 |-> IF @[e][k] \in es THEN None ELSE @[e][k]]],
              !.selected = @ \ es, !.meant = IF @ = None THEN None ELSE @ \ es,
              !.unnamed = @ \ es, !.unseen = @ \ es,
              !.removed = @ \cup (w.own \cap es)]

Spawned(w) ==
    LET e == w.spawned + 1
    IN [w EXCEPT !.spawned = e, !.own = @ \cup {e},
                 !.unnamed = @ \cup {e}, !.unseen = @ \cup {e}]

\* What is queued for several entities one after the other is one command.  An
\* edge is related to those of its ends that live.
ApplyCommand(w, c) ==
    CASE c.op = "despawn" -> Despawned(w, c.entity)
      [] c.op = "insert" -> [w EXCEPT !.selected = @ \cup (c.entity \cap w.nodes)]
      [] c.op = "remove" -> [w EXCEPT !.selected = @ \ c.entity]
      [] c.op = "spawn node" -> [Spawned(w) EXCEPT !.nodes = @ \cup {w.spawned + 1}]
      [] c.op = "spawn edge" ->
           LET ends == [k \in 1..2 |-> IF c.entity[k] \in w.nodes THEN c.entity[k] ELSE None]
           IN [Spawned(w) EXCEPT !.edges = [e \in DOMAIN @ \cup {w.spawned + 1} |->
                                              IF e \in DOMAIN @ THEN @[e] ELSE ends]]

Flushed == FoldLeft(ApplyCommand, World, buffer)

Becomes(w) ==
    /\ nodes' = w.nodes /\ edges' = w.edges /\ own' = w.own /\ spawned' = w.spawned
    /\ selected' = w.selected /\ meant' = w.meant
    /\ unnamed' = w.unnamed /\ unseen' = w.unseen /\ removed' = w.removed

SyncPoint ==
    /\ buffer # << >>
    /\ \E w \in {Flushed} : Becomes(w)
    /\ buffer' = << >>
    /\ UNCHANGED <<index, tool, next_tool, armed, bus, cache, told, missed,
                   waiting, inputs, remotes>>

-----------------------------------------------------------------------------
\* The systems of a frame.

Runs(s) == s \in waiting /\ waiting' = waiting \ {s}

\* dispatch_connect, dispatch_disconnect, dispatch_remove_node and dispatch_remove_edge
GraphCommands(cmd) ==
    LET Between(ends) == {e \in DOMAIN edges : edges[e] = ends}
    IN CASE cmd.cmd = "Connect" /\ Range(cmd.target) \subseteq index ->
              Queue("spawn edge", cmd.target)
         [] cmd.cmd = "Disconnect" /\ Range(cmd.target) \subseteq index
                                   /\ Between(cmd.target) # {} ->
              Queue("despawn", {Min(Between(cmd.target))})
         [] cmd.cmd \in {"RemoveNode", "RemoveEdge"} ->
              Queue("despawn", cmd.target \cap index)
         [] OTHER -> << >>

Handled(queued, cmd) == queued \o GraphCommands(cmd)

SelectKind == {"Select", "Toggle", "ClearSelection", "DeleteTargets"}
ToSelect(stream, cmd) == IF cmd.cmd \in SelectKind THEN Append(stream, cmd) ELSE stream

SetTool(t, cmd) == IF cmd.cmd = "SetTool" THEN cmd.target ELSE t
NextTool == FoldLeft(SetTool, next_tool, app)
ToolAfter == IF NextTool = None THEN tool ELSE NextTool

Sent == Cardinality({k \in DOMAIN app : app[k].cmd = "Create"})
Due(stream) == stream[<<FALSE, TRUE>>] + stream[<<TRUE, TRUE>>]

\* Mutant: a command is forwarded to the active tool only.
ForwardToActive == IF tool = "Create" THEN Sent ELSE 0

\* A create command is due when Create is the tool of the next frame.
Forward == Sent

dispatch_app_commands ==
    /\ Runs("dispatch")
    /\ app' = << >>
    /\ next_tool' = NextTool
    /\ select' = FoldLeft(ToSelect, select, app)
    /\ create' = [create EXCEPT ![<<FALSE, ToolAfter = "Create">>] = @ + Forward]
    /\ owed' = IF ToolAfter = "Create" THEN owed + Sent ELSE owed
    /\ buffer' = FoldLeft(Handled, buffer, app)
    /\ UNCHANGED <<scene, tool, selected, armed, meant, views, inputs, remotes>>

\* What a handled command means for the selection before it.
Meaning(cmd, before) ==
    CASE cmd.cmd = "Select" -> {cmd.target}
      [] cmd.cmd = "Toggle" /\ before # None -> SymDiff(before, {cmd.target})
      [] cmd.cmd = "ClearSelection" -> {}
      [] OTHER -> before

\* All commands of a frame are answered from the selection of before.
SelectCommands(cmd) ==
    CASE cmd.cmd = "Select" -> Queue("remove", selected) \o Queue("insert", {cmd.target})
      [] cmd.cmd = "Toggle" /\ cmd.target \in selected -> Queue("remove", {cmd.target})
      [] cmd.cmd = "Toggle" /\ cmd.target \notin selected -> Queue("insert", {cmd.target})
      [] cmd.cmd = "ClearSelection" -> Queue("remove", selected)
      [] cmd.cmd = "DeleteTargets" -> Queue("despawn", cmd.target \cap index)

\* A target without an entity is an error.
Answerable(cmd) == cmd.cmd \in {"Select", "Toggle"} => cmd.target \in index
Selecting(queued, cmd) == IF Answerable(cmd) THEN queued \o SelectCommands(cmd) ELSE queued

\* Those that are about the selection.
Marking == {k \in DOMAIN select : Answerable(select[k]) /\ select[k].cmd # "DeleteTargets"}

\* It runs with any tool.
handle_select_commands ==
    /\ Runs("select")
    /\ buffer' = FoldLeft(Selecting, buffer, select)
    /\ \/ Marking = {} /\ UNCHANGED meant
       \/ \E k \in Marking : Marking = {k} /\ meant' = Meaning(select[k], meant)
       \/ Cardinality(Marking) > 1 /\ meant' = None
    /\ select' = << >>
    /\ UNCHANGED <<scene, tool, next_tool, selected, armed, app, create, owed, views, inputs, remotes>>

\* handle_delete_key, with or without the key
handle_delete_key ==
    /\ Runs("delete")
    /\ \/ UNCHANGED <<app, inputs>>
       \/ /\ tool = "Select" /\ inputs < MaxInputs /\ inputs' = inputs + 1
          /\ Send(Cmd("RemoveNode", selected \cap index))
    /\ UNCHANGED <<scene, tools, select, create, owed, buffer, views, remotes>>

\* All that the reader has not read, of whatever age.
Unread == create[<<FALSE, FALSE>>] + create[<<TRUE, FALSE>>] + Due(create)

\* handle_create_commands
handle_create_commands ==
    /\ Runs("create")
    /\ IF tool = "Create"
       THEN /\ buffer' = buffer \o [k \in 1..Unread |-> Queue("spawn node", None)[1]]
            /\ create' = [m \in DOMAIN create |-> 0] /\ owed' = owed - Due(create)
       ELSE UNCHANGED <<buffer, create, owed>>
    /\ UNCHANGED <<scene, tools, app, select, views, inputs, remotes>>

\* An edge is announced with the ids of its ends.
HasIds(e) == e \in index /\ (e \in DOMAIN edges => Range(edges[e]) \subseteq index)

\* emit_node_appeared and emit_edge_appeared: what has no id yet is not seen
\* a second time.
emit_appeared ==
    /\ Runs("appeared")
    /\ LET announced == {e \in unseen : HasIds(e)}
       IN /\ cache' = cache \cup announced
          /\ told' = told \cup announced
          /\ missed' = missed \cup (unseen \ announced)
    /\ unseen' = {}
    /\ UNCHANGED <<scene, tools, bus, buffer, unnamed, removed, inputs, remotes>>

\* Mutant: the index is asked, not the cache.
Known == removed \cap index

\* The ids of what is removed, which the index may have forgotten.
CachedIds == removed \cap cache

\* emit_node_removed and emit_edge_removed
emit_removed ==
    /\ Runs("removed")
    /\ told' = told \ CachedIds
    /\ cache' = cache \ CachedIds
    /\ removed' = {}
    /\ UNCHANGED <<scene, tools, bus, buffer, unnamed, unseen, missed, inputs, remotes>>

\* What the ops of other clients do: a node without SceneNode is spawned and
\* bound, or one that is bound, or an edge, is removed.
Remote(w, bound) ==
    {[world |-> w, index |-> bound]}
    \cup (IF remotes = MaxRemote THEN {} ELSE
          {[world |-> [w EXCEPT !.spawned = @ + 1, !.nodes = @ \cup {w.spawned + 1}],
            index |-> bound \cup {w.spawned + 1}]})
    \cup (IF remotes = MaxRemote THEN {} ELSE
          {[world |-> Despawned(w, {e} \cup {x \in DOMAIN w.edges : e \in Range(w.edges[x])}),
            index |-> bound] : e \in bound \cap (w.nodes \cup DOMAIN w.edges)})

\* SyncSet::Structural of kyoso_graph_sync, which StructuralSync has in detail:
\* what was spawned gets its id, an edge when its ends have theirs; then the
\* ops of others; and what is gone is unbound.
sync ==
    /\ Runs("sync") /\ buffer = << >>
    /\ LET named == index \cup (unnamed \cap nodes)
           bound == named \cup {e \in unnamed \cap DOMAIN edges : Range(edges[e]) \subseteq named}
       IN \E next \in Remote([World EXCEPT !.unnamed = {}], bound) :
            /\ Becomes(next.world)
            /\ index' = next.index \cap (next.world.nodes \cup DOMAIN next.world.edges)
            /\ remotes' = IF next.world = [World EXCEPT !.unnamed = {}] THEN remotes ELSE remotes + 1
    /\ UNCHANGED <<tool, next_tool, armed, bus, buffer, cache, told, missed, inputs>>

-----------------------------------------------------------------------------
Next ==
    \/ External \/ Click \/ Cancel
    \/ BeginFrame \/ SyncPoint
    \/ dispatch_app_commands \/ handle_select_commands \/ handle_delete_key
    \/ handle_create_commands \/ emit_appeared \/ emit_removed \/ sync

Spec == Init /\ [][Next]_vars

-----------------------------------------------------------------------------
\* What an observer was told appeared and not removed is there, or its removal
\* is about to be told; and it was told of all that this client spawned, but
\* for what an emitter met before it had an id (scene.rs, ExternalIdCache).
EventsTellTheScene ==
    /\ told \ Living \subseteq removed
    /\ own \ told \subseteq unseen \cup missed

\* The frames selected are those that the commands handled one after the other
\* mean, with any tool, when no frame had several of them; and a first click
\* waits for a second only while the tool is Connect (select.rs, connect.rs).
ToolStateIsMeant ==
    /\ buffer = << >> /\ meant # None => selected = meant \cap nodes
    /\ armed # None => tool = "Connect"

\* A create command sent together with the change to its tool, in either order,
\* is not lost: it is carried out or still in its stream (handlers.rs:19-23).
CommandsReachTheirTool == owed = Due(create)
=============================================================================
