--------------------------- MODULE CircuitLayers ---------------------------
(***************************************************************************)
(* The board layers of the circuit client (apps/kyoso_circuit_client/src/  *)
(* layer_manager.rs): the index of what lies on which layer, the hotkeys,  *)
(* and what is hidden with a hidden layer.  As in the desktop client, a    *)
(* system runs once in a frame, anywhere, and Commands wait for a sync     *)
(* point.  The systems that apply visibility run when LayerManager was     *)
(* written since they last ran, be it with the value it had.               *)
(***************************************************************************)
EXTENDS Integers, FiniteSets, Sequences, SequencesExt, FiniteSetsExt

CONSTANTS Layer,      \* CircuitLayer
          Unassigned, \* a layer_id that is none of them
          Part,       \* the circuit nodes at the start, with their layers
          Wire,       \* the circuit edges at the start, with their ends
          MaxActs     \* bound: how often each of these acts

ASSUME LayersAssumption ==
    /\ DOMAIN Part \subseteq Nat /\ IsFiniteSet(DOMAIN Part)
    /\ DOMAIN Wire \subseteq Nat \ DOMAIN Part /\ IsFiniteSet(DOMAIN Wire)
    /\ Wire \in [DOMAIN Wire -> (DOMAIN Part) \X (DOMAIN Part)]
    /\ Part \in [DOMAIN Part -> Layer]
    /\ Unassigned \notin Layer /\ MaxActs \in [{"bus", "keys", "room"} -> Nat]

VARIABLES
    on_layer,  \* living circuit node -> its OnLayer
    wires,     \* living circuit edge -> EdgeFrom and EdgeTo; <<>> when an end is gone
    minted,    \* the entities so far
    visible, layer_by_entity, entities_by_layer, active, \* LayerManager
    hidden,    \* what has Visibility::Hidden
    changed,   \* Changed<OnLayer>, as yet for index_node_layers
    forgotten, \* RemovedComponents<CircuitNode>, as yet for forget_removed_nodes
    due,       \* the systems that LayerManager is changed for
    orders,    \* AppCommands
    queue,     \* Commands queued and not yet applied
    systems,   \* those this frame has yet to run
    acts,      \* bound: how often each acted so far
    unread     \* history: the edges no pass over the edges has met

manager == <<visible, layer_by_entity, entities_by_layer, active, due>>
board == <<on_layer, wires, minted, hidden, changed, forgotten, unread>>
layerVars == <<manager, board, orders, queue, systems, acts>>

LayerSystem == {"dispatch", "index", "forget", "hotkeys", "nodes", "edges", "sync"}

\* A client under way: all that there is was indexed, and is shown, but for the
\* active layer, which was hidden: each toggle now hides a layer or shows one.
LayersInit ==
    /\ on_layer = Part /\ wires = Wire /\ minted = Max(DOMAIN Part \cup DOMAIN Wire \cup {0})
    /\ active = CHOOSE l \in Layer : TRUE
    /\ visible = [l \in Layer |-> l # active]
    /\ layer_by_entity = Part
    /\ entities_by_layer = [l \in Layer |-> {n \in DOMAIN Part : Part[n] = l}]
    /\ hidden = {n \in DOMAIN Part : ~visible[Part[n]]}
               \cup {w \in DOMAIN Wire : \E n \in Range(Wire[w]) : ~visible[Part[n]]}
    /\ changed = {} /\ forgotten = {} /\ due = {} /\ unread = {}
    /\ orders = <<>> /\ queue = <<>> /\ systems = {} /\ acts = [a \in DOMAIN MaxActs |-> 0]

-----------------------------------------------------------------------------
Act(a) == acts[a] < MaxActs[a] /\ acts' = [acts EXCEPT ![a] = @ + 1]

Parts == DOMAIN on_layer

Orders ==
    [order : {"SpawnComponent", "SetActiveLayer"}, what : Layer]
    \cup [order : {"Connect"}, what : Parts \X Parts]
    \cup [order : {"Remove"}, what : Parts \cup DOMAIN wires]

\* A command of the toolbar, or of the other side of the bus.
Order ==
    /\ systems = {} /\ queue = <<>> /\ Act("bus")
    /\ \E o \in Orders : orders' = Append(orders, o)
    /\ UNCHANGED <<manager, board, queue, systems>>

NextFrame ==
    /\ systems = {} /\ queue = <<>>
    /\ systems' = LayerSystem
    /\ UNCHANGED <<manager, board, orders, queue, acts>>

RunsOnce(s) == s \in systems /\ systems' = systems \ {s}

\* ResMut marks LayerManager changed for the systems that ask.
Touched == due' = {"nodes", "edges"}

\* What is not about the layer manager becomes a Bevy command.
Queued(q, o) == IF o.order = "SetActiveLayer" THEN q ELSE Append(q, o)

\* dispatch_app_commands: the layer is set where it stands, the rest is queued.
dispatch ==
    /\ RunsOnce("dispatch")
    /\ orders' = <<>>
    /\ LET set == SelectSeq(orders, LAMBDA o : o.order = "SetActiveLayer")
       IN  IF set = <<>> THEN UNCHANGED <<active, due>> ELSE active' = Last(set).what /\ Touched
    /\ queue' = FoldLeft(Queued, queue, orders)
    /\ UNCHANGED <<visible, layer_by_entity, entities_by_layer, board, acts>>

-----------------------------------------------------------------------------
\* The part of the world that commands touch.
Board == [on_layer |-> on_layer, wires |-> wires, minted |-> minted, hidden |-> hidden,
          changed |-> changed, forgotten |-> forgotten, unread |-> unread]

\* A node that goes is taken off its edges, which stay.
Gone(b, es) ==
    [b EXCEPT !.on_layer = [n \in DOMAIN @ \ es |-> @[n]],
              !.wires = [w \in DOMAIN @ \ es |-> IF Range(@[w]) \cap es = {} THEN @[w] ELSE <<>>],
              !.hidden = @ \ es, !.changed = @ \ es, !.unread = @ \ es,
              !.forgotten = @ \cup (es \cap DOMAIN b.on_layer)]

\* spawn_component, dispatch_connect, and the two removals; what comes is shown.
Obeyed(b, o) ==
    LET e == b.minted + 1
    IN  CASE o.order = "SpawnComponent" ->
               [b EXCEPT !.minted = e, !.changed = @ \cup {e},
                         !.on_layer = [n \in DOMAIN @ \cup {e} |-> IF n = e THEN o.what ELSE @[n]]]
          [] o.order = "Connect" ->
               LET ends == IF Range(o.what) \subseteq DOMAIN b.on_layer THEN o.what ELSE <<>>
               IN  [b EXCEPT !.minted = e, !.unread = @ \cup {e},
                             !.wires = [w \in DOMAIN @ \cup {e} |-> IF w = e THEN ends ELSE @[w]]]
          [] o.order = "Remove" -> Gone(b, {o.what})

Settles(b) ==
    /\ on_layer' = b.on_layer /\ wires' = b.wires /\ minted' = b.minted
    /\ hidden' = b.hidden /\ changed' = b.changed /\ forgotten' = b.forgotten
    /\ unread' = b.unread

Apply ==
    /\ queue # <<>> /\ queue' = <<>>
    /\ \E b \in {FoldLeft(Obeyed, Board, queue)} : Settles(b)
    /\ UNCHANGED <<manager, orders, systems, acts>>

\* Inbound ops: another client assigns a node to a layer, perhaps one this
\* client has no name for, or removes it, and its edges with it.
inbound ==
    /\ RunsOnce("sync") /\ queue = <<>>
    /\ \/ UNCHANGED <<board, acts>>
       \/ /\ Act("room")
          /\ \E n \in Parts, l \in Layer \cup {Unassigned} :
               Settles([Board EXCEPT !.on_layer[n] = l, !.changed = @ \cup {n}])
       \/ /\ Act("room")
          /\ \E n \in Parts :
               Settles(Gone(Board, {n} \cup {w \in DOMAIN wires : n \in Range(wires[w])}))
    /\ UNCHANGED <<manager, orders, queue>>

-----------------------------------------------------------------------------
Assigned == {n \in changed : on_layer[n] # Unassigned}

\* Mutant: a node that is indexed keeps the layer it has.
FirstIndexed ==
    LET new == Assigned \ DOMAIN layer_by_entity
    IN  /\ layer_by_entity' = [n \in DOMAIN layer_by_entity \cup new |->
                                 IF n \in new THEN on_layer[n] ELSE layer_by_entity[n]]
        /\ entities_by_layer' = [l \in Layer |->
                                   entities_by_layer[l] \cup {n \in new : on_layer[n] = l}]

\* A node leaves the slot of the layer it was on; without a layer it stays.
Indexed ==
    /\ layer_by_entity' = [n \in DOMAIN layer_by_entity \cup Assigned |->
                             IF n \in Assigned THEN on_layer[n] ELSE layer_by_entity[n]]
    /\ entities_by_layer' = [l \in Layer |->
                               (entities_by_layer[l] \ Assigned) \cup {n \in Assigned : on_layer[n] = l}]

index_node_layers ==
    /\ RunsOnce("index")
    /\ Indexed /\ changed' = {}
    /\ IF Assigned = {} THEN UNCHANGED due ELSE Touched
    /\ UNCHANGED <<visible, active, on_layer, wires, minted, hidden, forgotten, unread,
                   orders, queue, acts>>

forget_removed_nodes ==
    /\ RunsOnce("forget")
    /\ layer_by_entity' = [n \in DOMAIN layer_by_entity \ forgotten |-> layer_by_entity[n]]
    /\ entities_by_layer' = [l \in Layer |-> entities_by_layer[l] \ forgotten]
    /\ forgotten' = {}
    /\ IF forgotten = {} THEN UNCHANGED due ELSE Touched
    /\ UNCHANGED <<visible, active, on_layer, wires, minted, hidden, changed, unread,
                   orders, queue, acts>>

\* A digit sets the active layer; with Shift it shows or hides the layer.
layer_hotkeys ==
    /\ RunsOnce("hotkeys")
    /\ \/ UNCHANGED <<visible, active, due, acts>>
       \/ /\ Act("keys") /\ Touched
          /\ \E l \in Layer :
               \/ visible' = [visible EXCEPT ![l] = ~@] /\ UNCHANGED active
               \/ active' = l /\ UNCHANGED visible
    /\ UNCHANGED <<layer_by_entity, entities_by_layer, board, orders, queue>>

-----------------------------------------------------------------------------
\* A node is shown or hidden with its layer; one without a layer stays as it is.
apply_node_visibility ==
    /\ RunsOnce("nodes") /\ due' = due \ {"nodes"}
    /\ LET known == {n \in Parts : on_layer[n] # Unassigned}
       IN  hidden' = IF "nodes" \in due
                     THEN (hidden \ known) \cup {n \in known : ~visible[on_layer[n]]}
                     ELSE hidden
    /\ UNCHANGED <<visible, layer_by_entity, entities_by_layer, active, on_layer, wires, minted,
                   changed, forgotten, unread, orders, queue, acts>>

\* The layer an end is indexed on is shown, or it is indexed on none.
Shown(n) == n \in DOMAIN layer_by_entity => visible[layer_by_entity[n]]

\* An edge is shown when both of its ends are.
apply_edge_visibility ==
    /\ RunsOnce("edges") /\ due' = due \ {"edges"}
    /\ LET whole == {w \in DOMAIN wires : wires[w] # <<>>}
       IN  IF "edges" \in due
           THEN /\ hidden' = (hidden \ whole)
                             \cup {w \in whole : \E n \in Range(wires[w]) : ~Shown(n)}
                /\ unread' = unread \ whole
           ELSE UNCHANGED <<hidden, unread>>
    /\ UNCHANGED <<visible, layer_by_entity, entities_by_layer, active, on_layer, wires, minted,
                   changed, forgotten, orders, queue, acts>>

LayersNext ==
    \/ Order \/ NextFrame \/ dispatch \/ Apply \/ inbound
    \/ index_node_layers \/ forget_removed_nodes \/ layer_hotkeys
    \/ apply_node_visibility \/ apply_edge_visibility

-----------------------------------------------------------------------------
\* The layer of a node, as far as this client knows and has taken note of it.
Resting(n) == n \in Parts \ changed /\ on_layer[n] # Unassigned

\* Once the systems have seen a change, whatever came between them, a node on a
\* layer is hidden just when the layer is, an edge between such nodes just when
\* one of their layers is; but an edge that came after the last change to the
\* LayerManager is shown whatever its ends are.  And the two maps of the index
\* agree, over the nodes there are and those about to be forgotten.
\* (layer_manager.rs:8-19, :241-244.)
LayersAreShown ==
    /\ "nodes" \notin due =>
          \A n \in Parts : Resting(n) => (n \in hidden <=> ~visible[on_layer[n]])
    /\ "edges" \notin due =>
          \A w \in DOMAIN wires \ unread :
             wires[w] # <<>> /\ (\A n \in Range(wires[w]) : Resting(n)) =>
                (w \in hidden <=> \E n \in Range(wires[w]) : ~visible[on_layer[n]])
    /\ DOMAIN layer_by_entity \subseteq Parts \cup forgotten
    /\ \A l \in Layer : entities_by_layer[l] = {n \in DOMAIN layer_by_entity : layer_by_entity[n] = l}
=============================================================================
