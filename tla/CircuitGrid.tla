---------------------------- MODULE CircuitGrid ----------------------------
(***************************************************************************)
(* Dragging a part of the circuit over the grid of its layer: the drag     *)
(* (kyoso_drag/src/three_d.rs), which locks the camera while it lasts, the *)
(* snap to a cell where it ends (kyoso_circuit_client/src/                 *)
(* grid_manager.rs), and the room, which carries each Transform            *)
(* (kyoso_circuit/src/plugin.rs): what moved is told, and what the room    *)
(* says is written over every part.  Drag and snap read the pointer's      *)
(* messages in a frame, and nothing orders the two, nor either of them     *)
(* with the room's systems: each reader takes the messages of one kind, so *)
(* that only which there are matters.  A message is dropped when two       *)
(* frames began after the one it was written in.                           *)
(*                                                                         *)
(* Abstracted: a place is a cell and whether it is the centre of it, and   *)
(* all that is told of a frame is one item of the stream back.             *)
(***************************************************************************)
EXTENDS Integers, FiniteSets, Sequences, FiniteSetsExt

CONSTANTS GridPart,  \* the circuit nodes, each with a layer
          Cell,      \* the cells of a grid
          NoPart,
          MaxPointer, \* bound: how often the pointer does something
          MaxToggles, \* bound: how often Q is pressed
          MaxOthers   \* bound: what other clients do: moves and removals

ASSUME GridAssumption ==
    /\ IsFiniteSet(GridPart) /\ NoPart \notin GridPart
    /\ {MaxPointer, MaxToggles, MaxOthers} \subseteq Nat

Place == [cell : Cell, centred : BOOLEAN]

VARIABLES
    parts,     \* the living nodes
    place,     \* where each of them is: its Transform
    doc_place, \* where the room's document has it
    fresh,     \* those with a Transform changed since the room's systems looked
    flight,    \* what is on its way from the room, own moves and others', in order
    arriving,  \* what of it came in this frame
    begun,     \* those with drag_start positions in Draggable3d
    held,      \* what the pointer drags, as picking has it
    messages,  \* DragStart, Drag and DragEnd, as yet for the drag
    drag_ends, \* DragEnd, as yet for the snap
    snap_enabled,
    locked,    \* CameraSettings
    turn,      \* the systems this frame has yet to run
    pointed, toggled, others, \* bounds: so many so far
    abandoned, \* history: the last drag whose end was read was of a node that is gone
    hasty      \* history: a drag began in the frame another ended in

placeVars == <<parts, place, doc_place, fresh, flight, arriving>>
dragVars == <<begun, held, messages, drag_ends, snap_enabled, locked, abandoned, hasty>>
gridVars == <<placeVars, dragVars, turn, pointed, toggled, others>>

GridSystem == {"drag", "snap", "key", "room", "detect", "project"}

\* Parts lie anywhere, as agents and other clients may have left them.
GridInit ==
    /\ parts = GridPart /\ snap_enabled \in BOOLEAN
    /\ place \in [GridPart -> Place] /\ doc_place = place
    /\ fresh = {} /\ flight = << >> /\ arriving = << >>
    /\ begun = {} /\ held = NoPart /\ messages = {} /\ drag_ends = {}
    /\ locked = FALSE /\ turn = {} /\ pointed = 0 /\ toggled = 0 /\ others = 0
    /\ abandoned = FALSE /\ hasty = FALSE

-----------------------------------------------------------------------------
\* First: what is too old is dropped.
NewFrame ==
    /\ turn = {}
    /\ turn' = GridSystem
    /\ drag_ends' = {[m EXCEPT !.aged = TRUE] : m \in {n \in drag_ends : ~n.aged}}
    /\ UNCHANGED <<placeVars, begun, held, messages, snap_enabled, locked,
                   abandoned, hasty, pointed, toggled, others>>

\* PreUpdate: what the pointer did since the last frame.
Point ==
    /\ turn = GridSystem /\ pointed < MaxPointer /\ pointed' = pointed + 1
    /\ UNCHANGED <<placeVars, begun, snap_enabled, locked, abandoned, hasty,
                   turn, toggled, others>>

Press ==
    /\ Point /\ held = NoPart
    /\ \E n \in parts :
          held' = n /\ messages' = messages \cup {[kind |-> "DragStart", entity |-> n]}
    /\ UNCHANGED drag_ends

Glide ==
    /\ Point /\ held # NoPart
    /\ messages' = messages \cup {[kind |-> "Drag", entity |-> held]}
    /\ UNCHANGED <<held, drag_ends>>

Release ==
    /\ Point /\ held # NoPart
    /\ held' = NoPart
    /\ messages' = messages \cup {[kind |-> "DragEnd", entity |-> held]}
    /\ drag_ends' = drag_ends \cup {[entity |-> held, aged |-> FALSE]}

-----------------------------------------------------------------------------
Turn(s) == s \in turn /\ turn' = turn \ {s}

About(kind) == {m.entity : m \in {n \in messages : n.kind = kind}}

\* Mutant: what ended is seen to before what began.
LockEndsFirst(began, ended) == IF began # {} THEN TRUE ELSE IF ended # {} THEN FALSE ELSE locked

\* The starts are read before the ends; of a node that is gone neither.
Lock(began, ended) == IF ended # {} THEN FALSE ELSE IF began # {} THEN TRUE ELSE locked

\* Some parts are put somewhere, and are seen to have changed.
PutDown(them, where) ==
    /\ place' = [n \in GridPart |-> IF n \in them THEN where[n] ELSE place[n]]
    /\ fresh' = fresh \cup them
    /\ UNCHANGED <<parts, doc_place, flight, arriving>>

\* pointer_drag_3d_system: a node that is dragged comes to lie anywhere.
pointer_drag_3d_system ==
    /\ Turn("drag") /\ messages' = {}
    /\ LET began == About("DragStart") \cap parts
           ended == About("DragEnd") \cap parts
           moved == About("Drag") \cap parts \cap (begun \cup began)
       IN  /\ begun' = begun \cup began
           /\ locked' = Lock(began, ended)
           /\ \E where \in [moved -> Place] : PutDown(moved, where)
           /\ abandoned' = IF About("DragEnd") = {} THEN abandoned ELSE ended = {}
           /\ hasty' = IF About("DragEnd") # {} THEN About("DragStart") # {} ELSE hasty
    /\ UNCHANGED <<held, drag_ends, snap_enabled, pointed, toggled, others>>

\* GridLayout3d::snap.
Snapped(n) == [place[n] EXCEPT !.centred = TRUE]

\* snap_on_drag_end: with the snap off the messages stay unread.
snap_on_drag_end ==
    /\ Turn("snap")
    /\ LET ends == {m.entity : m \in drag_ends} \cap parts
       IN  IF snap_enabled
           THEN PutDown(ends, [n \in ends |-> Snapped(n)]) /\ drag_ends' = {}
           ELSE UNCHANGED <<placeVars, drag_ends>>
    /\ UNCHANGED <<begun, held, messages, snap_enabled, locked, abandoned, hasty,
                   pointed, toggled, others>>

snap_hotkey ==
    /\ Turn("key")
    /\ \/ UNCHANGED <<snap_enabled, toggled>>
       \/ /\ toggled < MaxToggles /\ toggled' = toggled + 1
          /\ snap_enabled' = ~snap_enabled
    /\ UNCHANGED <<placeVars, begun, held, messages, drag_ends, locked, abandoned, hasty,
                   pointed, others>>

-----------------------------------------------------------------------------
\* SyncSet::Structural: some of what is on its way comes in; and another
\* client may have moved a part, perhaps the one that is dragged ...
hear_room ==
    /\ Turn("room")
    /\ \E came \in 0..Len(flight) :
          /\ arriving' = SubSeq(flight, 1, came)
          /\ LET rest == SubSeq(flight, came + 1, Len(flight)) IN
             \/ flight' = rest /\ UNCHANGED others
             \/ /\ others < MaxOthers /\ others' = others + 1
                /\ \E n \in GridPart, p \in Place : flight' = Append(rest, [m \in {n} |-> p])
    /\ UNCHANGED <<parts, place, doc_place, fresh, dragVars, pointed, toggled>>

\* ... or removed one.
unplug ==
    /\ "room" \in turn /\ others < MaxOthers /\ others' = others + 1
    /\ \E n \in parts : parts' = parts \ {n} /\ fresh' = fresh \ {n} /\ begun' = begun \ {n}
    /\ UNCHANGED <<place, doc_place, flight, arriving, held, messages, drag_ends, snap_enabled,
                   locked, abandoned, hasty, turn, pointed, toggled>>

\* detect_local_changes: of what changed, what the document has otherwise is told.
detect_local_changes ==
    /\ Turn("detect") /\ "room" \notin turn
    /\ LET moved == {n \in fresh : place[n] # doc_place[n]}
       IN  flight' = IF moved = {} THEN flight ELSE Append(flight, [n \in moved |-> place[n]])
    /\ fresh' = {}
    /\ UNCHANGED <<parts, place, doc_place, arriving, dragVars, pointed, toggled, others>>

\* apply_remote_changes: of what came, the last of each part.
Told(n) ==
    LET of == {k \in DOMAIN arriving : n \in DOMAIN arriving[k]}
    IN  IF of = {} THEN doc_place[n] ELSE arriving[Max(of)][n]

\* Mutant: what is dragged is left alone.
WrittenUnlessHeld(them) == them \ {held}

\* project_to_components: every part there is, whatever part was told of.
Written(them) == them

project_to_components ==
    /\ Turn("project") /\ "detect" \notin turn
    /\ doc_place' = [n \in GridPart |-> Told(n)]
    /\ LET them == IF arriving = << >> THEN {} ELSE Written(parts)
       IN  /\ place' = [n \in GridPart |-> IF n \in them THEN Told(n) ELSE place[n]]
           /\ fresh' = fresh \cup them
    /\ arriving' = << >>
    /\ UNCHANGED <<parts, flight, dragVars, pointed, toggled, others>>

GridNext ==
    \/ NewFrame \/ Press \/ Glide \/ Release
    \/ pointer_drag_3d_system \/ snap_on_drag_end \/ snap_hotkey
    \/ hear_room \/ unplug \/ detect_local_changes \/ project_to_components

-----------------------------------------------------------------------------
\* Between two frames: the camera is locked while something is dragged and not
\* longer, unless another client removed what was dragged, when it stays locked
\* until a later drag ends, or one drag followed on another within a frame,
\* when the second leaves it free (three_d.rs).
DragsEnd ==
    turn = {} =>
        /\ locked /\ held = NoPart => abandoned
        /\ held \in parts => locked \/ hasty

\* Between two frames a part lies where the room has it, unless a change of it
\* is yet to be looked at or told of: whatever the drag, the snap and what is
\* written over them made of it meanwhile (component_sync.rs:282-447).
PartsLieAsTold ==
    turn = {} =>
        \A n \in parts \ fresh :
            place[n] = doc_place[n] \/ \E k \in DOMAIN flight : n \in DOMAIN flight[k]
=============================================================================
