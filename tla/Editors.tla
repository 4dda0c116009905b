------------------------------ MODULE Editors ------------------------------
(***************************************************************************)
(* The two editors: the desktop client, and of the circuit client what it  *)
(* has besides, the layers of a board and the drags on its grid.  They are *)
(* separate programs; and a drag and a layer touch different components of *)
(* a node, so that neither is in the way of the other.                     *)
(***************************************************************************)
EXTENDS EditorClient, CircuitLayers, CircuitGrid

VARIABLE running

EditorsInit ==
    /\ running \in {"desktop", "layers", "grid"}
    /\ Init /\ LayersInit /\ GridInit
    /\ running # "desktop" => tool = "Select"
    /\ running # "grid" => snap_enabled /\ \A n \in GridPart : place[n].centred

Desktop == running = "desktop" /\ Next /\ UNCHANGED <<running, layerVars, gridVars>>

Layers == running = "layers" /\ LayersNext /\ UNCHANGED <<running, vars, gridVars>>

Grid == running = "grid" /\ GridNext /\ UNCHANGED <<running, vars, layerVars>>

EditorsNext == Desktop \/ Layers \/ Grid

EditorsSpec == EditorsInit /\ [][EditorsNext]_<<running, vars, layerVars, gridVars>>
=============================================================================
