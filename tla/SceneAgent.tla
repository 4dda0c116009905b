----------------------------- MODULE SceneAgent -----------------------------
(***************************************************************************)
(* The calls of a SceneAgent (apps/kyoso_agent/src/lib.rs): it watches and *)
(* edits the scene, or asks a query of it.  A query has the world to       *)
(* itself, so no edit comes between its steps, and it starts from a graph  *)
(* of its own.  Next to it: the keys of siblings (tree.rs), a handle that  *)
(* is kept, and the text of paths (handle.rs).                             *)
(***************************************************************************)
EXTENDS AgentWatch, SubgraphMatch, GraphSearch, OrderKeys, NodeHandles, ScenePaths

besideVars == <<keyVars, handleVars, textVars>>
agentVars == <<watchVars, graph, matchVars, walkVars, besideVars>>

Watching == WatchInit /\ graph = <<>> /\ MatchIdle /\ WalkIdle /\ KeysIdle /\ HandleIdle /\ TextIdle

Asking ==
    /\ SceneInit /\ WatchIdle /\ KeysIdle /\ HandleIdle /\ TextIdle
    /\ \/ MatchInit /\ WalkIdle
       \/ (WalkInit \/ SearchInit) /\ MatchIdle

Alone ==
    /\ WatchIdle /\ graph = <<>> /\ MatchIdle /\ WalkIdle
    /\ \/ SceneInit /\ KeysInit /\ HandleIdle /\ TextIdle
       \/ HandleInit /\ KeysIdle /\ TextIdle
       \/ SceneInit /\ TextInit /\ KeysIdle /\ HandleIdle

AgentInit == Watching \/ Asking \/ Alone

Edit ==
    /\ searching = "idle" /\ walking = "idle" /\ placing = "idle"
    /\ handling = "idle" /\ reading = "idle"
    /\ WatchNext /\ UNCHANGED <<graph, matchVars, walkVars, besideVars>>

Match == MatchNext /\ UNCHANGED <<watchVars, walkVars, besideVars>>

Walk == (WalkNext \/ SearchNext) /\ UNCHANGED <<watchVars, matchVars, besideVars>>

PlaceSibling == KeysNext /\ UNCHANGED <<watchVars, graph, matchVars, walkVars, handleVars, textVars>>

KeepHandle ==
    HandleNext /\ UNCHANGED <<buffer, calling, stuck, client, graph, matchVars, walkVars,
                              keyVars, textVars>>

SpeakPath ==
    TextNext /\ UNCHANGED <<watchVars, graph, matchVars, walkVars, keyVars, handleVars>>

AgentNext == Edit \/ Match \/ Walk \/ PlaceSibling \/ KeepHandle \/ SpeakPath

AgentSpec == AgentInit /\ [][AgentNext]_agentVars

-----------------------------------------------------------------------------
\* Handles and what they are made of lead to the nodes they were made for: a
\* path to its node, a handle that was kept to its own, a text to its path, but
\* where the parts say otherwise.  (handle.rs:3-23, :148.)
HandlesResolve == PathsLeadBack /\ RefsLeadHome /\ TextsReadBack
=============================================================================
