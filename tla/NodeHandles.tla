----------------------------- MODULE NodeHandles -----------------------------
(***************************************************************************)
(* A NodeRef that a caller keeps (apps/kyoso_agent/src/handle.rs) while    *)
(* the scene is edited, nodes are deleted through it, and the agent runs   *)
(* anew.  In a new run the scene is what it was, but its nodes may be      *)
(* other entities: a node keeps its name and, if it is replicated, its     *)
(* CrdtId.  Every edit is followed by a frame before the next call.        *)
(***************************************************************************)
EXTENDS AgentScene

CONSTANTS Scenes,    \* the scenes at the start: parent and key of every node
          MaxChanges \* bound: how often others edit

ASSUME HandlesAssumption ==
    /\ Scenes \subseteq [parent : [Node -> Node \cup {None}], key : [Node -> Key]]
    /\ MaxChanges \in Nat

VARIABLES
    session,  \* the SessionId of the agent
    whose,    \* the node of the design that each entity is
    ids,      \* the nodes of the design with a CrdtId
    held,     \* the NodeRef, or NoRef
    changes,  \* bound: so many edits of others so far
    edited,   \* history: others edited since the NodeRef was made
    struck,   \* history: what was deleted through it
    handling  \* "running"; "idle" where nobody keeps a NodeRef

handleVars == <<session, whose, ids, held, changes, edited, struck, handling>>

NoRef == [path |-> <<>>, entity |-> None, session |-> 0, has_id |-> FALSE, of |-> None]

HandleIdle ==
    /\ session = 1 /\ whose = [n \in Node |-> n] /\ ids = {} /\ held = NoRef
    /\ changes = 0 /\ edited = FALSE /\ struck = <<>> /\ handling = "idle"

\* A scene of all nodes but perhaps one without children; replicated or not.
HandleInit ==
    /\ \E s \in Scenes, unborn \in {{}} \cup {{n} : n \in Node} :
          /\ \A n \in Node : s.parent[n] \notin unborn
          /\ born = Node \ unborn /\ live = born
          /\ parent = [n \in Node |-> IF n \in unborn THEN None ELSE s.parent[n]]
          /\ key = [n \in Node |-> IF n \in unborn THEN 0 ELSE s.key[n]]
    /\ added = {} /\ removed = {} /\ moved = {} /\ captured = EmptyMap /\ went = EmptyMap
    /\ session = 1 /\ whose = [n \in Node |-> n] /\ ids \in {{}, Node} /\ held = NoRef
    /\ changes = 0 /\ edited = FALSE /\ struck = <<>> /\ handling = "running"

-----------------------------------------------------------------------------
\* node_ref_for, and what the caller keeps of it: a field may be left out.
node_ref_for(n, cached, with_id) ==
    [path |-> path_for(n),
     entity |-> IF cached THEN n ELSE None, session |-> IF cached THEN session ELSE 0,
     has_id |-> with_id /\ whose[n] \in ids, of |-> whose[n]]

cached_entity(r) == IF r.session = session THEN {r.entity} ELSE {}

\* NodeRef::resolve: each hint in turn where it leads to a living entity, then
\* the path; one of these entities.
resolve(r) ==
    LET cached == cached_entity(r) \cap live
        indexed == {n \in live : r.has_id /\ r.of \in ids /\ whose[n] = r.of}
    IN  IF cached # {} THEN cached ELSE IF indexed # {} THEN indexed ELSE resolve_path(r.path)

-----------------------------------------------------------------------------
Settled == handling = "running" /\ added \cup removed \cup moved = {}

SettleFrame ==
    /\ handling = "running" /\ ~ Settled
    /\ added' = {} /\ removed' = {} /\ moved' = {} /\ captured' = EmptyMap
    /\ UNCHANGED <<tree, went, handleVars>>

KeepRef(n) ==
    /\ Settled /\ held = NoRef /\ HasPath(n)
    /\ \E cached, with_id \in BOOLEAN : held' = node_ref_for(n, cached, with_id)
    /\ UNCHANGED <<scene, session, whose, ids, changes, edited, struck, handling>>

\* Others: the user, the room, other calls.
OthersEdit ==
    /\ Settled /\ changes < MaxChanges /\ changes' = changes + 1
    /\ \/ \E n \in Node, p \in live \cup {None}, k \in Key : Spawn(n, p, k)
       \/ \E n \in live : ~ Looping(n) /\ Despawn(n)
       \/ \E n \in live, p \in live \cup {None}, k \in Key : Place(n, p, k)
    /\ edited' = (held # NoRef)
    /\ UNCHANGED <<session, whose, ids, held, struck, handling>>

\* delete with the NodeRef as its target.
DeleteHeld ==
    /\ Settled /\ held # NoRef /\ Len(struck) < 2
    /\ \E n \in resolve(held) :
          /\ ~ Looping(n) /\ Despawn(n)
          /\ struck' = Append(struck, [of |-> whose[n], name |-> Name[n], key |-> key[n],
                                       depth |-> Depth(n)])
    /\ UNCHANGED <<session, whose, ids, held, changes, edited, handling>>

\* The design as it is, on other entities.
NewRun ==
    /\ Settled /\ session = 1 /\ session' = 2
    /\ \E now \in {p \in [Node -> Node] : IsInjective(p) /\ \A n \in Node : Name[p[n]] = Name[n]} :
          LET was == [m \in Node |-> CHOOSE n \in Node : now[n] = m]
          IN  /\ born' = {now[n] : n \in born} /\ live' = {now[n] : n \in live}
              /\ parent' = [m \in Node |-> IF parent[was[m]] = None THEN None ELSE now[parent[was[m]]]]
              /\ key' = [m \in Node |-> key[was[m]]]
              /\ whose' = [m \in Node |-> whose[was[m]]]
    /\ UNCHANGED <<pending, captured, went, ids, held, changes, edited, struck, handling>>

HandleNext ==
    \/ SettleFrame \/ OthersEdit \/ DeleteHeld \/ NewRun
    \/ \E n \in live : KeepRef(n)

-----------------------------------------------------------------------------
\* A sibling of n, or of a node above it, has the same key, and no name tells
\* them apart; or their one name, and the order of their entities does.
Interchangeable(n) ==
    \E k \in 0..Depth(n) :
        LET m == Up(n)[k]
        IN  \E s \in ChildrenOf(parent[m]) \ {m} :
               key[s] = key[m] /\ (Name[m] = None \/ (Name[s] = Name[m] /\ session # 1))

\* A NodeRef leads to living nodes only, and to its own as long as that lives,
\* whatever happened to the scene: by its entity in the run it was made in, by
\* its CrdtId in any.  With only a path it does while nobody edits the scene,
\* but for siblings of one key.  A delete that is called again with the same
\* NodeRef finds nothing, or a namesake as deep down; or where the path has a
\* key, a node of that key.  (handle.rs:15-23, :436-439.)
RefsLeadHome ==
    held # NoRef =>
        LET own == {n \in live : whose[n] = held.of}
        IN  /\ resolve(held) \subseteq live
            /\ own # {} /\ (held.session = session \/ held.has_id) => resolve(held) = own
            /\ own # {} /\ ~ edited /\ struck = <<>> =>
                  resolve(held) = own \/ \A n \in own : Interchangeable(n)
            /\ ~ edited => \A i \in DOMAIN struck :
                  /\ struck[i].depth + 1 = Len(held.path)
                  /\ LET last == Last(held.path)
                     IN  IF last.name # None THEN struck[i].name = last.name
                         ELSE struck[i].key = last.index
=============================================================================
