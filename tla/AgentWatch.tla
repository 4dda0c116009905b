----------------------------- MODULE AgentWatch -----------------------------
(***************************************************************************)
(* An agent that edits a scene and watches it: WatchBuffer and read_page   *)
(* (apps/kyoso_agent/src/watch.rs), the mutate verbs (mutate.rs), and a    *)
(* client that keeps a picture of the scene from what they tell it.        *)
(*                                                                         *)
(* A verb edits the scene, pumps one frame and answers: between the edit   *)
(* and the answer nothing else runs (calling).  The world edits the scene  *)
(* between frames: the user, and the ops of other peers.                   *)
(***************************************************************************)
EXTENDS AgentScene

CONSTANTS Capacity,      \* of the WatchBuffer
          MaxGeneration  \* bound: GraphMessages a behaviour has

ASSUME WatchAssumption == Capacity \in Nat \ {0} /\ MaxGeneration \in Nat

VARIABLES
    rows,       \* WatchBuffer.rows
    overflowed, \* WatchBuffer.overflowed
    generation, \* WorldGeneration
    calling,    \* the verb that has edited and not yet answered
    stuck,      \* a walk to the root that does not end has begun
    mirror,     \* the nodes the client believes in
    cursor,     \* the client's Cursor; no cursor reads like generation 0
    foreign,    \* the cursor is of another session
    told,       \* the client was told buffer_overflow and has not rescanned
    dropped     \* history: the nodes whose row a filter or max_items dropped

buffer == <<rows, overflowed, generation>>
client == <<mirror, cursor, foreign, told, dropped>>
watchVars == <<scene, buffer, calling, stuck, client>>

Quiet == [verb |-> "none", node |-> None]

WatchInit ==
    /\ SceneInit
    /\ rows = EmptyMap /\ overflowed = FALSE /\ generation = 0
    /\ calling = Quiet /\ stuck = FALSE
    /\ mirror = {} /\ cursor = 0 /\ foreign \in BOOLEAN
    /\ told = FALSE /\ dropped = {}

\* An agent that does not watch: its client would have to scan first.
WatchIdle ==
    /\ rows = EmptyMap /\ overflowed = FALSE /\ generation = 0
    /\ calling = Quiet /\ stuck = FALSE
    /\ mirror = {} /\ cursor = 0 /\ foreign = FALSE /\ told = TRUE /\ dropped = {}

-----------------------------------------------------------------------------
\* Mutant: what was added stays added.
CoalesceAdded(prev, next) ==
    IF prev = "Added" \/ next = "Added" THEN "Added"
    ELSE IF next = "Removed" THEN "Removed" ELSE "Modified"

coalesce(prev, next) ==
    IF next = "Removed" THEN "Removed"
    ELSE IF prev = "Added" \/ next = "Added" THEN "Added" ELSE "Modified"

\* drain_messages for one message: the generation moves, and record folds it
\* into the row of its entity, or finds the buffer full.
record(b, msg) ==
    LET n == msg.node
        g == b.generation + 1
        named == msg.kind = "Removed" /\ n \in DOMAIN captured
    IN  IF n \in DOMAIN b.rows
        THEN [b EXCEPT !.generation = g,
                       !.rows = Put(@, n, [kind |-> coalesce(@[n].kind, msg.kind), gen |-> g,
                                           path |-> IF named THEN captured[n] ELSE @[n].path])]
        ELSE IF Cardinality(DOMAIN b.rows) >= Capacity
        THEN [b EXCEPT !.generation = g, !.overflowed = TRUE]
        ELSE [b EXCEPT !.generation = g,
                       !.rows = Put(@, n, [kind |-> msg.kind, gen |-> g,
                                           path |-> IF named THEN captured[n] ELSE None])]

\* A frame: change detection writes its messages and drain_messages reads them.
Pump ==
    \E messages \in Messages :
        \E b \in {FoldLeft(record, [rows |-> rows, overflowed |-> overflowed,
                                    generation |-> generation], messages)} :
            /\ rows' = b.rows /\ overflowed' = b.overflowed /\ generation' = b.generation
            /\ added' = {} /\ removed' = {} /\ moved' = {}
            /\ captured' = Restrict(captured, DOMAIN captured \ removed)
            /\ UNCHANGED <<tree, went>>

-----------------------------------------------------------------------------
\* Bound: edits stop where their messages might pass MaxGeneration.
MayEdit ==
    /\ ~ stuck /\ calling = Quiet
    /\ generation + Cardinality(added) + Cardinality(removed) + Cardinality(moved)
                   + Cardinality(live) + 2 <= MaxGeneration

Places == live \cup {None}

\* A walk to the root begins at a node on, or below, a cycle.
Hang == stuck' = TRUE /\ UNCHANGED <<scene, buffer, calling, client>>

\* The user's edits, and those that come from other peers.
WorldSpawn(n, p, k) ==
    /\ MayEdit /\ Spawn(n, p, k) /\ UNCHANGED <<buffer, calling, stuck, client>>

WorldDespawn(n) ==
    /\ MayEdit
    /\ \/ Looping(n) /\ Hang
       \/ ~ Looping(n) /\ Despawn(n) /\ UNCHANGED <<buffer, calling, stuck, client>>

\* apply_tree_commands: InsertChild and Reparent; MoveSibling where p is the
\* parent already.
WorldPlace(n, p, k) ==
    /\ MayEdit /\ Place(n, p, k) /\ UNCHANGED <<buffer, calling, stuck, client>>

Frame ==
    /\ ~ stuck /\ calling = Quiet /\ added \cup removed \cup moved # {}
    /\ Pump
    /\ UNCHANGED <<calling, stuck, client>>

-----------------------------------------------------------------------------
\* create: a position is made up where a parent is given and a position is not.
Create(n, p, k) ==
    /\ MayEdit
    /\ Spawn(n, p, IF k = 0 /\ p # None THEN 1 ELSE k)
    /\ calling' = [verb |-> "create", node |-> n]
    /\ UNCHANGED <<buffer, stuck, client>>

\* delete: the handle of the node is made first.
Delete(n) ==
    /\ MayEdit
    /\ \/ Looping(n) /\ Hang
       \/ /\ ~ Looping(n) /\ Despawn(n)
          /\ calling' = [verb |-> "delete", node |-> n]
          /\ UNCHANGED <<buffer, stuck, client>>

Move(n, p, k) ==
    /\ MayEdit /\ Place(n, p, k)
    /\ calling' = [verb |-> "move", node |-> n]
    /\ UNCHANGED <<buffer, stuck, client>>

\* The frame a verb pumps, and its answer: finalize makes the node's handle,
\* current_cursor the cursor.  A client goes on from that cursor or keeps its
\* own.
Return ==
    /\ ~ stuck /\ calling # Quiet
    /\ Pump
    /\ \/ /\ calling.verb # "delete" /\ Looping(calling.node)
          /\ stuck' = TRUE /\ UNCHANGED <<calling, client>>
       \/ /\ calling.verb = "delete" \/ ~ Looping(calling.node)
          /\ calling' = Quiet
          /\ mirror' = IF calling.verb = "delete" THEN mirror \ {calling.node}
                       ELSE mirror \cup {calling.node}
          /\ \/ cursor' = generation' /\ foreign' = FALSE
             \/ UNCHANGED <<cursor, foreign>>
          /\ UNCHANGED <<stuck, told, dropped>>

-----------------------------------------------------------------------------
Due(since) == {n \in DOMAIN rows : rows[n].gen > since}

\* read_page: the rows after the cursor, less what filters and max_items drop,
\* are returned; all of them are drained.
Read(since, kept) ==
    /\ ~ stuck /\ calling = Quiet /\ ~ told /\ ~ overflowed /\ ~ (foreign /\ since = cursor)
    /\ mirror' = (mirror \cup kept) \ {n \in kept : rows[n].kind = "Removed"}
    /\ rows' = Restrict(rows, DOMAIN rows \ Due(since))
    /\ dropped' = (dropped \ kept) \cup (Due(since) \ kept)
    /\ cursor' = generation /\ foreign' = FALSE
    /\ UNCHANGED <<scene, overflowed, generation, calling, stuck, told>>

\* read_page with a cursor of another session, or after an overflow: an empty
\* page that says so.
ReadOverflow ==
    /\ ~ stuck /\ calling = Quiet /\ ~ told /\ (overflowed \/ foreign)
    /\ told' = TRUE /\ cursor' = generation /\ foreign' = FALSE
    /\ UNCHANGED <<scene, buffer, calling, stuck, mirror, dropped>>

\* scan, to the depth where it hides nothing.  Nothing calls reset.
Scan ==
    /\ ~ stuck /\ calling = Quiet
    /\ mirror' = live /\ dropped' = {} /\ told' = FALSE
    /\ cursor' = generation /\ foreign' = FALSE
    /\ UNCHANGED <<scene, buffer, calling, stuck>>

-----------------------------------------------------------------------------
WatchNext ==
    \/ \E n \in Node, p \in Places, k \in Key \cup {0} :
          WorldSpawn(n, p, k) \/ Create(n, p, k)
    \/ \E n \in live : WorldDespawn(n) \/ Delete(n)
    \/ \E n \in live, p \in live, k \in Key : WorldPlace(n, p, k)
    \/ \E n \in live, p \in Places, k \in Key : Move(n, p, k)
    \/ Frame \/ Return
    \/ \E since \in {0, cursor} : \E kept \in SUBSET Due(since) : Read(since, kept)
    \/ ReadOverflow \/ Scan

WatchSpec == WatchInit /\ [][WatchNext]_watchVars

-----------------------------------------------------------------------------
AtRest == added \cup removed \cup moved = {} /\ calling = Quiet /\ ~ stuck

\* The buffer is never over its capacity, and a client that has read up to now
\* believes in exactly the nodes that are alive, but for a node whose row its
\* own filter dropped, and a node whose row waits behind a cursor it took from a
\* verb and not from watch.  (watch.rs, the agent loop of lib.rs:13-18.)
MirrorTracksScene ==
    /\ Cardinality(DOMAIN rows) <= Capacity
    /\ AtRest /\ ~ overflowed /\ ~ foreign /\ ~ told /\ cursor = generation =>
         \A n \in Node : \/ (n \in mirror) <=> (n \in live)
                         \/ n \in dropped
                         \/ n \in DOMAIN rows

\* A node that is despawned is reported under the path it had; one that goes
\* along with it only under its own label, for its parent is gone before it.
\* And no captured path outlives the message it was captured for.
\* (watch.rs:84-108, :358-410.)
RemovalsAreNamed ==
    /\ DOMAIN captured = removed
    /\ \A n \in DOMAIN rows : rows[n].kind = "Removed" =>
          rows[n].path = IF went[n].by = n THEN went[n].path ELSE <<Last(went[n].path)>>

\* An unnamed node of the chain up from n has its key in common with a sibling.
Ambiguous(n) ==
    \E k \in 0..Depth(n) :
        LET m == Up(n)[k]
        IN  Name[m] = None /\ \E s \in ChildrenOf(parent[m]) \ {m} : key[s] = key[m]

\* The path in a handle leads back to the node it was made for, and to no
\* other, unless a part of it is an order key that siblings share.
\* (handle.rs:402: the path is canonical.)
PathsLeadBack ==
    ~ stuck => \A n \in live : HasPath(n) =>
        \/ resolve_path(path_for(n)) = {n}
        \/ n \in resolve_path(path_for(n)) /\ Ambiguous(n)
=============================================================================
