---------------------------- MODULE GraphBackend ----------------------------
(***************************************************************************)
(* One replica of the graph model: Backend<GraphTopology, S> with the      *)
(* mutators of GraphBackend (crates/kyoso_crdt/src/backend.rs and          *)
(* crates/kyoso_graph_crdt/src/graph_backend.rs).  The server's mirror and *)
(* every client engine are values of this kind.                            *)
(*                                                                         *)
(* Abstracted: an entity's property record is the GlobalSeq of the write   *)
(* it shows, 0 for a default record.  One last-writer-wins field stands    *)
(* for all of them, its stamp (seq, peer) being decided by seq alone since *)
(* no two log entries share one.                                           *)
(***************************************************************************)
EXTENDS Naturals, GraphTopology

ASSUME SeqAssumption == None \notin Nat

IsBackend(b) ==
    /\ b = [applied_seq |-> b.applied_seq, topology |-> b.topology, schemas |-> b.schemas]
    /\ b.applied_seq \in Nat
    /\ IsTopology(b.topology)
    /\ DOMAIN b.schemas \subseteq CrdtId /\ b.schemas \in [DOMAIN b.schemas -> Nat]

\* with_peer / with_shared_ids: nothing applied yet.
EmptyBackend == [applied_seq |-> 0,
                 topology    |-> EmptyTopology,
                 schemas     |-> EmptyMap]

\* schemas.entry(id).or_insert_with(default), also what ensure_schema does.
OrDefault(schemas, id) == IF id \in DOMAIN schemas THEN schemas ELSE Put(schemas, id, 0)

\* The value a record shows; an absent record reads as a default one.
Prop(b, id) == IF id \in DOMAIN b.schemas THEN b.schemas[id] ELSE 0

-----------------------------------------------------------------------------
\* Mutant: an op past a gap is applied.
ApplyErrorWithoutGapCheck(b, seq) ==
    CASE seq = None               -> "Unconfirmed"
      [] seq \in 1..b.applied_seq -> "Duplicate"
      [] OTHER                    -> "Ok"

\* apply_remote: refuse an op that has no seq, ignore one already applied,
\* refuse one that would leave a gap, apply the next one.
apply_error(b, seq) ==
    CASE seq = None                -> "Unconfirmed"
      [] seq \in 1..b.applied_seq  -> "Duplicate"
      [] seq = b.applied_seq + 1   -> "Ok"
      [] OTHER                     -> "OutOfOrder"

SetPropertyOp(id, n) == [kind |-> "SetProperty", id |-> id, target |-> n]

Op == [kind : {"AddNode"}, id : CrdtId]
      \cup [kind : {"RemoveNode", "RemoveRefEdge", "SetProperty"},
            id : CrdtId, target : CrdtId]
      \cup [kind : {"AddRefEdge"}, id : CrdtId, from : CrdtId, to : CrdtId]
      \cup [kind : {"Move"}, id : CrdtId, target : CrdtId,
            new_parent : CrdtId \cup {None}, position : OrderKey]

\* A last-writer-wins field takes the write with the larger stamp.
LwwApply(current, seq) == IF seq > current THEN seq ELSE current

\* The body of apply_remote for the next op: property ops go to the target's
\* record (made if absent), structural ops to the topology, and an op that
\* creates an entity makes its record.
Applied(b, seq, op) ==
    IF op.kind = "SetProperty"
    THEN [applied_seq |-> seq,
          topology    |-> b.topology,
          schemas     |-> [OrDefault(b.schemas, op.target)
                             EXCEPT ![op.target] = LwwApply(@, seq)]]
    ELSE [applied_seq |-> seq,
          topology    |-> apply_structural_op(b.topology, op),
          schemas     |-> IF op.kind \in {"AddNode", "AddRefEdge"}
                          THEN OrDefault(b.schemas, op.id)
                          ELSE b.schemas]

apply_remote(b, seq, op) ==
    IF apply_error(b, seq) = "Ok" THEN Applied(b, seq, op) ELSE b

-----------------------------------------------------------------------------
\* Every record is shipped, whether or not its entity is live.
Snapshot(b) == [at_seq   |-> b.applied_seq,
                topology |-> snapshot(b.topology),
                schemas  |-> b.schemas]

Restore(snap) == [applied_seq |-> snap.at_seq,
                  topology    |-> restore(snap.topology),
                  schemas     |-> snap.schemas]

-----------------------------------------------------------------------------
\* The local conditions under which a mutator queues its op.
CanRemoveNode(b, target) == is_live_node(b.topology, target)
                         \/ target \in DOMAIN b.schemas

CanMove(b, target, new_parent) ==
    new_parent = None \/ ~ would_create_cycle(b.topology, target, new_parent)

CanRemoveEdge(b, target) == is_live_edge(b.topology, target)
=============================================================================
