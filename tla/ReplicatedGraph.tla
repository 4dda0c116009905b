-------------------------- MODULE ReplicatedGraph --------------------------
(***************************************************************************)
(* Replicas of the graph model that fold one server-ordered log.           *)
(*                                                                         *)
(* A client mutates by queueing operations; the server appends them to the *)
(* log in some interleaving; each replica is then shown log entries.  The  *)
(* network here is adversarial: entries are shown in any order, any number *)
(* of times, or never, and a replica may at any moment be replaced by the  *)
(* snapshot of another one (a Welcome, or a mirror rebuilt after a crash). *)
(* RoomSync models the connections that do this in the running system.     *)
(***************************************************************************)
EXTENDS Sequences, FiniteSets, GraphBackend

CONSTANTS Client,   \* replicas that mutate
          Mirror,   \* the server's replica, which only folds
          MaxOps,   \* bound: operations minted in a behaviour
          MaxQueue  \* bound: operations a client has queued at once

ASSUME ReplicaAssumption == Mirror \notin Client

Replica == Client \cup {Mirror}

VARIABLES log,      \* the server's log: the op at index n has GlobalSeq n
          pending,  \* per client, ops queued and not yet in the log
          replica,  \* per replica, its Backend
          canon     \* history: canon[n] is what folding the first n log entries gives

vars == <<log, pending, replica, canon>>

Init == /\ log = << >>
        /\ pending = [c \in Client |-> << >>]
        /\ replica = [r \in Replica |-> EmptyBackend]
        /\ canon = [n \in {0} |-> EmptyBackend]

-----------------------------------------------------------------------------
Minted == {log[n].id : n \in DOMAIN log}
          \cup UNION {{pending[c][k].id : k \in DOMAIN pending[c]} : c \in Client}

\* Ids of entities of a kind that a client can name: those in the log and
\* those it has just queued itself.
Known(c, kind) ==
    {log[n].id : n \in {m \in DOMAIN log : log[m].kind = kind}}
    \cup {pending[c][k].id : k \in {j \in DOMAIN pending[c] : pending[c][j].kind = kind}}

\* mint_id, then push onto the pending queue.  Ids are minted fresh.
Queue(c, op) ==
    /\ Len(pending[c]) < MaxQueue /\ op.id \notin Minted
    /\ Cardinality(Minted) < MaxOps
    /\ pending' = [pending EXCEPT ![c] = Append(@, op)]
    /\ UNCHANGED <<log, canon>>

\* add_node also makes the record, so that the node can be edited at once.
add_node(c) ==
    \E id \in CrdtId :
        /\ Queue(c, AddNodeOp(id))
        /\ replica' = [replica EXCEPT ![c].schemas = OrDefault(@, id)]

remove_node(c) ==
    \E id \in CrdtId, n \in Known(c, "AddNode") :
        /\ Queue(c, RemoveNodeOp(id, n))
        /\ CanRemoveNode(replica[c], n)
        /\ UNCHANGED replica

move_node(c) ==
    \E id \in CrdtId, n \in Known(c, "AddNode"),
       p \in Known(c, "AddNode") \cup {None}, k \in OrderKey :
        /\ Queue(c, MoveOp(id, n, p, k))
        /\ CanMove(replica[c], n, p)
        /\ UNCHANGED replica

add_edge(c) ==
    \E id \in CrdtId, f \in Known(c, "AddNode"), t \in Known(c, "AddNode") :
        /\ Queue(c, AddRefEdgeOp(id, f, t))
        /\ UNCHANGED replica

remove_edge(c) ==
    \E id \in CrdtId, e \in Known(c, "AddRefEdge") :
        /\ Queue(c, RemoveRefEdgeOp(id, e))
        /\ CanRemoveEdge(replica[c], e)
        /\ UNCHANGED replica

set_property(c) ==
    \E id \in CrdtId, n \in Known(c, "AddNode") \cup Known(c, "AddRefEdge") :
        /\ Queue(c, SetPropertyOp(id, n))
        /\ UNCHANGED replica

\* The server takes the oldest op of a client's queue and appends it.
Stamp(c) ==
    /\ pending[c] # << >>
    /\ LET op == Head(pending[c]) IN
         /\ log' = Append(log, op)
         /\ canon' = Put(canon, Len(log) + 1, Applied(canon[Len(log)], Len(log) + 1, op))
    /\ pending' = [pending EXCEPT ![c] = Tail(@)]
    /\ UNCHANGED replica

\* A replica is shown some log entry, whatever it has applied so far.
Deliver(r) ==
    \E n \in DOMAIN log :
        /\ replica' = [replica EXCEPT ![r] = apply_remote(@, n, log[n])]
        /\ UNCHANGED <<log, pending, canon>>

\* A replica restores a snapshot taken from another one.
Hydrate(r) ==
    \E s \in Replica :
        /\ replica' = [replica EXCEPT ![r] = Restore(Snapshot(replica[s]))]
        /\ UNCHANGED <<log, pending, canon>>

Mutate(c) == \/ add_node(c) \/ remove_node(c) \/ move_node(c)
             \/ add_edge(c) \/ remove_edge(c) \/ set_property(c)

Next == \/ \E c \in Client : Mutate(c) \/ Stamp(c)
        \/ \E r \in Replica : Deliver(r) \/ Hydrate(r)

Spec == Init /\ [][Next]_vars

-----------------------------------------------------------------------------
\* The log holds ops, and every replica, restored ones included, is a backend
\* (backend.rs: Backend).
TypeOK == /\ log \in Seq(Op)
          /\ pending \in [Client -> Seq(Op)]
          /\ DOMAIN replica = Replica /\ \A r \in Replica : IsBackend(replica[r])
          /\ DOMAIN canon = 0..Len(log) /\ \A n \in DOMAIN canon : IsBackend(canon[n])

\* Two backends that no reader can tell apart: same live topology, and every
\* record shows the same value.
Agree(a, b) == /\ a.applied_seq = b.applied_seq
               /\ snapshot(a.topology) = snapshot(b.topology)
               /\ \A i \in CrdtId : Prop(a, i) = Prop(b, i)

\* However the log was shown to it and however often it was rebuilt from
\* snapshots, a replica that has applied n ops is what folding the first n
\* log entries gives.  (id.rs:28-31: replaying ops in GlobalSeq order on any
\* replica yields the same converged state.)
ReplicaFoldsLog ==
    \A r \in Replica : /\ replica[r].applied_seq <= Len(log)
                       /\ Agree(replica[r], canon[replica[r].applied_seq])

\* Concurrent moves, each acceptable where it was issued, never close a cycle
\* on any replica (op.rs:9: the tree never enters an invalid state).
NoTreeCycles == \A r \in Replica : NoTreeCycle(replica[r].topology)

\* An edge queued while another client removes one of its ends never stays
\* live (topology.rs:233-239).
NoOrphanEdges == \A r \in Replica : NoOrphanEdge(replica[r].topology)

\* Removal is final: an entity that is gone after n ops is gone ever after,
\* moves and edge additions that arrive late included.
NoResurrection ==
    \A n \in DOMAIN canon : \A m \in n..Len(log) :
        LET a == canon[n].topology
            b == canon[m].topology
        IN  /\ DOMAIN a.nodes \ LiveNodes(a) \subseteq DOMAIN b.nodes \ LiveNodes(b)
            /\ DOMAIN a.edges \ LiveEdges(a) \subseteq DOMAIN b.edges \ LiveEdges(b)
=============================================================================
