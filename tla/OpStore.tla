------------------------------ MODULE OpStore -------------------------------
(***************************************************************************)
(* One room's persistent storage: the op log, the snapshots and the acks   *)
(* (apps/kyoso_server/src/services/store.rs).  A room is a value; each     *)
(* operator is one call on OpStore, which takes effect at once: the        *)
(* in-memory store holds its mutex for the whole call and the Postgres     *)
(* store runs one statement or one transaction.                            *)
(*                                                                         *)
(* Abstracted: ops are opaque, and a document is the sequence of ops it    *)
(* has folded (ReplicatedGraph shows that this sequence determines it), so *)
(* a snapshot is a document whose length is its at_seq.                    *)
(***************************************************************************)
EXTENDS Naturals, Sequences, FiniteSetsExt, Maps

CONSTANTS Op,      \* operations
          Conn,    \* connections, each with a peer id of its own
          Backend, \* which store: "memory" or "postgres"
          None     \* the Rust None

ASSUME StoreAssumption == Backend \in {"memory", "postgres"} /\ None \notin Nat

Row == [op : Op, seq : Nat \cup {None}]
Doc == Seq(Op)

IsRows(f) == DOMAIN f \subseteq Nat /\ f \in [DOMAIN f -> Row]

IsRoom(r) ==
    /\ r = [head |-> r.head, ops |-> r.ops, snapshots |-> r.snapshots,
            snapshot_seq |-> r.snapshot_seq, compacted_below |-> r.compacted_below,
            acks |-> r.acks]
    /\ r.head \in Nat /\ r.snapshot_seq \in Nat /\ r.compacted_below \in Nat
    /\ DOMAIN r.ops \subseteq 1..r.head /\ r.ops \in [DOMAIN r.ops -> Row]
    /\ DOMAIN r.snapshots \subseteq 0..r.snapshot_seq
    /\ r.snapshots \in [DOMAIN r.snapshots -> Doc]
    /\ DOMAIN r.acks \subseteq Conn /\ r.acks \in [DOMAIN r.acks -> Nat]

EmptyRoom == [head |-> 0, ops |-> EmptyMap, snapshots |-> EmptyMap,
              snapshot_seq |-> 0, compacted_below |-> 0, acks |-> EmptyMap]

AtLeast(a, b) == IF a >= b THEN a ELSE b
AtMost(a, b)  == IF a <= b THEN a ELSE b

-----------------------------------------------------------------------------
\* Mutant: the seq is taken before the head moves.
AppendOffByOne(room, op) ==
    [room EXCEPT !.head = @ + 1,
                 !.ops  = Put(@, room.head,
                              [op |-> op, seq |-> IF Backend = "memory" THEN room.head ELSE None])]

\* The next seq is the row's key.  The in-memory store keeps the stamped op;
\* Postgres keeps the bytes encoded before it was stamped.
append(room, op) ==
    [room EXCEPT !.head = @ + 1,
                 !.ops  = Put(@, room.head + 1,
                              [op  |-> op,
                               seq |-> IF Backend = "memory" THEN room.head + 1 ELSE None])]

\* Mutant: from is taken for the first seq that is not wanted yet.
SliceOffByOne(room, from, to) ==
    Restrict(room.ops, {n \in DOMAIN room.ops : from + 1 < n /\ n <= to})

\* The rows in (from, to] that are still there, by key.
slice(room, from, to) ==
    Restrict(room.ops, {n \in DOMAIN room.ops : from < n /\ n <= to})

save_snapshot(room, doc) ==
    [room EXCEPT !.snapshots    = Put(@, Len(doc), doc),
                 !.snapshot_seq = AtLeast(@, Len(doc))]

latest_snapshot(room) ==
    IF DOMAIN room.snapshots = {} THEN None
    ELSE room.snapshots[Max(DOMAIN room.snapshots)]

record_ack(room, peer, last_seen) ==
    [room EXCEPT !.acks = Put(@, peer, IF peer \in DOMAIN @ THEN AtLeast(@[peer], last_seen)
                                       ELSE last_seen)]

clear_peer(room, peer) == [room EXCEPT !.acks = Without(@, peer)]

\* m is what min_ack returns; nothing is when there is no row.
min_ack(room, m) == m \in Range(room.acks) /\ \A n \in Range(room.acks) : m <= n

\* Drop the ops up to upper, and every snapshot older than the newest one at
\* or below upper.
compact_below(room, upper) ==
    [room EXCEPT !.ops             = Restrict(@, {n \in DOMAIN @ : n > upper}),
                 !.compacted_below = AtLeast(@, upper),
                 !.snapshots       = Restrict(@,
                     {s \in DOMAIN @ : ~ \E t \in DOMAIN @ : s < t /\ t <= upper})]

\* OpStore::postgres: a server that starts has no peers.
reopen(room) == [room EXCEPT !.acks = EmptyMap]

-----------------------------------------------------------------------------
\* What a document becomes when the ops of some rows are applied to it in
\* order: an op without a seq is refused, one that is not the next is refused,
\* so it grows as far as confirmed rows follow on it without a gap.
Unstamped(rows) == \E n \in DOMAIN rows : rows[n].seq = None

Confirmed(rows) == {n \in DOMAIN rows : rows[n].seq = n}

Reach(doc, rows) ==
    Max({Len(doc)} \cup {n \in Confirmed(rows) : Len(doc) + 1 .. n \subseteq Confirmed(rows)})

Replay(doc, rows) ==
    [n \in 1..Reach(doc, rows) |-> IF n <= Len(doc) THEN doc[n] ELSE rows[n].op]
=============================================================================
