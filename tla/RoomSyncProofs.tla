--------------------------- MODULE RoomSyncProofs ---------------------------
(***************************************************************************)
(* For any connections, ops, capacity of the channel and store: what every *)
(* client shows is at all times a prefix of the room's log, set once by    *)
(* its Welcome and only growing after it: RoomSync implements AbstractLog. *)
(* And a client that keeps up misses an op for ever only for one of five   *)
(* causes.                                                                 *)
(***************************************************************************)
EXTENDS RoomSync, FoldProofs

-----------------------------------------------------------------------------
(* The store. *)

\* The newest snapshot is the one snapshot_seq names.
LEMMA LatestSnapshot ==
  ASSUME NEW r, IsRoom(r)
  PROVE  /\ DOMAIN r.snapshots = {} => latest_snapshot(r) = None
         /\ r.snapshot_seq \in DOMAIN r.snapshots =>
              latest_snapshot(r) = r.snapshots[r.snapshot_seq]
<1>1. ASSUME r.snapshot_seq \in DOMAIN r.snapshots
      PROVE  Max(DOMAIN r.snapshots) = r.snapshot_seq
  <2>1. DOMAIN r.snapshots \in SUBSET Nat /\ \A s \in DOMAIN r.snapshots : s <= r.snapshot_seq
    BY DEF IsRoom
  <2>2. r.snapshot_seq \in Nat
    BY DEF IsRoom
  <2>3. /\ Max(DOMAIN r.snapshots) \in DOMAIN r.snapshots
        /\ \A x \in DOMAIN r.snapshots : x <= Max(DOMAIN r.snapshots)
    <3> DEFINE S == DOMAIN r.snapshots
    <3> HIDE DEF S
    <3>1. S \in SUBSET Nat /\ S # {} /\ \A s \in S : s <= r.snapshot_seq
      BY <1>1, <2>1 DEF S
    <3>2. Max(S) \in S /\ \A x \in S : x <= Max(S)
      BY <2>2, <3>1, MaxOfBounded
    <3> QED BY <3>2 DEF S
  <2> QED BY <1>1, <2>1, <2>2, <2>3
<1> QED BY <1>1 DEF latest_snapshot

\* What a document becomes is an extension of it by ops of the rows.
LEMMA ReplayExtends ==
  ASSUME NEW doc \in Doc, NEW rows, IsRows(rows), NEW b \in Nat,
         \A n \in DOMAIN rows : n <= b
  PROVE  LET new == Replay(doc, rows) IN
         /\ new \in Doc
         /\ Len(new) >= Len(doc)
         /\ \A n \in 1..Len(doc) : new[n] = doc[n]
         /\ \A n \in Len(doc) + 1..Len(new) : n \in DOMAIN rows /\ new[n] = rows[n].op
<1> DEFINE S == {Len(doc)} \cup {n \in Confirmed(rows) : Len(doc) + 1 .. n \subseteq Confirmed(rows)}
<1>1. S \in SUBSET Nat /\ S # {}
  BY DEF Confirmed, IsRows, Doc
<1>2. \E c \in Nat : \A x \in S : x <= c
  <2>1. Len(doc) \in Nat
    BY DEF Doc
  <2>2. \A x \in S : x <= Len(doc) + b
    BY <2>1, <1>1 DEF Confirmed
  <2> QED BY <2>1, <2>2
<1> HIDE DEF S
<1>3. Max(S) \in S /\ \A x \in S : x <= Max(S)
  BY <1>1, <1>2, MaxOfBounded
<1>4. Reach(doc, rows) = Max(S)
  BY DEF S, Reach
<1> DEFINE m == Reach(doc, rows)
<1>5. m \in Nat /\ m >= Len(doc)
  BY <1>1, <1>3, <1>4 DEF S, Doc
<1>6. \A n \in Len(doc) + 1..m : n \in DOMAIN rows
  BY <1>3, <1>4, <1>5 DEF S, Confirmed, Doc
<1> HIDE DEF m
<1>7. Replay(doc, rows) = [n \in 1..m |-> IF n <= Len(doc) THEN doc[n] ELSE rows[n].op]
  BY DEF Replay, m
<1>8. \A n \in 1..m : (IF n <= Len(doc) THEN doc[n] ELSE rows[n].op) \in Op
  BY <1>5, <1>6 DEF IsRows, Row, Doc
<1>9. Replay(doc, rows) \in Seq(Op) /\ Len(Replay(doc, rows)) = m
  BY <1>5, <1>7, <1>8
<1> QED BY <1>5, <1>6, <1>7, <1>9 DEF Doc

\* The updates of several fields that the store makes, field by field.
LEMMA RoomUpdates ==
  ASSUME NEW r, IsRoom(r), NEW x, NEW y, NEW z
  PROVE  /\ [r EXCEPT !.head = x, !.ops = y] =
              [head |-> x, ops |-> y, snapshots |-> r.snapshots,
               snapshot_seq |-> r.snapshot_seq, compacted_below |-> r.compacted_below,
               acks |-> r.acks]
         /\ [r EXCEPT !.snapshots = x, !.snapshot_seq = y] =
              [head |-> r.head, ops |-> r.ops, snapshots |-> x, snapshot_seq |-> y,
               compacted_below |-> r.compacted_below, acks |-> r.acks]
         /\ [r EXCEPT !.ops = x, !.compacted_below = y, !.snapshots = z] =
              [head |-> r.head, ops |-> x, snapshots |-> z,
               snapshot_seq |-> r.snapshot_seq, compacted_below |-> y, acks |-> r.acks]
<1> DEFINE a == r.head
           b == r.ops
           c == r.snapshots
           d == r.snapshot_seq
           e == r.compacted_below
           f == r.acks
<1>0. r = [head |-> a, ops |-> b, snapshots |-> c, snapshot_seq |-> d,
           compacted_below |-> e, acks |-> f]
  BY DEF IsRoom
<1> HIDE DEF a, b, c, d, e, f
<1>1. [r EXCEPT !.head = x, !.ops = y] =
        [head |-> x, ops |-> y, snapshots |-> c,
         snapshot_seq |-> d, compacted_below |-> e, acks |-> f]
  <2> DEFINE r1 == [r EXCEPT !.head = x]
  <2>0. [r EXCEPT !.head = x, !.ops = y] = [r1 EXCEPT !.ops = y]
    OBVIOUS
  <2>1. r1 =
          [head |-> x, ops |-> b, snapshots |-> c,
           snapshot_seq |-> d, compacted_below |-> e, acks |-> f]
    BY <1>0
  <2> HIDE DEF r1
  <2> QED BY <2>0, <2>1
<1>2. [r EXCEPT !.snapshots = x, !.snapshot_seq = y] =
        [head |-> a, ops |-> b, snapshots |-> x,
         snapshot_seq |-> y, compacted_below |-> e, acks |-> f]
  <2> DEFINE r1 == [r EXCEPT !.snapshots = x]
  <2>0. [r EXCEPT !.snapshots = x, !.snapshot_seq = y] = [r1 EXCEPT !.snapshot_seq = y]
    OBVIOUS
  <2>1. r1 =
          [head |-> a, ops |-> b, snapshots |-> x,
           snapshot_seq |-> d, compacted_below |-> e, acks |-> f]
    BY <1>0
  <2> HIDE DEF r1
  <2> QED BY <2>0, <2>1
<1>3. [r EXCEPT !.ops = x, !.compacted_below = y, !.snapshots = z] =
        [head |-> a, ops |-> x, snapshots |-> z,
         snapshot_seq |-> d, compacted_below |-> y, acks |-> f]
  <2> DEFINE r1 == [r EXCEPT !.ops = x]
  <2> DEFINE r2 == [r1 EXCEPT !.compacted_below = y]
  <2>0. [r EXCEPT !.ops = x, !.compacted_below = y, !.snapshots = z] = [r2 EXCEPT !.snapshots = z]
    OBVIOUS
  <2>1. r1 =
          [head |-> a, ops |-> x, snapshots |-> c,
           snapshot_seq |-> d, compacted_below |-> e, acks |-> f]
    BY <1>0
  <2> HIDE DEF r1
  <2>2. r2 =
          [head |-> a, ops |-> x, snapshots |-> c,
           snapshot_seq |-> d, compacted_below |-> y, acks |-> f]
    BY <2>1
  <2> HIDE DEF r2
  <2> QED BY <2>0, <2>2
<1> QED BY <1>1, <1>2, <1>3, Zenon DEF a, b, c, d, e, f

\* Every call on the store leaves a room.
LEMMA StoreTypes ==
  ASSUME NEW r, IsRoom(r)
  PROVE  /\ \A op \in Op : IsRoom(append(r, op))
         /\ \A doc \in Doc : IsRoom(save_snapshot(r, doc))
         /\ \A p \in Conn, n \in Nat : IsRoom(record_ack(r, p, n))
         /\ \A p \in Conn : IsRoom(clear_peer(r, p))
         /\ \A n \in Nat : IsRoom(compact_below(r, n))
         /\ IsRoom(reopen(r))
<1>1. ASSUME NEW op \in Op PROVE IsRoom(append(r, op))
  <2> DEFINE row == [op |-> op, seq |-> IF Backend = "memory" THEN r.head + 1 ELSE None]
             q == append(r, op)
  <2>1. row \in Row /\ r.head + 1 \in Nat
    BY DEF IsRoom, Row
  <2>0. q = [r EXCEPT !.head = r.head + 1, !.ops = Put(r.ops, r.head + 1, row)]
    BY Zenon DEF append
  <2>2. q = [head |-> r.head + 1, ops |-> Put(r.ops, r.head + 1, row),
                snapshots |-> r.snapshots, snapshot_seq |-> r.snapshot_seq,
                compacted_below |-> r.compacted_below, acks |-> r.acks]
    BY <2>0, RoomUpdates, Zenon
  <2>3. /\ DOMAIN Put(r.ops, r.head + 1, row) \subseteq 1..r.head + 1
        /\ Put(r.ops, r.head + 1, row) \in [DOMAIN Put(r.ops, r.head + 1, row) -> Row]
    BY <2>1 DEF IsRoom, Put
  <2> HIDE DEF q, row
  <2> QED BY <2>1, <2>2, <2>3 DEF IsRoom, q
<1>2. ASSUME NEW doc \in Doc PROVE IsRoom(save_snapshot(r, doc))
  <2> DEFINE new == Put(r.snapshots, Len(doc), doc)
             top == AtLeast(r.snapshot_seq, Len(doc))
  <2>1. Len(doc) \in Nat
    BY DEF Doc
  <2>0. save_snapshot(r, doc) = [r EXCEPT !.snapshots = new, !.snapshot_seq = top]
    BY Zenon DEF save_snapshot
  <2>2. save_snapshot(r, doc) =
          [head |-> r.head, ops |-> r.ops, snapshots |-> new, snapshot_seq |-> top,
           compacted_below |-> r.compacted_below, acks |-> r.acks]
    BY <2>0, RoomUpdates, ZenonT(40)
  <2>3. top \in Nat /\ r.snapshot_seq <= top /\ Len(doc) <= top
    BY <2>1 DEF IsRoom, AtLeast
  <2>4. DOMAIN new \subseteq 0..top /\ new \in [DOMAIN new -> Doc]
    BY <2>1, <2>3 DEF IsRoom, Put
  <2> HIDE DEF new, top
  <2> QED BY <2>2, <2>3, <2>4 DEF IsRoom
<1>3. ASSUME NEW p \in Conn, NEW n \in Nat PROVE IsRoom(record_ack(r, p, n))
  <2> DEFINE ack == IF p \in DOMAIN r.acks THEN AtLeast(r.acks[p], n) ELSE n
             new == Put(r.acks, p, ack)
  <2>1. record_ack(r, p, n) =
          [head |-> r.head, ops |-> r.ops, snapshots |-> r.snapshots,
           snapshot_seq |-> r.snapshot_seq, compacted_below |-> r.compacted_below,
           acks |-> new]
    BY DEF IsRoom, record_ack
  <2>2. ack \in Nat
    BY DEF IsRoom, AtLeast
  <2>3. DOMAIN new \subseteq Conn /\ new \in [DOMAIN new -> Nat]
    BY <2>2 DEF IsRoom, Put
  <2> HIDE DEF new
  <2> QED BY <2>1, <2>3 DEF IsRoom
<1>4. ASSUME NEW p \in Conn PROVE IsRoom(clear_peer(r, p))
  BY DEF IsRoom, clear_peer, Without, Restrict
<1>5. ASSUME NEW n \in Nat PROVE IsRoom(compact_below(r, n))
  <2> DEFINE ops == Restrict(r.ops, {m \in DOMAIN r.ops : m > n})
             kept == Restrict(r.snapshots, {s \in DOMAIN r.snapshots :
                         ~ \E t \in DOMAIN r.snapshots : s < t /\ t <= n})
             low == AtLeast(r.compacted_below, n)
  <2>0. compact_below(r, n) =
          [r EXCEPT !.ops = ops, !.compacted_below = low, !.snapshots = kept]
    BY Zenon DEF compact_below
  <2>1. compact_below(r, n) =
          [head |-> r.head, ops |-> ops, snapshots |-> kept,
           snapshot_seq |-> r.snapshot_seq, compacted_below |-> low, acks |-> r.acks]
    BY <2>0, RoomUpdates, ZenonT(40)
  <2>2. DOMAIN ops \subseteq 1..r.head /\ ops \in [DOMAIN ops -> Row]
    BY DEF IsRoom, Restrict
  <2>3. DOMAIN kept \subseteq 0..r.snapshot_seq /\ kept \in [DOMAIN kept -> Doc]
    BY DEF IsRoom, Restrict
  <2>4. low \in Nat
    BY DEF IsRoom, AtLeast
  <2> HIDE DEF ops, kept, low
  <2> QED BY <2>1, <2>2, <2>3, <2>4 DEF IsRoom
<1>6. IsRoom(reopen(r))
  BY DEF IsRoom, reopen, EmptyMap
<1> QED BY <1>1, <1>2, <1>3, <1>4, <1>5, <1>6

\* What is read from a room is what it holds.
LEMMA ReadTypes ==
  ASSUME NEW r, IsRoom(r)
  PROVE  /\ latest_snapshot(r) \in Doc \cup {None}
         /\ \A from, to \in Nat : IsRows(slice(r, from, to))
<1>1. latest_snapshot(r) \in Doc \cup {None}
  <2>1. CASE DOMAIN r.snapshots = {}
    BY <2>1 DEF latest_snapshot
  <2>2. CASE DOMAIN r.snapshots # {}
    <3> DEFINE S == DOMAIN r.snapshots
    <3>1. S \in SUBSET Nat /\ (\A s \in S : s <= r.snapshot_seq) /\ r.snapshot_seq \in Nat
      BY DEF IsRoom
    <3> HIDE DEF S
    <3>2. Max(S) \in S
      BY <2>2, <3>1, MaxOfBounded DEF S
    <3>3. latest_snapshot(r) = r.snapshots[Max(S)]
      BY <2>2 DEF latest_snapshot, S
    <3> QED BY <3>2, <3>3 DEF IsRoom, S
  <2> QED BY <2>1, <2>2
<1>2. \A from, to \in Nat : IsRows(slice(r, from, to))
  BY DEF IsRoom, slice, Restrict, IsRows
<1> QED BY <1>1, <1>2

\* What restore makes of the store is the newest snapshot, or nothing,
\* followed by rows of the store.
LEMMA RebuiltExtends ==
  ASSUME IsRoom(room)
  PROVE  LET snap == latest_snapshot(room)
             doc == IF snap = None THEN << >> ELSE snap
         IN /\ Rebuilt \in Doc /\ doc \in Doc
            /\ Len(Rebuilt) >= Len(doc)
            /\ \A n \in 1..Len(doc) : Rebuilt[n] = doc[n]
            /\ \A n \in Len(doc) + 1..Len(Rebuilt) :
                 n \in DOMAIN room.ops /\ Rebuilt[n] = room.ops[n].op
<1> DEFINE snap == latest_snapshot(room)
           doc == IF snap = None THEN << >> ELSE snap
           rows == slice(room, Len(doc), room.head)
<1>1. doc \in Doc /\ Len(doc) \in Nat /\ room.head \in Nat
  BY ReadTypes DEF Doc, IsRoom
<1>2. Rebuilt = Replay(doc, rows)
  BY DEF Rebuilt
<1> HIDE DEF doc
<1>3. IsRows(rows)
  BY <1>1, ReadTypes
<1>4. /\ \A n \in DOMAIN rows : n <= room.head
      /\ \A n \in DOMAIN rows : n \in DOMAIN room.ops /\ rows[n] = room.ops[n]
  BY DEF slice, Restrict
<1> HIDE DEF rows
<1> HIDE DEF snap
<1>5. /\ Rebuilt \in Doc
      /\ Len(Rebuilt) >= Len(doc)
      /\ \A n \in 1..Len(doc) : Rebuilt[n] = doc[n]
      /\ \A n \in Len(doc) + 1..Len(Rebuilt) :
           n \in DOMAIN rows /\ Rebuilt[n] = rows[n].op
  BY <1>1, <1>2, <1>3, <1>4, ReplayExtends
<1>6. \A n \in Len(doc) + 1..Len(Rebuilt) :
        n \in DOMAIN room.ops /\ Rebuilt[n] = room.ops[n].op
  BY <1>4, <1>5, Zenon
<1> QED BY <1>1, <1>5, <1>6, Zenon DEF doc, snap

-----------------------------------------------------------------------------
(* Types. *)

\* A task that goes to a state leaves the others where they are.
LEMMA TaskGoes ==
  ASSUME TypeOK, NEW p \in Conn, NEW s, IsTask(s), Goto(p, s)
  PROVE  /\ DOMAIN task' = Conn
         /\ \A q \in Conn : IsTask(task'[q])
BY DEF TypeOK, Goto

\* The first in line leaves it.
LEMMA LineMoves ==
  ASSUME TypeOK, append_lock # << >>
  PROVE  Tail(append_lock) \in Seq(Conn)
BY DEF TypeOK

\* Whoever has appended is first in line.
FirstInLine ==
    \A p \in Conn : task[p].at = "appended" => append_lock # << >> /\ Head(append_lock) = p

\* Where each step finds a connection's task and where it leaves it.
Moves(p, from, to) == task[p].at \in from /\ task'[p].at \in to

\* Where each step of a connection finds its task and where it leaves it.
LEMMA TaskMoves ==
  ASSUME TypeOK, NEW p \in Conn, Connection(p)
  PROVE  /\ \A q \in Conn : q # p => task'[q] = task[q]
         /\ ReadHead(p) => Moves(p, {"new"}, {"answered", "head read"})
         /\ ReadSnapshot(p) => Moves(p, {"head read"}, {"snapshot read"})
         /\ ReadSlice(p) => Moves(p, {"snapshot read"}, {"answered"})
         /\ SeedAck(p) => Moves(p, {"answered"}, {"reading"})
         /\ Ping(p) => Moves(p, {"reading"}, {"reading"}) /\ task' = task
         /\ CatchupHead(p) => Moves(p, {"reading"}, {"catchup"})
         /\ CatchupSlice(p) => Moves(p, {"catchup"}, {"caught up"})
         /\ Reply(p) => Moves(p, {"caught up", "stamped"}, {"reading"})
         /\ release_peer(p) => Moves(p, {"reading"}, {"gone"})
         /\ submit(p) => Moves(p, {"reading"}, {"locking"})
         /\ AppendOp(p) => Moves(p, {"locking"}, {"appended"})
         /\ AppendFails(p) => Moves(p, {"locking"}, {"reading"})
         /\ ApplyToMirror(p) => Moves(p, {"appended"}, {"reading", "stamped"})
<1> DEFINE s == task'[p]
<1>0. ASSUME NEW g, Goto(p, g) PROVE s = g /\ \A q \in Conn : q # p => task'[q] = task[q]
  BY <1>0 DEF TypeOK, Goto
<1>1. \A q \in Conn : q # p => task'[q] = task[q]
  BY <1>0 DEF Connection, ReadHead, ReadSnapshot, ReadSlice, SeedAck, Ping, CatchupHead,
              CatchupSlice, Reply, release_peer, submit, AppendOp, AppendFails, ApplyToMirror
<1>a. /\ ReadHead(p) => task[p].at = "new"
      /\ ReadSnapshot(p) => task[p].at = "head read"
      /\ ReadSlice(p) => task[p].at = "snapshot read"
      /\ SeedAck(p) => task[p].at = "answered"
      /\ Ping(p) \/ CatchupHead(p) \/ release_peer(p) \/ submit(p) => task[p].at = "reading"
      /\ CatchupSlice(p) => task[p].at = "catchup"
      /\ Reply(p) => task[p].at \in {"caught up", "stamped"}
      /\ AppendOp(p) \/ AppendFails(p) => task[p].at = "locking"
      /\ ApplyToMirror(p) => task[p].at = "appended"
  BY DEF Is, ReadHead, ReadSnapshot, ReadSlice, SeedAck, Ping, CatchupHead,
         CatchupSlice, Reply, release_peer, submit, AppendOp, AppendFails, ApplyToMirror
<1>b. Ping(p) => task' = task
  BY DEF Ping
<1> SUFFICES /\ ReadHead(p) => s.at \in {"answered", "head read"}
             /\ ReadSnapshot(p) => s.at = "snapshot read"
             /\ ReadSlice(p) => s.at = "answered"
             /\ SeedAck(p) \/ Reply(p) \/ AppendFails(p) => s.at = "reading"
             /\ CatchupHead(p) => s.at = "catchup"
             /\ CatchupSlice(p) => s.at = "caught up"
             /\ release_peer(p) => s.at = "gone"
             /\ submit(p) => s.at = "locking"
             /\ AppendOp(p) => s.at = "appended"
             /\ ApplyToMirror(p) => s.at \in {"reading", "stamped"}
  BY <1>1, <1>a, <1>b DEF Moves
<1>2. ASSUME ReadHead(p) PROVE s.at \in {"answered", "head read"}
  <2>1. PICK since : Goto(p, IF room.head \in {0, since}
                             THEN [at |-> "answered", since |-> since, head |-> room.head,
                                   snap |-> None, rows |-> EmptyMap]
                             ELSE [at |-> "head read", since |-> since, head |-> room.head])
    BY <1>2 DEF ReadHead
  <2>2. \/ s = [at |-> "answered", since |-> since, head |-> room.head,
                snap |-> None, rows |-> EmptyMap]
        \/ s = [at |-> "head read", since |-> since, head |-> room.head]
    BY <1>0, <2>1
  <2> HIDE DEF s
  <2>3. CASE s = [at |-> "answered", since |-> since, head |-> room.head,
                  snap |-> None, rows |-> EmptyMap]
    BY <2>3
  <2>4. CASE s = [at |-> "head read", since |-> since, head |-> room.head]
    BY <2>4
  <2> QED BY <2>2, <2>3, <2>4
<1>3. ASSUME ReadSnapshot(p) PROVE s.at = "snapshot read"
  <2>1. PICK a, b, c : s = [at |-> "snapshot read", since |-> a, head |-> b, snap |-> c]
    BY <1>0, <1>3 DEF ReadSnapshot
  <2> HIDE DEF s
  <2> QED BY <2>1
<1>4. ASSUME ReadSlice(p) PROVE s.at = "answered"
  <2>1. PICK a, b, c, d : s = [at |-> "answered", since |-> a, head |-> b, snap |-> c, rows |-> d]
    BY <1>0, <1>4 DEF ReadSlice
  <2> HIDE DEF s
  <2> QED BY <2>1
<1>5. ASSUME SeedAck(p) \/ Reply(p) \/ AppendFails(p) PROVE s.at = "reading"
  <2>1. s = [at |-> "reading"]
    BY <1>0, <1>5 DEF SeedAck, Reply, AppendFails, Reading
  <2> HIDE DEF s
  <2> QED BY <2>1
<1>6. ASSUME CatchupHead(p) PROVE s.at = "catchup"
  <2>1. \E a, b : s = [at |-> "catchup", since |-> a, head |-> b]
    BY <1>0, <1>6 DEF CatchupHead
  <2> HIDE DEF s
  <2> QED BY <2>1
<1>7. ASSUME CatchupSlice(p) PROVE s.at = "caught up"
  <2>1. PICK a, b, c : s = [at |-> "caught up", since |-> a, head |-> b, rows |-> c]
    BY <1>0, <1>7 DEF CatchupSlice
  <2> HIDE DEF s
  <2> QED BY <2>1
<1>8. ASSUME release_peer(p) PROVE s.at = "gone"
  <2>1. s = [at |-> "gone"]
    BY <1>0, <1>8 DEF release_peer
  <2> HIDE DEF s
  <2> QED BY <2>1
<1>9. ASSUME submit(p) PROVE s.at = "locking"
  <2>1. \E op : s = [at |-> "locking", op |-> op]
    BY <1>0, <1>9 DEF submit
  <2> HIDE DEF s
  <2> QED BY <2>1
<1>10. ASSUME AppendOp(p) PROVE s.at = "appended"
  <2>1. \E a, b : s = [at |-> "appended", op |-> a, seq |-> b]
    BY <1>0, <1>10 DEF AppendOp
  <2> HIDE DEF s
  <2> QED BY <2>1
<1>11. ASSUME ApplyToMirror(p) PROVE s.at \in {"reading", "stamped"}
  <2>1. task[p] \in [at : {"appended", "stamped"}, op : Op, seq : Nat]
    BY <1>11 DEF ApplyToMirror, Is, TypeOK, IsTask
  <2> DEFINE u == task[p]
  <2>a. PICK a, b, c : u = [at |-> c, op |-> a, seq |-> b]
    BY <2>1
  <2> HIDE DEF u
  <2>b. [u EXCEPT !.at = "stamped"] = [at |-> "stamped", op |-> a, seq |-> b]
    BY <2>a
  <2>2. [task[p] EXCEPT !.at = "stamped"] = [at |-> "stamped", op |-> a, seq |-> b]
    BY <2>b, Zenon DEF u
  <2>3. s = [at |-> "reading"] \/ s = [at |-> "stamped", op |-> a, seq |-> b]
    BY <1>0, <1>11, <2>2 DEF ApplyToMirror, Reading
  <2> HIDE DEF s
  <2> QED BY <2>3
<1> QED BY <1>2, <1>3, <1>4, <1>5, <1>6, <1>7, <1>8, <1>9, <1>10, <1>11

\* Every step keeps the connections in line for the append lock in their
\* places: only the first of them is past the append.
LEMMA FirstInLineStep ==
  ASSUME TypeOK, FirstInLine, [Next]_vars
  PROVE  FirstInLine'
<1> USE DEF FirstInLine
<1> append_lock \in Seq(Conn) /\ DOMAIN task = Conn
  BY DEF TypeOK
<1>1. ASSUME NEW p \in Conn, Connection(p) PROVE FirstInLine'
  <2>1. CASE submit(p)
    <3>1. append_lock' = Append(append_lock, p)
      BY <2>1 DEF submit
    <3>2. append_lock' # << >> /\ (append_lock # << >> => Head(append_lock') = Head(append_lock))
      BY <3>1
    <3>3. \A q \in Conn : task'[q].at = "appended" => task[q].at = "appended"
      BY <1>1, <2>1, TaskMoves DEF Moves
    <3> QED BY <3>2, <3>3
  <2>2. CASE AppendOp(p)
    BY <1>1, <2>2, TaskMoves DEF AppendOp, Holds
  <2>3. CASE AppendFails(p) \/ ApplyToMirror(p)
    <3>1. Head(append_lock) = p
      BY <2>3 DEF AppendFails, ApplyToMirror, Holds, Is
    <3>2. \A q \in Conn : task'[q].at = "appended" => q # p /\ task[q].at = "appended"
      BY <1>1, <2>3, TaskMoves DEF Moves
    <3> QED BY <3>1, <3>2
  <2>4. CASE \/ ReadHead(p) \/ ReadSnapshot(p) \/ ReadSlice(p) \/ SeedAck(p) \/ Ping(p)
            \/ CatchupHead(p) \/ CatchupSlice(p) \/ Reply(p) \/ release_peer(p)
    <3>1. append_lock' = append_lock
      BY <2>4 DEF ReadHead, ReadSnapshot, ReadSlice, SeedAck, Ping, CatchupHead,
                  CatchupSlice, Reply, release_peer
    <3>2. \A q \in Conn : task'[q].at = "appended" => task[q].at = "appended"
      BY <1>1, <2>4, TaskMoves DEF Moves
    <3> QED BY <3>1, <3>2
  <2> QED BY <1>1, <2>1, <2>2, <2>3, <2>4 DEF Connection
<1>2. CASE Crash
  BY <1>2 DEF Crash
<1>3. CASE \/ TakeSnapshot \/ SaveSnapshot \/ GcReadAcks \/ GcReadSnapshot \/ GcCompact
           \/ restore \/ UNCHANGED vars
  BY <1>3 DEF TakeSnapshot, SaveSnapshot, GcReadAcks, GcReadSnapshot, GcCompact, restore, vars
<1> QED BY <1>1, <1>2, <1>3 DEF Next

\* Every step keeps the types.
LEMMA TypeStep ==
  ASSUME TypeOK, FirstInLine, [Next]_vars
  PROVE  TypeOK'
<1> USE DEF TypeOK
<1>1. ASSUME NEW p \in Conn, Connection(p) PROVE TypeOK'
  <2> IsRoom(room) /\ IsTask(task[p]) /\ DOMAIN task = Conn
    OBVIOUS
  <2> room.head \in Nat
    BY DEF IsRoom
  <2>1. CASE ReadHead(p)
    <3>1. PICK since \in 0..Len(ledger) :
            Goto(p, IF room.head \in {0, since}
                    THEN [at |-> "answered", since |-> since, head |-> room.head,
                          snap |-> None, rows |-> EmptyMap]
                    ELSE [at |-> "head read", since |-> since, head |-> room.head])
      BY <2>1 DEF ReadHead
    <3>2. since \in Nat /\ room.head \in Nat
      BY DEF IsRoom
    <3>3. /\ IsTask([at |-> "answered", since |-> since, head |-> room.head,
                     snap |-> None, rows |-> EmptyMap])
          /\ IsTask([at |-> "head read", since |-> since, head |-> room.head])
      BY <3>2 DEF IsTask, IsRows, EmptyMap
    <3>4. DOMAIN task' = Conn /\ \A q \in Conn : IsTask(task'[q])
      BY <3>1, <3>3, TaskGoes
    <3> QED BY <2>1, <3>4 DEF ReadHead
  <2>2. CASE ReadSnapshot(p)
    <3> DEFINE snap == latest_snapshot(room)
               s == [at |-> "snapshot read", since |-> task[p].since, head |-> task[p].head,
                     snap |-> IF snap # None /\ Len(snap) > task[p].since THEN snap ELSE None]
    <3>1. snap \in Doc \cup {None}
      BY ReadTypes
    <3>2. task[p].since \in Nat /\ task[p].head \in Nat
      BY <2>2 DEF ReadSnapshot, Is, IsTask
    <3>3. IsTask(s)
      BY <3>1, <3>2 DEF IsTask
    <3>4. Goto(p, s)
      BY <2>2 DEF ReadSnapshot
    <3>5. DOMAIN task' = Conn /\ \A q \in Conn : IsTask(task'[q])
      BY <3>3, <3>4, TaskGoes
    <3> QED BY <2>2, <3>5 DEF ReadSnapshot
  <2>3. CASE ReadSlice(p)
    <3> DEFINE s == [at |-> "answered", since |-> task[p].since, head |-> task[p].head,
                     snap |-> task[p].snap, rows |-> slice(room, From(p), task[p].head)]
    <3>1. task[p].since \in Nat /\ task[p].head \in Nat /\ task[p].snap \in Doc \cup {None}
      BY <2>3 DEF ReadSlice, Is, IsTask
    <3>2. From(p) \in Nat
      BY <3>1 DEF From, Doc
    <3>3. IsRows(slice(room, From(p), task[p].head))
      BY <3>1, <3>2, ReadTypes
    <3>4. IsTask(s)
      BY <3>1, <3>3 DEF IsTask
    <3>5. Goto(p, s)
      BY <2>3 DEF ReadSlice
    <3>6. DOMAIN task' = Conn /\ \A q \in Conn : IsTask(task'[q])
      BY <3>4, <3>5, TaskGoes
    <3> QED BY <2>3, <3>6 DEF ReadSlice
  <2>4. CASE SeedAck(p)
    <3>1. task[p].since \in Nat
      BY <2>4 DEF SeedAck, Is, IsTask
    <3>2. IsRoom(room')
      BY <2>4, <3>1, StoreTypes DEF SeedAck
    <3>3. IsTask(Reading) /\ Goto(p, Reading)
      BY <2>4 DEF SeedAck, IsTask, Reading
    <3>4. DOMAIN task' = Conn /\ \A q \in Conn : IsTask(task'[q])
      BY <3>3, TaskGoes
    <3> QED BY <2>4, <3>2, <3>4 DEF SeedAck
  <2>5. CASE Ping(p)
    <3>1. PICK applied \in 0..Len(ledger) : room' = record_ack(room, p, applied)
      BY <2>5 DEF Ping
    <3>2. applied \in Nat
      OBVIOUS
    <3>3. IsRoom(room')
      BY <3>1, <3>2, StoreTypes, Zenon
    <3> QED BY <2>5, <3>3 DEF Ping
  <2>6. CASE CatchupHead(p)
    <3>1. PICK since \in 0..Len(ledger) :
            Goto(p, [at |-> "catchup", since |-> since, head |-> room.head])
      BY <2>6 DEF CatchupHead
    <3> DEFINE s == [at |-> "catchup", since |-> since, head |-> room.head]
    <3>2. IsTask(s)
      <4>1. s \in [at : {"head read", "catchup"}, since : Nat, head : Nat]
        OBVIOUS
      <4> QED BY <4>1, Zenon DEF IsTask
    <3>3. DOMAIN task' = Conn /\ \A q \in Conn : IsTask(task'[q])
      BY <3>1, <3>2, TaskGoes
    <3> QED BY <2>6, <3>3 DEF CatchupHead
  <2>7. CASE CatchupSlice(p)
    <3> DEFINE s == [at |-> "caught up", since |-> task[p].since, head |-> task[p].head,
                     rows |-> slice(room, task[p].since, task[p].head)]
    <3>1. task[p].since \in Nat /\ task[p].head \in Nat
      BY <2>7 DEF CatchupSlice, Is, IsTask
    <3>2. IsRows(slice(room, task[p].since, task[p].head))
      BY <3>1, ReadTypes
    <3>3. IsTask(s) /\ Goto(p, s)
      BY <2>7, <3>1, <3>2 DEF CatchupSlice, IsTask
    <3>4. DOMAIN task' = Conn /\ \A q \in Conn : IsTask(task'[q])
      BY <3>3, TaskGoes
    <3> QED BY <2>7, <3>4 DEF CatchupSlice
  <2>8. CASE Reply(p)
    <3>1. IsTask(Reading) /\ Goto(p, Reading)
      BY <2>8 DEF Reply, IsTask, Reading
    <3>2. DOMAIN task' = Conn /\ \A q \in Conn : IsTask(task'[q])
      BY <3>1, TaskGoes
    <3> QED BY <2>8, <3>2 DEF Reply
  <2>9. CASE release_peer(p)
    <3>1. IsRoom(room')
      BY <2>9, StoreTypes DEF release_peer
    <3>2. IsTask([at |-> "gone"]) /\ Goto(p, [at |-> "gone"])
      BY <2>9 DEF release_peer, IsTask
    <3>3. DOMAIN task' = Conn /\ \A q \in Conn : IsTask(task'[q])
      BY <3>2, TaskGoes
    <3> QED BY <2>9, <3>1, <3>3 DEF release_peer
  <2>10. CASE submit(p)
    <3>1. PICK op \in Op : Goto(p, [at |-> "locking", op |-> op])
      BY <2>10 DEF submit
    <3>2. IsTask([at |-> "locking", op |-> op])
      BY DEF IsTask
    <3>3. DOMAIN task' = Conn /\ \A q \in Conn : IsTask(task'[q])
      BY <3>1, <3>2, TaskGoes
    <3>4. Append(append_lock, p) \in Seq(Conn)
      OBVIOUS
    <3> QED BY <2>10, <3>3, <3>4 DEF submit
  <2>11. CASE AppendOp(p)
    <3>1. task[p].op \in Op
      BY <2>11 DEF AppendOp, Is, IsTask
    <3>2. IsRoom(room')
      BY <2>11, <3>1, StoreTypes DEF AppendOp
    <3>3. ledger' \in Seq(Op)
      BY <2>11, <3>1 DEF AppendOp
    <3> DEFINE s == [at |-> "appended", op |-> task[p].op, seq |-> room.head + 1]
    <3>4. s \in [at : {"appended", "stamped"}, op : Op, seq : Nat] /\ Goto(p, s)
      BY <2>11, <3>1 DEF AppendOp
    <3>4a. IsTask(s)
      BY <3>4, Zenon DEF IsTask
    <3>5. DOMAIN task' = Conn /\ \A q \in Conn : IsTask(task'[q])
      BY <3>4, <3>4a, TaskGoes
    <3> QED BY <2>11, <3>2, <3>3, <3>5 DEF AppendOp
  <2>12. CASE AppendFails(p)
    <3>1. task[p].op \in Op
      BY <2>12 DEF AppendFails, Is, IsTask
    <3>2. IsRoom(append(room, task[p].op)) /\ Append(ledger, task[p].op) \in Seq(Op)
      <4>1. IsRoom(append(room, task[p].op))
        BY <3>1, StoreTypes, Zenon
      <4> QED BY <3>1, <4>1
    <3>2a. IsRoom(room') /\ ledger' \in Seq(Op)
      BY <2>12, <3>2 DEF AppendFails
    <3>3. append_lock' \in Seq(Conn)
      BY <2>12, LineMoves DEF AppendFails, Holds
    <3>4. IsTask(Reading) /\ Goto(p, Reading)
      BY <2>12 DEF AppendFails, IsTask, Reading
    <3>5. DOMAIN task' = Conn /\ \A q \in Conn : IsTask(task'[q])
      BY <3>4, TaskGoes
    <3>6. faults' \in 0..MaxFaults
      BY <2>12, FaultsAssumption DEF AppendFails
    <3> QED BY <2>12, <3>2a, <3>3, <3>5, <3>6 DEF AppendFails
  <2>13. CASE ApplyToMirror(p)
    <3>1. /\ task[p] \in [at : {"appended", "stamped"}, op : Op, seq : Nat]
      BY <2>13 DEF ApplyToMirror, Is, IsTask
    <3>2. mirror' \in Doc
      <4>1. mirror \in Seq(Op) /\ Append(mirror, task[p].op) \in Seq(Op)
        BY <3>1 DEF Doc
      <4> QED BY <2>13, <4>1 DEF ApplyToMirror, Doc
    <3>3. append_lock' \in Seq(Conn)
      BY <2>13, LineMoves DEF ApplyToMirror, FirstInLine, Is
    <3>4. IsTask(Reading) /\ IsTask([task[p] EXCEPT !.at = "stamped"])
      BY <3>1 DEF IsTask, Reading
    <3>5. Goto(p, Reading) \/ Goto(p, [task[p] EXCEPT !.at = "stamped"])
      BY <2>13 DEF ApplyToMirror
    <3>6. DOMAIN task' = Conn /\ \A q \in Conn : IsTask(task'[q])
      BY <3>4, <3>5, TaskGoes
    <3> QED BY <2>13, <3>2, <3>3, <3>6 DEF ApplyToMirror
  <2> QED BY <1>1, <2>1, <2>2, <2>3, <2>4, <2>5, <2>6, <2>7, <2>8, <2>9, <2>10, <2>11, <2>12, <2>13 DEF Connection
<1>2. CASE TakeSnapshot
  BY <1>2 DEF TakeSnapshot, SnapshotterState
<1>3. CASE SaveSnapshot
  <2>1. snapshotter.doc \in Doc
    BY <1>3 DEF SaveSnapshot, SnapshotterState
  <2>2. IsRoom(room')
    BY <1>3, <2>1, StoreTypes DEF SaveSnapshot
  <2> QED BY <1>3, <2>2 DEF SaveSnapshot, SnapshotterState, Idle
<1>4. CASE GcReadAcks
  <2>1. PICK m \in Range(room.acks) :
          gc' = [at |-> "acks read", min |-> m, peers |-> DOMAIN room.acks]
    BY <1>4 DEF GcReadAcks
  <2>2. m \in Nat /\ DOMAIN room.acks \in SUBSET Conn
    BY DEF IsRoom, Range
  <2>3. gc' \in GcState
    BY <2>1, <2>2 DEF GcState
  <2> QED BY <1>4, <2>3 DEF GcReadAcks
<1>5. CASE GcReadSnapshot
  <2> DEFINE snap == latest_snapshot(room)
             upper == AtMost(gc.min, IF snap = None THEN 0 ELSE Len(snap))
  <2>1. snap \in Doc \cup {None}
    BY ReadTypes
  <2>2. gc.min \in Nat /\ gc.peers \in SUBSET Conn
    BY <1>5 DEF GcReadSnapshot, GcState
  <2>3. upper \in Nat
    BY <2>1, <2>2 DEF AtMost, Doc
  <2>4. gc' = IF upper = 0 THEN Idle
              ELSE [at |-> "compact", upper |-> upper, peers |-> gc.peers]
    BY <1>5 DEF GcReadSnapshot
  <2> HIDE DEF upper
  <2>5. gc' \in GcState
    BY <2>2, <2>3, <2>4 DEF GcState, Idle
  <2> QED BY <1>5, <2>5 DEF GcReadSnapshot
<1>6. CASE GcCompact
  <2>1. gc.upper \in Nat
    BY <1>6 DEF GcCompact, GcState
  <2>2. IsRoom(room')
    BY <1>6, <2>1, StoreTypes DEF GcCompact
  <2> QED BY <1>6, <2>2 DEF GcCompact, GcState, Idle
<1>7. CASE Crash
  <2>1. IsRoom(room')
    BY <1>7, StoreTypes DEF Crash
  <2>2. DOMAIN task' = Conn /\ \A p \in Conn : IsTask(task'[p])
    BY <1>7 DEF Crash, IsTask
  <2>3. mirror' \in Doc /\ append_lock' \in Seq(Conn) /\ faults' \in 0..MaxFaults
    BY <1>7, FaultsAssumption DEF Crash, Doc
  <2>4. snapshotter' \in SnapshotterState /\ gc' \in GcState
    BY <1>7 DEF Crash, SnapshotterState, GcState, Idle
  <2> QED BY <1>7, <2>1, <2>2, <2>3, <2>4 DEF Crash
<1>8. CASE restore
  <2>1. Rebuilt \in Doc
    BY <1>8, RebuiltExtends
  <2> QED BY <1>8, <2>1 DEF restore
<1>9. CASE UNCHANGED vars
  BY <1>9 DEF vars
<1> QED BY <1>1, <1>2, <1>3, <1>4, <1>5, <1>6, <1>7, <1>8, <1>9 DEF Next

\* The initial state is well typed and nobody is in line.
LEMMA InitTypes == Init => TypeOK /\ FirstInLine
<1>1. Init => IsRoom(room)
  BY DEF Init, IsRoom, EmptyRoom, EmptyMap
<1>2. Init => \A p \in Conn : IsTask(task[p]) /\ task[p].at = "new"
  BY DEF Init, IsTask
<1> QED BY <1>1, <1>2, FaultsAssumption
        DEF Init, TypeOK, FirstInLine, Doc, SnapshotterState, GcState, Idle

\* Every field of the room, every task and every loop keeps its type.
THEOREM TypeCorrect == Spec => []TypeOK
<1>1. Init => TypeOK /\ FirstInLine
  BY InitTypes
<1>2. TypeOK /\ FirstInLine /\ [Next]_vars => (TypeOK /\ FirstInLine)'
  BY TypeStep, FirstInLineStep
<1> QED BY <1>1, <1>2, PTL DEF Spec

-----------------------------------------------------------------------------
(* Safety.  The invariant that is inductive adds to the properties what the *)
(* tasks carry from one await to the next.                                  *)

\* Every snapshot is the fold of a prefix of the log, the newest one is still
\* there, and compaction has not passed it.
SnapshotsFold ==
    /\ \A s \in DOMAIN room.snapshots :
         Len(room.snapshots[s]) = s /\ IsPrefixOf(room.snapshots[s], ledger)
    /\ \/ room.snapshot_seq \in DOMAIN room.snapshots
       \/ DOMAIN room.snapshots = {} /\ room.snapshot_seq = 0
    /\ room.compacted_below <= room.snapshot_seq

\* What the loops are about to do is safe to do, however late they do it.
PendingSave == snapshotter.at = "save" => IsPrefixOf(snapshotter.doc, ledger)
PendingCompaction == gc.at = "compact" => gc.upper <= room.snapshot_seq

\* What a task is about to apply is what the log holds there.
AppendedIsStored ==
    \A p \in Conn : task[p].at = "appended" =>
        task[p].seq \in 1..Len(ledger) /\ ledger[task[p].seq] = task[p].op

LogInv == LogIsDense /\ SnapshotsFold /\ PendingSave /\ PendingCompaction

\* What append does to each field.
LEMMA AppendFields ==
  ASSUME NEW r, IsRoom(r), NEW op, NEW q, q = append(r, op)
  PROVE  /\ q.head = r.head + 1 /\ q.snapshots = r.snapshots
         /\ q.snapshot_seq = r.snapshot_seq /\ q.compacted_below = r.compacted_below
         /\ q.acks = r.acks /\ DOMAIN q.ops = DOMAIN r.ops \cup {r.head + 1}
         /\ q.ops[r.head + 1].op = op
         /\ q.ops[r.head + 1].seq = IF Backend = "memory" THEN r.head + 1 ELSE None
         /\ \A n \in DOMAIN r.ops : n # r.head + 1 => q.ops[n] = r.ops[n]
<1> DEFINE row == [op |-> op, seq |-> IF Backend = "memory" THEN r.head + 1 ELSE None]
           ops == Put(r.ops, r.head + 1, row)
<1>0. q = [r EXCEPT !.head = r.head + 1, !.ops = ops]
  BY Zenon DEF append
<1>1. /\ DOMAIN ops = DOMAIN r.ops \cup {r.head + 1}
      /\ ops[r.head + 1].op = op
      /\ ops[r.head + 1].seq = IF Backend = "memory" THEN r.head + 1 ELSE None
      /\ \A n \in DOMAIN r.ops : n # r.head + 1 => ops[n] = r.ops[n]
  BY DEF Put
<1> HIDE DEF ops, row
<1>2. q = [head |-> r.head + 1, ops |-> ops,
           snapshots |-> r.snapshots, snapshot_seq |-> r.snapshot_seq,
           compacted_below |-> r.compacted_below, acks |-> r.acks]
  BY <1>0, RoomUpdates, ZenonT(40)
<1>3. /\ q.head = r.head + 1 /\ q.ops = ops /\ q.snapshots = r.snapshots
      /\ q.snapshot_seq = r.snapshot_seq /\ q.compacted_below = r.compacted_below
      /\ q.acks = r.acks
  BY <1>2
<1> QED BY <1>1, <1>3, Zenon

\* What save_snapshot does to each field.
LEMMA SaveFields ==
  ASSUME NEW r, IsRoom(r), NEW doc, NEW q, q = save_snapshot(r, doc)
  PROVE  /\ q.head = r.head /\ q.ops = r.ops /\ q.compacted_below = r.compacted_below
         /\ q.acks = r.acks /\ q.snapshot_seq = AtLeast(r.snapshot_seq, Len(doc))
         /\ q.snapshots = Put(r.snapshots, Len(doc), doc)
<1> DEFINE top == AtLeast(r.snapshot_seq, Len(doc))
           new == Put(r.snapshots, Len(doc), doc)
<1>0. q = [r EXCEPT !.snapshots = new, !.snapshot_seq = top]
  BY Zenon DEF save_snapshot
<1> HIDE DEF new, top
<1>1. q = [head |-> r.head, ops |-> r.ops, snapshots |-> new, snapshot_seq |-> top,
           compacted_below |-> r.compacted_below, acks |-> r.acks]
  BY <1>0, RoomUpdates, Zenon
<1>2. /\ q.head = r.head /\ q.ops = r.ops /\ q.compacted_below = r.compacted_below
      /\ q.acks = r.acks /\ q.snapshot_seq = top /\ q.snapshots = new
  BY <1>1
<1> QED BY <1>2, Zenon DEF new, top

\* What compact_below does to each field.
\* The snapshot loop touches nothing else of the store.
LEMMA SaveLeaves ==
  ASSUME IsRoom(room), SaveSnapshot
  PROVE  /\ room'.head = room.head /\ room'.ops = room.ops
         /\ room'.compacted_below = room.compacted_below /\ room'.acks = room.acks
<1> DEFINE doc == snapshotter.doc
<1>1. room' = save_snapshot(room, doc)
  BY DEF SaveSnapshot
<1> HIDE DEF doc
<1> QED BY <1>1, SaveFields, ZenonT(40)

LEMMA CompactFields ==
  ASSUME NEW r, IsRoom(r), NEW n, NEW q, q = compact_below(r, n)
  PROVE  /\ q.head = r.head /\ q.snapshot_seq = r.snapshot_seq /\ q.acks = r.acks
         /\ q.compacted_below = AtLeast(r.compacted_below, n)
         /\ \A m : m \in DOMAIN q.ops <=> m \in DOMAIN r.ops /\ m > n
         /\ \A m \in DOMAIN q.ops : q.ops[m] = r.ops[m]
         /\ \A s \in DOMAIN q.snapshots :
              s \in DOMAIN r.snapshots /\ q.snapshots[s] = r.snapshots[s]
         /\ \A s \in DOMAIN r.snapshots :
              s \notin DOMAIN q.snapshots => \E t \in DOMAIN r.snapshots : s < t
<1> DEFINE low == AtLeast(r.compacted_below, n)
           ops == Restrict(r.ops, {m \in DOMAIN r.ops : m > n})
           kept == Restrict(r.snapshots, {s \in DOMAIN r.snapshots :
                               ~ \E t \in DOMAIN r.snapshots : s < t /\ t <= n})
<1>0. q = [r EXCEPT !.ops = ops, !.compacted_below = low, !.snapshots = kept]
  BY Zenon DEF compact_below
<1>1. /\ \A m : m \in DOMAIN ops <=> m \in DOMAIN r.ops /\ m > n
      /\ \A m \in DOMAIN ops : ops[m] = r.ops[m]
  BY DEF Restrict
<1>2. /\ \A s \in DOMAIN kept : s \in DOMAIN r.snapshots /\ kept[s] = r.snapshots[s]
      /\ \A s \in DOMAIN r.snapshots :
           s \notin DOMAIN kept => \E t \in DOMAIN r.snapshots : s < t
  BY DEF Restrict
<1> HIDE DEF low, ops, kept
<1>3. q = [head |-> r.head, ops |-> ops, snapshots |-> kept,
           snapshot_seq |-> r.snapshot_seq, compacted_below |-> low, acks |-> r.acks]
  BY <1>0, RoomUpdates, Zenon
<1>4. /\ q.head = r.head /\ q.snapshot_seq = r.snapshot_seq /\ q.acks = r.acks
      /\ q.compacted_below = low /\ q.ops = ops /\ q.snapshots = kept
  BY <1>3
<1> QED BY <1>1, <1>2, <1>4, Zenon DEF low

\* What record_ack does to each field.
LEMMA AckFields ==
  ASSUME NEW r, IsRoom(r), NEW p, NEW n, NEW q, q = record_ack(r, p, n)
  PROVE  /\ q.head = r.head /\ q.ops = r.ops /\ q.compacted_below = r.compacted_below
         /\ q.snapshots = r.snapshots /\ q.snapshot_seq = r.snapshot_seq
         /\ DOMAIN q.acks = DOMAIN r.acks \cup {p}
         /\ \A x \in DOMAIN r.acks : x # p => q.acks[x] = r.acks[x]
         /\ p \in DOMAIN r.acks => q.acks[p] = AtLeast(r.acks[p], n)
<1> DEFINE new == Put(r.acks, p, IF p \in DOMAIN r.acks THEN AtLeast(r.acks[p], n) ELSE n)
<1>1. record_ack(r, p, n) = [r EXCEPT !.acks = new]
  BY Zenon DEF record_ack
<1>2. /\ DOMAIN new = DOMAIN r.acks \cup {p}
      /\ \A x \in DOMAIN r.acks : x # p => new[x] = r.acks[x]
      /\ p \in DOMAIN r.acks => new[p] = AtLeast(r.acks[p], n)
  BY DEF Put
<1> HIDE DEF new
<1>3. /\ q.head = r.head /\ q.ops = r.ops /\ q.compacted_below = r.compacted_below
      /\ q.snapshots = r.snapshots /\ q.snapshot_seq = r.snapshot_seq
      /\ q.acks = new
  BY <1>1 DEF IsRoom
<1> QED BY <1>2, <1>3, Zenon

\* What clear_peer does to each field.
LEMMA ClearFields ==
  ASSUME NEW r, IsRoom(r), NEW p, NEW q, q = clear_peer(r, p)
  PROVE  /\ q.head = r.head /\ q.ops = r.ops /\ q.compacted_below = r.compacted_below
         /\ q.snapshots = r.snapshots /\ q.snapshot_seq = r.snapshot_seq
         /\ q.acks = Without(r.acks, p)
BY DEF IsRoom, clear_peer

\* What a restart does to each field.
LEMMA ReopenFields ==
  ASSUME NEW r, IsRoom(r), NEW q, q = reopen(r)
  PROVE  /\ q.head = r.head /\ q.ops = r.ops /\ q.compacted_below = r.compacted_below
         /\ q.snapshots = r.snapshots /\ q.snapshot_seq = r.snapshot_seq
         /\ q.acks = EmptyMap
BY DEF IsRoom, reopen

\* Every step leaves the store and the log alone, or makes one call on them.
LEMMA StoreSteps ==
  ASSUME [Next]_vars
  PROVE  \/ room' = room /\ ledger' = ledger
         \/ ledger' = ledger /\ \E p \in Conn : \E n : room' = record_ack(room, p, n)
         \/ ledger' = ledger /\ \E p \in Conn : room' = clear_peer(room, p)
         \/ \E p \in Conn : /\ task[p].at = "locking"
                           /\ room' = append(room, task[p].op)
                           /\ ledger' = Append(ledger, task[p].op)
         \/ SaveSnapshot \/ GcCompact \/ Crash
<1>1. ASSUME NEW p \in Conn, Connection(p)
      PROVE  \/ room' = room /\ ledger' = ledger
             \/ ledger' = ledger /\ \E n : room' = record_ack(room, p, n)
             \/ ledger' = ledger /\ room' = clear_peer(room, p)
             \/ /\ task[p].at = "locking"
                /\ room' = append(room, task[p].op)
                /\ ledger' = Append(ledger, task[p].op)
  <2>1. CASE SeedAck(p)
    BY <2>1, Zenon DEF SeedAck
  <2>2. CASE Ping(p)
    BY <2>2, Zenon DEF Ping
  <2>3. CASE release_peer(p)
    BY <2>3, Zenon DEF release_peer
  <2>4. CASE AppendOp(p)
    BY <2>4, Zenon DEF AppendOp, Is
  <2>5. CASE AppendFails(p)
    BY <2>5, Zenon DEF AppendFails, Is
  <2>6. CASE \/ ReadHead(p) \/ ReadSnapshot(p) \/ ReadSlice(p) \/ CatchupHead(p)
            \/ CatchupSlice(p) \/ Reply(p) \/ submit(p) \/ ApplyToMirror(p)
    BY <2>6 DEF ReadHead, ReadSnapshot, ReadSlice, CatchupHead, CatchupSlice, Reply,
                submit, ApplyToMirror
  <2> QED BY <1>1, <2>1, <2>2, <2>3, <2>4, <2>5, <2>6 DEF Connection
<1>2. CASE TakeSnapshot \/ GcReadAcks \/ GcReadSnapshot \/ restore \/ UNCHANGED vars
  BY <1>2 DEF TakeSnapshot, GcReadAcks, GcReadSnapshot, restore, vars
<1> QED BY <1>1, <1>2, Zenon DEF Next

\* A prefix of the log stays one as the log grows.
LEMMA PrefixGrows ==
  ASSUME NEW d, NEW e \in Seq(Op), NEW op \in Op, Len(d) \in Nat, IsPrefixOf(d, e)
  PROVE  IsPrefixOf(d, Append(e, op))
BY DEF IsPrefixOf

\* No step rewrites the log.
LEMMA LogGrows ==
  ASSUME TypeOK, [Next]_vars
  PROVE  /\ ledger' = ledger \/ \E op \in Op : ledger' = Append(ledger, op)
         /\ \A d \in Doc : IsPrefixOf(d, ledger) => IsPrefixOf(d, ledger')
<1>1. ledger' = ledger \/ \E op \in Op : ledger' = Append(ledger, op)
  <2>1. \A p \in Conn : task[p].at = "locking" => task[p].op \in Op
    BY DEF TypeOK, IsTask
  <2>2. SaveSnapshot \/ GcCompact \/ Crash => ledger' = ledger
    BY DEF SaveSnapshot, GcCompact, Crash
  <2> QED BY <2>1, <2>2, StoreSteps, Zenon
<1>2. ledger \in Seq(Op) /\ \A d \in Doc : Len(d) \in Nat
  BY DEF TypeOK, Doc
<1> QED BY <1>1, <1>2, PrefixGrows

\* Only the loops, and a crash, change what the loops carry.
LEMMA LoopSteps ==
  ASSUME [Next]_vars
  PROVE  /\ TakeSnapshot \/ SaveSnapshot \/ Crash \/ snapshotter' = snapshotter
         /\ GcReadAcks \/ GcReadSnapshot \/ GcCompact \/ Crash \/ gc' = gc
<1>1. \A p \in Conn : Connection(p) => snapshotter' = snapshotter /\ gc' = gc
  BY DEF Connection, ReadHead, ReadSnapshot, ReadSlice, SeedAck, Ping, CatchupHead,
         CatchupSlice, Reply, release_peer, submit, AppendOp, AppendFails, ApplyToMirror
<1>2. CASE restore \/ UNCHANGED vars
  BY <1>2 DEF restore, vars
<1>3. TakeSnapshot \/ SaveSnapshot => gc' = gc
  BY DEF TakeSnapshot, SaveSnapshot
<1>4. GcReadAcks \/ GcReadSnapshot \/ GcCompact => snapshotter' = snapshotter
  BY DEF GcReadAcks, GcReadSnapshot, GcCompact
<1> QED BY <1>1, <1>2, <1>3, <1>4, Zenon DEF Next

\* Every step keeps what is said of the store and of what the loops carry.
LEMMA LogStep ==
  ASSUME TypeOK, LogInv, MirrorFoldsLog, [Next]_vars
  PROVE  LogInv'
<1> USE DEF LogInv
<1> /\ IsRoom(room) /\ ledger \in Seq(Op) /\ mirror \in Doc
    /\ room.head \in Nat /\ room.snapshot_seq \in Nat /\ room.compacted_below \in Nat
  BY DEF TypeOK, IsRoom
<1>0. \A s \in DOMAIN room.snapshots : room.snapshots[s] \in Doc /\ s \in Nat /\ s <= room.snapshot_seq
  BY DEF IsRoom
<1>1. ASSUME /\ room'.head = room.head /\ room'.ops = room.ops
             /\ room'.compacted_below = room.compacted_below
             /\ room'.snapshots = room.snapshots /\ room'.snapshot_seq = room.snapshot_seq
             /\ ledger' = ledger
      PROVE  LogIsDense' /\ SnapshotsFold'
  BY <1>1 DEF LogIsDense, SnapshotsFold
<1>2. ASSUME NEW p \in Conn, task[p].at = "locking",
             room' = append(room, task[p].op), ledger' = Append(ledger, task[p].op)
      PROVE  LogIsDense' /\ SnapshotsFold' /\ room'.snapshot_seq = room.snapshot_seq
  <2>1. task[p].op \in Op
    BY <1>2 DEF TypeOK, IsTask
  <2>2. /\ room'.head = room.head + 1 /\ room'.snapshots = room.snapshots
        /\ room'.snapshot_seq = room.snapshot_seq
        /\ room'.compacted_below = room.compacted_below
        /\ DOMAIN room'.ops = DOMAIN room.ops \cup {room.head + 1}
        /\ room'.ops[room.head + 1].op = task[p].op
        /\ \A n \in DOMAIN room.ops : n # room.head + 1 => room'.ops[n] = room.ops[n]
    BY <1>2, AppendFields
  <2>3. LogIsDense'
    <3>1. /\ Len(ledger') = Len(ledger) + 1 /\ ledger'[Len(ledger) + 1] = task[p].op
          /\ \A n \in 1..Len(ledger) : ledger'[n] = ledger[n]
      BY <1>2, <2>1
    <3>2. DOMAIN room'.ops = room'.compacted_below + 1 .. room'.head
      BY <2>2 DEF LogIsDense
    <3>3. \A n \in DOMAIN room'.ops : room'.ops[n].op = ledger'[n]
      BY <2>2, <3>1 DEF LogIsDense
    <3> QED BY <2>2, <3>1, <3>2, <3>3 DEF LogIsDense
  <2>4. SnapshotsFold'
    BY <1>0, <1>2, <2>1, <2>2, LogGrows DEF SnapshotsFold
  <2> QED BY <2>2, <2>3, <2>4
<1>3. CASE SaveSnapshot
  <2> DEFINE doc == snapshotter.doc
  <2>1. doc \in Doc /\ Len(doc) \in Nat /\ IsPrefixOf(doc, ledger)
    BY <1>3 DEF SaveSnapshot, TypeOK, SnapshotterState, PendingSave, Doc
  <2> HIDE DEF doc
  <2>2. /\ room'.head = room.head /\ room'.ops = room.ops
        /\ room'.compacted_below = room.compacted_below
        /\ room'.snapshot_seq = AtLeast(room.snapshot_seq, Len(doc))
        /\ room'.snapshots = Put(room.snapshots, Len(doc), doc)
        /\ ledger' = ledger /\ gc' = gc /\ snapshotter'.at # "save"
    <3>1. room' = save_snapshot(room, doc) /\ ledger' = ledger /\ gc' = gc
      BY <1>3 DEF SaveSnapshot, doc
    <3>2. snapshotter'.at # "save"
      BY <1>3 DEF SaveSnapshot, Idle
    <3> QED BY <3>1, <3>2, SaveFields, ZenonT(40)
  <2>3. room.snapshot_seq <= room'.snapshot_seq /\ Len(doc) <= room'.snapshot_seq
    BY <2>1, <2>2 DEF AtLeast
  <2>4. SnapshotsFold'
    <3>1. DOMAIN room'.snapshots = DOMAIN room.snapshots \cup {Len(doc)}
      BY <2>2 DEF Put
    <3>2. \A s \in DOMAIN room'.snapshots :
            room'.snapshots[s] = IF s = Len(doc) THEN doc ELSE room.snapshots[s]
      BY <2>2 DEF Put
    <3>3. \A s \in DOMAIN room'.snapshots :
            Len(room'.snapshots[s]) = s /\ IsPrefixOf(room'.snapshots[s], ledger')
      BY <2>1, <2>2, <3>1, <3>2 DEF SnapshotsFold
    <3>4. room'.snapshot_seq \in DOMAIN room'.snapshots
      BY <2>1, <2>2, <3>1 DEF SnapshotsFold, AtLeast
    <3> QED BY <2>2, <2>3, <3>3, <3>4 DEF SnapshotsFold
  <2>5. LogIsDense'
    BY <2>2 DEF LogIsDense
  <2>6. PendingSave' /\ PendingCompaction'
    <3>1. gc.at = "compact" => gc.upper \in Nat
      BY DEF TypeOK, GcState
    <3> QED BY <2>1, <2>2, <2>3, <3>1 DEF PendingSave, PendingCompaction, AtLeast
  <2> QED BY <2>4, <2>5, <2>6
<1>4. CASE GcCompact
  <2> DEFINE upper == gc.upper
  <2>1. upper \in Nat /\ upper <= room.snapshot_seq
    BY <1>4 DEF GcCompact, TypeOK, GcState, PendingCompaction
  <2> HIDE DEF upper
  <2>2. /\ room'.head = room.head /\ room'.snapshot_seq = room.snapshot_seq
        /\ room'.compacted_below = AtLeast(room.compacted_below, upper)
        /\ \A m : m \in DOMAIN room'.ops <=> m \in DOMAIN room.ops /\ m > upper
        /\ \A m \in DOMAIN room'.ops : room'.ops[m] = room.ops[m]
        /\ \A s \in DOMAIN room'.snapshots :
             s \in DOMAIN room.snapshots /\ room'.snapshots[s] = room.snapshots[s]
        /\ \A s \in DOMAIN room.snapshots :
             s \notin DOMAIN room'.snapshots => \E t \in DOMAIN room.snapshots : s < t
        /\ ledger' = ledger /\ snapshotter' = snapshotter /\ gc'.at # "compact"
    <3>1. /\ room' = compact_below(room, upper) /\ ledger' = ledger
          /\ snapshotter' = snapshotter
      BY <1>4 DEF GcCompact, upper
    <3>2. gc'.at # "compact"
      BY <1>4 DEF GcCompact, Idle
    <3> DEFINE q == room'
    <3>3. q = compact_below(room, upper)
      BY <3>1
    <3> HIDE DEF q
    <3>4. /\ q.head = room.head /\ q.snapshot_seq = room.snapshot_seq
          /\ q.compacted_below = AtLeast(room.compacted_below, upper)
          /\ \A m : m \in DOMAIN q.ops <=> m \in DOMAIN room.ops /\ m > upper
          /\ \A m \in DOMAIN q.ops : q.ops[m] = room.ops[m]
          /\ \A s \in DOMAIN q.snapshots :
               s \in DOMAIN room.snapshots /\ q.snapshots[s] = room.snapshots[s]
          /\ \A s \in DOMAIN room.snapshots :
               s \notin DOMAIN q.snapshots => \E t \in DOMAIN room.snapshots : s < t
      BY <3>3, CompactFields
    <3> QED BY <3>1, <3>2, <3>4, Zenon DEF q
  <2>3. SnapshotsFold'
    <3>2. room.snapshot_seq \in DOMAIN room.snapshots => room.snapshot_seq \in DOMAIN room'.snapshots
      <4>1. \A t \in DOMAIN room.snapshots : ~ (room.snapshot_seq < t)
        BY <1>0
      <4> QED BY <2>2, <4>1
    <3>3. room'.compacted_below <= room'.snapshot_seq
      BY <2>1, <2>2 DEF AtLeast, SnapshotsFold
    <3> QED BY <2>2, <3>2, <3>3 DEF SnapshotsFold
  <2>4. LogIsDense'
    <3>1. room.snapshot_seq <= room.head
      BY <1>0 DEF SnapshotsFold, LogIsDense, IsPrefixOf
    <3>2. room'.compacted_below <= room'.head
      BY <2>1, <2>2, <3>1 DEF LogIsDense, AtLeast
    <3>4. DOMAIN room'.ops = room'.compacted_below + 1 .. room'.head
      <4>1. DOMAIN room.ops = room.compacted_below + 1 .. room.head
        BY DEF LogIsDense
      <4>2. \A m : m \in DOMAIN room'.ops <=> m \in room.compacted_below + 1 .. room.head /\ m > upper
        BY <2>2, <4>1
      <4>3. room'.head = room.head /\ room'.compacted_below = AtLeast(room.compacted_below, upper)
        BY <2>2
      <4>4. \A m : m \in DOMAIN room'.ops <=> m \in room'.compacted_below + 1 .. room'.head
        BY <2>1, <4>2, <4>3 DEF AtLeast
      <4>5. DOMAIN room'.ops = {m \in room'.compacted_below + 1 .. room'.head : TRUE}
        BY <4>4
      <4> QED BY <4>5
    <3>5. \A n \in DOMAIN room'.ops : room'.ops[n].op = ledger'[n]
      BY <2>2 DEF LogIsDense
    <3> QED BY <2>2, <3>2, <3>4, <3>5 DEF LogIsDense
  <2>5. PendingSave' /\ PendingCompaction'
    BY <2>2 DEF PendingSave, PendingCompaction
  <2> QED BY <2>3, <2>4, <2>5
<1>5. CASE Crash
  <2>1. /\ room' = reopen(room) /\ ledger' = ledger
        /\ snapshotter'.at # "save" /\ gc'.at # "compact"
    BY <1>5 DEF Crash, Idle
  <2>2. LogIsDense' /\ SnapshotsFold'
    BY <1>1, <2>1, ReopenFields, Zenon
  <2> QED BY <2>1, <2>2 DEF PendingSave, PendingCompaction
<1>6. CASE ~ SaveSnapshot /\ ~ GcCompact /\ ~ Crash
  <2>1. LogIsDense' /\ SnapshotsFold' /\ room'.snapshot_seq = room.snapshot_seq
    <3>1. CASE room' = room /\ ledger' = ledger
      BY <1>1, <3>1
    <3>2. CASE ledger' = ledger /\ \E p \in Conn : \E n : room' = record_ack(room, p, n)
      <4>1. PICK p \in Conn : \E n : room' = record_ack(room, p, n)
        BY <3>2
      <4>a. PICK n : room' = record_ack(room, p, n)
        BY <4>1
      <4>2. /\ room'.head = room.head /\ room'.ops = room.ops
            /\ room'.compacted_below = room.compacted_below
            /\ room'.snapshots = room.snapshots /\ room'.snapshot_seq = room.snapshot_seq
        BY <4>a, AckFields
      <4> QED BY <1>1, <3>2, <4>2
    <3>3. CASE ledger' = ledger /\ \E p \in Conn : room' = clear_peer(room, p)
      <4>1. PICK p \in Conn : room' = clear_peer(room, p)
        BY <3>3
      <4> QED BY <1>1, <3>3, <4>1, ClearFields
    <3> QED BY <1>2, <1>6, <3>1, <3>2, <3>3, StoreSteps, Zenon
  <2>2. PendingSave'
    <3>1. CASE TakeSnapshot
      BY <3>1 DEF TakeSnapshot, MirrorFoldsLog, PendingSave
    <3>2. CASE snapshotter' = snapshotter
      BY <3>2, LogGrows DEF PendingSave, TypeOK, SnapshotterState
    <3>3. TakeSnapshot \/ snapshotter' = snapshotter
      BY <1>6, LoopSteps, Zenon
    <3> QED BY <3>1, <3>2, <3>3
  <2>3. PendingCompaction'
    <3>1. CASE GcReadSnapshot
      <4> DEFINE snap == latest_snapshot(room)
                 upper == AtMost(gc.min, IF snap = None THEN 0 ELSE Len(snap))
      <4>1. gc' = IF upper = 0 THEN Idle
                  ELSE [at |-> "compact", upper |-> upper, peers |-> gc.peers]
        BY <3>1 DEF GcReadSnapshot
      <4>2. gc.min \in Nat
        BY <3>1 DEF GcReadSnapshot, TypeOK, GcState
      <4>3. (IF snap = None THEN 0 ELSE Len(snap)) \in Nat
            /\ (IF snap = None THEN 0 ELSE Len(snap)) <= room.snapshot_seq
        BY LatestSnapshot DEF SnapshotsFold
      <4>4. upper \in Nat /\ upper <= room.snapshot_seq
        BY <4>2, <4>3 DEF AtMost
      <4> HIDE DEF upper
      <4>5. gc'.at = "compact" => gc'.upper = upper
        BY <4>1 DEF Idle
      <4> QED BY <2>1, <4>4, <4>5 DEF PendingCompaction
    <3>2. CASE gc' = gc
      BY <2>1, <3>2 DEF PendingCompaction
    <3>3. CASE gc'.at # "compact"
      BY <3>3 DEF PendingCompaction
    <3>4. GcReadSnapshot \/ gc' = gc \/ gc'.at # "compact"
      <4>1. ASSUME GcReadAcks PROVE gc'.at # "compact"
        <5>1. PICK m : gc' = [at |-> "acks read", min |-> m, peers |-> DOMAIN room.acks]
          BY <4>1 DEF GcReadAcks
        <5> QED BY <5>1
      <4> QED BY <1>6, <4>1, LoopSteps, Zenon
    <3> QED BY <3>1, <3>2, <3>3, <3>4
  <2> QED BY <2>1, <2>2, <2>3
<1> QED BY <1>3, <1>4, <1>5, <1>6

\* Every step keeps what is said of the mirror and of who is about to feed it.
LEMMA MirrorStep ==
  ASSUME TypeOK, LogInv, MirrorFoldsLog, AppendedIsStored, [Next]_vars
  PROVE  MirrorFoldsLog' /\ AppendedIsStored'
<1> /\ IsRoom(room) /\ ledger \in Seq(Op) /\ mirror \in Doc /\ mirror \in Seq(Op)
    /\ room.head \in Nat
  BY DEF TypeOK, IsRoom, Doc
<1>1. ASSUME mirror' = mirror PROVE MirrorFoldsLog'
  BY <1>1, LogGrows DEF MirrorFoldsLog
<1>2. ASSUME task' = task PROVE AppendedIsStored'
  BY <1>2, LogGrows DEF AppendedIsStored
<1>3. ASSUME NEW p \in Conn, Connection(p) PROVE MirrorFoldsLog' /\ AppendedIsStored'
  <2>1. CASE ApplyToMirror(p)
    <3>1. MirrorFoldsLog'
      <4>1. ledger' = ledger
        BY <2>1 DEF ApplyToMirror
      <4>2. \/ mirror' = mirror
            \/ mirror' = Append(mirror, task[p].op) /\ task[p].seq = Len(mirror) + 1
        BY <2>1 DEF ApplyToMirror
      <4>3. task[p].op \in Op /\ task[p].seq \in 1..Len(ledger) /\ ledger[task[p].seq] = task[p].op
        BY <2>1 DEF ApplyToMirror, Is, AppendedIsStored, TypeOK, IsTask
      <4>4. ASSUME mirror' = Append(mirror, task[p].op), task[p].seq = Len(mirror) + 1
            PROVE  IsPrefixOf(mirror', ledger)
        <5>1. /\ Len(mirror') = Len(mirror) + 1 /\ mirror'[Len(mirror) + 1] = task[p].op
              /\ \A n \in 1..Len(mirror) : mirror'[n] = mirror[n]
          BY <4>3, <4>4
        <5> QED BY <4>3, <4>4, <5>1 DEF MirrorFoldsLog, IsPrefixOf
      <4> QED BY <1>1, <4>1, <4>2, <4>4 DEF MirrorFoldsLog
    <3>2. \A q \in Conn : task'[q].at = "appended" => task'[q] = task[q]
      BY <1>3, <2>1, TaskMoves DEF Moves
    <3>3. ledger' = ledger
      BY <2>1 DEF ApplyToMirror
    <3> QED BY <3>1, <3>2, <3>3 DEF AppendedIsStored
  <2>2. CASE AppendOp(p)
    <3>1. task[p].op \in Op /\ room.head = Len(ledger)
      BY <2>2 DEF AppendOp, Is, TypeOK, IsTask, LogInv, LogIsDense
    <3>2. ledger' = Append(ledger, task[p].op) /\ mirror' = mirror
      BY <2>2 DEF AppendOp
    <3>3. task'[p].op = task[p].op /\ task'[p].seq = Len(ledger) + 1
      <4> DEFINE s == task'[p]
      <4>1. s = [at |-> "appended", op |-> task[p].op, seq |-> room.head + 1]
        BY <2>2 DEF AppendOp, Goto, TypeOK
      <4> HIDE DEF s
      <4>2. s.op = task[p].op /\ s.seq = room.head + 1
        BY <4>1
      <4> QED BY <3>1, <4>2 DEF s
    <3>4. \A q \in Conn : q # p => task'[q] = task[q]
      BY <1>3, TaskMoves
    <3>5. AppendedIsStored'
      BY <3>1, <3>2, <3>3, <3>4 DEF AppendedIsStored
    <3> QED BY <1>1, <3>2, <3>5
  <2>3. CASE ~ ApplyToMirror(p) /\ ~ AppendOp(p)
    <3>1. mirror' = mirror
      BY <1>3, <2>3 DEF Connection, ReadHead, ReadSnapshot, ReadSlice, SeedAck, Ping, CatchupHead,
                        CatchupSlice, Reply, release_peer, submit, AppendFails
    <3>2. \A q \in Conn : task'[q].at = "appended" => task'[q] = task[q]
      BY <1>3, <2>3, TaskMoves DEF Moves, Connection
    <3>3. AppendedIsStored'
      BY <3>2, LogGrows DEF AppendedIsStored
    <3> QED BY <1>1, <3>1, <3>3
  <2> QED BY <2>1, <2>2, <2>3
<1>4. CASE Crash
  <2>1. mirror' = << >>
    BY <1>4 DEF Crash
  <2>2. MirrorFoldsLog'
    <3>1. ledger' = ledger
      BY <1>4 DEF Crash
    <3> QED BY <2>1, <3>1 DEF MirrorFoldsLog, IsPrefixOf
  <2>3. AppendedIsStored'
    BY <1>4 DEF Crash, AppendedIsStored
  <2> QED BY <2>2, <2>3
<1>5. CASE restore
  <2> DEFINE snap == latest_snapshot(room)
             doc == IF snap = None THEN << >> ELSE snap
  <2>1. mirror' = Rebuilt /\ Len(Rebuilt) = room.head /\ ledger' = ledger /\ task' = task
    BY <1>5 DEF restore
  <2>2. /\ Rebuilt \in Doc /\ doc \in Doc
        /\ Len(Rebuilt) >= Len(doc)
        /\ \A n \in 1..Len(doc) : Rebuilt[n] = doc[n]
        /\ \A n \in Len(doc) + 1..Len(Rebuilt) :
             n \in DOMAIN room.ops /\ Rebuilt[n] = room.ops[n].op
    BY RebuiltExtends
  <2>3. \A n \in 1..Len(doc) : doc[n] = ledger[n]
    <3>1. CASE DOMAIN room.snapshots = {}
      BY <3>1, LatestSnapshot
    <3>2. CASE room.snapshot_seq \in DOMAIN room.snapshots
      <4>1. snap = room.snapshots[room.snapshot_seq] /\ IsPrefixOf(snap, ledger)
        BY <3>2, LatestSnapshot DEF LogInv, SnapshotsFold
      <4> QED BY <4>1 DEF IsPrefixOf
    <3> QED BY <3>1, <3>2 DEF LogInv, SnapshotsFold
  <2> HIDE DEF doc
  <2>4. Len(doc) \in Nat /\ Len(Rebuilt) \in Nat /\ Len(ledger) = room.head
    BY <2>2 DEF Doc, LogInv, LogIsDense
  <2>5. \A n \in 1..Len(Rebuilt) : Rebuilt[n] = ledger[n]
    BY <2>2, <2>3, <2>4 DEF LogInv, LogIsDense
  <2>6. MirrorFoldsLog'
    BY <2>1, <2>4, <2>5 DEF MirrorFoldsLog, IsPrefixOf
  <2> QED BY <1>2, <2>1, <2>6
<1>6. CASE \/ TakeSnapshot \/ SaveSnapshot \/ GcReadAcks \/ GcReadSnapshot \/ GcCompact
           \/ UNCHANGED vars
  <2>1. mirror' = mirror /\ task' = task
    BY <1>6 DEF TakeSnapshot, SaveSnapshot, GcReadAcks, GcReadSnapshot, GcCompact, vars
  <2> QED BY <1>1, <1>2, <2>1
<1> QED BY <1>3, <1>4, <1>5, <1>6 DEF Next

-----------------------------------------------------------------------------
\* Who has an ack row: nobody before its Welcome is sent, everybody after,
\* until it leaves.
Joining == {"new", "head read", "snapshot read", "answered"}

AcksAreJoined ==
    \A p \in Conn :
        /\ task[p].at \in Joining => p \notin DOMAIN room.acks
        /\ task[p].at \notin Joining \cup {"gone"} => p \in DOMAIN room.acks

\* The compaction loop holds a lower bound of the acks of those it read, and
\* none of those can come back with less.
Bound == IF gc.at = "compact" THEN gc.upper ELSE gc.min

PendingAcks ==
    gc.at # "idle" => \A p \in gc.peers :
        /\ task[p].at \notin Joining
        /\ p \in DOMAIN room.acks => Bound <= room.acks[p]

\* Every step keeps what is said of the acks.
LEMMA AckStep ==
  ASSUME TypeOK, AcksAreJoined, PendingAcks, [Next]_vars
  PROVE  AcksAreJoined' /\ PendingAcks'
<1> /\ IsRoom(room) /\ DOMAIN room.acks \subseteq Conn
    /\ \A p \in DOMAIN room.acks : room.acks[p] \in Nat
  BY DEF TypeOK, IsRoom
<1> gc.at # "idle" => gc.peers \subseteq Conn /\ Bound \in Nat
  BY DEF TypeOK, GcState, Bound
<1>1. ASSUME NEW p \in Conn, Connection(p) PROVE AcksAreJoined' /\ PendingAcks'
  <2>0. \A q \in Conn : q # p => task'[q] = task[q]
    BY <1>1, TaskMoves
  <2>1. gc' = gc
    BY <1>1 DEF Connection, ReadHead, ReadSnapshot, ReadSlice, SeedAck, Ping, CatchupHead,
                CatchupSlice, Reply, release_peer, submit, AppendOp, AppendFails, ApplyToMirror
  <2>2. CASE SeedAck(p)
    <3>0. room' = record_ack(room, p, task[p].since)
      BY <2>2 DEF SeedAck
    <3>1. DOMAIN room'.acks = DOMAIN room.acks \cup {p}
      BY <3>0, AckFields
    <3>2. \A q \in DOMAIN room.acks : q # p => room'.acks[q] = room.acks[q]
      BY <3>0, AckFields
    <3>3. Moves(p, {"answered"}, {"reading"})
      BY <1>1, <2>2, TaskMoves
    <3>4. AcksAreJoined'
      BY <2>0, <3>1, <3>3 DEF AcksAreJoined, Moves, Joining
    <3>5. gc.at # "idle" => p \notin gc.peers
      BY <3>3 DEF PendingAcks, Moves, Joining
    <3>6. PendingAcks'
      BY <2>0, <2>1, <3>1, <3>2, <3>5 DEF PendingAcks, Bound
    <3> QED BY <3>4, <3>6
  <2>3. CASE Ping(p)
    <3>1. PICK n \in Nat : room' = record_ack(room, p, n)
      BY <2>3 DEF Ping, TypeOK
    <3>2. p \in DOMAIN room.acks /\ task' = task
      BY <1>1, <2>3, TaskMoves DEF AcksAreJoined, Moves, Joining
    <3>3. DOMAIN room'.acks = DOMAIN room.acks
      <4>1. DOMAIN room'.acks = DOMAIN room.acks \cup {p}
        BY <3>1, AckFields
      <4> QED BY <3>2, <4>1
    <3>4. \A q \in DOMAIN room.acks : room'.acks[q] >= room.acks[q] /\ room'.acks[q] \in Nat
      BY <3>1, <3>2, AckFields DEF AtLeast
    <3>5. AcksAreJoined'
      BY <3>2, <3>3 DEF AcksAreJoined
    <3>6. PendingAcks'
      BY <2>1, <3>2, <3>3, <3>4 DEF PendingAcks, Bound
    <3> QED BY <3>5, <3>6
  <2>4. CASE release_peer(p)
    <3>0. room'.acks = Without(room.acks, p)
      BY <2>4, ClearFields, Zenon DEF release_peer
    <3>1. DOMAIN room'.acks = DOMAIN room.acks \ {p}
      BY <3>0 DEF Without, Restrict
    <3>2. \A q \in DOMAIN room'.acks : room'.acks[q] = room.acks[q]
      BY <3>0 DEF Without, Restrict
    <3>3. Moves(p, {"reading"}, {"gone"})
      BY <1>1, <2>4, TaskMoves
    <3>4. AcksAreJoined'
      BY <2>0, <3>1, <3>3 DEF AcksAreJoined, Moves, Joining
    <3>5. PendingAcks'
      BY <2>0, <2>1, <3>1, <3>2, <3>3 DEF PendingAcks, Bound, Moves, Joining
    <3> QED BY <3>4, <3>5
  <2>5. CASE ~ SeedAck(p) /\ ~ Ping(p) /\ ~ release_peer(p)
    <3>1. room'.acks = room.acks
      <4>1. CASE AppendOp(p) \/ AppendFails(p)
        <5>1. room' = room \/ room' = append(room, task[p].op)
          BY <4>1 DEF AppendOp, AppendFails
        <5> QED BY <5>1, AppendFields
      <4>2. CASE ~ AppendOp(p) /\ ~ AppendFails(p)
        BY <1>1, <2>5, <4>2 DEF Connection, ReadHead, ReadSnapshot, ReadSlice, CatchupHead,
                                CatchupSlice, Reply, submit, ApplyToMirror
      <4> QED BY <4>1, <4>2
    <3>2. /\ task[p].at \in Joining <=> task'[p].at \in Joining
          /\ task[p].at # "gone" /\ task'[p].at # "gone"
      BY <1>1, <2>5, TaskMoves DEF Connection, Moves, Joining
    <3>3. AcksAreJoined'
      BY <2>0, <3>1, <3>2 DEF AcksAreJoined
    <3>4. PendingAcks'
      BY <2>0, <2>1, <3>1, <3>2 DEF PendingAcks, Bound
    <3> QED BY <3>3, <3>4
  <2> QED BY <2>2, <2>3, <2>4, <2>5
<1>2. CASE GcReadAcks
  <2>1. PICK m \in Range(room.acks) :
          /\ min_ack(room, m)
          /\ gc' = [at |-> "acks read", min |-> m, peers |-> DOMAIN room.acks]
    BY <1>2 DEF GcReadAcks
  <2>2. gc'.at = "acks read" /\ gc'.min = m /\ gc'.peers = DOMAIN room.acks
    <3> DEFINE g == gc'
    <3>1. g = [at |-> "acks read", min |-> m, peers |-> DOMAIN room.acks]
      BY <2>1
    <3> HIDE DEF g
    <3>2. g.at = "acks read" /\ g.min = m /\ g.peers = DOMAIN room.acks
      BY <3>1
    <3> QED BY <3>2 DEF g
  <2>3. \A p \in DOMAIN room.acks : m <= room.acks[p]
    BY <2>1 DEF min_ack, Range
  <2>4. room' = room /\ task' = task
    BY <1>2 DEF GcReadAcks
  <2>5. \A p \in DOMAIN room.acks : task[p].at \notin Joining
    BY DEF AcksAreJoined
  <2> QED BY <2>2, <2>3, <2>4, <2>5 DEF AcksAreJoined, PendingAcks, Bound
<1>3. CASE GcReadSnapshot
  <2> DEFINE snap == latest_snapshot(room)
             upper == AtMost(gc.min, IF snap = None THEN 0 ELSE Len(snap))
  <2>1. gc' = IF upper = 0 THEN Idle
              ELSE [at |-> "compact", upper |-> upper, peers |-> gc.peers]
    BY <1>3 DEF GcReadSnapshot
  <2>2. gc.min \in Nat /\ gc.at = "acks read"
    BY <1>3 DEF GcReadSnapshot, TypeOK, GcState
  <2>3. upper \in Nat /\ upper <= gc.min
    <3> DEFINE top == IF snap = None THEN 0 ELSE Len(snap)
    <3>1. snap \in Doc \cup {None}
      BY ReadTypes
    <3>2. top \in Nat
      BY <3>1 DEF Doc
    <3> HIDE DEF top
    <3>3. \A a, b \in Nat : AtMost(a, b) \in Nat /\ AtMost(a, b) <= a
      BY DEF AtMost
    <3>4. AtMost(gc.min, top) \in Nat /\ AtMost(gc.min, top) <= gc.min
      BY <2>2, <3>2, <3>3, Zenon
    <3> QED BY <3>4 DEF top
  <2> HIDE DEF upper
  <2>4. \/ gc'.at = "idle"
        \/ gc'.at = "compact" /\ gc'.upper = upper /\ gc'.peers = gc.peers
    BY <2>1 DEF Idle
  <2>5. room' = room /\ task' = task
    BY <1>3 DEF GcReadSnapshot
  <2>6. \A p \in DOMAIN room.acks \cap gc.peers : upper <= room.acks[p]
    <3>1. \A p \in gc.peers : p \in DOMAIN room.acks => gc.min <= room.acks[p]
      BY <2>2 DEF PendingAcks, Bound
    <3>2. \A x, y, z \in Nat : x <= y /\ y <= z => x <= z
      OBVIOUS
    <3> QED BY <2>2, <2>3, <3>1, <3>2, Zenon
  <2> QED BY <2>2, <2>4, <2>5, <2>6 DEF AcksAreJoined, PendingAcks, Bound
<1>4. CASE Crash
  <2>1. room'.acks = EmptyMap /\ gc'.at = "idle"
    BY <1>4, ReopenFields DEF Crash, Idle
  <2>2. \A p \in Conn : task'[p].at \in {"new", "gone"}
    BY <1>4 DEF Crash
  <2> QED BY <2>1, <2>2 DEF AcksAreJoined, PendingAcks, EmptyMap, Joining
<1>5. CASE SaveSnapshot \/ GcCompact
  <2>1. room'.acks = room.acks /\ task' = task
    <3>1. CASE SaveSnapshot
      <4>1. room'.acks = room.acks
        BY <3>1, SaveLeaves
      <4> QED BY <3>1, <4>1 DEF SaveSnapshot
    <3>2. CASE GcCompact
      BY <3>2, CompactFields DEF GcCompact
    <3> QED BY <1>5, <3>1, <3>2
  <2>2. gc' = gc \/ gc'.at = "idle"
    BY <1>5 DEF SaveSnapshot, GcCompact, Idle
  <2> QED BY <2>1, <2>2 DEF AcksAreJoined, PendingAcks, Bound
<1>6. CASE TakeSnapshot \/ restore \/ UNCHANGED vars
  BY <1>6 DEF TakeSnapshot, restore, vars, AcksAreJoined, PendingAcks, Bound
<1> QED BY <1>1, <1>2, <1>3, <1>4, <1>5, <1>6 DEF Next

-----------------------------------------------------------------------------
(* What the tasks carry from one await to the next is of the log.            *)

\* f is what the log holds at its seq.
Logged(f, log) == f.seq \in 1..Len(log) /\ log[f.seq] = f.op

\* A snapshot of a prefix, and rows in their places.
FromLog(snap, log) == snap # None => IsPrefixOf(snap, log)
RowsOf(rows, log) == \A n \in DOMAIN rows : n \in 1..Len(log) /\ rows[n].op = log[n]

\* What is of the log stays so: the log only grows.
LEMMA LogKeeps ==
  ASSUME TypeOK, [Next]_vars
  PROVE  /\ Len(ledger) \in Nat /\ Len(ledger') \in Nat /\ Len(ledger') >= Len(ledger)
         /\ \A n \in 1..Len(ledger) : ledger'[n] = ledger[n]
         /\ \A f : Logged(f, ledger) => Logged(f, ledger')
         /\ \A snap \in Doc \cup {None} : FromLog(snap, ledger) => FromLog(snap, ledger')
         /\ \A rows : RowsOf(rows, ledger) => RowsOf(rows, ledger')
<1>1. ledger \in Doc /\ IsPrefixOf(ledger, ledger)
  BY DEF TypeOK, Doc, IsPrefixOf
<1>2. IsPrefixOf(ledger, ledger') /\ Len(ledger) \in Nat /\ Len(ledger') \in Nat
  BY <1>1, LogGrows DEF TypeOK, Doc
<1>3. \A n \in 1..Len(ledger) : n \in 1..Len(ledger') /\ ledger'[n] = ledger[n]
  BY <1>2 DEF IsPrefixOf
<1>4. \A snap \in Doc \cup {None} : FromLog(snap, ledger) => FromLog(snap, ledger')
  BY LogGrows DEF FromLog
<1>5. Len(ledger') >= Len(ledger)
  BY <1>2 DEF IsPrefixOf
<1> QED BY <1>2, <1>3, <1>4, <1>5 DEF Logged, RowsOf

\* What each step that reads leaves its connection's task with.
LEMMA TaskCarries ==
  ASSUME TypeOK, NEW p \in Conn
  PROVE  LET t == task'[p] IN
         /\ ReadHead(p) =>
              /\ t.since \in 0..Len(ledger) /\ t.head = room.head
              /\ \/ t.at = "head read"
                 \/ /\ t.at = "answered" /\ room.head \in {0, t.since}
                    /\ t.snap = None /\ t.rows = EmptyMap
         /\ ReadSnapshot(p) =>
              /\ t.at = "snapshot read" /\ t.since = task[p].since /\ t.head = task[p].head
              /\ t.snap \in {None, latest_snapshot(room)}
         /\ ReadSlice(p) =>
              /\ t.at = "answered" /\ t.since = task[p].since /\ t.head = task[p].head
              /\ t.snap = task[p].snap /\ t.rows = slice(room, From(p), task[p].head)
         /\ CatchupHead(p) =>
              t.at = "catchup" /\ t.since \in 0..Len(ledger) /\ t.head = room.head
         /\ CatchupSlice(p) =>
              /\ t.at = "caught up" /\ t.since = task[p].since /\ t.head = task[p].head
              /\ t.rows = slice(room, task[p].since, task[p].head)
         /\ AppendOp(p) =>
              t.at = "appended" /\ t.op = task[p].op /\ t.seq = room.head + 1
<1> DEFINE t == task'[p]
<1>0. ASSUME NEW g, Goto(p, g) PROVE t = g
  BY <1>0 DEF TypeOK, Goto
<1> HIDE DEF t
<1>1. ASSUME ReadHead(p)
      PROVE  /\ t.since \in 0..Len(ledger) /\ t.head = room.head
             /\ \/ t.at = "head read"
                \/ /\ t.at = "answered" /\ room.head \in {0, t.since}
                   /\ t.snap = None /\ t.rows = EmptyMap
  <2>1. PICK since \in 0..Len(ledger) :
          Goto(p, IF room.head \in {0, since}
                  THEN [at |-> "answered", since |-> since, head |-> room.head,
                        snap |-> None, rows |-> EmptyMap]
                  ELSE [at |-> "head read", since |-> since, head |-> room.head])
    BY <1>1 DEF ReadHead
  <2>2. CASE room.head \in {0, since}
    <3>1. t = [at |-> "answered", since |-> since, head |-> room.head,
               snap |-> None, rows |-> EmptyMap]
      BY <1>0, <2>1, <2>2
    <3>2. t.since = since /\ t.head = room.head /\ t.at = "answered"
          /\ t.snap = None /\ t.rows = EmptyMap
      BY <3>1
    <3> QED BY <2>2, <3>2
  <2>3. CASE room.head \notin {0, since}
    <3>1. t = [at |-> "head read", since |-> since, head |-> room.head]
      BY <1>0, <2>1, <2>3
    <3>2. t.since = since /\ t.head = room.head /\ t.at = "head read"
      BY <3>1
    <3> QED BY <3>2
  <2> QED BY <2>2, <2>3
<1>2. ASSUME ReadSnapshot(p)
      PROVE  /\ t.at = "snapshot read" /\ t.since = task[p].since /\ t.head = task[p].head
             /\ t.snap \in {None, latest_snapshot(room)}
  <2> DEFINE snap == latest_snapshot(room)
             given == IF snap # None /\ Len(snap) > task[p].since THEN snap ELSE None
  <2>1. t = [at |-> "snapshot read", since |-> task[p].since, head |-> task[p].head,
             snap |-> given]
    BY <1>0, <1>2 DEF ReadSnapshot
  <2>2. given \in {None, latest_snapshot(room)}
    OBVIOUS
  <2> HIDE DEF given
  <2>3. t.at = "snapshot read" /\ t.since = task[p].since /\ t.head = task[p].head /\ t.snap = given
    BY <2>1
  <2> QED BY <2>2, <2>3
<1>3. ASSUME ReadSlice(p)
      PROVE  /\ t.at = "answered" /\ t.since = task[p].since /\ t.head = task[p].head
             /\ t.snap = task[p].snap /\ t.rows = slice(room, From(p), task[p].head)
  <2>1. t = [at |-> "answered", since |-> task[p].since, head |-> task[p].head,
             snap |-> task[p].snap, rows |-> slice(room, From(p), task[p].head)]
    BY <1>0, <1>3 DEF ReadSlice
  <2> QED BY <2>1
<1>4. ASSUME CatchupHead(p)
      PROVE  t.at = "catchup" /\ t.since \in 0..Len(ledger) /\ t.head = room.head
  <2>1. PICK since \in 0..Len(ledger) :
          t = [at |-> "catchup", since |-> since, head |-> room.head]
    BY <1>0, <1>4 DEF CatchupHead
  <2>2. t.at = "catchup" /\ t.since = since /\ t.head = room.head
    BY <2>1
  <2> QED BY <2>2
<1>5. ASSUME CatchupSlice(p)
      PROVE  /\ t.at = "caught up" /\ t.since = task[p].since /\ t.head = task[p].head
             /\ t.rows = slice(room, task[p].since, task[p].head)
  <2>1. t = [at |-> "caught up", since |-> task[p].since, head |-> task[p].head,
             rows |-> slice(room, task[p].since, task[p].head)]
    BY <1>0, <1>5 DEF CatchupSlice
  <2> QED BY <2>1
<1>6. ASSUME AppendOp(p)
      PROVE  t.at = "appended" /\ t.op = task[p].op /\ t.seq = room.head + 1
  <2>1. t = [at |-> "appended", op |-> task[p].op, seq |-> room.head + 1]
    BY <1>0, <1>6 DEF AppendOp
  <2> QED BY <2>1
<1> QED BY <1>1, <1>2, <1>3, <1>4, <1>5, <1>6, Zenon DEF t

\* A step that is not a connection's own leaves its task, or ends it.
LEMMA OtherSteps ==
  ASSUME [Next]_vars, \A p \in Conn : ~ Connection(p)
  PROVE  \A q \in Conn : task'[q] = task[q] \/ task'[q].at = "gone"
<1>1. CASE Crash
  BY <1>1 DEF Crash
<1>2. CASE ~ Crash
  BY <1>2 DEF Next, TakeSnapshot, SaveSnapshot, GcReadAcks, GcReadSnapshot, GcCompact,
              restore, vars
<1> QED BY <1>1, <1>2

\* A task stays as it is, moves by a step of its own, or ends.
LEMMA TaskSteps ==
  ASSUME TypeOK, [Next]_vars, NEW q \in Conn
  PROVE  \/ task'[q] = task[q]
         \/ Connection(q)
         \/ task'[q].at = "gone"
BY OtherSteps, TaskMoves, Zenon

\* An op that is about to be broadcast is in the log, under its seq.
StampedIsStored ==
    \A p \in Conn : task[p].at = "stamped" => Logged(task[p], ledger)

\* Every step keeps what is said of the ops that are about to be broadcast.
LEMMA StampedStep ==
  ASSUME TypeOK, AppendedIsStored, StampedIsStored, [Next]_vars
  PROVE  StampedIsStored'
<1> SUFFICES ASSUME NEW q \in Conn, task'[q].at = "stamped" PROVE Logged(task'[q], ledger')
  BY DEF StampedIsStored
<1>1. ASSUME task'[q] = task[q] PROVE Logged(task'[q], ledger')
  BY <1>1, LogKeeps DEF StampedIsStored
<1>2. CASE Connection(q)
  <2>1. ApplyToMirror(q) \/ task' = task
    BY <1>2, TaskMoves DEF Connection, Moves
  <2>2. CASE ApplyToMirror(q)
    <3> DEFINE t == task[q]
    <3>1. t.at = "appended" /\ t \in [at : {"appended", "stamped"}, op : Op, seq : Nat]
      BY <2>2 DEF ApplyToMirror, Is, TypeOK, IsTask
    <3>2. task'[q] = [t EXCEPT !.at = "stamped"]
      <4> DEFINE r == [at |-> "reading"]
      <4>1. task'[q] = [t EXCEPT !.at = "stamped"] \/ task'[q] = r
        BY <2>2 DEF ApplyToMirror, Goto, TypeOK, Reading
      <4>2. r.at = "reading"
        OBVIOUS
      <4> HIDE DEF r
      <4> QED BY <4>1, <4>2
    <3>3. Logged(t, ledger)
      BY <3>1 DEF AppendedIsStored, Logged
    <3> HIDE DEF t
    <3>4. [t EXCEPT !.at = "stamped"].op = t.op /\ [t EXCEPT !.at = "stamped"].seq = t.seq
      BY <3>1
    <3>5. task'[q].op = t.op /\ task'[q].seq = t.seq
      BY <3>2, <3>4
    <3>6. Logged(t, ledger')
      BY <3>3, LogKeeps
    <3> QED BY <3>5, <3>6 DEF Logged
  <2> QED BY <1>1, <2>1, <2>2
<1> QED BY <1>1, <1>2, TaskSteps

\* The newest snapshot is of the log, and so are the rows of a slice.
LEMMA ReadsFollow ==
  ASSUME TypeOK, LogInv
  PROVE  /\ FromLog(latest_snapshot(room), ledger)
         /\ \A from, to : RowsOf(slice(room, from, to), ledger)
<1>1. IsRoom(room) /\ LogIsDense /\ SnapshotsFold /\ Len(ledger) \in Nat
  BY DEF TypeOK, LogInv
<1>2. FromLog(latest_snapshot(room), ledger)
  BY <1>1, LatestSnapshot DEF SnapshotsFold, FromLog
<1>3. ASSUME NEW from, NEW to PROVE RowsOf(slice(room, from, to), ledger)
  <2> DEFINE rows == slice(room, from, to)
  <2>1. \A n \in DOMAIN rows : n \in DOMAIN room.ops /\ rows[n] = room.ops[n]
    BY DEF slice, Restrict
  <2>2. DOMAIN room.ops \subseteq 1..Len(ledger)
    BY <1>1 DEF IsRoom, LogIsDense
  <2>3. \A n \in DOMAIN room.ops : room.ops[n].op = ledger[n]
    BY <1>1 DEF LogIsDense
  <2> HIDE DEF rows
  <2>4. RowsOf(rows, ledger)
    BY <2>1, <2>2, <2>3 DEF RowsOf
  <2> QED BY <2>4 DEF rows
<1> QED BY <1>2, <1>3

\* What is read for a Welcome or a Catchup is of the log, however long ago it
\* was read.
Follows(t, log) ==
    /\ t.at \in {"snapshot read", "answered"} => FromLog(t.snap, log)
    /\ t.at \in {"answered", "caught up"} => RowsOf(t.rows, log)

AnswersFollow == \A p \in Conn : Follows(task[p], ledger)

\* Every step keeps what is said of the answers that are being put together.
LEMMA AnswersStep ==
  ASSUME TypeOK, LogInv, AnswersFollow, [Next]_vars
  PROVE  AnswersFollow'
<1> SUFFICES ASSUME NEW q \in Conn PROVE Follows(task'[q], ledger')
  BY DEF AnswersFollow
<1>1. ASSUME task'[q] = task[q] PROVE Follows(task'[q], ledger')
  <2>1. Follows(task[q], ledger) /\ IsTask(task[q])
    BY DEF AnswersFollow, TypeOK
  <2>2. task[q].at \in {"snapshot read", "answered"} => task[q].snap \in Doc \cup {None}
    BY <2>1 DEF IsTask
  <2> QED BY <1>1, <2>1, <2>2, LogKeeps DEF Follows
<1>2. CASE Connection(q)
  <2> DEFINE t == task'[q]
  <2>1. CASE ReadHead(q)
    <3>1. RowsOf(EmptyMap, ledger') /\ FromLog(None, ledger')
      BY DEF RowsOf, FromLog, EmptyMap
    <3>2. \/ t.at = "head read"
          \/ t.at = "answered" /\ t.snap = None /\ t.rows = EmptyMap
      BY <2>1, TaskCarries
    <3> QED BY <3>1, <3>2 DEF Follows
  <2>2. CASE ReadSnapshot(q)
    <3>1. t.at = "snapshot read" /\ t.snap \in {None, latest_snapshot(room)}
      BY <2>2, TaskCarries
    <3>2. ledger' = ledger /\ FromLog(None, ledger)
      BY <2>2 DEF ReadSnapshot, FromLog
    <3> QED BY <3>1, <3>2, ReadsFollow DEF Follows
  <2>3. CASE ReadSlice(q)
    <3>1. /\ t.at = "answered" /\ t.snap = task[q].snap
          /\ t.rows = slice(room, From(q), task[q].head)
      BY <2>3, TaskCarries
    <3>2. task[q].at = "snapshot read" /\ ledger' = ledger
      BY <2>3 DEF ReadSlice, Is
    <3>3. FromLog(task[q].snap, ledger)
      BY <3>2 DEF AnswersFollow, Follows
    <3> QED BY <3>1, <3>2, <3>3, ReadsFollow DEF Follows
  <2>4. CASE CatchupSlice(q)
    <3>1. t.at = "caught up" /\ t.rows = slice(room, task[q].since, task[q].head)
      BY <2>4, TaskCarries
    <3>2. ledger' = ledger
      BY <2>4 DEF CatchupSlice
    <3> QED BY <3>1, <3>2, ReadsFollow DEF Follows
  <2>5. CASE ~ ReadHead(q) /\ ~ ReadSnapshot(q) /\ ~ ReadSlice(q) /\ ~ CatchupSlice(q)
    <3>1. task'[q].at \notin {"snapshot read", "answered", "caught up"}
      BY <1>2, <2>5, TaskMoves DEF Connection, Moves
    <3> QED BY <3>1 DEF Follows
  <2> QED BY <2>1, <2>2, <2>3, <2>4, <2>5
<1>3. task'[q].at = "gone" => Follows(task'[q], ledger')
  BY DEF Follows
<1> QED BY <1>1, <1>2, <1>3, TaskSteps

-----------------------------------------------------------------------------
(* The mirror keeps up.                                                      *)

\* As long as nothing has failed, the mirror is at head but for the op that the
\* holder of the append lock has stored and not applied yet.
MirrorKeepsUp ==
    faults = 0 =>
        /\ up
        /\ (\A p \in Conn : task[p].at # "appended") => Len(mirror) = Len(ledger)
        /\ \A p \in Conn : task[p].at = "appended" =>
             task[p].seq = Len(ledger) /\ Len(ledger) = Len(mirror) + 1

\* Every step keeps the mirror up with the log.
LEMMA KeepsUpStep ==
  ASSUME TypeOK, FirstInLine, LogIsDense, MirrorKeepsUp, [Next]_vars
  PROVE  MirrorKeepsUp'
<1> /\ faults \in Nat /\ ledger \in Seq(Op) /\ mirror \in Seq(Op)
    /\ Len(ledger) \in Nat /\ Len(mirror) \in Nat
  BY FaultsAssumption DEF TypeOK, Doc
<1> SUFFICES ASSUME faults' = 0 PROVE MirrorKeepsUp'
  BY DEF MirrorKeepsUp
<1> DEFINE Alike(q) == \/ task'[q] = task[q]
                       \/ task[q].at # "appended" /\ task'[q].at # "appended"
<1>1. ASSUME faults' = faults, up => up', mirror' = mirror, ledger' = ledger,
             \A q \in Conn : Alike(q)
      PROVE  MirrorKeepsUp'
  BY <1>1 DEF MirrorKeepsUp
<1> HIDE DEF Alike
<1>2. ASSUME NEW p \in Conn, Connection(p) PROVE MirrorKeepsUp'
  <2>1. CASE AppendOp(p)
    <3>1. /\ up' = up /\ faults' = faults /\ mirror' = mirror /\ Head(append_lock) = p
          /\ ledger' = Append(ledger, task[p].op) /\ task[p].at = "locking"
      BY <2>1 DEF AppendOp, Holds, Is
    <3>2. task[p].op \in Op
      BY <3>1 DEF TypeOK, IsTask
    <3>3. \A q \in Conn : task[q].at # "appended"
      BY <3>1 DEF FirstInLine
    <3>4. Len(mirror) = Len(ledger) /\ up
      BY <3>1, <3>3 DEF MirrorKeepsUp
    <3>5. Len(ledger') = Len(ledger) + 1
      BY <3>1, <3>2
    <3>6. task'[p].at = "appended" /\ task'[p].seq = Len(ledger) + 1
      BY <2>1, TaskCarries DEF LogIsDense
    <3>7. \A q \in Conn : q # p => task'[q].at # "appended"
      BY <1>2, <3>3, TaskMoves
    <3> QED BY <3>1, <3>4, <3>5, <3>6, <3>7 DEF MirrorKeepsUp
  <2>2. CASE ApplyToMirror(p)
    <3>1. up' = up /\ faults' = faults /\ ledger' = ledger /\ task[p].at = "appended"
      BY <2>2 DEF ApplyToMirror, Is
    <3>2. task[p].seq = Len(mirror) + 1 /\ Len(ledger) = Len(mirror) + 1 /\ up
      BY <3>1 DEF MirrorKeepsUp
    <3>3. mirror' = Append(mirror, task[p].op) /\ task[p].op \in Op
      BY <2>2, <3>1, <3>2 DEF ApplyToMirror, TypeOK, IsTask
    <3>4. Len(mirror') = Len(ledger')
      BY <3>1, <3>2, <3>3
    <3>5. \A q \in Conn : task'[q].at # "appended"
      <4>1. \A q \in Conn : q # p => task[q].at # "appended"
        BY <3>1 DEF FirstInLine
      <4> QED BY <1>2, <2>2, <4>1, TaskMoves DEF Moves
    <3> QED BY <3>1, <3>2, <3>4, <3>5 DEF MirrorKeepsUp
  <2>3. CASE AppendFails(p)
    BY <2>3 DEF AppendFails
  <2>4. CASE ~ AppendOp(p) /\ ~ ApplyToMirror(p) /\ ~ AppendFails(p)
    <3>1. faults' = faults /\ up' = up /\ mirror' = mirror /\ ledger' = ledger
      BY <1>2, <2>4 DEF Connection, ReadHead, ReadSnapshot, ReadSlice, SeedAck, Ping,
                        CatchupHead, CatchupSlice, Reply, release_peer, submit
    <3>2. task[p].at # "appended" /\ task'[p].at # "appended"
      BY <1>2, <2>4, TaskMoves DEF Connection, Moves
    <3>3. \A q \in Conn : q # p => task'[q] = task[q]
      BY <1>2, TaskMoves
    <3>4. \A q \in Conn : Alike(q)
      BY <3>2, <3>3 DEF Alike
    <3> QED BY <1>1, <3>1, <3>4
  <2> QED BY <2>1, <2>2, <2>3, <2>4
<1>3. CASE Crash
  BY <1>3 DEF Crash
<1>4. CASE restore
  BY <1>4 DEF restore, MirrorKeepsUp
<1>5. CASE \/ TakeSnapshot \/ SaveSnapshot \/ GcReadAcks \/ GcReadSnapshot \/ GcCompact
           \/ UNCHANGED vars
  <2>1. faults' = faults /\ up' = up /\ mirror' = mirror /\ ledger' = ledger
    BY <1>5 DEF TakeSnapshot, SaveSnapshot, GcReadAcks, GcReadSnapshot, GcCompact, vars
  <2>2. \A q \in Conn : Alike(q)
    BY <1>5 DEF TakeSnapshot, SaveSnapshot, GcReadAcks, GcReadSnapshot, GcCompact, vars, Alike
  <2> QED BY <1>1, <2>1, <2>2
<1> QED BY <1>2, <1>3, <1>4, <1>5 DEF Next

-----------------------------------------------------------------------------
(* The answers reach the head they announce.                                 *)

\* Rows that are confirmed without a gap from the end of a document carry it on.
LEMMA ReplayReaches ==
  ASSUME NEW doc \in Doc, NEW rows, NEW b \in Nat, DOMAIN rows \subseteq 0..b,
         IsRows(rows), NEW h \in Nat, Len(doc) + 1 .. h \subseteq Confirmed(rows)
  PROVE  Len(Replay(doc, rows)) >= h
<1> DEFINE S == {Len(doc)} \cup {n \in Confirmed(rows) : Len(doc) + 1 .. n \subseteq Confirmed(rows)}
<1>0. Len(doc) \in Nat
  BY DEF Doc
<1>1. S \in SUBSET Nat /\ S # {} /\ Len(doc) \in S
  BY <1>0 DEF Confirmed
<1>2. \A x \in S : x <= Len(doc) + b
  BY <1>0 DEF Confirmed
<1>3. h > Len(doc) => h \in S
  BY <1>0
<1> HIDE DEF S
<1>4. Max(S) \in S /\ \A x \in S : x <= Max(S)
  <2>1. Len(doc) + b \in Nat
    BY <1>0
  <2> QED BY <1>1, <1>2, <2>1, MaxOfBounded
<1>5. Reach(doc, rows) = Max(S)
  BY DEF S, Reach
<1>6. Max(S) \in Nat /\ Max(S) >= h
  <2>1. Max(S) \in Nat /\ Len(doc) <= Max(S)
    BY <1>1, <1>4
  <2>2. h > Len(doc) => h <= Max(S)
    BY <1>3, <1>4
  <2> QED BY <1>0, <2>1, <2>2
<1> DEFINE m == Reach(doc, rows)
<1>7. m \in Nat /\ m >= h
  BY <1>5, <1>6
<1>8. Replay(doc, rows) = [n \in 1..m |-> IF n <= Len(doc) THEN doc[n] ELSE rows[n].op]
  BY DEF Replay
<1>9. Replay(doc, rows) \in Seq(Op)
  BY <1>1, <1>2, ReplayExtends DEF Doc
<1> HIDE DEF m
<1>10. DOMAIN Replay(doc, rows) = 1..m
  BY <1>8
<1>11. Len(Replay(doc, rows)) = m
  BY <1>7, <1>9, <1>10
<1> QED BY <1>7, <1>11

\* Rows of the log put a document that is a prefix of it on a longer one.
LEMMA ReplayFollows ==
  ASSUME NEW log \in Doc, NEW doc \in Doc, IsPrefixOf(doc, log),
         NEW rows, IsRows(rows), RowsOf(rows, log)
  PROVE  /\ Replay(doc, rows) \in Doc /\ IsPrefixOf(Replay(doc, rows), log)
         /\ Len(Replay(doc, rows)) >= Len(doc)
<1> DEFINE new == Replay(doc, rows)
<1>1. Len(log) \in Nat /\ \A n \in DOMAIN rows : n <= Len(log)
  BY DEF RowsOf, Doc
<1>2. /\ new \in Doc /\ Len(new) >= Len(doc)
      /\ \A n \in 1..Len(doc) : new[n] = doc[n]
      /\ \A n \in Len(doc) + 1..Len(new) : n \in DOMAIN rows /\ new[n] = rows[n].op
  BY <1>1, ReplayExtends
<1> HIDE DEF new
<1>3. Len(new) \in Nat /\ Len(doc) \in Nat
  BY <1>2 DEF Doc
<1>4. \A n \in 1..Len(new) : new[n] = log[n]
  BY <1>2, <1>3 DEF IsPrefixOf, RowsOf
<1>5. Len(new) <= Len(log)
  <2>1. CASE Len(new) = Len(doc)
    BY <2>1 DEF IsPrefixOf
  <2>2. CASE Len(new) # Len(doc)
    <3>1. Len(new) \in DOMAIN rows
      BY <1>2, <1>3, <2>2
    <3> QED BY <3>1, <1>1
  <2> QED BY <2>1, <2>2
<1>6. IsPrefixOf(new, log)
  BY <1>4, <1>5 DEF IsPrefixOf
<1> QED BY <1>2, <1>6 DEF new

\* A row is stamped with its seq, or it is a row of Postgres without one.
Marked(row, n) == row.seq = n \/ (Backend = "postgres" /\ row.seq = None)

RowsAreStamped == \A n \in DOMAIN room.ops : Marked(room.ops[n], n)

\* Nobody asks for more than there was, and no announced head is ahead of the
\* log.
Asking == {"head read", "snapshot read", "answered", "catchup", "caught up"}
Answering == {"answered", "caught up"}
Welcoming == {"snapshot read", "answered"}

AsksAreOld ==
    \A p \in Conn : task[p].at \in Asking =>
        task[p].since <= Len(ledger) /\ task[p].head <= room.head

\* What a task that asks has, typed.
LEMMA AskTypes ==
  ASSUME TypeOK, AsksAreOld, NEW p \in Conn, task[p].at \in Asking
  PROVE  /\ task[p].since \in 0..Len(ledger) /\ task[p].head \in 0..room.head
         /\ task[p].at \in Welcoming => task[p].snap \in Doc \cup {None}
         /\ task[p].at \in Answering => IsRows(task[p].rows)
<1>1. task[p].since \in Nat /\ task[p].head \in Nat
  BY DEF TypeOK, IsTask, Asking
<1>2. task[p].since <= Len(ledger) /\ task[p].head <= room.head
  BY DEF AsksAreOld
<1>3. Len(ledger) \in Nat /\ room.head \in Nat
  BY DEF TypeOK, IsRoom
<1>4. /\ task[p].at \in Welcoming => task[p].snap \in Doc \cup {None}
      /\ task[p].at \in Answering => IsRows(task[p].rows)
  BY DEF TypeOK, IsTask, Welcoming, Answering
<1> QED BY <1>1, <1>2, <1>3, <1>4

\* What a client makes of the answer t, and where the ops of it start.
Made(t, log) ==
    Replay(IF t.at = "answered" /\ t.snap # None THEN t.snap ELSE SubSeq(log, 1, t.since), t.rows)
Start(t) == IF t.at = "answered" /\ t.snap # None THEN Len(t.snap) ELSE t.since

\* An answer is cut short by compaction, or by rows that have no seq.
Reaches(t, log, low) ==
    /\ Unstamped(t.rows) => Backend = "postgres"
    /\ Len(Made(t, log)) < t.head => Start(t) < low \/ Unstamped(t.rows)

AnswersReach ==
    \A p \in Conn : task[p].at \in Answering =>
        Reaches(task[p], ledger, room.compacted_below)

\* No step takes the store back, and every row it adds is stamped.
LEMMA StoreGrows ==
  ASSUME TypeOK, LogIsDense, RowsAreStamped, [Next]_vars
  PROVE  /\ room'.head >= room.head /\ room'.compacted_below >= room.compacted_below
         /\ room'.head \in Nat /\ room'.compacted_below \in Nat
         /\ RowsAreStamped'
<1> DEFINE Goal == /\ room'.head >= room.head /\ room'.compacted_below >= room.compacted_below
                   /\ room'.head \in Nat /\ room'.compacted_below \in Nat
                   /\ RowsAreStamped'
<1> SUFFICES Goal
  OBVIOUS
<1>0. IsRoom(room) /\ room.head \in Nat /\ room.compacted_below \in Nat
  BY DEF TypeOK, IsRoom
<1>1. ASSUME room'.head = room.head, room'.ops = room.ops,
             room'.compacted_below = room.compacted_below
      PROVE  Goal
  BY <1>0, <1>1 DEF RowsAreStamped
<1>2. ASSUME NEW op, room' = append(room, op) PROVE Goal
  <2>1. /\ room'.head = room.head + 1 /\ room'.compacted_below = room.compacted_below
        /\ DOMAIN room'.ops = DOMAIN room.ops \cup {room.head + 1}
        /\ Marked(room'.ops[room.head + 1], room.head + 1)
        /\ \A n \in DOMAIN room.ops : n # room.head + 1 => room'.ops[n] = room.ops[n]
    BY <1>0, <1>2, AppendFields, StoreAssumption DEF Marked
  <2> QED BY <1>0, <2>1 DEF RowsAreStamped
<1>3. CASE SaveSnapshot
  <2>1. /\ room'.head = room.head /\ room'.ops = room.ops
        /\ room'.compacted_below = room.compacted_below
    BY <1>0, <1>3, SaveLeaves
  <2> QED BY <1>1, <2>1
<1>4. CASE GcCompact
  <2>1. room' = compact_below(room, gc.upper) /\ gc.upper \in Nat
    BY <1>4 DEF GcCompact, TypeOK, GcState
  <2>2. /\ room'.head = room.head
        /\ room'.compacted_below = AtLeast(room.compacted_below, gc.upper)
        /\ \A m : m \in DOMAIN room'.ops <=> m \in DOMAIN room.ops /\ m > gc.upper
        /\ \A m \in DOMAIN room'.ops : room'.ops[m] = room.ops[m]
    BY <1>0, <2>1, CompactFields
  <2>3. room'.compacted_below \in Nat /\ room'.compacted_below >= room.compacted_below
    BY <1>0, <2>1, <2>2 DEF AtLeast
  <2> QED BY <1>0, <2>2, <2>3 DEF RowsAreStamped
<1>5. CASE Crash
  <2>1. room' = reopen(room)
    BY <1>5 DEF Crash
  <2> QED BY <1>0, <1>1, <2>1, ReopenFields, Zenon
<1>6. ASSUME NEW p \in Conn, NEW n, room' = record_ack(room, p, n) PROVE Goal
  <2>1. /\ room'.head = room.head /\ room'.ops = room.ops
        /\ room'.compacted_below = room.compacted_below
    BY <1>0, <1>6, AckFields
  <2> QED BY <1>1, <2>1
<1>7. ASSUME NEW p \in Conn, room' = clear_peer(room, p) PROVE Goal
  BY <1>0, <1>1, <1>7, ClearFields, ZenonT(40)
<1>8. room' = room => Goal
  BY <1>1
<1> HIDE DEF Goal
<1> QED BY <1>2, <1>3, <1>4, <1>5, <1>6, <1>7, <1>8, StoreSteps, Zenon

\* Every step keeps the questions within the log.
LEMMA AsksStep ==
  ASSUME TypeOK, LogIsDense, RowsAreStamped, AsksAreOld, [Next]_vars
  PROVE  AsksAreOld'
<1> DEFINE Old(t, n, h) == t.at \in Asking => t.since <= n /\ t.head <= h
<1> SUFFICES ASSUME NEW q \in Conn PROVE Old(task'[q], Len(ledger'), room'.head)
  BY DEF AsksAreOld
<1>0. /\ Len(ledger) \in Nat /\ Len(ledger') \in Nat /\ Len(ledger') >= Len(ledger)
      /\ room.head \in Nat /\ room'.head \in Nat /\ room'.head >= room.head
  BY LogKeeps, StoreGrows DEF TypeOK, IsRoom
<1>1. ASSUME NEW t, t.at \in Asking => t.since \in Nat /\ t.head \in Nat, Old(t, Len(ledger), room.head)
      PROVE  Old(t, Len(ledger'), room'.head)
  BY <1>0, <1>1
<1>2. Old(task[q], Len(ledger), room.head)
  BY DEF AsksAreOld
<1>3. task[q].at \in Asking => task[q].since \in Nat /\ task[q].head \in Nat
  BY DEF TypeOK, IsTask, Asking
<1>4. CASE Connection(q)
  <2>1. CASE ReadHead(q) \/ CatchupHead(q)
    <3>1. task'[q].since \in 0..Len(ledger) /\ task'[q].head = room.head
      BY <2>1, TaskCarries
    <3> QED BY <1>0, <1>1, <3>1
  <2>2. CASE ReadSnapshot(q) \/ ReadSlice(q) \/ CatchupSlice(q)
    <3>1. task'[q].since = task[q].since /\ task'[q].head = task[q].head /\ task[q].at \in Asking
      <4>1. task'[q].since = task[q].since /\ task'[q].head = task[q].head
        BY <2>2, TaskCarries
      <4>2. task[q].at \in {"head read", "snapshot read", "catchup"}
        BY <2>2 DEF ReadSnapshot, ReadSlice, CatchupSlice, Is
      <4> QED BY <4>1, <4>2 DEF Asking
    <3> QED BY <1>1, <1>2, <1>3, <3>1
  <2>3. CASE ~ ReadHead(q) /\ ~ CatchupHead(q) /\ ~ ReadSnapshot(q) /\ ~ ReadSlice(q) /\ ~ CatchupSlice(q)
    BY <1>4, <2>3, TaskMoves DEF Connection, Moves, Asking
  <2> QED BY <2>1, <2>2, <2>3
<1>5. CASE task'[q] = task[q]
  BY <1>1, <1>2, <1>3, <1>5
<1>6. CASE task'[q].at = "gone"
  BY <1>6 DEF Asking
<1> QED BY <1>4, <1>5, <1>6, TaskSteps

\* What a slice makes of a document that it follows on, unless it has a row
\* without a seq.
LEMMA SliceReaches ==
  ASSUME TypeOK, LogIsDense, RowsAreStamped,
         NEW doc \in Doc, NEW h \in Nat, h <= room.head
  PROVE  LET rows == slice(room, Len(doc), h)
         IN /\ Unstamped(rows) => Backend = "postgres"
            /\ room.compacted_below <= Len(doc) /\ ~ Unstamped(rows) =>
                  Len(Replay(doc, rows)) >= h
<1> DEFINE rows == slice(room, Len(doc), h)
<1>0. /\ IsRoom(room) /\ Len(doc) \in Nat /\ room.head \in Nat /\ room.compacted_below \in Nat
      /\ DOMAIN room.ops = room.compacted_below + 1 .. room.head
  BY DEF TypeOK, IsRoom, Doc, LogIsDense
<1>1. IsRows(rows)
  BY <1>0, ReadTypes
<1>2. /\ DOMAIN rows = {n \in DOMAIN room.ops : Len(doc) < n /\ n <= h}
      /\ \A n \in DOMAIN rows : rows[n] = room.ops[n]
  BY DEF slice, Restrict
<1> HIDE DEF rows
<1>3. DOMAIN rows \subseteq 0..h
  BY <1>0, <1>2
<1>4. \A n \in DOMAIN rows : n \in Nat /\ Marked(rows[n], n)
  BY <1>0, <1>2 DEF RowsAreStamped
<1>5. Unstamped(rows) => Backend = "postgres"
  BY <1>4, StoreAssumption DEF Unstamped, Marked
<1>6. ASSUME room.compacted_below <= Len(doc), ~ Unstamped(rows)
      PROVE  Len(Replay(doc, rows)) >= h
  <2>1. \A n \in DOMAIN rows : rows[n].seq = n
    BY <1>4, <1>6 DEF Unstamped, Marked
  <2>2. Len(doc) + 1 .. h \subseteq Confirmed(rows)
    BY <1>0, <1>2, <1>6, <2>1 DEF Confirmed
  <2> QED BY <1>1, <1>3, <2>2, ReplayReaches
<1> QED BY <1>5, <1>6 DEF rows

\* Every step keeps it so that an answer falls short only if its start was
\* compacted or it has a row without a seq.
LEMMA ReachStep ==
  ASSUME TypeOK, LogInv, RowsAreStamped, AsksAreOld, AnswersFollow,
         AnswersReach, [Next]_vars
  PROVE  AnswersReach'
<1> DEFINE Does(t, log, low) == t.at \in Answering => Reaches(t, log, low)
<1> SUFFICES ASSUME NEW q \in Conn PROVE Does(task'[q], ledger', room'.compacted_below)
  BY DEF AnswersReach
<1>0. /\ IsRoom(room) /\ room.head \in Nat /\ room.compacted_below \in Nat
      /\ ledger \in Seq(Op) /\ LogIsDense /\ room.head = Len(ledger)
  BY DEF TypeOK, IsRoom, LogInv, LogIsDense
<1>1. \A n \in 0..Len(ledger) : /\ SubSeq(ledger, 1, n) \in Doc
                                /\ Len(SubSeq(ledger, 1, n)) = n
  BY <1>0 DEF Doc
<1>2. CASE task'[q] = task[q]
  <2> DEFINE t == task[q]
  <2> SUFFICES ASSUME t.at \in Answering PROVE Reaches(t, ledger', room'.compacted_below)
    BY <1>2
  <2>1. t.at \in Asking /\ t.since \in 0..Len(ledger) /\ Start(t) \in Nat
    <3>1. t.at \in Asking /\ (t.at = "answered" => t.at \in Welcoming)
      BY DEF Asking, Answering, Welcoming
    <3>2. t.since \in 0..Len(ledger) /\ (t.at = "answered" => t.snap \in Doc \cup {None})
      BY <3>1, AskTypes
    <3> QED BY <3>1, <3>2 DEF Start, Doc
  <2>2. SubSeq(ledger', 1, t.since) = SubSeq(ledger, 1, t.since)
    <3>0. Len(ledger) \in Nat /\ Len(ledger') \in Nat /\ Len(ledger') >= Len(ledger)
      BY LogKeeps
    <3>1. \A n \in 1..t.since : ledger'[n] = ledger[n]
      BY <2>1, <3>0, LogKeeps
    <3>2. ledger' \in Seq(Op)
      BY <1>0, LogGrows
    <3> HIDE DEF t
    <3> QED BY <1>0, <2>1, <3>0, <3>1, <3>2
  <2>3. Made(t, ledger') = Made(t, ledger)
    BY <2>2 DEF Made
  <2>4. Reaches(t, ledger', room.compacted_below)
    BY <2>3 DEF AnswersReach, Reaches
  <2>5. room'.compacted_below >= room.compacted_below /\ room'.compacted_below \in Nat
    BY <1>0, StoreGrows
  <2> QED BY <1>0, <2>1, <2>4, <2>5 DEF Reaches
<1>3. CASE Connection(q)
  <2> DEFINE t == task'[q]
  <2>1. CASE ReadHead(q)
    <3>0. CASE t.at = "head read"
      BY <3>0 DEF Answering
    <3>1. CASE t.at = "answered"
      <4>1. /\ t.since \in 0..Len(ledger) /\ t.head = room.head /\ room.head \in {0, t.since}
            /\ t.snap = None /\ t.rows = EmptyMap /\ ledger' = ledger
        BY <2>1, <3>1, TaskCarries DEF ReadHead
      <4>2. IsRows(EmptyMap) /\ RowsOf(EmptyMap, ledger) /\ SubSeq(ledger, 1, t.since) \in Doc
            /\ Len(SubSeq(ledger, 1, t.since)) = t.since /\ ledger \in Doc
        BY <1>0, <1>1, <4>1 DEF IsRows, RowsOf, EmptyMap, Doc
      <4>3. IsPrefixOf(SubSeq(ledger, 1, t.since), ledger)
        BY <1>0, <4>1 DEF IsPrefixOf
      <4>4. /\ Len(Replay(SubSeq(ledger, 1, t.since), EmptyMap)) >= t.since
            /\ Replay(SubSeq(ledger, 1, t.since), EmptyMap) \in Doc
        BY <4>2, <4>3, ReplayFollows
      <4>5. Made(t, ledger') = Replay(SubSeq(ledger, 1, t.since), EmptyMap)
        BY <4>1 DEF Made
      <4>6. ~ (Len(Made(t, ledger')) < t.head)
        BY <1>0, <4>1, <4>4, <4>5 DEF Doc
      <4>7. ~ Unstamped(t.rows)
        BY <4>1 DEF Unstamped, EmptyMap
      <4> QED BY <4>6, <4>7 DEF Reaches
    <3>2. t.at \in {"head read", "answered"}
      BY <2>1, TaskCarries
    <3> QED BY <3>0, <3>1, <3>2
  <2>2. CASE ReadSlice(q)
    <3> DEFINE doc == IF task[q].snap = None THEN SubSeq(ledger, 1, task[q].since) ELSE task[q].snap
    <3>1. /\ t.at = "answered" /\ t.since = task[q].since /\ t.head = task[q].head
          /\ t.snap = task[q].snap /\ t.rows = slice(room, From(q), task[q].head)
      BY <2>2, TaskCarries
    <3>2. /\ task[q].since \in 0..Len(ledger) /\ task[q].head \in Nat /\ task[q].head <= room.head
          /\ task[q].snap \in Doc \cup {None}
      <4>1. task[q].at = "snapshot read"
        BY <2>2 DEF ReadSlice, Is
      <4>2. task[q].at \in Asking /\ task[q].at \in Welcoming
        BY <4>1 DEF Asking, Welcoming
      <4>3. /\ task[q].since \in 0..Len(ledger) /\ task[q].head \in 0..room.head
            /\ task[q].snap \in Doc \cup {None}
        BY <4>2, AskTypes
      <4> QED BY <1>0, <4>3
    <3>3. room' = room /\ ledger' = ledger
      BY <2>2 DEF ReadSlice
    <3>4. doc \in Doc /\ From(q) = Len(doc) /\ Start(t) = Len(doc)
      BY <1>1, <3>1, <3>2 DEF From, Start
    <3>5. Made(t, ledger') = Replay(doc, slice(room, Len(doc), task[q].head))
      BY <3>1, <3>3, <3>4 DEF Made
    <3> HIDE DEF doc
    <3>6. Len(doc) \in Nat /\ IsRows(slice(room, Len(doc), task[q].head))
      BY <1>0, <3>2, <3>4, ReadTypes DEF Doc
    <3>u. Unstamped(t.rows) => Backend = "postgres"
      BY <1>0, <3>1, <3>2, <3>4, SliceReaches
    <3>7. CASE room.compacted_below <= Len(doc) /\ ~ Unstamped(t.rows)
      <4>1. Len(Made(t, ledger')) >= task[q].head
        BY <1>0, <3>1, <3>2, <3>4, <3>5, <3>7, SliceReaches
      <4>2. Len(Made(t, ledger')) \in Nat
        <5>1. \A n \in DOMAIN slice(room, Len(doc), task[q].head) : n <= task[q].head
          BY DEF slice, Restrict
        <5>2. Made(t, ledger') \in Doc
          BY <3>2, <3>4, <3>5, <3>6, <5>1, ReplayExtends
        <5> QED BY <5>2 DEF Doc
      <4>3. ~ (Len(Made(t, ledger')) < t.head)
        BY <3>1, <3>2, <4>1, <4>2
      <4> QED BY <3>u, <4>3 DEF Reaches
    <3>8. CASE ~ (room.compacted_below <= Len(doc)) \/ Unstamped(t.rows)
      BY <1>0, <3>3, <3>4, <3>6, <3>8, <3>u DEF Reaches
    <3> QED BY <3>7, <3>8
  <2>3. CASE CatchupSlice(q)
    <3> DEFINE doc == SubSeq(ledger, 1, task[q].since)
    <3>1. /\ t.at = "caught up" /\ t.since = task[q].since /\ t.head = task[q].head
          /\ t.rows = slice(room, task[q].since, task[q].head)
      BY <2>3, TaskCarries
    <3>2. task[q].since \in 0..Len(ledger) /\ task[q].head \in Nat /\ task[q].head <= room.head
      <4>1. task[q].at = "catchup"
        BY <2>3 DEF CatchupSlice, Is
      <4>2. task[q].since \in 0..Len(ledger) /\ task[q].head \in 0..room.head
        BY <4>1, AskTypes DEF Asking
      <4> QED BY <1>0, <4>2
    <3>3. room' = room /\ ledger' = ledger
      BY <2>3 DEF CatchupSlice
    <3>4. doc \in Doc /\ task[q].since = Len(doc) /\ Start(t) = Len(doc)
      BY <1>1, <3>1, <3>2 DEF Start
    <3>5. Made(t, ledger') = Replay(doc, slice(room, Len(doc), task[q].head))
      BY <3>1, <3>3, <3>4 DEF Made
    <3> HIDE DEF doc
    <3>6. Len(doc) \in Nat /\ IsRows(slice(room, Len(doc), task[q].head))
      BY <1>0, <3>2, <3>4, ReadTypes DEF Doc
    <3>u. Unstamped(t.rows) => Backend = "postgres"
      BY <1>0, <3>1, <3>2, <3>4, SliceReaches
    <3>7. CASE room.compacted_below <= Len(doc) /\ ~ Unstamped(t.rows)
      <4>1. Len(Made(t, ledger')) >= task[q].head
        BY <1>0, <3>1, <3>2, <3>4, <3>5, <3>7, SliceReaches
      <4>2. Len(Made(t, ledger')) \in Nat
        <5>1. \A n \in DOMAIN slice(room, Len(doc), task[q].head) : n <= task[q].head
          BY DEF slice, Restrict
        <5>2. Made(t, ledger') \in Doc
          BY <3>2, <3>4, <3>5, <3>6, <5>1, ReplayExtends
        <5> QED BY <5>2 DEF Doc
      <4>3. ~ (Len(Made(t, ledger')) < t.head)
        <5>1. t.head = task[q].head /\ task[q].head \in Nat
          BY <3>1, <3>2
        <5> QED BY <4>1, <4>2, <5>1
      <4> QED BY <3>u, <4>3 DEF Reaches
    <3>8. CASE ~ (room.compacted_below <= Len(doc)) \/ Unstamped(t.rows)
      BY <1>0, <3>3, <3>4, <3>6, <3>8, <3>u DEF Reaches
    <3> QED BY <3>7, <3>8
  <2>4. CASE ~ ReadHead(q) /\ ~ ReadSlice(q) /\ ~ CatchupSlice(q)
    <3>1. t.at \notin Answering
      BY <1>3, <2>4, TaskMoves DEF Connection, Moves, Answering
    <3> QED BY <3>1
  <2> QED BY <2>1, <2>2, <2>3, <2>4
<1>4. CASE task'[q].at = "gone"
  BY <1>4 DEF Answering
<1> QED BY <1>2, <1>3, <1>4, TaskSteps

-----------------------------------------------------------------------------
IInv == /\ TypeOK /\ FirstInLine
        /\ LogInv /\ MirrorFoldsLog /\ AppendedIsStored /\ StampedIsStored
        /\ MirrorKeepsUp
        /\ AcksAreJoined /\ PendingAcks
        /\ AnswersFollow /\ RowsAreStamped /\ AsksAreOld /\ AnswersReach

\* The inductive invariant holds initially and every step keeps it.
LEMMA Inductive == Spec => []IInv
<1>1. Init => IInv
  <2> SUFFICES ASSUME Init PROVE IInv
    OBVIOUS
  <2>1. TypeOK /\ FirstInLine
    BY InitTypes
  <2>2. LogInv
    BY DEF Init, LogInv, LogIsDense, SnapshotsFold, PendingSave, PendingCompaction,
           EmptyRoom, EmptyMap, Idle
  <2>3. MirrorFoldsLog /\ RowsAreStamped
    BY DEF Init, MirrorFoldsLog, IsPrefixOf, RowsAreStamped, EmptyRoom, EmptyMap
  <2>4. \A p \in Conn : task[p].at = "new"
    BY DEF Init
  <2>5. AppendedIsStored /\ StampedIsStored /\ AcksAreJoined
    BY <2>4 DEF AppendedIsStored, StampedIsStored, AcksAreJoined, Init, EmptyRoom, EmptyMap,
                Joining
  <2>6. PendingAcks
    BY DEF PendingAcks, Init, Idle
  <2>7. AnswersFollow /\ AsksAreOld /\ AnswersReach
    BY <2>4 DEF AnswersFollow, Follows, AsksAreOld, Asking, AnswersReach, Answering
  <2>8. MirrorKeepsUp
    BY <2>4 DEF MirrorKeepsUp, Init
  <2> QED BY <2>1, <2>2, <2>3, <2>5, <2>6, <2>7, <2>8 DEF IInv
<1>2. IInv /\ [Next]_vars => IInv'
  <2> SUFFICES ASSUME IInv, [Next]_vars PROVE IInv'
    OBVIOUS
  <2>1. TypeOK' /\ FirstInLine' /\ LogInv' /\ MirrorFoldsLog' /\ AppendedIsStored'
    BY TypeStep, FirstInLineStep, LogStep, MirrorStep DEF IInv
  <2>2. StampedIsStored' /\ MirrorKeepsUp' /\ AcksAreJoined' /\ PendingAcks'
    BY StampedStep, KeepsUpStep, AckStep DEF IInv, LogInv
  <2>3. AnswersFollow' /\ RowsAreStamped' /\ AsksAreOld' /\ AnswersReach'
    BY AnswersStep, StoreGrows, AsksStep, ReachStep DEF IInv, LogInv
  <2> QED BY <2>1, <2>2, <2>3 DEF IInv
<1> QED BY <1>1, <1>2, PTL DEF Spec

\* The log has no hole and is never rewritten, in any interleaving of any
\* number of connections with the loops, the crashes and the failed appends
\* (store.rs: append and compact_below).
THEOREM LogDensity == Spec => []LogIsDense
<1>1. IInv => LogIsDense
  BY DEF IInv, LogInv
<1> QED BY <1>1, Inductive, PTL

\* Compaction never takes what the newest snapshot does not hold, and no
\* snapshot holds anything but a prefix of the log (graph.rs: take_snapshot and
\* run_gc).
THEOREM LogRecovery == Spec => []Recoverable
<1>1. IInv => Recoverable
  <2>1. IsRoom(room) => room.compacted_below \in Nat /\ room.snapshot_seq \in Nat
    BY DEF IsRoom
  <2> QED BY <2>1 DEF IInv, LogInv, SnapshotsFold, Recoverable, TypeOK
<1> QED BY <1>1, Inductive, PTL

\* The mirror folds a prefix of the log, whatever fails or restarts (graph.rs:
\* submit and restore).
THEOREM MirrorIsFold == Spec => []MirrorFoldsLog
<1>1. IInv => MirrorFoldsLog
  BY DEF IInv
<1> QED BY <1>1, Inductive, PTL

\* What run_gc compacts had been acked by every peer whose ack it read and that
\* is still there, however much later it compacts (graph.rs: run_gc).
THEOREM CompactionSafety == Spec => []CompactionWaitsForAcks
<1>1. IInv => CompactionWaitsForAcks
  BY DEF IInv, PendingAcks, Bound, CompactionWaitsForAcks
<1> QED BY <1>1, Inductive, PTL

\* As long as nothing has failed, the mirror is at head whenever nobody holds
\* the append lock, so a snapshot taken then is one of everything that was
\* stored (graph.rs: submit, take_snapshot).  An append that failed after it
\* committed leaves the mirror behind for good, which the Postgres store can do.
THEOREM MirrorFollows == Spec => [](faults = 0 => MirrorAtHead)
<1>1. IInv => (faults = 0 => MirrorAtHead)
  <2> SUFFICES ASSUME IInv, faults = 0, up, append_lock = << >> PROVE mirror = ledger
    BY DEF MirrorAtHead
  <2>1. \A p \in Conn : task[p].at # "appended"
    BY DEF IInv, FirstInLine
  <2>2. Len(mirror) = Len(ledger) /\ IsPrefixOf(mirror, ledger)
    BY <2>1 DEF IInv, MirrorKeepsUp, MirrorFoldsLog
  <2> QED BY <2>2 DEF IInv, TypeOK, Doc, IsPrefixOf
<1> QED BY <1>1, Inductive, PTL

NoFaults == faults = 0

\* The in-memory store fails at nothing, so there the mirror is at head whenever
\* nobody holds the append lock (store.rs, graph.rs: submit).
THEOREM MirrorStaysAtHead ==
  ASSUME Backend = "memory"
  PROVE  Spec => []MirrorAtHead
<1>1. Init => NoFaults
  BY DEF Init, NoFaults
<1>2. NoFaults /\ [Next]_vars => NoFaults'
  <2> SUFFICES ASSUME faults = 0, [Next]_vars PROVE faults' = 0
    BY DEF NoFaults
  <2>1. ASSUME NEW p \in Conn, Connection(p) PROVE faults' = 0
    BY <2>1 DEF Connection, ReadHead, ReadSnapshot, ReadSlice, SeedAck, Ping, CatchupHead,
                CatchupSlice, Reply, release_peer, submit, AppendOp, AppendFails, ApplyToMirror
  <2>2. CASE \A p \in Conn : ~ Connection(p)
    BY <2>2 DEF Next, TakeSnapshot, SaveSnapshot, GcReadAcks, GcReadSnapshot, GcCompact,
                Crash, restore, vars
  <2> QED BY <2>1, <2>2
<1>3. Spec => []NoFaults
  BY <1>1, <1>2, PTL DEF Spec
<1>4. Spec => [](NoFaults => MirrorAtHead)
  BY MirrorFollows DEF NoFaults
<1> QED BY <1>3, <1>4, PTL

\* A Welcome and a Catchup give nobody anything but a prefix of the log, and in
\* the in-memory store they reach the head they announce unless compaction
\* passed their start while they were put together (graph.rs: welcome_for,
\* catchup; store.rs: slice).
THEOREM AnswersComplete ==
  ASSUME Backend = "memory"
  PROVE  Spec => []AnswersReachHead
<1>1. IInv => AnswersReachHead
  <2> SUFFICES ASSUME IInv, NEW p \in Conn, task[p].at \in Answering
               PROVE  /\ IsPrefixOf(Given(p), ledger)
                      /\ Len(Given(p)) < task[p].head =>
                           (IF task[p].at = "answered" THEN From(p) ELSE task[p].since)
                               < room.compacted_below
    BY DEF AnswersReachHead, Answering
  <2>1. Given(p) = Made(task[p], ledger)
    BY DEF Given, Made
  <2>2. (IF task[p].at = "answered" THEN From(p) ELSE task[p].since) = Start(task[p])
    BY DEF From, Start
  <2>3. IsPrefixOf(Made(task[p], ledger), ledger)
    <3> DEFINE doc == IF task[p].at = "answered" /\ task[p].snap # None
                      THEN task[p].snap ELSE SubSeq(ledger, 1, task[p].since)
    <3>1. /\ ledger \in Doc /\ IsRows(task[p].rows) /\ task[p].since \in 0..Len(ledger)
          /\ task[p].at = "answered" => task[p].snap \in Doc \cup {None}
      <4>1. TypeOK /\ AsksAreOld /\ task[p].at \in Asking
            /\ (task[p].at = "answered" => task[p].at \in Welcoming)
        BY DEF IInv, Asking, Answering, Welcoming
      <4> QED BY <4>1, AskTypes DEF TypeOK, Doc
    <3>2. Follows(task[p], ledger)
      BY DEF IInv, AnswersFollow
    <3>3. /\ SubSeq(ledger, 1, task[p].since) \in Doc
          /\ IsPrefixOf(SubSeq(ledger, 1, task[p].since), ledger)
      BY <3>1 DEF Doc, IsPrefixOf
    <3>4. doc \in Doc /\ IsPrefixOf(doc, ledger)
      BY <3>1, <3>2, <3>3 DEF Follows, FromLog
    <3>5. RowsOf(task[p].rows, ledger)
      BY <3>2 DEF Follows, Answering
    <3>6. Made(task[p], ledger) = Replay(doc, task[p].rows)
      BY DEF Made
    <3> HIDE DEF doc
    <3> QED BY <3>1, <3>4, <3>5, <3>6, ReplayFollows
  <2>4. Reaches(task[p], ledger, room.compacted_below) /\ Backend # "postgres"
    BY DEF IInv, AnswersReach
  <2> QED BY <2>1, <2>2, <2>3, <2>4 DEF Reaches
<1> QED BY <1>1, Inductive, PTL

-----------------------------------------------------------------------------

Frame == [op : Op, seq : Nat]

-----------------------------------------------------------------------------
(* The client engine. *)

\* One frame of the log keeps an engine on a prefix of it.
LEMMA AppliedFollows ==
  ASSUME NEW log \in Doc, NEW doc \in Doc, IsPrefixOf(doc, log),
         NEW frame \in Frame, Logged(frame, log)
  PROVE  LET new == Applied(doc, frame) IN
         new \in Doc /\ IsPrefixOf(new, log) /\ Len(new) >= Len(doc)
BY DEF Applied, Doc, IsPrefixOf, Logged, Frame

\* The loop over the frames of a batch has a value after each of them.
LEMMA BatchUnfolds ==
  ASSUME NEW doc, NEW frames \in Seq(Frame)
  PROVE  \E after : /\ after = [n \in 0..Len(frames) |->
                                  IF n = 0 THEN doc ELSE Applied(after[n - 1], frames[n])]
                    /\ AppliedAll(doc, frames) = after[Len(frames)]
<1> DEFINE Runs(m, g) == g = [n \in 0..m |-> IF n = 0 THEN doc ELSE Applied(g[n - 1], frames[n])]
           Stuck == {m \in 0..Len(frames) : ~ \E g : Runs(m, g)}
<1>1. Len(frames) \in Nat
  OBVIOUS
<1>2. Stuck = {}
  <2> SUFFICES ASSUME Stuck # {} PROVE FALSE
    OBVIOUS
  <2>1. Stuck \in SUBSET Nat
    BY <1>1
  <2>2. PICK m \in Stuck : \A k \in Stuck : m <= k
    BY <2>1, LeastNat, Zenon
  <2>3. m \in 0..Len(frames) /\ m \in Nat
    BY <1>1
  <2>4. CASE m = 0
    <3> DEFINE g == [n \in 0..0 |-> doc]
    <3>1. Runs(0, g)
      OBVIOUS
    <3> QED BY <2>2, <2>4, <3>1
  <2>5. CASE m # 0
    <3>0. m - 1 \in 0..Len(frames) /\ ~ (m <= m - 1)
      BY <1>1, <2>3, <2>5
    <3>1. m - 1 \in 0..Len(frames) /\ m - 1 \notin Stuck
      <4> HIDE DEF Stuck, Runs
      <4> QED BY <2>2, <3>0
    <3>2. PICK g : Runs(m - 1, g)
      BY <3>1
    <3> DEFINE h == [n \in 0..m |-> IF n = m THEN Applied(g[m - 1], frames[m]) ELSE g[n]]
    <3>3. \A n \in 0..m : h[n] = IF n = 0 THEN doc ELSE Applied(h[n - 1], frames[n])
      <4> SUFFICES ASSUME NEW n \in 0..m
                   PROVE  h[n] = IF n = 0 THEN doc ELSE Applied(h[n - 1], frames[n])
        OBVIOUS
      <4>1. CASE n = m
        BY <2>3, <2>5, <4>1
      <4>2. CASE n # m
        <5>1. n \in 0..m - 1 /\ h[n] = g[n]
          BY <2>3, <4>2
        <5>2. n # 0 => n - 1 \in 0..m /\ h[n - 1] = g[n - 1]
          BY <2>3, <4>2
        <5> HIDE DEF h
        <5> QED BY <3>2, <5>1, <5>2
      <4> QED BY <4>1, <4>2
    <3>4. h = [n \in 0..m |-> h[n]]
      OBVIOUS
    <3> HIDE DEF h
    <3>5. Runs(m, h)
      BY <3>3, <3>4
    <3> QED BY <2>2, <3>5
  <2> QED BY <2>4, <2>5
<1>3. PICK g : Runs(Len(frames), g)
  BY <1>1, <1>2
<1> DEFINE after == CHOOSE f : Runs(Len(frames), f)
<1>4. Runs(Len(frames), after)
  BY <1>3
<1>5. AppliedAll(doc, frames) = after[Len(frames)]
  BY DEF AppliedAll
<1> QED BY <1>4, <1>5

\* And so does a batch of them, whatever their order.
LEMMA BatchFollows ==
  ASSUME NEW log \in Doc, NEW doc \in Doc, IsPrefixOf(doc, log),
         NEW frames \in Seq(Frame), \A k \in DOMAIN frames : Logged(frames[k], log)
  PROVE  LET new == AppliedAll(doc, frames) IN
         new \in Doc /\ IsPrefixOf(new, log) /\ Len(new) >= Len(doc)
<1>1. PICK after : /\ after = [n \in 0..Len(frames) |->
                                 IF n = 0 THEN doc ELSE Applied(after[n - 1], frames[n])]
                   /\ AppliedAll(doc, frames) = after[Len(frames)]
  BY BatchUnfolds
<1> DEFINE Good(n) == after[n] \in Doc /\ IsPrefixOf(after[n], log) /\ Len(after[n]) >= Len(doc)
           Bad == {n \in 0..Len(frames) : ~ Good(n)}
<1>2. Len(frames) \in Nat
  OBVIOUS
<1>3. Bad = {}
  <2> SUFFICES ASSUME Bad # {} PROVE FALSE
    OBVIOUS
  <2>1. Bad \in SUBSET Nat
    BY <1>2
  <2>2. PICK n \in Bad : \A k \in Bad : n <= k
    BY <2>1, LeastNat, Zenon
  <2>3. n \in 0..Len(frames) /\ n \in Nat
    BY <1>2
  <2>4. CASE n = 0
    <3>1. after[0] = doc
      BY <1>1, <1>2
    <3> QED BY <2>2, <2>4, <3>1 DEF Doc
  <2>5. CASE n # 0
    <3>1. n - 1 \in 0..Len(frames) /\ n - 1 \notin Bad /\ n \in DOMAIN frames
      BY <1>2, <2>2, <2>3, <2>5
    <3>2. Good(n - 1)
      BY <3>1
    <3>3. after[n] = Applied(after[n - 1], frames[n])
      BY <1>1, <2>3, <2>5
    <3>4. frames[n] \in Frame /\ Logged(frames[n], log)
      BY <3>1
    <3>5. /\ Applied(after[n - 1], frames[n]) \in Doc
          /\ IsPrefixOf(Applied(after[n - 1], frames[n]), log)
          /\ Len(Applied(after[n - 1], frames[n])) >= Len(after[n - 1])
      BY <3>2, <3>4, AppliedFollows
    <3>6. Len(after[n - 1]) \in Nat /\ Len(after[n]) \in Nat /\ Len(doc) \in Nat
      BY <3>2, <3>3, <3>5 DEF Doc
    <3>7. Good(n)
      BY <3>2, <3>3, <3>5, <3>6
    <3> QED BY <2>2, <3>7
  <2> QED BY <2>4, <2>5
<1>4. Good(Len(frames))
  BY <1>2, <1>3
<1> QED BY <1>1, <1>4

\* So a Welcome puts a new engine on a prefix of the log.
LEMMA WelcomeFollows ==
  ASSUME NEW log \in Doc, NEW doc \in Doc, IsPrefixOf(doc, log),
         NEW w, w.snap \in Doc \cup {None}, IsRows(w.rows),
         FromLog(w.snap, log), RowsOf(w.rows, log)
  PROVE  Welcomed(doc, w) \in Doc /\ IsPrefixOf(Welcomed(doc, w), log)
<1> DEFINE base == IF w.snap = None THEN doc ELSE w.snap
<1>1. base \in Doc /\ IsPrefixOf(base, log)
  BY DEF FromLog
<1>2. Welcomed(doc, w) = Replay(base, w.rows)
  BY DEF Welcomed
<1> HIDE DEF base
<1> QED BY <1>1, <1>2, ReplayFollows

-----------------------------------------------------------------------------
(* The room's steps are the handler's. *)

\* Whatever the channel and the writers do, the handler takes one of its steps
\* or none.
LEMMA HandlerSteps == [RoomNext]_roomVars => [Next]_vars
<1> SUFFICES ASSUME [RoomNext]_roomVars PROVE [Next]_vars
  OBVIOUS
<1>1. ASSUME NEW p \in Conn, Connection(p) PROVE [Next]_vars
  BY <1>1 DEF Next
<1>2. ASSUME NEW p \in Conn, Hello(p) \/ Submit(p) \/ Ack(p) \/ Leave(p) PROVE [Next]_vars
  BY <1>1, <1>2, Zenon DEF Hello, Submit, Ack, Leave, Connection
<1>3. ASSUME NEW p \in Conn, Serve(p) PROVE [Next]_vars
  <2>1. CASE Subscribe(p)
    BY <2>1 DEF Subscribe
  <2>2. CASE ~ Subscribe(p)
    BY <1>1, <1>3, <2>2, Zenon DEF Serve, Greet, SendWelcome, Stamp, Broadcast, Connection
  <2> QED BY <2>1, <2>2
<1>4. ASSUME NEW p \in Conn, WriteOutbox(p) \/ Write(p) \/ WriteBatch(p) PROVE [Next]_vars
  BY <1>4 DEF WriteOutbox, Write, WriteApply, HoldApply, WriterLags, WriteBatch
<1>5. CASE Loops
  BY <1>5 DEF Loops, Next
<1>6. CASE UNCHANGED roomVars
  BY <1>6 DEF roomVars
<1> QED BY <1>2, <1>3, <1>4, <1>5, <1>6 DEF RoomNext

\* So the room has the handler's invariant.
LEMMA HandlerInvariant == RoomSpec => []IInv
<1>1. RoomInit => Init
  BY DEF RoomInit
<1>2. RoomSpec => Spec
  BY <1>1, HandlerSteps, PTL DEF RoomSpec, Spec
<1> QED BY <1>2, Inductive, PTL

-----------------------------------------------------------------------------
(* What is on its way to the clients is of the log. *)

SentFollows ==
    sent \in Seq(Frame) /\ \A k \in DOMAIN sent : Logged(sent[k], ledger)

BuffersFollow ==
    /\ buffer \in [Conn -> Seq(Frame)]
    /\ \A p \in Conn : \A k \in DOMAIN buffer[p] : Logged(buffer[p][k], ledger)

Fits(w, log) ==
    /\ w.snap \in Doc \cup {None} /\ IsRows(w.rows) /\ w.head \in Nat
    /\ FromLog(w.snap, log) /\ RowsOf(w.rows, log)

OutboxesFollow ==
    /\ DOMAIN outbox = Conn
    /\ \A p \in Conn : outbox[p] = << >> \/ \E w : outbox[p] = <<w>> /\ Fits(w, ledger)

ViewsFollow ==
    view \in [Conn -> Doc] /\ \A p \in Conn : IsPrefixOf(view[p], ledger)

\* A client is welcomed once: before its handshake ends nothing is sent to it,
\* and the one Welcome it gets is its first.
WelcomedOnce ==
    /\ connected \in [Conn -> BOOLEAN]
    /\ \A p \in Conn : /\ task[p].at \in Joining => ~ connected[p] /\ outbox[p] = << >>
                       /\ outbox[p] # << >> => ~ connected[p]

\* A writer that runs has a receiver, and no receiver is past the end.
WritersRead ==
    /\ cursor \in [Conn -> (0..Len(sent)) \cup {None}]
    /\ writer \in [Conn -> {"none", "running", "lagged", "closed"}]
    /\ \A p \in Conn : Running(p) => cursor[p] # None

RacesAreKnown == raced \in [Conn -> SUBSET {"compacted", "unstamped", "unsubscribed", "overtaken"}]

RoomInv ==
    /\ SentFollows /\ BuffersFollow /\ OutboxesFollow /\ ViewsFollow
    /\ WelcomedOnce /\ WritersRead /\ RacesAreKnown

\* Only these change what is between the server and the clients.
LEMMA NetSteps ==
  ASSUME [RoomNext]_roomVars
  PROVE  /\ sent' = sent \/ \E p \in Conn : Broadcast(p)
         /\ buffer' = buffer \/ \E p \in Conn : HoldApply(p) \/ WriteBatch(p)
         /\ outbox' = outbox \/ \E p \in Conn : SendWelcome(p) \/ WriteOutbox(p)
         /\ \/ view' = view /\ connected' = connected
            \/ \E p \in Conn : WriteOutbox(p) \/ WriteApply(p) \/ WriteBatch(p)
         /\ cursor' = cursor \/ \E p \in Conn : Subscribe(p) \/ WriteApply(p) \/ HoldApply(p)
         /\ writer' = writer \/ \E p \in Conn : Subscribe(p) \/ Leave(p) \/ WriterLags(p)
<1> DEFINE Goal == /\ sent' = sent \/ \E p \in Conn : Broadcast(p)
                   /\ buffer' = buffer \/ \E p \in Conn : HoldApply(p) \/ WriteBatch(p)
                   /\ outbox' = outbox \/ \E p \in Conn : SendWelcome(p) \/ WriteOutbox(p)
                   /\ \/ view' = view /\ connected' = connected
                      \/ \E p \in Conn : WriteOutbox(p) \/ WriteApply(p) \/ WriteBatch(p)
                   /\ \/ cursor' = cursor
                      \/ \E p \in Conn : Subscribe(p) \/ WriteApply(p) \/ HoldApply(p)
                   /\ \/ writer' = writer
                      \/ \E p \in Conn : Subscribe(p) \/ Leave(p) \/ WriterLags(p)
<1>1. UNCHANGED net => Goal
  BY DEF net
<1>2. ASSUME NEW p \in Conn,
             \/ SendWelcome(p) \/ Subscribe(p) \/ Broadcast(p) \/ Leave(p) \/ WriteOutbox(p)
             \/ WriteApply(p) \/ HoldApply(p) \/ WriterLags(p) \/ WriteBatch(p)
      PROVE  Goal
  <2>1. SendWelcome(p) => Goal
    BY DEF SendWelcome
  <2>2. Subscribe(p) => Goal
    BY DEF Subscribe
  <2>3. Broadcast(p) => Goal
    BY DEF Broadcast
  <2>4. Leave(p) => Goal
    BY DEF Leave
  <2>5. WriteOutbox(p) => Goal
    BY DEF WriteOutbox
  <2>6. WriteApply(p) => Goal
    BY DEF WriteApply
  <2>7. HoldApply(p) => Goal
    BY DEF HoldApply
  <2>8. WriterLags(p) => Goal
    BY DEF WriterLags
  <2>9. WriteBatch(p) => Goal
    BY DEF WriteBatch
  <2> QED BY <1>2, <2>1, <2>2, <2>3, <2>4, <2>5, <2>6, <2>7, <2>8, <2>9
<1> HIDE DEF Goal
<1>3. ASSUME NEW p \in Conn, Hello(p) \/ Submit(p) \/ Ack(p) \/ Greet(p) \/ Stamp(p)
      PROVE  Goal
  BY <1>1, <1>3, Zenon DEF Hello, Submit, Ack, Greet, Stamp
<1>4. Loops \/ UNCHANGED roomVars => Goal
  BY <1>1 DEF Loops, roomVars
<1>5. Goal
  BY <1>2, <1>3, <1>4, Zenon DEF RoomNext, Serve, Write
<1> QED BY <1>5 DEF Goal

\* What an update of one connection's entry does.
LEMMA SetSets ==
  ASSUME NEW f, NEW S, DOMAIN f = S, NEW p \in S, NEW x
  PROVE  /\ DOMAIN Set(f, p, x) = S /\ Set(f, p, x)[p] = x
         /\ \A q \in S : q # p => Set(f, p, x)[q] = f[q]
BY DEF Set

\* Every step keeps what is said of the channel.
LEMMA SentStep ==
  ASSUME IInv, RoomInv, [RoomNext]_roomVars
  PROVE  SentFollows'
<1>0. [Next]_vars /\ TypeOK
  BY HandlerSteps DEF IInv
<1>1. CASE sent' = sent
  BY <1>0, <1>1, LogKeeps DEF RoomInv, SentFollows
<1>2. ASSUME NEW p \in Conn, Broadcast(p) PROVE SentFollows'
  <2> DEFINE f == [op |-> task[p].op, seq |-> task[p].seq]
  <2>1. sent' = Append(sent, f) /\ task[p].at = "stamped"
    BY <1>2 DEF Broadcast
  <2>2. f \in Frame /\ Logged(f, ledger)
    <3>1. task[p].op \in Op /\ task[p].seq \in Nat
      BY <1>0, <2>1 DEF TypeOK, IsTask
    <3>2. Logged(task[p], ledger)
      BY <2>1 DEF IInv, StampedIsStored
    <3> QED BY <3>1, <3>2 DEF Frame, Logged
  <2> HIDE DEF f
  <2>3. sent \in Seq(Frame) /\ \A k \in DOMAIN sent : Logged(sent[k], ledger')
    BY <1>0, LogKeeps DEF RoomInv, SentFollows
  <2>4. Logged(f, ledger')
    BY <1>0, <2>2, LogKeeps
  <2> QED BY <2>1, <2>2, <2>3, <2>4 DEF SentFollows
<1> QED BY <1>1, <1>2, NetSteps

\* And of what is held for the readers.
LEMMA BuffersStep ==
  ASSUME IInv, RoomInv, [RoomNext]_roomVars
  PROVE  BuffersFollow'
<1>0. [Next]_vars /\ TypeOK
  BY HandlerSteps DEF IInv
<1>a. /\ buffer \in [Conn -> Seq(Frame)]
      /\ \A q \in Conn : \A k \in DOMAIN buffer[q] : Logged(buffer[q][k], ledger')
  BY <1>0, LogKeeps DEF RoomInv, BuffersFollow
<1>1. CASE buffer' = buffer
  BY <1>1, <1>a DEF BuffersFollow
<1>2. ASSUME NEW p \in Conn, HoldApply(p) PROVE BuffersFollow'
  <2> DEFINE f == sent[cursor[p] + 1]
             new == Append(buffer[p], f)
  <2>1. buffer' = Set(buffer, p, new) /\ Running(p) /\ cursor[p] < Len(sent)
    BY <1>2 DEF HoldApply
  <2>2. cursor[p] + 1 \in DOMAIN sent
    BY <2>1 DEF RoomInv, WritersRead, SentFollows
  <2>3. f \in Frame /\ Logged(f, ledger')
    BY <1>0, <2>2, LogKeeps DEF RoomInv, SentFollows
  <2> HIDE DEF f
  <2>4. new \in Seq(Frame) /\ \A k \in DOMAIN new : Logged(new[k], ledger')
    BY <1>a, <2>3
  <2> HIDE DEF new
  <2> QED BY <1>a, <2>1, <2>4 DEF BuffersFollow, Set
<1>3. ASSUME NEW p \in Conn, WriteBatch(p) PROVE BuffersFollow'
  <2>1. buffer' = Set(buffer, p, << >>)
    BY <1>3 DEF WriteBatch
  <2> QED BY <1>a, <2>1 DEF BuffersFollow, Set
<1> QED BY <1>1, <1>2, <1>3, NetSteps

\* And of the Welcomes that wait for their writers.
LEMMA OutboxesStep ==
  ASSUME IInv, RoomInv, [RoomNext]_roomVars
  PROVE  OutboxesFollow'
<1>0. [Next]_vars /\ TypeOK
  BY HandlerSteps DEF IInv
<1>a. ASSUME NEW w, Fits(w, ledger) PROVE Fits(w, ledger')
  BY <1>0, <1>a, LogKeeps DEF Fits
<1>b. /\ DOMAIN outbox = Conn
      /\ \A q \in Conn : outbox[q] = << >> \/ \E w : outbox[q] = <<w>> /\ Fits(w, ledger')
  BY <1>a DEF RoomInv, OutboxesFollow
<1>1. CASE outbox' = outbox
  BY <1>1, <1>b DEF OutboxesFollow
<1>2. ASSUME NEW p \in Conn, SendWelcome(p) PROVE OutboxesFollow'
  <2> DEFINE w == [snap |-> task[p].snap, rows |-> task[p].rows, head |-> task[p].head]
  <2>1. outbox' = Set(outbox, p, <<w>>) /\ task[p].at = "answered"
    BY <1>2 DEF SendWelcome, SeedAck, Is
  <2>2. task[p].snap \in Doc \cup {None} /\ IsRows(task[p].rows) /\ task[p].head \in Nat
    BY <1>0, <2>1 DEF TypeOK, IsTask
  <2>3. FromLog(task[p].snap, ledger) /\ RowsOf(task[p].rows, ledger)
    BY <2>1 DEF IInv, AnswersFollow, Follows
  <2>4. w.snap = task[p].snap /\ w.rows = task[p].rows /\ w.head = task[p].head
    OBVIOUS
  <2> HIDE DEF w
  <2>5. Fits(w, ledger')
    BY <1>a, <2>2, <2>3, <2>4 DEF Fits
  <2>6. DOMAIN outbox' = Conn /\ outbox'[p] = <<w>>
        /\ \A q \in Conn : q # p => outbox'[q] = outbox[q]
    BY <1>b, <2>1, SetSets
  <2> QED BY <1>b, <2>5, <2>6 DEF OutboxesFollow
<1>3. ASSUME NEW p \in Conn, WriteOutbox(p) PROVE OutboxesFollow'
  <2>1. outbox' = Set(outbox, p, Tail(outbox[p])) /\ outbox[p] # << >>
    BY <1>3 DEF WriteOutbox
  <2>a. PICK w : outbox[p] = <<w>>
    BY <1>b, <2>1
  <2>b. Tail(<<w>>) = << >>
    OBVIOUS
  <2>2. outbox' = Set(outbox, p, << >>)
    BY <2>1, <2>a, <2>b, Zenon
  <2>3. DOMAIN outbox' = Conn /\ outbox'[p] = << >>
        /\ \A q \in Conn : q # p => outbox'[q] = outbox[q]
    BY <1>b, <2>2, SetSets
  <2> QED BY <1>b, <2>3 DEF OutboxesFollow
<1> QED BY <1>1, <1>2, <1>3, NetSteps

\* What a step does to the clients: nothing, or one of them moves on along the
\* log, or one of them gets its Welcome.
LEMMA ClientSteps ==
  ASSUME IInv, RoomInv, [RoomNext]_roomVars
  PROVE  \/ view' = view /\ connected' = connected
         \/ /\ ledger' = ledger /\ task' = task
            /\ \E p \in Conn, doc \in Doc :
                 /\ view' = Set(view, p, doc) /\ IsPrefixOf(doc, ledger)
                 /\ \/ Len(doc) >= Len(view[p]) /\ connected' = connected
                    \/ WriteOutbox(p) /\ ~ connected[p] /\ connected' = Set(connected, p, TRUE)
<1> DEFINE Goal(p, doc) ==
             /\ view' = Set(view, p, doc) /\ IsPrefixOf(doc, ledger)
             /\ \/ Len(doc) >= Len(view[p]) /\ connected' = connected
                \/ WriteOutbox(p) /\ ~ connected[p] /\ connected' = Set(connected, p, TRUE)
<1>0. ledger \in Doc /\ \A p \in Conn : view[p] \in Doc /\ IsPrefixOf(view[p], ledger)
  BY DEF IInv, TypeOK, Doc, RoomInv, ViewsFollow
<1>1. ASSUME NEW p \in Conn, WriteOutbox(p)
      PROVE  ledger' = ledger /\ task' = task /\ \E doc \in Doc : Goal(p, doc)
  <2>1. /\ outbox[p] # << >> /\ ledger' = ledger /\ task' = task
        /\ view' = Set(view, p, Welcomed(view[p], Head(outbox[p])))
        /\ connected' = Set(connected, p, TRUE)
    BY <1>1 DEF WriteOutbox, vars
  <2>2. PICK w : outbox[p] = <<w>> /\ Fits(w, ledger)
    BY <2>1 DEF RoomInv, OutboxesFollow
  <2>3. Head(<<w>>) = w
    OBVIOUS
  <2>4. Welcomed(view[p], w) \in Doc /\ IsPrefixOf(Welcomed(view[p], w), ledger)
    BY <1>0, <2>2, WelcomeFollows DEF Fits
  <2>5. view' = Set(view, p, Welcomed(view[p], w))
    BY <2>1, <2>2, <2>3, Zenon
  <2>6. ~ connected[p]
    BY <2>1 DEF RoomInv, WelcomedOnce
  <2>7. Goal(p, Welcomed(view[p], w))
    BY <1>1, <2>1, <2>4, <2>5, <2>6, Zenon
  <2> QED BY <2>1, <2>4, <2>7, Zenon
<1>2. ASSUME NEW p \in Conn, WriteApply(p)
      PROVE  ledger' = ledger /\ task' = task /\ \E doc \in Doc : Goal(p, doc)
  <2> DEFINE f == sent[cursor[p] + 1]
  <2>1. /\ Running(p) /\ cursor[p] < Len(sent) /\ ledger' = ledger /\ task' = task
        /\ view' = Set(view, p, Applied(view[p], f)) /\ connected' = connected
    BY <1>2 DEF WriteApply, vars
  <2>2. cursor[p] + 1 \in DOMAIN sent
    BY <2>1 DEF RoomInv, WritersRead, SentFollows
  <2>3. f \in Frame /\ Logged(f, ledger)
    BY <2>2 DEF RoomInv, SentFollows
  <2> HIDE DEF f
  <2> DEFINE doc == Applied(view[p], f)
  <2>4. doc \in Doc /\ IsPrefixOf(doc, ledger) /\ Len(doc) >= Len(view[p])
    BY <1>0, <2>3, AppliedFollows
  <2>5. Goal(p, doc)
    BY <2>1, <2>4, Zenon
  <2> QED BY <2>1, <2>4, <2>5, Zenon
<1>3. ASSUME NEW p \in Conn, WriteBatch(p)
      PROVE  ledger' = ledger /\ task' = task /\ \E doc \in Doc : Goal(p, doc)
  <2> DEFINE doc == AppliedAll(view[p], buffer[p])
  <2>1. /\ ledger' = ledger /\ task' = task
        /\ view' = Set(view, p, doc) /\ connected' = connected
    BY <1>3 DEF WriteBatch, vars
  <2>2. buffer[p] \in Seq(Frame) /\ \A k \in DOMAIN buffer[p] : Logged(buffer[p][k], ledger)
    BY DEF RoomInv, BuffersFollow
  <2>3. doc \in Doc /\ IsPrefixOf(doc, ledger) /\ Len(doc) >= Len(view[p])
    BY <1>0, <2>2, BatchFollows
  <2>4. Goal(p, doc)
    BY <2>1, <2>3, Zenon
  <2> QED BY <2>1, <2>3, <2>4, Zenon
<1> HIDE DEF Goal
<1>4. \/ view' = view /\ connected' = connected
      \/ ledger' = ledger /\ task' = task /\ \E p \in Conn, doc \in Doc : Goal(p, doc)
  BY <1>1, <1>2, <1>3, NetSteps, Zenon
<1> QED BY <1>4 DEF Goal

\* Every step keeps the clients on prefixes of the log.
LEMMA ViewsStep ==
  ASSUME IInv, RoomInv, [RoomNext]_roomVars
  PROVE  ViewsFollow'
<1>0. [Next]_vars /\ TypeOK
  BY HandlerSteps DEF IInv
<1>1. CASE view' = view
  BY <1>0, <1>1, LogGrows DEF RoomInv, ViewsFollow
<1>2. ASSUME ledger' = ledger, NEW p \in Conn, NEW doc \in Doc,
             view' = Set(view, p, doc), IsPrefixOf(doc, ledger)
      PROVE  ViewsFollow'
  BY <1>2 DEF RoomInv, ViewsFollow, Set
<1> QED BY <1>1, <1>2, ClientSteps

\* A task never goes back to its handshake.
LEMMA JoiningEnds ==
  ASSUME TypeOK, [Next]_vars, NEW q \in Conn, task'[q].at \in Joining
  PROVE  task[q].at \in Joining
<1>1. ASSUME NEW p \in Conn, Connection(p) PROVE task[q].at \in Joining
  <2>1. CASE q # p
    BY <1>1, <2>1, TaskMoves
  <2>2. CASE q = p
    <3>1. ReadHead(q) \/ ReadSnapshot(q) \/ ReadSlice(q)
      BY <1>1, <2>2, TaskMoves DEF Connection, Moves, Joining
    <3> QED BY <1>1, <2>2, <3>1, TaskMoves DEF Moves, Joining
  <2> QED BY <2>1, <2>2
<1>2. CASE \A p \in Conn : ~ Connection(p)
  BY <1>2, OtherSteps DEF Joining
<1> QED BY <1>1, <1>2

\* Every step keeps it so that a client is welcomed once.
LEMMA WelcomedStep ==
  ASSUME IInv, RoomInv, [RoomNext]_roomVars
  PROVE  WelcomedOnce'
<1>0. [Next]_vars /\ TypeOK
  BY HandlerSteps DEF IInv
<1>a. /\ connected \in [Conn -> BOOLEAN] /\ DOMAIN outbox = Conn
      /\ \A q \in Conn : /\ task'[q].at \in Joining => ~ connected[q] /\ outbox[q] = << >>
                         /\ outbox[q] # << >> => ~ connected[q]
  BY <1>0, JoiningEnds DEF RoomInv, WelcomedOnce, OutboxesFollow
<1>1. ASSUME NEW p \in Conn, WriteOutbox(p) PROVE WelcomedOnce'
  <2>1. /\ outbox[p] # << >> /\ outbox' = Set(outbox, p, Tail(outbox[p]))
        /\ connected' = Set(connected, p, TRUE)
    BY <1>1 DEF WriteOutbox
  <2>a. PICK w : outbox[p] = <<w>>
    BY <2>1 DEF RoomInv, OutboxesFollow
  <2>b. Tail(<<w>>) = << >>
    OBVIOUS
  <2>2. outbox' = Set(outbox, p, << >>)
    BY <2>1, <2>a, <2>b, Zenon
  <2>3. outbox'[p] = << >> /\ \A q \in Conn : q # p => outbox'[q] = outbox[q]
    BY <1>a, <2>2, SetSets
  <2>4. /\ connected' \in [Conn -> BOOLEAN]
        /\ \A q \in Conn : q # p => connected'[q] = connected[q]
    BY <1>a, <2>1 DEF Set
  <2>5. task'[p].at \notin Joining
    BY <1>a, <2>1
  <2> QED BY <1>a, <2>3, <2>4, <2>5 DEF WelcomedOnce
<1>2. ASSUME NEW p \in Conn, SendWelcome(p) PROVE WelcomedOnce'
  <2>1. PICK w : outbox' = Set(outbox, p, <<w>>)
    BY <1>2 DEF SendWelcome
  <2>2. connected' = connected /\ SeedAck(p)
    BY <1>2 DEF SendWelcome
  <2>3. \A q \in Conn : q # p => outbox'[q] = outbox[q]
    BY <1>a, <2>1, SetSets
  <2>4. Connection(p)
    BY <2>2 DEF Connection
  <2>5. task[p].at \in Joining /\ task'[p].at \notin Joining
    BY <1>0, <2>2, <2>4, TaskMoves DEF Moves, Joining
  <2>6. ~ connected[p]
    BY <2>5 DEF RoomInv, WelcomedOnce
  <2> QED BY <1>a, <2>2, <2>3, <2>5, <2>6 DEF WelcomedOnce
<1>3. CASE \A p \in Conn : ~ WriteOutbox(p) /\ ~ SendWelcome(p)
  <2>1. outbox' = outbox
    BY <1>3, NetSteps
  <2>2. connected' = connected
    BY <1>3, ClientSteps
  <2> QED BY <1>a, <2>1, <2>2 DEF WelcomedOnce
<1> QED BY <1>1, <1>2, <1>3

\* Every step keeps the receivers within what was broadcast.
LEMMA WritersStep ==
  ASSUME IInv, RoomInv, [RoomNext]_roomVars
  PROVE  WritersRead'
<1> DEFINE Pos(n) == (0..n) \cup {None}
           States == {"none", "running", "lagged", "closed"}
<1>0. /\ cursor \in [Conn -> Pos(Len(sent))] /\ writer \in [Conn -> States]
      /\ \A p \in Conn : writer[p] = "running" => cursor[p] # None
      /\ Len(sent) \in Nat
  BY DEF RoomInv, WritersRead, SentFollows, Running
<1>1. SUFFICES /\ cursor' \in [Conn -> Pos(Len(sent'))] /\ writer' \in [Conn -> States]
               /\ \A p \in Conn : writer'[p] = "running" => cursor'[p] # None
  BY DEF WritersRead, Running
<1> DEFINE Goal == /\ cursor' \in [Conn -> Pos(Len(sent'))] /\ writer' \in [Conn -> States]
                   /\ \A p \in Conn : writer'[p] = "running" => cursor'[p] # None
<1>a. ASSUME NEW p \in Conn, NEW n \in 0..Len(sent), sent' = sent, cursor' = Set(cursor, p, n),
             writer' = writer \/ writer' = Set(writer, p, "running")
      PROVE  Goal
  <2>1. n # None
    BY StoreAssumption
  <2> QED BY <1>0, <1>a, <2>1 DEF Set
<1>b. ASSUME NEW p \in Conn, sent' = sent, cursor' = cursor,
             writer' = Set(writer, p, "lagged") \/ writer' = Set(writer, p, "closed")
      PROVE  Goal
  BY <1>0, <1>b DEF Set
<1>c. ASSUME cursor' = cursor, writer' = writer, Len(sent') \in Nat, Len(sent') >= Len(sent)
      PROVE  Goal
  BY <1>0, <1>c
<1> HIDE DEF Goal, Pos, States
<1>2. ASSUME NEW p \in Conn, Subscribe(p) PROVE Goal
  <2>1. /\ cursor' = Set(cursor, p, Len(sent)) /\ writer' = Set(writer, p, "running")
        /\ sent' = sent
    BY <1>2 DEF Subscribe
  <2>2. Len(sent) \in 0..Len(sent)
    BY <1>0
  <2> QED BY <1>a, <2>1, <2>2
<1>3. ASSUME NEW p \in Conn, WriteApply(p) \/ HoldApply(p) PROVE Goal
  <2>1. /\ cursor' = Set(cursor, p, cursor[p] + 1) /\ writer' = writer /\ sent' = sent
        /\ writer[p] = "running" /\ cursor[p] < Len(sent)
    BY <1>3 DEF WriteApply, HoldApply, Running
  <2>2. cursor[p] + 1 \in 0..Len(sent)
    BY <1>0, <2>1 DEF Pos
  <2> QED BY <1>a, <2>1, <2>2
<1>4. ASSUME NEW p \in Conn, Leave(p) \/ WriterLags(p) PROVE Goal
  BY <1>b, <1>4 DEF Leave, WriterLags
<1>5. ASSUME NEW p \in Conn, Broadcast(p) PROVE Goal
  <2>1. PICK f : sent' = Append(sent, f)
    BY <1>5 DEF Broadcast
  <2>2. cursor' = cursor /\ writer' = writer
    BY <1>5 DEF Broadcast
  <2>3. Len(sent') = Len(sent) + 1
    BY <2>1 DEF RoomInv, SentFollows
  <2> QED BY <1>0, <1>c, <2>2, <2>3
<1>6. ASSUME sent' = sent, cursor' = cursor, writer' = writer PROVE Goal
  BY <1>0, <1>c, <1>6
<1>7. Goal
  <2>1. CASE \E p \in Conn : \/ Subscribe(p) \/ WriteApply(p) \/ HoldApply(p) \/ Leave(p)
                             \/ WriterLags(p) \/ Broadcast(p)
    BY <1>2, <1>3, <1>4, <1>5, <2>1, Zenon
  <2>2. CASE \A p \in Conn : /\ ~ Subscribe(p) /\ ~ WriteApply(p) /\ ~ HoldApply(p)
                             /\ ~ Leave(p) /\ ~ WriterLags(p) /\ ~ Broadcast(p)
    <3>1. sent' = sent /\ cursor' = cursor /\ writer' = writer
      BY <2>2, NetSteps, Zenon
    <3> QED BY <1>6, <3>1
  <2> QED BY <2>1, <2>2, Zenon
<1> QED BY <1>7 DEF Goal

\* Every step keeps the type of the history of the holes.
LEMMA RacesStep ==
  ASSUME IInv, RoomInv, [RoomNext]_roomVars
  PROVE  RacesAreKnown'
<1> DEFINE Races == SUBSET {"compacted", "unstamped", "unsubscribed", "overtaken"}
<1>0. raced \in [Conn -> Races]
  BY DEF RoomInv, RacesAreKnown
<1>a. ASSUME NEW p \in Conn, NEW more \in Races, raced' = [raced EXCEPT ![p] = @ \cup more]
      PROVE  RacesAreKnown'
  BY <1>0, <1>a DEF RacesAreKnown
<1>b. raced' = raced => RacesAreKnown'
  BY <1>0 DEF RacesAreKnown
<1> HIDE DEF Races
<1>1. ASSUME NEW p \in Conn, SendWelcome(p) PROVE RacesAreKnown'
  <2> DEFINE more == Shortfall(p)
  <2>1. more \in Races
    BY DEF Races, Shortfall
  <2>2. raced' = [raced EXCEPT ![p] = @ \cup more]
    BY <1>1 DEF SendWelcome
  <2> QED BY <1>a, <2>1, <2>2
<1>2. ASSUME NEW p \in Conn, Subscribe(p) PROVE RacesAreKnown'
  <2> DEFINE more == IF \E k \in DOMAIN sent : sent[k].seq > outbox[p][1].head
                     THEN {"unsubscribed"} ELSE {}
  <2>1. more \in Races
    BY DEF Races
  <2>2. raced' = [raced EXCEPT ![p] = @ \cup more]
    BY <1>2 DEF Subscribe
  <2> QED BY <1>a, <2>1, <2>2
<1>3. ASSUME NEW p \in Conn, WriteApply(p) \/ WriteBatch(p) PROVE RacesAreKnown'
  <2>1. Overtakes(p) \in Races
    BY DEF Races, Overtakes
  <2>2. raced' = [raced EXCEPT ![p] = @ \cup Overtakes(p)]
    BY <1>3 DEF WriteApply, WriteBatch
  <2> QED BY <1>a, <2>1, <2>2
<1>4. ASSUME NEW p \in Conn,
             \/ Hello(p) \/ Submit(p) \/ Ack(p) \/ Leave(p) \/ Greet(p) \/ Stamp(p)
             \/ Broadcast(p) \/ WriteOutbox(p) \/ HoldApply(p) \/ WriterLags(p)
      PROVE  raced' = raced
  BY <1>4 DEF Hello, Submit, Ack, Leave, Greet, Stamp, Broadcast, WriteOutbox, HoldApply,
              WriterLags, net
<1>5. Loops \/ UNCHANGED roomVars => raced' = raced
  BY DEF Loops, roomVars, net
<1> QED BY <1>b, <1>1, <1>2, <1>3, <1>4, <1>5, Zenon DEF RoomNext, Serve, Write

-----------------------------------------------------------------------------
\* The room's invariant holds initially and every step keeps it.
LEMMA RoomInductive == RoomSpec => []RoomInv
<1>1. RoomInit => RoomInv
  <2> SUFFICES ASSUME RoomInit PROVE RoomInv
    OBVIOUS
  <2>1. \A p \in Conn : task[p].at = "new"
    BY DEF RoomInit, Init
  <2>3. SentFollows /\ BuffersFollow /\ OutboxesFollow
    BY DEF RoomInit, SentFollows, BuffersFollow, OutboxesFollow
  <2>4. ViewsFollow
    BY DEF RoomInit, Init, ViewsFollow, Doc, IsPrefixOf
  <2>5. WelcomedOnce
    BY DEF RoomInit, WelcomedOnce
  <2>6. WritersRead /\ RacesAreKnown
    BY DEF RoomInit, WritersRead, RacesAreKnown, Running
  <2> QED BY <2>3, <2>4, <2>5, <2>6 DEF RoomInv
<1>2. IInv /\ RoomInv /\ [RoomNext]_roomVars => RoomInv'
  <2> SUFFICES ASSUME IInv, RoomInv, [RoomNext]_roomVars PROVE RoomInv'
    OBVIOUS
  <2>2. SentFollows' /\ BuffersFollow' /\ OutboxesFollow' /\ ViewsFollow'
    BY SentStep, BuffersStep, OutboxesStep, ViewsStep
  <2>3. WelcomedOnce' /\ WritersRead' /\ RacesAreKnown'
    BY WelcomedStep, WritersStep, RacesStep
  <2> QED BY <2>2, <2>3 DEF RoomInv
<1> QED BY <1>1, <1>2, HandlerInvariant, PTL DEF RoomSpec

\* No receiver is ever past what was broadcast, and no connection has more than
\* one Welcome to send (room_ws.rs: serve and the writers).
THEOREM RoomTypes == RoomSpec => []RoomTypeOK
<1>1. RoomInv => RoomTypeOK
  <2> SUFFICES ASSUME RoomInv PROVE RoomTypeOK
    OBVIOUS
  <2>1. \A p \in Conn : Len(outbox[p]) <= 1
    <3> SUFFICES ASSUME NEW p \in Conn PROVE Len(outbox[p]) <= 1
      OBVIOUS
    <3>1. CASE outbox[p] = << >>
      BY <3>1
    <3>2. ASSUME NEW w, outbox[p] = <<w>> PROVE Len(outbox[p]) <= 1
      BY <3>2
    <3> QED BY <3>1, <3>2 DEF RoomInv, OutboxesFollow
  <2> QED BY <2>1 DEF RoomInv, RoomTypeOK, SentFollows, BuffersFollow, ViewsFollow, WelcomedOnce,
                      WritersRead, RacesAreKnown, Frame
<1> QED BY <1>1, RoomInductive, PTL

\* A prefix of a sequence is one of its initial subsequences.
LEMMA PrefixIsSubSeq ==
  ASSUME NEW log \in Doc, NEW doc \in Doc, IsPrefixOf(doc, log)
  PROVE  Len(doc) \in 0..Len(log) /\ doc = SubSeq(log, 1, Len(doc))
BY DEF Doc, IsPrefixOf

\* Every step of the room is a step the promise allows, or none of its own.
LEMMA PromiseStep ==
  ASSUME IInv, RoomInv, [RoomNext]_roomVars
  PROVE  [Promise!Next]_Promise!vars
<1>0. [Next]_vars /\ TypeOK /\ ledger \in Doc
  BY HandlerSteps DEF IInv, TypeOK, Doc
<1>1. CASE view' = view /\ connected' = connected
  <2>1. ledger' = ledger \/ \E op \in Op : ledger' = Append(ledger, op)
    BY <1>0, LogGrows
  <2>2. ledger' = ledger => UNCHANGED Promise!vars
    BY <1>1 DEF Promise!vars
  <2>3. (\E op \in Op : ledger' = Append(ledger, op)) => Promise!Submit
    BY <1>1 DEF Promise!Submit
  <2> QED BY <2>1, <2>2, <2>3 DEF Promise!Next
<1>2. ASSUME ledger' = ledger, NEW p \in Conn, NEW doc \in Doc,
             view' = Set(view, p, doc), IsPrefixOf(doc, ledger)
      PROVE  /\ Len(doc) >= Len(view[p]) /\ connected' = connected => Promise!Advance(p)
             /\ ~ connected[p] /\ connected' = Set(connected, p, TRUE) => Promise!Welcome(p)
  <2> DEFINE n == Len(doc)
  <2>1. n \in 0..Len(ledger) /\ view' = [view EXCEPT ![p] = SubSeq(ledger, 1, n)]
    BY <1>0, <1>2, PrefixIsSubSeq DEF Set
  <2>2. Len(view[p]) \in Nat /\ Len(ledger) \in Nat
    BY <1>0 DEF RoomInv, ViewsFollow, Doc
  <2> HIDE DEF n
  <2>3. ASSUME n >= Len(view[p]), connected' = connected PROVE Promise!Advance(p)
    <3>1. n \in Len(view[p])..Len(ledger)
      BY <2>1, <2>2, <2>3
    <3> QED BY <1>2, <2>1, <2>3, <3>1 DEF Promise!Advance
  <2>4. ASSUME ~ connected[p], connected' = Set(connected, p, TRUE) PROVE Promise!Welcome(p)
    BY <1>2, <2>1, <2>4 DEF Promise!Welcome, Set
  <2> QED BY <2>3, <2>4 DEF n
<1> QED BY <1>1, <1>2, ClientSteps DEF Promise!Next

\* What a room promises is kept, whatever its connections, its loops and its
\* channel interleave to: one log that only grows, and clients that show a
\* prefix of it, are welcomed once and never go back (room.rs, room_ws.rs,
\* plugin.rs: apply_one).
THEOREM KeepsPromise == RoomSpec => ImplementsLog
<1>1. RoomInit => Promise!Init
  BY DEF RoomInit, Init, Promise!Init
<1>2. IInv /\ RoomInv /\ [RoomNext]_roomVars => [Promise!Next]_Promise!vars
  BY PromiseStep
<1> QED BY <1>1, <1>2, HandlerInvariant, RoomInductive, PTL DEF RoomSpec, ImplementsLog, Promise!Spec

-----------------------------------------------------------------------------
(* Holes.  What a client misses is traced to the races it has a part in.     *)

\* No step of the room is a fault.
LEMMA RoomFaultless == RoomSpec => []NoFaults
<1>1. RoomInit => NoFaults
  BY DEF RoomInit, Init, NoFaults
<1>2. NoFaults /\ [RoomNext]_roomVars => NoFaults'
  <2> SUFFICES ASSUME NoFaults, [RoomNext]_roomVars PROVE faults' = faults
    BY DEF NoFaults
  <2>1. ASSUME NEW p \in Conn, Hello(p) \/ Submit(p) \/ Ack(p) \/ Leave(p) PROVE faults' = faults
    BY <2>1 DEF Hello, ReadHead, Submit, submit, Ack, Ping, Leave, release_peer
  <2>2. ASSUME NEW p \in Conn, Serve(p) PROVE faults' = faults
    BY <2>2 DEF Serve, Greet, ReadSnapshot, ReadSlice, SendWelcome, SeedAck, Subscribe, Stamp,
                AppendOp, ApplyToMirror, Broadcast, Reply, vars
  <2>3. ASSUME NEW p \in Conn, WriteOutbox(p) \/ Write(p) \/ WriteBatch(p) PROVE faults' = faults
    BY <2>3 DEF WriteOutbox, Write, WriteApply, HoldApply, WriterLags, WriteBatch, vars
  <2>4. Loops \/ UNCHANGED roomVars => faults' = faults
    BY DEF Loops, TakeSnapshot, SaveSnapshot, GcReadAcks, GcReadSnapshot, GcCompact, roomVars, vars
  <2> QED BY <2>1, <2>2, <2>3, <2>4 DEF RoomNext
<1> QED BY <1>1, <1>2, PTL DEF RoomSpec

\* A connection's task moves by a step of its own.
LEMMA RoomTaskSteps ==
  ASSUME TypeOK, [RoomNext]_roomVars, NEW q \in Conn
  PROVE  \/ task'[q] = task[q]
         \/ Hello(q) \/ Submit(q) \/ Leave(q) \/ Greet(q) \/ SendWelcome(q) \/ Stamp(q)
         \/ Broadcast(q)
<1> DEFINE Goal == \/ task'[q] = task[q]
                   \/ Hello(q) \/ Submit(q) \/ Leave(q) \/ Greet(q) \/ SendWelcome(q) \/ Stamp(q)
                   \/ Broadcast(q)
<1>1. ASSUME NEW p \in Conn,
             \/ Hello(p) \/ Submit(p) \/ Leave(p) \/ Greet(p) \/ SendWelcome(p) \/ Stamp(p)
             \/ Broadcast(p)
      PROVE  Goal
  <2>1. CASE p = q
    BY <1>1, <2>1
  <2>2. CASE p # q
    <3>1. Connection(p)
      BY <1>1, Zenon DEF Hello, Submit, Leave, Greet, SendWelcome, Stamp, Broadcast, Connection
    <3> QED BY <2>2, <3>1, TaskMoves
  <2> QED BY <2>1, <2>2
<1>2. ASSUME NEW p \in Conn,
             \/ Ack(p) \/ Subscribe(p) \/ WriteOutbox(p) \/ WriteApply(p) \/ HoldApply(p)
             \/ WriterLags(p) \/ WriteBatch(p)
      PROVE  Goal
  BY <1>2 DEF Ack, Ping, Subscribe, WriteOutbox, WriteApply, HoldApply, WriterLags, WriteBatch, vars
<1>3. Loops \/ UNCHANGED roomVars => Goal
  BY DEF Loops, TakeSnapshot, SaveSnapshot, GcReadAcks, GcReadSnapshot, GcCompact, roomVars, vars
<1> HIDE DEF Goal
<1>4. Goal
  BY <1>1, <1>2, <1>3, Zenon DEF RoomNext, Serve, Write
<1> QED BY <1>4 DEF Goal

\* Every op the room was given was broadcast or is about to be.
Stored == {"appended", "stamped"}

Held(n) == \E q \in Conn : task[q].at \in Stored /\ task[q].seq = n
Cast(n) == \E k \in DOMAIN sent : sent[k].seq = n

SentOrHeld == \A n \in 1..room.head : Cast(n) \/ Held(n)

\* Only its own append and its own broadcast change what a task holds.
LEMMA HolderSteps ==
  ASSUME IInv, NoFaults, [RoomNext]_roomVars, NEW q \in Conn, task[q].at \in Stored
  PROVE  \/ task'[q].at \in Stored /\ task'[q].seq = task[q].seq
         \/ Broadcast(q)
<1> TypeOK /\ MirrorKeepsUp
  BY DEF IInv
<1>1. ASSUME Hello(q) \/ Submit(q) \/ Leave(q) \/ Greet(q) \/ SendWelcome(q) PROVE FALSE
  <2>1. task[q].at \in {"new", "reading", "head read", "snapshot read", "answered"}
    BY <1>1 DEF Hello, ReadHead, Submit, submit, Leave, release_peer, Greet, ReadSnapshot,
                ReadSlice, SendWelcome, SeedAck, Is
  <2> QED BY <2>1 DEF Stored
<1>2. ASSUME AppendOp(q) PROVE FALSE
  BY <1>2 DEF AppendOp, Is, Stored
<1>3. ASSUME ApplyToMirror(q) PROVE task'[q].at \in Stored /\ task'[q].seq = task[q].seq
  <2> DEFINE t == task[q]
  <2>1. t.at = "appended"
    BY <1>3 DEF ApplyToMirror, Is
  <2>2. t \in [at : {"appended", "stamped"}, op : Op, seq : Nat]
    BY <2>1 DEF TypeOK, IsTask
  <2>3. t.seq = Len(mirror) + 1
    BY <2>1 DEF MirrorKeepsUp, NoFaults
  <2>4. task'[q] = [t EXCEPT !.at = "stamped"]
    BY <1>3, <2>3 DEF ApplyToMirror, Goto, TypeOK
  <2> HIDE DEF t
  <2>5. [t EXCEPT !.at = "stamped"].at = "stamped" /\ [t EXCEPT !.at = "stamped"].seq = t.seq
    BY <2>2
  <2>6. task'[q].at = "stamped" /\ task'[q].seq = t.seq
    BY <2>4, <2>5
  <2> QED BY <2>6 DEF Stored, t
<1> QED BY <1>1, <1>2, <1>3, RoomTaskSteps DEF Stamp

\* Every step keeps it so.
LEMMA SentOrHeldStep ==
  ASSUME IInv, RoomInv, NoFaults, SentOrHeld, [RoomNext]_roomVars
  PROVE  SentOrHeld'
<1> /\ TypeOK /\ LogIsDense /\ [Next]_vars
    /\ IsRoom(room) /\ room.head \in Nat
    /\ sent \in Seq(Frame)
  BY HandlerSteps DEF IInv, TypeOK, LogInv, IsRoom, RoomInv, SentFollows
<1>1. ASSUME NEW n, Cast(n) PROVE Cast(n)'
  <2>1. PICK k \in DOMAIN sent : sent[k].seq = n
    BY <1>1 DEF Cast
  <2>2. CASE sent' = sent
    BY <2>1, <2>2 DEF Cast
  <2>3. ASSUME NEW f, sent' = Append(sent, f) PROVE Cast(n)'
    <3>1. k \in DOMAIN sent' /\ sent'[k] = sent[k]
      BY <2>3
    <3> QED BY <2>1, <3>1 DEF Cast
  <2>4. sent' = sent \/ \E f : sent' = Append(sent, f)
    BY NetSteps DEF Broadcast
  <2> QED BY <2>2, <2>3, <2>4
<1>2. ASSUME NEW n, Held(n) PROVE Cast(n)' \/ Held(n)'
  <2>1. PICK q \in Conn : task[q].at \in Stored /\ task[q].seq = n
    BY <1>2 DEF Held
  <2>2. CASE task'[q].at \in Stored /\ task'[q].seq = task[q].seq
    BY <2>1, <2>2 DEF Held
  <2>3. CASE Broadcast(q)
    <3> DEFINE f == [op |-> task[q].op, seq |-> task[q].seq]
    <3>1. sent' = Append(sent, f)
      BY <2>3 DEF Broadcast
    <3>2. f.seq = n
      BY <2>1
    <3> HIDE DEF f
    <3>3. Len(sent) + 1 \in DOMAIN sent' /\ sent'[Len(sent) + 1] = f
      BY <3>1
    <3> QED BY <3>2, <3>3 DEF Cast
  <2> QED BY <2>1, <2>2, <2>3, HolderSteps
<1>3. \/ room'.head = room.head
      \/ /\ room'.head = room.head + 1
         /\ \E p \in Conn : task'[p].at \in Stored /\ task'[p].seq = room.head + 1
  <2>1. ASSUME NEW p \in Conn, AppendOp(p)
        PROVE  task'[p].at \in Stored /\ task'[p].seq = room.head + 1
    BY <2>1, TaskCarries DEF Stored
  <2>2. ASSUME NEW p \in Conn, AppendOp(p) PROVE room'.head = room.head + 1
    <3>1. room' = append(room, task[p].op)
      BY <2>2 DEF AppendOp
    <3> QED BY <3>1, AppendFields
  <2>3. ASSUME \A p \in Conn : ~ AppendOp(p) PROVE room'.head = room.head
    <3>1. ASSUME NEW p \in Conn, Hello(p) \/ Submit(p) \/ Greet(p) \/ Subscribe(p) \/ Broadcast(p)
                                 \/ ApplyToMirror(p)
          PROVE  room' = room
      BY <3>1 DEF Hello, ReadHead, Submit, submit, Greet, ReadSnapshot, ReadSlice, Subscribe,
                  Broadcast, Reply, ApplyToMirror, vars
    <3>2. ASSUME NEW p \in Conn, Ack(p) \/ SendWelcome(p) PROVE room'.head = room.head
      <4>1. PICK n : room' = record_ack(room, p, n)
        BY <3>2 DEF Ack, Ping, SendWelcome, SeedAck
      <4> QED BY <4>1, AckFields
    <3>3. ASSUME NEW p \in Conn, Leave(p) PROVE room'.head = room.head
      BY <3>3, ClearFields DEF Leave, release_peer
    <3>4. ASSUME NEW p \in Conn, WriteOutbox(p) \/ Write(p) \/ WriteBatch(p) PROVE room' = room
      BY <3>4 DEF WriteOutbox, Write, WriteApply, HoldApply, WriterLags, WriteBatch, vars
    <3>5. CASE Loops
      <4>1. ASSUME SaveSnapshot PROVE room'.head = room.head
        BY <4>1, SaveLeaves
      <4>2. ASSUME GcCompact PROVE room'.head = room.head
        <5>1. room' = compact_below(room, gc.upper)
          BY <4>2 DEF GcCompact
        <5> QED BY <5>1, CompactFields
      <4> QED BY <3>5, <4>1, <4>2 DEF Loops, TakeSnapshot, GcReadAcks, GcReadSnapshot
    <3>6. UNCHANGED roomVars => room' = room
      BY DEF roomVars, vars
    <3> QED BY <2>3, <3>1, <3>2, <3>3, <3>4, <3>5, <3>6 DEF RoomNext, Serve, Stamp
  <2> QED BY <2>1, <2>2, <2>3
<1>4. ASSUME NEW n \in 1..room'.head PROVE Cast(n)' \/ Held(n)'
  <2>1. CASE n \in 1..room.head
    BY <1>1, <1>2, <2>1 DEF SentOrHeld
  <2>2. CASE n \notin 1..room.head
    <3>1. room'.head = room.head + 1 /\ n = room.head + 1
      BY <1>3, <2>2
    <3>2. \E p \in Conn : task'[p].at \in Stored /\ task'[p].seq = n
      BY <1>3, <3>1
    <3> QED BY <3>2 DEF Held
  <2> QED BY <2>1, <2>2
<1> QED BY <1>4 DEF SentOrHeld

\* The parts of q's connection that the channel and the writers move.
Ends(q) == <<cursor[q], outbox[q], writer[q], buffer[q], view[q], connected[q], raced[q]>>

\* What an update of one entry leaves of q's.
LEMMA SetOthers ==
  ASSUME NEW f, NEW p, NEW q, q \in DOMAIN f, q # p, NEW x
  PROVE  Set(f, p, x)[q] = f[q]
BY DEF Set

\* And what an update of the history leaves of it.
LEMMA RacedOthers ==
  ASSUME RoomInv, NEW p \in Conn, NEW q \in Conn, q # p, NEW more,
         raced' = [raced EXCEPT ![p] = @ \cup more]
  PROVE  raced'[q] = raced[q]
BY DEF RoomInv, RacesAreKnown

\* Only the steps of q's own connection move them.
LEMMA NetAlone ==
  ASSUME RoomInv, [RoomNext]_roomVars, NEW q \in Conn
  PROVE  \/ UNCHANGED Ends(q)
         \/ /\ sent' = sent
            /\ \/ SendWelcome(q) \/ Subscribe(q) \/ Leave(q) \/ WriteOutbox(q) \/ WriteApply(q)
               \/ HoldApply(q) \/ WriteBatch(q) \/ WriterLags(q)
<1> DEFINE Own(p) == \/ SendWelcome(p) \/ Subscribe(p) \/ Leave(p) \/ WriteOutbox(p)
                     \/ WriteApply(p) \/ HoldApply(p) \/ WriteBatch(p) \/ WriterLags(p)
<1>0. /\ q \in DOMAIN cursor /\ q \in DOMAIN outbox /\ q \in DOMAIN writer
      /\ q \in DOMAIN buffer /\ q \in DOMAIN view /\ q \in DOMAIN connected
  BY DEF RoomInv, BuffersFollow, OutboxesFollow, ViewsFollow, WelcomedOnce, WritersRead
<1>1. UNCHANGED net => UNCHANGED Ends(q)
  BY DEF net, Ends
<1>2. ASSUME NEW p \in Conn, p # q, Own(p) PROVE UNCHANGED Ends(q)
  <2>1. SendWelcome(p) => UNCHANGED Ends(q)
    BY <1>0, <1>2, SetOthers, RacedOthers DEF SendWelcome, Ends
  <2>2. Subscribe(p) => UNCHANGED Ends(q)
    BY <1>0, <1>2, SetOthers, RacedOthers DEF Subscribe, Ends
  <2>3. Leave(p) => UNCHANGED Ends(q)
    BY <1>0, <1>2, SetOthers DEF Leave, Ends
  <2>4. WriteOutbox(p) => UNCHANGED Ends(q)
    <3> SUFFICES ASSUME WriteOutbox(p) PROVE UNCHANGED Ends(q)
      OBVIOUS
    <3>1. /\ outbox' = Set(outbox, p, Tail(outbox[p]))
          /\ view' = Set(view, p, Welcomed(view[p], Head(outbox[p])))
          /\ connected' = Set(connected, p, TRUE)
      BY DEF WriteOutbox
    <3>2. outbox'[q] = outbox[q] /\ view'[q] = view[q]
      BY <1>0, <1>2, <3>1, SetOthers
    <3>3. connected'[q] = connected[q]
      BY <1>0, <1>2, <3>1 DEF Set
    <3> QED BY <3>2, <3>3 DEF WriteOutbox, Ends
  <2>5. WriteApply(p) => UNCHANGED Ends(q)
    BY <1>0, <1>2, SetOthers, RacedOthers DEF WriteApply, Ends
  <2>6. HoldApply(p) => UNCHANGED Ends(q)
    BY <1>0, <1>2, SetOthers DEF HoldApply, Ends
  <2>7. WriteBatch(p) => UNCHANGED Ends(q)
    BY <1>0, <1>2, SetOthers, RacedOthers DEF WriteBatch, Ends
  <2>8. WriterLags(p) => UNCHANGED Ends(q)
    BY <1>0, <1>2, SetOthers DEF WriterLags, Ends
  <2> QED BY <1>2, <2>1, <2>2, <2>3, <2>4, <2>5, <2>6, <2>7, <2>8
<1>3. Own(q) => sent' = sent
  BY DEF SendWelcome, Subscribe, Leave, WriteOutbox, WriteApply, HoldApply, WriteBatch, WriterLags
<1>4. ASSUME NEW p \in Conn, Broadcast(p) PROVE UNCHANGED Ends(q)
  BY <1>4 DEF Broadcast, Ends
<1>5. ASSUME NEW p \in Conn, Hello(p) \/ Submit(p) \/ Ack(p) \/ Greet(p) \/ Stamp(p)
      PROVE  UNCHANGED Ends(q)
  BY <1>1, <1>5, Zenon DEF Hello, Submit, Ack, Greet, Stamp
<1>6. Loops \/ UNCHANGED roomVars => UNCHANGED Ends(q)
  BY <1>1 DEF Loops, roomVars
<1>7. ASSUME NEW p \in Conn, Own(p) PROVE UNCHANGED Ends(q) \/ Own(q)
  <2>1. CASE p = q
    BY <1>7, <2>1
  <2>2. CASE p # q
    BY <1>2, <1>7, <2>2
  <2> QED BY <2>1, <2>2
<1>8. UNCHANGED Ends(q) \/ Own(q)
  BY <1>4, <1>5, <1>6, <1>7, Zenon DEF RoomNext, Serve, Write
<1> QED BY <1>3, <1>8

\* A connection starts afresh, subscribes after its handshake, and shows its
\* Welcome before it counts as connected; only a reader's ops are held.
Stages ==
    \A p \in Conn :
      /\ task[p].at \in Joining => cursor[p] = None
      /\ task[p].at \in Joining /\ task[p].at # "new" => task[p].since = 0
      /\ cursor[p] = None => buffer[p] = << >> /\ ~ connected[p]
      /\ ~ connected[p] /\ task[p].at \notin Joining => outbox[p] # << >>
      /\ p \notin Reader => buffer[p] = << >>

\* Of the room's steps only the Welcome ends a handshake.
LEMMA JoiningSteps ==
  ASSUME TypeOK, [RoomNext]_roomVars, NEW q \in Conn
  PROVE  /\ task'[q].at \in Joining => task[q].at \in Joining
         /\ task[q].at \in Joining /\ task'[q].at \notin Joining => SendWelcome(q)
         /\ task'[q].at \in Joining /\ task'[q].at # "new" =>
              \/ task'[q].since = 0
              \/ task[q].at # "new" /\ task'[q].since = task[q].since
<1>1. CASE task'[q] = task[q]
  BY <1>1
<1>2. CASE Hello(q)
  <2>1. ReadHead(q) /\ Connection(q) /\ task'[q].since = 0
    BY <1>2 DEF Hello, Connection
  <2>2. task[q].at = "new" /\ task'[q].at \in {"answered", "head read"}
    BY <2>1, TaskMoves DEF Moves
  <2> QED BY <2>1, <2>2 DEF Joining
<1>3. CASE Greet(q)
  <2>1. (ReadSnapshot(q) \/ ReadSlice(q)) /\ Connection(q)
    BY <1>3 DEF Greet, Connection
  <2>2. task[q].at \in {"head read", "snapshot read"}
        /\ task'[q].at \in {"snapshot read", "answered"}
    BY <2>1, TaskMoves DEF Moves
  <2>3. task'[q].since = task[q].since
    BY <2>1, TaskCarries
  <2> QED BY <2>2, <2>3 DEF Joining
<1>4. CASE SendWelcome(q)
  <2>1. SeedAck(q) /\ Connection(q)
    BY <1>4 DEF SendWelcome, Connection
  <2>2. task[q].at = "answered" /\ task'[q].at = "reading"
    BY <2>1, TaskMoves DEF Moves
  <2> QED BY <1>4, <2>2 DEF Joining
<1>5. CASE Submit(q) \/ Leave(q) \/ Stamp(q) \/ Broadcast(q)
  <2>1. /\ Connection(q)
        /\ submit(q) \/ release_peer(q) \/ AppendOp(q) \/ ApplyToMirror(q) \/ Reply(q)
    BY <1>5, Zenon DEF Submit, Leave, Stamp, Broadcast, Connection
  <2>2. /\ task[q].at \in {"reading", "locking", "appended", "caught up", "stamped"}
        /\ task'[q].at \in {"locking", "gone", "appended", "reading", "stamped"}
    BY <2>1, TaskMoves DEF Moves
  <2> QED BY <2>2 DEF Joining
<1> QED BY <1>1, <1>2, <1>3, <1>4, <1>5, RoomTaskSteps

\* Every step keeps the stages of the connections.
LEMMA StagesStep ==
  ASSUME IInv, RoomInv, Stages, [RoomNext]_roomVars
  PROVE  Stages'
<1> SUFFICES ASSUME NEW q \in Conn
             PROVE  /\ task'[q].at \in Joining => cursor'[q] = None
                    /\ task'[q].at \in Joining /\ task'[q].at # "new" => task'[q].since = 0
                    /\ cursor'[q] = None => buffer'[q] = << >> /\ ~ connected'[q]
                    /\ ~ connected'[q] /\ task'[q].at \notin Joining => outbox'[q] # << >>
                    /\ q \notin Reader => buffer'[q] = << >>
  BY DEF Stages
<1>0. /\ task[q].at \in Joining => cursor[q] = None
      /\ task[q].at \in Joining /\ task[q].at # "new" => task[q].since = 0
      /\ cursor[q] = None => buffer[q] = << >> /\ ~ connected[q]
      /\ ~ connected[q] /\ task[q].at \notin Joining => outbox[q] # << >>
      /\ q \notin Reader => buffer[q] = << >>
  BY DEF Stages
<1>1. /\ task'[q].at \in Joining => task[q].at \in Joining
      /\ task[q].at \in Joining /\ task'[q].at \notin Joining => SendWelcome(q)
      /\ task'[q].at \in Joining /\ task'[q].at # "new" =>
           \/ task'[q].since = 0
           \/ task[q].at # "new" /\ task'[q].since = task[q].since
  BY JoiningSteps DEF IInv
<1>2. /\ cursor \in [Conn -> (0..Len(sent)) \cup {None}] /\ Len(sent) \in Nat
      /\ Running(q) => cursor[q] # None
      /\ DOMAIN outbox = Conn /\ DOMAIN buffer = Conn /\ DOMAIN connected = Conn
      /\ connected[q] \in BOOLEAN
  BY DEF RoomInv, WritersRead, SentFollows, OutboxesFollow, BuffersFollow, WelcomedOnce
<1>a. task'[q].at \in Joining /\ task'[q].at # "new" => task'[q].since = 0
  BY <1>0, <1>1
<1>b. \A n \in Nat : n # None
  BY StoreAssumption
<1>3. CASE UNCHANGED Ends(q)
  <2>1. /\ cursor'[q] = cursor[q] /\ outbox'[q] = outbox[q]
        /\ buffer'[q] = buffer[q] /\ connected'[q] = connected[q]
    BY <1>3 DEF Ends
  <2>2. task[q].at \in Joining /\ task'[q].at \notin Joining => outbox'[q] # << >>
    <3>1. ASSUME NEW w, SendWelcome(q), outbox' = Set(outbox, q, <<w>>)
          PROVE  outbox'[q] # << >>
      BY <1>2, <1>3, <3>1 DEF Set
    <3> QED BY <1>1, <3>1 DEF SendWelcome
  <2> QED BY <1>0, <1>1, <1>a, <2>1, <2>2
<1>4. CASE SendWelcome(q)
  <2>1. PICK w : outbox' = Set(outbox, q, <<w>>)
    BY <1>4 DEF SendWelcome
  <2>2. outbox'[q] # << >>
    BY <1>2, <2>1 DEF Set
  <2>3. cursor' = cursor /\ buffer' = buffer /\ connected' = connected
    BY <1>4 DEF SendWelcome
  <2> QED BY <1>0, <1>1, <1>a, <2>2, <2>3
<1>5. CASE Subscribe(q)
  <2>1. /\ cursor'[q] = Len(sent) /\ outbox' = outbox /\ buffer' = buffer /\ connected' = connected
        /\ task' = task /\ task[q].at = "reading"
    BY <1>2, <1>5 DEF Subscribe, Set, vars, Is
  <2>2. task'[q].at \notin Joining
    BY <2>1 DEF Joining
  <2>3. cursor'[q] # None
    BY <1>2, <1>b, <2>1
  <2> QED BY <1>0, <2>1, <2>2, <2>3
<1>6. CASE Leave(q) \/ WriterLags(q)
  <2>1. cursor' = cursor /\ outbox' = outbox /\ buffer' = buffer /\ connected' = connected
    BY <1>6 DEF Leave, WriterLags
  <2>2. ~ SendWelcome(q)
    <3>1. SendWelcome(q) => task[q].at = "answered"
      BY DEF SendWelcome, SeedAck, Is
    <3>2. Leave(q) => task[q].at = "reading"
      BY DEF Leave, release_peer, Is
    <3>3. WriterLags(q) => cursor[q] # None
      BY DEF WriterLags, Lagging, Subscribed
    <3> QED BY <1>0, <1>6, <3>1, <3>2, <3>3 DEF Joining
  <2> QED BY <1>0, <1>1, <1>a, <2>1, <2>2
<1>7. ASSUME Running(q), task' = task
      PROVE  task'[q].at \notin Joining /\ cursor[q] # None
  BY <1>0, <1>2, <1>7
<1>8. CASE WriteOutbox(q)
  <2>1. /\ Running(q) /\ task' = task /\ cursor' = cursor /\ buffer' = buffer
        /\ connected' = Set(connected, q, TRUE)
    BY <1>8 DEF WriteOutbox, vars
  <2>2. connected'[q]
    BY <1>2, <2>1 DEF Set
  <2> QED BY <1>0, <1>7, <2>1, <2>2
<1>9. CASE WriteApply(q) \/ HoldApply(q) \/ WriteBatch(q)
  <2>1. /\ Running(q) /\ task' = task /\ outbox' = outbox /\ connected' = connected
        /\ q \notin Reader => buffer' = buffer
    BY <1>9 DEF WriteApply, HoldApply, WriteBatch, vars
  <2>2. cursor' = cursor \/ (cursor' = Set(cursor, q, cursor[q] + 1) /\ cursor[q] < Len(sent))
    BY <1>9 DEF WriteApply, HoldApply, WriteBatch
  <2>3. cursor'[q] # None
    <3>1. cursor[q] \in Nat
      BY <1>2, <1>7, <2>1
    <3>2. cursor[q] + 1 \in Nat
      BY <3>1
    <3>3. cursor'[q] \in Nat
      BY <1>2, <2>2, <3>1, <3>2 DEF Set
    <3> QED BY <1>b, <3>3
  <2> QED BY <1>0, <1>7, <2>1, <2>3
<1> QED BY <1>3, <1>4, <1>5, <1>6, <1>8, <1>9, NetAlone

\* What is held for a reader is what was broadcast last before its cursor.
HeldInOrder ==
    \A p \in Conn : cursor[p] # None =>
      /\ Len(buffer[p]) <= cursor[p]
      /\ \A i \in 1..Len(buffer[p]) : buffer[p][i] = sent[cursor[p] - Len(buffer[p]) + i]

\* What was broadcast stays.
LEMMA SentKeeps ==
  ASSUME RoomInv, [RoomNext]_roomVars
  PROVE  /\ Len(sent) \in Nat /\ Len(sent') \in Nat /\ Len(sent') >= Len(sent)
         /\ \A k \in 1..Len(sent) : sent'[k] = sent[k]
<1>1. sent \in Seq(Frame)
  BY DEF RoomInv, SentFollows
<1>2. ASSUME NEW f, sent' = Append(sent, f)
      PROVE  /\ Len(sent) \in Nat /\ Len(sent') \in Nat /\ Len(sent') >= Len(sent)
             /\ \A k \in 1..Len(sent) : sent'[k] = sent[k]
  BY <1>1, <1>2
<1>3. sent' = sent \/ \E f : sent' = Append(sent, f)
  BY NetSteps DEF Broadcast
<1> QED BY <1>1, <1>2, <1>3

\* Every step keeps what is held in that order.
LEMMA HeldStep ==
  ASSUME IInv, RoomInv, Stages, HeldInOrder, [RoomNext]_roomVars
  PROVE  HeldInOrder'
<1> SUFFICES ASSUME NEW q \in Conn, cursor'[q] # None
             PROVE  /\ Len(buffer'[q]) <= cursor'[q]
                    /\ \A i \in 1..Len(buffer'[q]) :
                         buffer'[q][i] = sent'[cursor'[q] - Len(buffer'[q]) + i]
  BY DEF HeldInOrder
<1> DEFINE b == buffer[q]
           c == cursor[q]
<1>0. /\ b \in Seq(Frame) /\ c \in (0..Len(sent)) \cup {None} /\ Len(sent) \in Nat
      /\ DOMAIN buffer = Conn /\ DOMAIN cursor = Conn
      /\ Running(q) => c # None
  BY DEF RoomInv, WritersRead, SentFollows, BuffersFollow
<1>1. c # None => /\ Len(b) <= c
                  /\ \A i \in 1..Len(b) : b[i] = sent[c - Len(b) + i]
  BY DEF HeldInOrder
<1>2. /\ c = None => b = << >>
      /\ q \notin Reader => b = << >>
  BY DEF Stages
<1> HIDE DEF b, c
<1>3. ASSUME buffer'[q] = b, cursor'[q] = c PROVE
        /\ Len(buffer'[q]) <= cursor'[q]
        /\ \A i \in 1..Len(buffer'[q]) : buffer'[q][i] = sent'[cursor'[q] - Len(buffer'[q]) + i]
  <2>1. c \in 0..Len(sent) /\ c # None
    BY <1>0, <1>3
  <2>2. \A i \in 1..Len(b) : c - Len(b) + i \in 1..Len(sent)
    BY <1>0, <1>1, <2>1
  <2>3. \A i \in 1..Len(b) : b[i] = sent'[c - Len(b) + i]
    BY <1>1, <2>1, <2>2, SentKeeps
  <2> QED BY <1>1, <1>3, <2>1, <2>3
<1>4. CASE UNCHANGED Ends(q)
  BY <1>3, <1>4 DEF Ends, b, c
<1>5. CASE SendWelcome(q) \/ Leave(q) \/ WriteOutbox(q) \/ WriterLags(q)
  <2>1. buffer' = buffer /\ cursor' = cursor
    BY <1>5 DEF SendWelcome, Leave, WriteOutbox, WriterLags
  <2> QED BY <1>3, <2>1 DEF b, c
<1>6. CASE Subscribe(q)
  <2>1. buffer' = buffer /\ cursor'[q] = Len(sent) /\ cursor[q] = None
    BY <1>0, <1>6 DEF Subscribe, Subscribed, Set
  <2>2. buffer'[q] = << >>
    BY <1>2, <2>1 DEF b, c
  <2> QED BY <1>0, <2>1, <2>2
<1>7. CASE WriteApply(q)
  <2>1. /\ buffer' = buffer /\ cursor' = Set(cursor, q, cursor[q] + 1) /\ q \notin Reader
        /\ Running(q)
    BY <1>7 DEF WriteApply
  <2>2. cursor'[q] = c + 1
    BY <1>0, <2>1 DEF Set, c
  <2>3. buffer'[q] = << >>
    BY <1>2, <2>1 DEF b
  <2>4. c \in Nat
    BY <1>0, <2>1
  <2> QED BY <2>2, <2>3, <2>4
<1>8. CASE WriteBatch(q)
  <2>1. buffer' = Set(buffer, q, << >>) /\ cursor' = cursor /\ Running(q)
    BY <1>8 DEF WriteBatch
  <2>2. buffer'[q] = << >> /\ cursor'[q] = c
    BY <1>0, <2>1 DEF Set, c
  <2>3. c \in Nat
    BY <1>0, <2>1
  <2> QED BY <2>2, <2>3
<1>9. CASE HoldApply(q)
  <2> DEFINE f == sent[cursor[q] + 1]
  <2>1. /\ buffer' = Set(buffer, q, Append(buffer[q], f))
        /\ cursor' = Set(cursor, q, cursor[q] + 1) /\ cursor[q] < Len(sent) /\ Running(q)
        /\ sent' = sent
    BY <1>9 DEF HoldApply
  <2>a. f = sent[c + 1]
    BY DEF c
  <2> HIDE DEF f
  <2>2. buffer'[q] = Append(b, f) /\ cursor'[q] = c + 1
    BY <1>0, <2>1 DEF Set, b, c
  <2>3. c \in 0..Len(sent) /\ c # None /\ c < Len(sent)
    BY <1>0, <2>1 DEF c
  <2>4. Len(Append(b, f)) = Len(b) + 1 /\ Len(b) \in Nat
    BY <1>0
  <2> DEFINE more == Append(b, f)
             n == c + 1
             l == Len(b) + 1
  <2>5. ASSUME NEW i \in 1..l PROVE more[i] = sent[n - l + i]
    <3>1. CASE i = Len(b) + 1
      <4>1. c + 1 - (Len(b) + 1) + i = c + 1
        BY <2>3, <2>4, <3>1
      <4> QED BY <1>0, <2>a, <3>1, <4>1
    <3>2. CASE i # Len(b) + 1
      <4>1. i \in 1..Len(b) /\ c + 1 - (Len(b) + 1) + i = c - Len(b) + i
        BY <2>3, <2>4, <3>2
      <4>2. Append(b, f)[i] = b[i]
        BY <1>0, <4>1
      <4> QED BY <1>1, <2>3, <4>1, <4>2
    <3> QED BY <3>1, <3>2
  <2>6. Len(b) <= c
    BY <1>1, <2>3
  <2>7. Len(more) = l
    BY <2>4, Zenon
  <2>9. buffer'[q] = more /\ cursor'[q] = n /\ l <= n
    BY <2>2, <2>3, <2>4, <2>6
  <2> HIDE DEF more, n, l
  <2>10. buffer'[q] = more /\ cursor'[q] = n /\ Len(more) <= n
         /\ \A i \in 1..Len(more) : more[i] = sent'[n - Len(more) + i]
    BY <2>1, <2>5, <2>7, <2>9, Zenon
  <2>11. ASSUME NEW i \in 1..Len(buffer'[q])
         PROVE  buffer'[q][i] = sent'[cursor'[q] - Len(buffer'[q]) + i]
    BY <2>10, <2>11, Zenon
  <2>12. Len(buffer'[q]) <= cursor'[q]
    BY <2>10, Zenon
  <2> QED BY <2>11, <2>12, Zenon
<1> QED BY <1>4, <1>5, <1>6, <1>7, <1>8, <1>9, NetAlone

\* A batch that carries on from what an engine has is applied to its end.
LEMMA BatchCatchesUp ==
  ASSUME NEW doc \in Doc, NEW frames \in Seq(Frame), NEW m \in Nat, m <= Len(doc),
         \A k \in 1..Len(frames) : frames[k].seq = m + k
  PROVE  Len(AppliedAll(doc, frames)) >= m + Len(frames)
<1>1. PICK after : /\ after = [n \in 0..Len(frames) |->
                                 IF n = 0 THEN doc ELSE Applied(after[n - 1], frames[n])]
                   /\ AppliedAll(doc, frames) = after[Len(frames)]
  BY BatchUnfolds
<1> DEFINE Good(n) == after[n] \in Doc /\ Len(after[n]) >= m + n
           Bad == {n \in 0..Len(frames) : ~ Good(n)}
<1>2. Len(frames) \in Nat
  OBVIOUS
<1>3. Bad = {}
  <2> SUFFICES ASSUME Bad # {} PROVE FALSE
    OBVIOUS
  <2>1. Bad \in SUBSET Nat
    BY <1>2
  <2>2. PICK n \in Bad : \A k \in Bad : n <= k
    BY <2>1, LeastNat, Zenon
  <2>3. n \in 0..Len(frames) /\ n \in Nat
    BY <1>2
  <2>4. CASE n = 0
    <3>1. after[0] = doc
      BY <1>1, <1>2
    <3> QED BY <2>2, <2>4, <3>1 DEF Doc
  <2>5. CASE n # 0
    <3>1. n - 1 \in 0..Len(frames) /\ n - 1 \notin Bad /\ n \in 1..Len(frames)
      BY <1>2, <2>2, <2>3, <2>5
    <3>2. Good(n - 1)
      BY <3>1
    <3>3. after[n] = Applied(after[n - 1], frames[n])
      BY <1>1, <2>3, <2>5
    <3>4. frames[n] \in Frame /\ frames[n].seq = m + n
      BY <3>1
    <3> DEFINE old == after[n - 1]
               f == frames[n]
    <3>5. old \in Seq(Op) /\ Len(old) \in Nat /\ Len(old) >= m + (n - 1) /\ f.op \in Op
      <4>1. old \in Seq(Op) /\ Len(old) >= m + (n - 1)
        BY <3>2, Zenon DEF Doc
      <4>2. f.op \in Op
        BY <3>4 DEF Frame
      <4> HIDE DEF old, f
      <4>3. Len(old) \in Nat
        BY <4>1
      <4> QED BY <4>1, <4>2, <4>3
    <3> HIDE DEF old, f
    <3>6. CASE f.seq = Len(old) + 1
      <4>1. after[n] = Append(old, f.op)
        BY <3>3, <3>6 DEF Applied, old, f
      <4>2. Append(old, f.op) \in Seq(Op) /\ Len(Append(old, f.op)) = Len(old) + 1
        BY <3>5
      <4>3. Len(old) + 1 >= m + n
        BY <2>3, <3>5
      <4>4. Good(n)
        BY <4>1, <4>2, <4>3 DEF Doc
      <4> QED BY <2>2, <4>4
    <3>7. CASE f.seq # Len(old) + 1
      <4>1. after[n] = old
        BY <3>3, <3>7 DEF Applied, old, f
      <4>2. m + n # Len(old) + 1
        BY <3>4, <3>7 DEF f
      <4>3. Len(old) >= m + n
        BY <2>3, <3>5, <4>2
      <4> QED BY <2>2, <3>5, <4>1, <4>3 DEF Doc
    <3> QED BY <3>6, <3>7
  <2> QED BY <2>4, <2>5
<1>4. Good(Len(frames))
  BY <1>2, <1>3
<1> QED BY <1>1, <1>4

InOrder == \A k \in DOMAIN sent : sent[k].seq = k

\* How far along the log p is, or will be with the Welcome on its way to it.
Reached(p) == IF outbox[p] # << >> THEN outbox[p][1].head ELSE Len(view[p])

\* A client whose stream no race cut starts empty, gets a Welcome that reaches
\* the head it announces, and has or is about to have all its receiver is past.
Uncut(p) ==
    /\ ~ connected[p] => view[p] = << >>
    /\ outbox[p] # << >> => Len(Welcomed(<< >>, outbox[p][1])) >= outbox[p][1].head
    /\ Running(p) /\ InOrder => cursor[p] - Len(buffer[p]) <= Reached(p)

Unraced == \A p \in Conn : raced[p] = {} => Uncut(p)

\* What the steps that may put a hole in a stream write down.
LEMMA RacesAreKept ==
  ASSUME RoomInv, NEW q \in Conn, NEW more, raced' = [raced EXCEPT ![q] = @ \cup more],
         raced'[q] = {}
  PROVE  raced[q] = {} /\ more = {}
<1>1. raced'[q] = raced[q] \cup more
  BY DEF RoomInv, RacesAreKnown
<1> QED BY <1>1

\* The Welcome of a client without a race.
LEMMA WelcomeUncut ==
  ASSUME IInv, RoomInv, Stages, NEW q \in Conn, SendWelcome(q), raced'[q] = {},
         raced[q] = {} => Uncut(q)
  PROVE  Uncut(q)'
<1>1. /\ task[q].at = "answered" /\ sent' = sent /\ cursor' = cursor /\ writer' = writer
      /\ view' = view /\ connected' = connected
      /\ outbox' = Set(outbox, q, <<[snap |-> task[q].snap, rows |-> task[q].rows,
                                     head |-> task[q].head]>>)
      /\ raced' = [raced EXCEPT ![q] = @ \cup Shortfall(q)]
  BY DEF SendWelcome, SeedAck, Is
<1>2. raced[q] = {} /\ Shortfall(q) = {}
  BY <1>1, RacesAreKept
<1>3. ~ (Len(Given(q)) < task[q].head)
  <2>1. Given(q) = Made(task[q], ledger) /\ From(q) = Start(task[q])
    BY <1>1 DEF Given, Made, From, Start
  <2>2. Reaches(task[q], ledger, room.compacted_below)
    BY <1>1 DEF IInv, AnswersReach, Answering
  <2>3. Len(Given(q)) < task[q].head =>
            "compacted" \in Shortfall(q) \/ "unstamped" \in Shortfall(q)
    BY <2>1, <2>2 DEF Reaches, Shortfall
  <2> QED BY <1>2, <2>3
<1> DEFINE w == [snap |-> task[q].snap, rows |-> task[q].rows, head |-> task[q].head]
<1>4. outbox'[q] = <<w>>
  BY <1>1, SetSets DEF RoomInv, OutboxesFollow
<1>5. w.snap = task[q].snap /\ w.rows = task[q].rows /\ w.head = task[q].head
  OBVIOUS
<1> HIDE DEF w
<1>6. Welcomed(<< >>, w) = Given(q)
  <2>1. task[q].since = 0
    BY <1>1 DEF Stages, Joining
  <2>2. SubSeq(ledger, 1, 0) = << >>
    BY DEF IInv, TypeOK
  <2> QED BY <1>1, <1>5, <2>1, <2>2 DEF Welcomed, Given
<1>7. task[q].head \in Nat /\ Len(Given(q)) \in Nat
  <2>1. task[q].head \in Nat
    BY <1>1 DEF IInv, TypeOK, IsTask
  <2>2. Given(q) \in Doc
    <3>1. /\ task[q].snap \in Doc \cup {None} /\ IsRows(task[q].rows)
          /\ FromLog(task[q].snap, ledger) /\ RowsOf(task[q].rows, ledger)
      BY <1>1 DEF IInv, TypeOK, IsTask, AnswersFollow, Follows
    <3>2. << >> \in Doc /\ IsPrefixOf(<< >>, ledger) /\ ledger \in Doc
      BY DEF IInv, TypeOK, Doc, IsPrefixOf
    <3> QED BY <1>5, <1>6, <3>1, <3>2, WelcomeFollows
  <2> QED BY <2>1, <2>2 DEF Doc
<1>8. Len(Welcomed(<< >>, w)) >= w.head
  BY <1>3, <1>5, <1>6, <1>7
<1>9. ~ Running(q)
  <2>1. cursor[q] = None
    BY <1>1 DEF Stages, Joining
  <2> QED BY <2>1 DEF RoomInv, WritersRead
<1>10. ~ connected'[q] => view'[q] = << >>
  BY <1>1, <1>2 DEF Uncut
<1>11. <<w>>[1] = w
  OBVIOUS
<1> QED BY <1>1, <1>4, <1>8, <1>9, <1>10, <1>11 DEF Uncut, Running

\* The Welcome of a connection, while it waits, and its head.
LEMMA Waiting ==
  ASSUME RoomInv, NEW q \in Conn, outbox[q] # << >>
  PROVE  \E w : /\ outbox[q] = <<w>> /\ outbox[q][1] = w /\ Head(outbox[q]) = w
                /\ Tail(outbox[q]) = << >> /\ Fits(w, ledger)
<1>1. PICK w : outbox[q] = <<w>> /\ Fits(w, ledger)
  BY DEF RoomInv, OutboxesFollow
<1>2. <<w>>[1] = w /\ Head(<<w>>) = w /\ Tail(<<w>>) = << >>
  OBVIOUS
<1> QED BY <1>1, <1>2, Zenon

\* Every step keeps a client on course that no race has cut off.
LEMMA UnracedStep ==
  ASSUME IInv, RoomInv, Stages, HeldInOrder, Unraced, [RoomNext]_roomVars
  PROVE  Unraced'
<1> SUFFICES ASSUME NEW q \in Conn, raced'[q] = {} PROVE Uncut(q)'
  BY DEF Unraced
<1>0. raced[q] = {} => Uncut(q)
  BY DEF Unraced
<1> DEFINE c == cursor[q]
           b == buffer[q]
<1>1. /\ c \in (0..Len(sent)) \cup {None} /\ b \in Seq(Frame) /\ view[q] \in Doc
      /\ DOMAIN cursor = Conn /\ DOMAIN buffer = Conn /\ DOMAIN view = Conn
      /\ DOMAIN connected = Conn /\ DOMAIN outbox = Conn /\ DOMAIN writer = Conn
      /\ Running(q) => c # None
      /\ sent \in Seq(Frame)
  BY DEF RoomInv, WritersRead, BuffersFollow, ViewsFollow, WelcomedOnce, OutboxesFollow, SentFollows
<1>2. InOrder' => InOrder
  <2>1. DOMAIN sent = 1..Len(sent) /\ DOMAIN sent' = 1..Len(sent')
    BY <1>1, SentStep DEF SentFollows
  <2> QED BY <2>1, SentKeeps DEF InOrder
<1>3. CASE UNCHANGED Ends(q)
  <2>1. /\ cursor'[q] = cursor[q] /\ outbox'[q] = outbox[q] /\ buffer'[q] = buffer[q]
        /\ view'[q] = view[q] /\ connected'[q] = connected[q] /\ raced'[q] = raced[q]
        /\ writer'[q] = writer[q]
    BY <1>3 DEF Ends
  <2>2. Uncut(q)
    BY <1>0, <2>1
  <2> QED BY <1>2, <2>1, <2>2 DEF Uncut, Reached, Running
<1>4. CASE SendWelcome(q)
  BY <1>0, <1>4, WelcomeUncut
<1>5. CASE Leave(q) \/ WriterLags(q)
  <2>1. /\ outbox' = outbox /\ view' = view /\ connected' = connected /\ raced' = raced
        /\ writer' = Set(writer, q, "closed") \/ writer' = Set(writer, q, "lagged")
    BY <1>5 DEF Leave, WriterLags
  <2>2. ~ Running(q)'
    BY <1>1, <2>1 DEF Set, Running
  <2> QED BY <1>0, <2>1, <2>2 DEF Uncut
<1>6. CASE Subscribe(q)
  <2> DEFINE more == IF \E k \in DOMAIN sent : sent[k].seq > outbox[q][1].head
                     THEN {"unsubscribed"} ELSE {}
  <2>1. /\ cursor' = Set(cursor, q, Len(sent)) /\ sent' = sent /\ outbox' = outbox
        /\ buffer' = buffer /\ view' = view /\ connected' = connected
        /\ raced' = [raced EXCEPT ![q] = @ \cup more]
        /\ task[q].at = "reading" /\ cursor[q] = None
    BY <1>6 DEF Subscribe, Subscribed, Is
  <2>2. raced[q] = {} /\ more = {}
    BY <2>1, RacesAreKept
  <2>3. \A k \in DOMAIN sent : ~ (sent[k].seq > outbox[q][1].head)
    <3>1. {"unsubscribed"} # {}
      OBVIOUS
    <3> QED BY <2>2, <3>1
  <2>4. b = << >> /\ outbox[q] # << >>
    BY <2>1 DEF Stages, Joining
  <2>5. PICK w : outbox[q][1] = w /\ Fits(w, ledger)
    BY <2>4, Waiting
  <2>6. InOrder => Len(sent) <= w.head
    <3>1. w.head \in Nat /\ Len(sent) \in Nat
      BY <1>1, <2>5 DEF Fits
    <3>2. ASSUME InOrder, Len(sent) # 0 PROVE Len(sent) <= w.head
      <4>1. Len(sent) \in DOMAIN sent
        BY <1>1, <3>1, <3>2
      <4>2. sent[Len(sent)].seq = Len(sent)
        BY <3>2, <4>1 DEF InOrder
      <4> QED BY <2>3, <2>5, <3>1, <4>1, <4>2
    <3> QED BY <3>1, <3>2
  <2>7. cursor'[q] = Len(sent) /\ buffer'[q] = << >>
    BY <1>1, <2>1, <2>4 DEF Set
  <2>8. InOrder' => cursor'[q] - Len(buffer'[q]) <= Reached(q)'
    <3>1. Reached(q)' = w.head
      BY <2>1, <2>4, <2>5 DEF Reached
    <3>2. Len(sent) - Len(<< >>) = Len(sent)
      BY <1>1
    <3> QED BY <1>2, <2>6, <2>7, <3>1, <3>2
  <2>9. Uncut(q)
    BY <1>0, <2>2
  <2> QED BY <2>1, <2>8, <2>9 DEF Uncut
<1>7. CASE WriteOutbox(q)
  <2>1. /\ Running(q) /\ outbox[q] # << >> /\ sent' = sent /\ cursor' = cursor /\ buffer' = buffer
        /\ raced' = raced
        /\ view' = Set(view, q, Welcomed(view[q], Head(outbox[q])))
        /\ connected' = Set(connected, q, TRUE) /\ outbox' = Set(outbox, q, Tail(outbox[q]))
    BY <1>7 DEF WriteOutbox
  <2>2. PICK w : /\ outbox[q][1] = w /\ Head(outbox[q]) = w /\ Tail(outbox[q]) = << >>
                 /\ Fits(w, ledger)
    BY <2>1, Waiting
  <2>3. Uncut(q)
    BY <1>0, <2>1
  <2>4. view[q] = << >>
    BY <2>1, <2>3 DEF Uncut, RoomInv, WelcomedOnce
  <2>5. connected'[q]
    BY <1>1, <2>1 DEF Set
  <2>6. outbox'[q] = << >>
    BY <1>1, <2>1, <2>2 DEF Set
  <2>7. view'[q] = Welcomed(<< >>, w)
    BY <1>1, <2>1, <2>2, <2>4 DEF Set
  <2>8. Len(view'[q]) >= w.head
    BY <2>1, <2>2, <2>3, <2>7 DEF Uncut
  <2>9. InOrder' => cursor'[q] - Len(buffer'[q]) <= Reached(q)'
    <3>1. Reached(q) = w.head /\ Reached(q)' = Len(view'[q])
      BY <2>1, <2>2, <2>6 DEF Reached
    <3>2. InOrder => c - Len(b) <= w.head
      BY <2>1, <2>3, <3>1 DEF Uncut
    <3>3. w.head \in Nat /\ Len(view'[q]) \in Nat /\ c \in Nat /\ Len(b) \in Nat
      <4>1. view'[q] \in Doc
        BY ViewsStep DEF ViewsFollow
      <4> QED BY <1>1, <2>1, <2>2, <4>1 DEF Fits, Doc
    <3>4. cursor'[q] = c /\ buffer'[q] = b
      BY <2>1
    <3> HIDE DEF c, b
    <3>5. InOrder => c - Len(b) <= Len(view'[q])
      BY <2>8, <3>2, <3>3
    <3> QED BY <1>2, <3>1, <3>4, <3>5
  <2> QED BY <2>5, <2>6, <2>9 DEF Uncut
<1>a. ASSUME Running(q), WriteApply(q) \/ WriteBatch(q)
      PROVE  /\ raced[q] = {} /\ outbox[q] = << >> /\ connected[q] /\ Uncut(q)
             /\ c \in 0..Len(sent) /\ c # None
  <2>1. raced' = [raced EXCEPT ![q] = @ \cup Overtakes(q)]
    BY <1>a DEF WriteApply, WriteBatch
  <2>2. raced[q] = {} /\ Overtakes(q) = {}
    BY <2>1, RacesAreKept
  <2>3. outbox[q] = << >>
    <3>1. {"overtaken"} # {}
      OBVIOUS
    <3> QED BY <2>2, <3>1 DEF Overtakes
  <2>4. c # None
    BY <1>1, <1>a
  <2>5. connected[q]
    BY <2>3, <2>4 DEF Stages
  <2> QED BY <1>0, <1>1, <2>2, <2>3, <2>4, <2>5
<1>8. CASE WriteApply(q)
  <2> DEFINE f == sent[cursor[q] + 1]
  <2>1. /\ Running(q) /\ q \notin Reader /\ cursor[q] < Len(sent) /\ sent' = sent
        /\ view' = Set(view, q, Applied(view[q], f)) /\ cursor' = Set(cursor, q, cursor[q] + 1)
        /\ outbox' = outbox /\ buffer' = buffer /\ connected' = connected
    BY <1>8 DEF WriteApply
  <2>2. /\ outbox[q] = << >> /\ connected[q] /\ Uncut(q) /\ c \in 0..Len(sent) /\ c # None
    BY <1>8, <1>a, <2>1
  <2>3. b = << >>
    BY <2>1 DEF Stages
  <2>4. cursor'[q] = c + 1 /\ view'[q] = Applied(view[q], f) /\ buffer'[q] = << >>
    BY <1>1, <2>1, <2>3 DEF Set
  <2>5. ASSUME InOrder PROVE c + 1 <= Len(Applied(view[q], f))
    <3>1. c <= Len(view[q])
      <4>1. c - Len(b) <= Len(view[q])
        BY <2>1, <2>2, <2>5 DEF Uncut, Reached
      <4>2. Len(b) = 0
        BY <2>3
      <4> QED BY <1>1, <2>2, <4>1, <4>2 DEF Doc
    <3>2. f.seq = c + 1 /\ f.op \in Op
      <4>1. c + 1 \in DOMAIN sent
        BY <1>1, <2>1, <2>2
      <4>2. f = sent[c + 1] /\ sent[c + 1] \in Frame
        BY <1>1, <4>1
      <4>3. sent[c + 1].seq = c + 1
        BY <2>5, <4>1 DEF InOrder
      <4> HIDE DEF f
      <4> QED BY <4>2, <4>3 DEF Frame
    <3> DEFINE v == view[q]
    <3>3. v \in Seq(Op) /\ Len(v) \in Nat /\ c \in Nat
      BY <1>1, <2>2 DEF Doc
    <3> HIDE DEF f, v, c
    <3>4. CASE f.seq = Len(v) + 1
      <4>1. Applied(v, f) = Append(v, f.op)
        BY <3>4 DEF Applied
      <4>2. Len(Applied(v, f)) = Len(v) + 1
        BY <3>2, <3>3, <4>1
      <4> QED BY <3>2, <3>3, <3>4, <4>2 DEF v
    <3>5. CASE f.seq # Len(v) + 1
      <4>1. Applied(v, f) = v
        BY <3>5 DEF Applied
      <4>2. c + 1 <= Len(v)
        BY <3>1, <3>2, <3>3, <3>5 DEF v
      <4> QED BY <4>1, <4>2 DEF v
    <3> QED BY <3>4, <3>5
  <2> HIDE DEF f
  <2>6. InOrder' => cursor'[q] - Len(buffer'[q]) <= Reached(q)'
    <3>1. Reached(q)' = Len(view'[q])
      BY <2>1, <2>2 DEF Reached
    <3>2. cursor'[q] - Len(buffer'[q]) = c + 1
      <4> HIDE DEF c
      <4> QED BY <2>2, <2>4
    <3> QED BY <1>2, <2>4, <2>5, <3>1, <3>2
  <2> QED BY <2>1, <2>2, <2>6 DEF Uncut
<1>9. CASE HoldApply(q)
  <2> DEFINE f == sent[cursor[q] + 1]
  <2>1. /\ Running(q) /\ sent' = sent /\ raced' = raced
        /\ buffer' = Set(buffer, q, Append(buffer[q], f)) /\ cursor' = Set(cursor, q, cursor[q] + 1)
        /\ outbox' = outbox /\ view' = view /\ connected' = connected
    BY <1>9 DEF HoldApply
  <2> HIDE DEF f
  <2>2. Uncut(q) /\ c \in Nat
    BY <1>0, <1>1, <2>1
  <2>3. cursor'[q] = c + 1 /\ buffer'[q] = Append(b, f)
    BY <1>1, <2>1 DEF Set
  <2>4. Len(Append(b, f)) = Len(b) + 1 /\ Len(b) \in Nat
    BY <1>1
  <2>5. cursor'[q] - Len(buffer'[q]) = c - Len(b)
    <3> HIDE DEF b, c
    <3> QED BY <2>2, <2>3, <2>4
  <2>6. Reached(q)' = Reached(q)
    BY <2>1 DEF Reached
  <2> QED BY <1>2, <2>1, <2>2, <2>5, <2>6 DEF Uncut
<1>10. CASE WriteBatch(q)
  <2>1. /\ Running(q) /\ sent' = sent
        /\ view' = Set(view, q, AppliedAll(view[q], buffer[q]))
        /\ buffer' = Set(buffer, q, << >>)
        /\ outbox' = outbox /\ cursor' = cursor /\ connected' = connected
    BY <1>10 DEF WriteBatch
  <2>2. /\ outbox[q] = << >> /\ connected[q] /\ Uncut(q) /\ c \in 0..Len(sent) /\ c # None
    BY <1>10, <1>a, <2>1
  <2>3. cursor'[q] = c /\ view'[q] = AppliedAll(view[q], b) /\ buffer'[q] = << >>
    BY <1>1, <2>1 DEF Set
  <2>4. ASSUME InOrder PROVE c <= Len(AppliedAll(view[q], b))
    <3> DEFINE m == c - Len(b)
    <3>1. m <= Len(view[q])
      BY <2>1, <2>2, <2>4 DEF Uncut, Reached
    <3>2. Len(b) <= c /\ \A i \in 1..Len(b) : b[i] = sent[m + i]
      BY <2>2 DEF HeldInOrder
    <3>3. Len(b) \in Nat /\ c \in Nat
      BY <1>1, <2>2
    <3>4. m \in Nat
      <4> HIDE DEF b, c
      <4> QED BY <3>2, <3>3
    <3>5. ASSUME NEW i \in 1..Len(b) PROVE b[i].seq = m + i
      <4>1. m + i \in 1..Len(sent)
        <5> HIDE DEF b, c
        <5> QED BY <1>1, <2>2, <3>2, <3>3
      <4>2. m + i \in DOMAIN sent
        BY <1>1, <4>1
      <4>3. sent[m + i].seq = m + i
        BY <2>4, <4>2 DEF InOrder
      <4> QED BY <3>2, <4>3
    <3>6. Len(AppliedAll(view[q], b)) >= m + Len(b)
      <4> HIDE DEF m, b
      <4> QED BY <1>1, <3>1, <3>4, <3>5, BatchCatchesUp
    <3>7. m + Len(b) = c
      <4> HIDE DEF b, c
      <4> QED BY <3>3
    <3> QED BY <3>6, <3>7
  <2>5. InOrder' => cursor'[q] - Len(buffer'[q]) <= Reached(q)'
    <3>1. Reached(q)' = Len(view'[q])
      BY <2>1, <2>2 DEF Reached
    <3>2. c - Len(<< >>) = c
      BY <2>2
    <3> QED BY <1>2, <2>3, <2>4, <3>1, <3>2
  <2> QED BY <2>1, <2>2, <2>5 DEF Uncut
<1> QED BY <1>3, <1>4, <1>5, <1>6, <1>7, <1>8, <1>9, <1>10, NetAlone

RoomIInv == NoFaults /\ SentOrHeld /\ Stages /\ HeldInOrder /\ Unraced

\* The room's history of holes is kept by every step.
LEMMA RoomHistory == RoomSpec => []RoomIInv
<1>1. RoomInit => RoomIInv
  <2> SUFFICES ASSUME RoomInit PROVE RoomIInv
    OBVIOUS
  <2>1. /\ sent = << >> /\ room.head = 0 /\ NoFaults
        /\ \A p \in Conn : /\ task[p].at = "new" /\ cursor[p] = None /\ outbox[p] = << >>
                           /\ writer[p] = "none" /\ buffer[p] = << >> /\ view[p] = << >>
                           /\ ~ connected[p]
    BY DEF RoomInit, Init, NoFaults, EmptyRoom
  <2>2. SentOrHeld
    BY <2>1 DEF SentOrHeld
  <2>3. Stages
    BY <2>1 DEF Stages, Joining
  <2>4. HeldInOrder
    BY <2>1 DEF HeldInOrder
  <2>5. Unraced
    BY <2>1 DEF Unraced, Uncut, Running
  <2> QED BY <2>1, <2>2, <2>3, <2>4, <2>5 DEF RoomIInv
<1>2. IInv /\ RoomInv /\ NoFaults' /\ RoomIInv /\ [RoomNext]_roomVars => RoomIInv'
  BY SentOrHeldStep, StagesStep, HeldStep, UnracedStep DEF RoomIInv
<1> QED BY <1>1, <1>2, HandlerInvariant, RoomInductive, RoomFaultless, PTL DEF RoomSpec

\* What a Welcome on its way brings, from the client's end of the log on.
LEMMA WelcomeCarries ==
  ASSUME IInv, NEW w, Fits(w, ledger),
         NEW n \in (IF w.snap = None THEN 1 ELSE Len(w.snap) + 1) .. Len(Welcomed(<< >>, w))
  PROVE  n \in DOMAIN w.rows
<1> DEFINE base == IF w.snap = None THEN << >> ELSE w.snap
<1>1. base \in Doc /\ Len(ledger) \in Nat
  BY DEF Fits, Doc, IInv, TypeOK
<1>2. IsRows(w.rows) /\ \A m \in DOMAIN w.rows : m <= Len(ledger)
  BY DEF Fits, RowsOf
<1>3. Welcomed(<< >>, w) = Replay(base, w.rows)
  BY DEF Welcomed
<1>4. n \in Len(base) + 1 .. Len(Welcomed(<< >>, w))
  OBVIOUS
<1> HIDE DEF base
<1> QED BY <1>1, <1>2, <1>3, <1>4, ReplayExtends

\* A client that is subscribed and not left behind misses no op for ever unless
\* one of five things happened to its stream, which the code lets happen: ops
\* were broadcast before it subscribed, an Apply overtook its Welcome, its
\* Welcome was compacted short, its Welcome had rows that Postgres keeps without
\* a seq, or two submits broadcast out of order (room_ws.rs: handshake, serve,
\* the writers; room.rs: submit; store.rs: append).
THEOREM HolesExplained == RoomSpec => []HolesHaveKnownCauses
<1>1. IInv /\ RoomInv /\ RoomIInv => HolesHaveKnownCauses
  <2> SUFFICES ASSUME IInv, RoomInv, RoomIInv, NEW p \in Conn, Running(p), raced[p] = {},
                      ~ OutOfOrder, NEW n \in Base(p) + 1 .. room.head
               PROVE  n \in OnTheWay(p)
    BY DEF HolesHaveKnownCauses, MissesNothing
  <2>1. InOrder /\ Uncut(p)
    BY DEF OutOfOrder, InOrder, RoomIInv, Unraced
  <2> DEFINE Rows == UNION {DOMAIN outbox[p][k].rows : k \in DOMAIN outbox[p]}
             Kept == {buffer[p][k].seq : k \in DOMAIN buffer[p]}
             Ahead == {sent[k].seq : k \in {j \in DOMAIN sent : j > cursor[p]}}
             Due == {task[q].seq : q \in {r \in Conn : task[r].at \in {"appended", "stamped"}}}
  <2>a. n \in Rows \/ n \in Kept \/ n \in Ahead \/ n \in Due => n \in OnTheWay(p)
    <3>1. OnTheWay(p) = Rows \cup Kept \cup Ahead \cup Due
      BY Zenon DEF OnTheWay
    <3> HIDE DEF Rows, Kept, Ahead, Due
    <3> QED BY <3>1
  <2>2. ASSUME Held(n) PROVE n \in Due
    BY <2>2 DEF Held, Stored
  <2> HIDE DEF Due
  <2>3. /\ room.head \in Nat /\ sent \in Seq(Frame) /\ view[p] \in Doc /\ buffer[p] \in Seq(Frame)
        /\ cursor[p] \in Nat
    BY DEF IInv, TypeOK, IsRoom, RoomInv, SentFollows, ViewsFollow, BuffersFollow, WritersRead
  <2>4. Base(p) \in Nat
    <3>1. CASE outbox[p] # << >> /\ outbox[p][1].snap # None
      <4>1. PICK w : outbox[p][1] = w /\ Fits(w, ledger)
        BY <3>1, Waiting
      <4>2. w.snap \in Doc
        BY <3>1, <4>1 DEF Fits
      <4> QED BY <3>1, <4>1, <4>2 DEF Base, Doc
    <3>2. CASE ~ (outbox[p] # << >> /\ outbox[p][1].snap # None)
      BY <2>3, <3>2 DEF Base, Doc
    <3> QED BY <3>1, <3>2
  <2>5. n \in Nat /\ n > Base(p) /\ n \in 1..room.head
    BY <2>3, <2>4
  <2>6. CASE Cast(n)
    <3>1. PICK k \in DOMAIN sent : sent[k].seq = n
      BY <2>6 DEF Cast
    <3>2. k = n
      BY <2>1, <3>1 DEF InOrder
    <3>3. CASE n > cursor[p]
      <4>1. k \in {j \in DOMAIN sent : j > cursor[p]}
        BY <3>1, <3>2, <3>3
      <4>2. n \in Ahead
        BY <3>1, <4>1
      <4> HIDE DEF Rows, Kept, Ahead
      <4> QED BY <2>a, <4>2
    <3>4. CASE n <= cursor[p] /\ n > cursor[p] - Len(buffer[p])
      <4> DEFINE m == cursor[p] - Len(buffer[p])
                 i == n - m
      <4>0. Len(buffer[p]) \in Nat
        BY <2>3
      <4>1. i \in 1..Len(buffer[p]) /\ m + i = n
        BY <2>3, <2>5, <3>4, <4>0
      <4>a. cursor[p] # None
        BY DEF RoomInv, WritersRead
      <4>2. buffer[p][i] = sent[m + i]
        BY <4>1, <4>a DEF RoomIInv, HeldInOrder
      <4> HIDE DEF m, i
      <4>3. i \in DOMAIN buffer[p] /\ buffer[p][i].seq = n
        BY <2>3, <3>1, <3>2, <4>1, <4>2
      <4>4. n \in Kept
        BY <4>3
      <4> HIDE DEF Rows, Kept, Ahead
      <4> QED BY <2>a, <4>4
    <3>5. CASE n <= cursor[p] - Len(buffer[p])
      <4>0. Len(buffer[p]) \in Nat /\ cursor[p] - Len(buffer[p]) <= Reached(p)
        BY <2>1, <2>3 DEF Uncut
      <4>1. CASE outbox[p] = << >>
        <5>1. Reached(p) = Base(p)
          BY <4>1 DEF Reached, Base
        <5> QED BY <2>3, <2>4, <2>5, <3>5, <4>0, <5>1
      <4>2. CASE outbox[p] # << >>
        <5>1. PICK w : outbox[p] = <<w>> /\ outbox[p][1] = w /\ Fits(w, ledger)
          BY <4>2, Waiting
        <5>2. w.head \in Nat /\ Reached(p) = w.head
          BY <4>2, <5>1 DEF Fits, Reached
        <5>3. n <= w.head
          BY <2>3, <2>5, <3>5, <4>0, <5>2
        <5>4. Len(Welcomed(<< >>, w)) >= w.head
          BY <2>1, <4>2, <5>1 DEF Uncut
        <5>5. Base(p) = IF w.snap = None THEN 0 ELSE Len(w.snap)
          <6>1. view[p] = << >>
            BY <2>1, <4>2 DEF Uncut, RoomInv, WelcomedOnce
          <6> QED BY <4>2, <5>1, <6>1 DEF Base
        <5>6. n \in DOMAIN w.rows
          <6>1. << >> \in Doc /\ IsPrefixOf(<< >>, ledger) /\ ledger \in Doc
            BY DEF IInv, TypeOK, Doc, IsPrefixOf
          <6>2. Welcomed(<< >>, w) \in Doc
            BY <5>1, <6>1, WelcomeFollows DEF Fits
          <6>3. Len(Welcomed(<< >>, w)) \in Nat
            BY <6>2 DEF Doc
          <6>4. n \in (IF w.snap = None THEN 1 ELSE Len(w.snap) + 1) .. Len(Welcomed(<< >>, w))
            BY <2>4, <2>5, <5>2, <5>3, <5>4, <5>5, <6>3
          <6> QED BY <5>1, <6>4, WelcomeCarries
        <5>7. 1 \in DOMAIN outbox[p]
          BY <5>1
        <5>8. n \in Rows
          BY <5>1, <5>6, <5>7
        <5> HIDE DEF Rows, Kept, Ahead
        <5> QED BY <2>a, <5>8
      <4> QED BY <4>1, <4>2
    <3>6. Len(buffer[p]) \in Nat
      BY <2>3
    <3> QED BY <2>3, <2>5, <3>3, <3>4, <3>5, <3>6
  <2> HIDE DEF Rows, Kept, Ahead
  <2> QED BY <2>a, <2>2, <2>5, <2>6 DEF RoomIInv, SentOrHeld
<1> QED BY <1>1, HandlerInvariant, RoomInductive, RoomHistory, PTL

=============================================================================
