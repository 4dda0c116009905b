-------------------------- MODULE GraphRoomHandler --------------------------
(***************************************************************************)
(* The server's side of one room of the graph model                        *)
(* (apps/kyoso_server/src/services/handlers/graph.rs): the store, the      *)
(* mirror that folds the log, and the tasks that interleave on them at     *)
(* every await: one task per connection, which says Hello, submits, acks   *)
(* and asks for catchups one at a time, the snapshot loop, and the         *)
(* compaction loop.  With the Postgres store the server may also crash and *)
(* start again, and an append may fail with or without having committed.   *)
(*                                                                         *)
(* Abstracted: clients are an environment here; what they do with what     *)
(* they are sent is in RoomSync.                                           *)
(***************************************************************************)
EXTENDS OpStore

CONSTANT MaxFaults  \* bound: crashes and failed appends in a behaviour

ASSUME FaultsAssumption == MaxFaults \in Nat

VARIABLES
    room,         \* the room in the store
    up,           \* whether the server holds the room open
    mirror,       \* the server's replica
    append_lock,  \* connections in line for the append lock; the first holds it
    task,         \* per connection, where its task is and what it has read
    snapshotter,  \* the snapshot loop, likewise
    gc,           \* the compaction loop, likewise
    ledger,       \* history: every op the store ever gave a seq, in that order
    faults        \* crashes and failed appends so far

vars == <<room, up, mirror, append_lock, task, snapshotter, gc, ledger, faults>>

\* What a task has read is read: it does not change while the task waits.
IsTask(t) ==
    \/ t \in [at : {"new", "reading", "gone"}]
    \/ t \in [at : {"head read", "catchup"}, since : Nat, head : Nat]
    \/ t \in [at : {"snapshot read"}, since : Nat, head : Nat, snap : Doc \cup {None}]
    \/ /\ t.at = "answered"
       /\ t = [at |-> "answered", since |-> t.since, head |-> t.head,
               snap |-> t.snap, rows |-> t.rows]
       /\ t.since \in Nat /\ t.head \in Nat /\ t.snap \in Doc \cup {None} /\ IsRows(t.rows)
    \/ /\ t.at = "caught up"
       /\ t = [at |-> "caught up", since |-> t.since, head |-> t.head, rows |-> t.rows]
       /\ t.since \in Nat /\ t.head \in Nat /\ IsRows(t.rows)
    \/ t \in [at : {"locking"}, op : Op]
    \/ t \in [at : {"appended", "stamped"}, op : Op, seq : Nat]

SnapshotterState == [at : {"idle"}] \cup [at : {"save"}, doc : Doc]

GcState == [at : {"idle"}]
           \cup [at : {"acks read"}, min : Nat, peers : SUBSET Conn]
           \cup [at : {"compact"}, upper : Nat, peers : SUBSET Conn]

Is(p, pc) == up /\ task[p].at = pc
Goto(p, state) == task' = [task EXCEPT ![p] = state]
Reading == [at |-> "reading"]
Idle == [at |-> "idle"]

Init == /\ room = EmptyRoom /\ up = TRUE /\ mirror = << >> /\ append_lock = << >>
        /\ task = [p \in Conn |-> [at |-> "new"]]
        /\ snapshotter = Idle /\ gc = Idle /\ ledger = << >> /\ faults = 0

-----------------------------------------------------------------------------
\* welcome_for, first await: head.  A client that is at head already, or that
\* joins an empty log, is answered with nothing.  A client says since = n when
\* it holds the first n ops (0 when it is new).
ReadHead(p) ==
    /\ Is(p, "new")
    /\ \E since \in 0..Len(ledger) :
         Goto(p, IF room.head \in {0, since}
                 THEN [at |-> "answered", since |-> since, head |-> room.head,
                       snap |-> None, rows |-> EmptyMap]
                 ELSE [at |-> "head read", since |-> since, head |-> room.head])
    /\ UNCHANGED <<room, up, mirror, append_lock, snapshotter, gc, ledger, faults>>

\* welcome_for, second await: the newest snapshot, sent if it is newer than
\* what the client has.
ReadSnapshot(p) ==
    /\ Is(p, "head read")
    /\ LET snap == latest_snapshot(room) IN
       Goto(p, [at |-> "snapshot read", since |-> task[p].since, head |-> task[p].head,
                snap |-> IF snap # None /\ Len(snap) > task[p].since THEN snap ELSE None])
    /\ UNCHANGED <<room, up, mirror, append_lock, snapshotter, gc, ledger, faults>>

\* Where the ops of a Welcome start.
From(p) == IF task[p].snap = None THEN task[p].since ELSE Len(task[p].snap)

\* welcome_for, third await: the ops in between.
ReadSlice(p) ==
    /\ Is(p, "snapshot read")
    /\ Goto(p, [at |-> "answered", since |-> task[p].since, head |-> task[p].head,
                snap |-> task[p].snap, rows |-> slice(room, From(p), task[p].head)])
    /\ UNCHANGED <<room, up, mirror, append_lock, snapshotter, gc, ledger, faults>>

\* handshake: only now does the joiner get an ack row, at what it claimed.
SeedAck(p) ==
    /\ Is(p, "answered")
    /\ room' = record_ack(room, p, task[p].since)
    /\ Goto(p, Reading)
    /\ UNCHANGED <<up, mirror, append_lock, snapshotter, gc, ledger, faults>>

\* Ping: a client acks what it has applied.
Ping(p) ==
    /\ Is(p, "reading")
    /\ \E applied \in 0..Len(ledger) : room' = record_ack(room, p, applied)
    /\ UNCHANGED <<up, mirror, append_lock, task, snapshotter, gc, ledger, faults>>

\* catchup: head, then the ops since; no snapshot, whatever was compacted.
CatchupHead(p) ==
    /\ Is(p, "reading")
    /\ \E since \in 0..Len(ledger) :
         Goto(p, [at |-> "catchup", since |-> since, head |-> room.head])
    /\ UNCHANGED <<room, up, mirror, append_lock, snapshotter, gc, ledger, faults>>

CatchupSlice(p) ==
    /\ Is(p, "catchup")
    /\ LET since == task[p].since IN
       Goto(p, [at |-> "caught up", since |-> since, head |-> task[p].head,
                rows |-> slice(room, since, task[p].head)])
    /\ UNCHANGED <<room, up, mirror, append_lock, snapshotter, gc, ledger, faults>>

\* serve: the reply is in the outbox, the task reads its next message.
Reply(p) ==
    /\ Is(p, "caught up") \/ Is(p, "stamped")
    /\ Goto(p, Reading)
    /\ UNCHANGED <<room, up, mirror, append_lock, snapshotter, gc, ledger, faults>>

\* serve, after the loop: the connection is gone and its ack row with it.
release_peer(p) ==
    /\ Is(p, "reading")
    /\ room' = clear_peer(room, p)
    /\ Goto(p, [at |-> "gone"])
    /\ UNCHANGED <<up, mirror, append_lock, snapshotter, gc, ledger, faults>>

-----------------------------------------------------------------------------
\* Ops that are in the log or on their way to it.
Used == Range(ledger) \cup {task[p].op : p \in {q \in Conn : "op" \in DOMAIN task[q]}}

\* submit: get in line for the append lock (tokio's Mutex is first come, first
\* served).
submit(p) ==
    /\ Is(p, "reading")
    /\ \E op \in Op \ Used : Goto(p, [at |-> "locking", op |-> op])
    /\ append_lock' = Append(append_lock, p)
    /\ UNCHANGED <<room, up, mirror, snapshotter, gc, ledger, faults>>

\* Mutant: no lock.
HoldsAlways(p) == p \in Conn

Holds(p) == append_lock # << >> /\ Head(append_lock) = p

\* submit, under the lock: the store stamps the op.
AppendOp(p) ==
    /\ Is(p, "locking") /\ Holds(p)
    /\ room' = append(room, task[p].op)
    /\ ledger' = Append(ledger, task[p].op)
    /\ Goto(p, [at |-> "appended", op |-> task[p].op, seq |-> room.head + 1])
    /\ UNCHANGED <<up, mirror, append_lock, snapshotter, gc, faults>>

\* The append fails: the statement never ran, or its answer was lost after it
\* committed.  submit returns the error and the guard is dropped.
AppendFails(p) ==
    /\ Backend = "postgres" /\ faults < MaxFaults
    /\ Is(p, "locking") /\ Holds(p)
    /\ \/ UNCHANGED <<room, ledger>>
       \/ room' = append(room, task[p].op) /\ ledger' = Append(ledger, task[p].op)
    /\ Goto(p, Reading)
    /\ append_lock' = Tail(append_lock)
    /\ faults' = faults + 1
    /\ UNCHANGED <<up, mirror, snapshotter, gc>>

\* Mutant: an op past a gap is applied.
ApplyPastGap(p) ==
    /\ Is(p, "appended")
    /\ mirror' = Append(mirror, task[p].op)
    /\ Goto(p, [task[p] EXCEPT !.at = "stamped"])
    /\ append_lock' = Tail(append_lock)
    /\ UNCHANGED <<room, up, snapshotter, gc, ledger, faults>>

\* Mutant: the guard is not dropped.
ApplyKeepsLock(p) ==
    /\ Is(p, "appended")
    /\ mirror' = Append(mirror, task[p].op)
    /\ Goto(p, [task[p] EXCEPT !.at = "stamped"])
    /\ UNCHANGED <<room, up, append_lock, snapshotter, gc, ledger, faults>>

\* submit, still under the lock: the mirror applies the stamped op if it is
\* the next one.  If it refuses, submit returns the error and nobody hears of
\* the op.  Either way the guard is dropped.
ApplyToMirror(p) ==
    /\ Is(p, "appended")
    /\ IF task[p].seq = Len(mirror) + 1
       THEN /\ mirror' = Append(mirror, task[p].op)
            /\ Goto(p, [task[p] EXCEPT !.at = "stamped"])
       ELSE /\ Goto(p, Reading)
            /\ UNCHANGED mirror
    /\ append_lock' = Tail(append_lock)
    /\ UNCHANGED <<room, up, snapshotter, gc, ledger, faults>>

-----------------------------------------------------------------------------
\* take_snapshot: copy the mirror, then save the copy.
TakeSnapshot ==
    /\ up /\ snapshotter.at = "idle"
    /\ snapshotter' = [at |-> "save", doc |-> mirror]
    /\ UNCHANGED <<room, up, mirror, append_lock, task, gc, ledger, faults>>

SaveSnapshot ==
    /\ up /\ snapshotter.at = "save"
    /\ room' = save_snapshot(room, snapshotter.doc)
    /\ snapshotter' = Idle
    /\ UNCHANGED <<up, mirror, append_lock, task, gc, ledger, faults>>

\* run_gc: the lowest ack, if there is any, and whose acks those were.
GcReadAcks ==
    /\ up /\ gc.at = "idle"
    /\ \E m \in Range(room.acks) :
         /\ min_ack(room, m)
         /\ gc' = [at |-> "acks read", min |-> m, peers |-> DOMAIN room.acks]
    /\ UNCHANGED <<room, up, mirror, append_lock, task, snapshotter, ledger, faults>>

\* Mutant: the acks alone decide.
GcIgnoresSnapshot ==
    /\ up /\ gc.at = "acks read"
    /\ gc' = IF gc.min = 0 THEN Idle
             ELSE [at |-> "compact", upper |-> gc.min, peers |-> gc.peers]
    /\ UNCHANGED <<room, up, mirror, append_lock, task, snapshotter, ledger, faults>>

\* Mutant: the snapshot alone decides.
GcIgnoresAcks ==
    /\ up /\ gc.at = "acks read"
    /\ LET snap == latest_snapshot(room)
           upper == IF snap = None THEN 0 ELSE Len(snap)
       IN gc' = IF upper = 0 THEN Idle
                ELSE [at |-> "compact", upper |-> upper, peers |-> gc.peers]
    /\ UNCHANGED <<room, up, mirror, append_lock, task, snapshotter, ledger, faults>>

\* run_gc: never past the newest snapshot.
GcReadSnapshot ==
    /\ up /\ gc.at = "acks read"
    /\ LET snap == latest_snapshot(room)
           upper == AtMost(gc.min, IF snap = None THEN 0 ELSE Len(snap))
       IN gc' = IF upper = 0 THEN Idle
                ELSE [at |-> "compact", upper |-> upper, peers |-> gc.peers]
    /\ UNCHANGED <<room, up, mirror, append_lock, task, snapshotter, ledger, faults>>

GcCompact ==
    /\ up /\ gc.at = "compact"
    /\ room' = compact_below(room, gc.upper)
    /\ gc' = Idle
    /\ UNCHANGED <<up, mirror, append_lock, task, snapshotter, ledger, faults>>

-----------------------------------------------------------------------------
\* The process dies: what it held in memory is gone, and so are its
\* connections.  The new process clears the acks as it starts.
Crash ==
    /\ Backend = "postgres" /\ up /\ faults < MaxFaults
    /\ up' = FALSE /\ faults' = faults + 1
    /\ room' = reopen(room)
    /\ mirror' = << >> /\ append_lock' = << >>
    /\ task' = [p \in Conn |-> IF task[p].at = "new" THEN task[p] ELSE [at |-> "gone"]]
    /\ snapshotter' = Idle /\ gc' = Idle
    /\ UNCHANGED ledger

\* What restore makes of the store.
Rebuilt == LET snap == latest_snapshot(room)
               doc == IF snap = None THEN << >> ELSE snap
           IN Replay(doc, slice(room, Len(doc), room.head))

\* restore: the first op that is refused fails it, and the room stays closed.
restore ==
    /\ ~ up /\ Len(Rebuilt) = room.head
    /\ up' = TRUE /\ mirror' = Rebuilt
    /\ UNCHANGED <<room, append_lock, task, snapshotter, gc, ledger, faults>>

Connection(p) ==
    \/ ReadHead(p) \/ ReadSnapshot(p) \/ ReadSlice(p) \/ SeedAck(p) \/ Ping(p)
    \/ CatchupHead(p) \/ CatchupSlice(p) \/ Reply(p) \/ release_peer(p)
    \/ submit(p) \/ AppendOp(p) \/ AppendFails(p) \/ ApplyToMirror(p)

Next == \/ \E p \in Conn : Connection(p)
        \/ TakeSnapshot \/ SaveSnapshot
        \/ GcReadAcks \/ GcReadSnapshot \/ GcCompact
        \/ Crash \/ restore

Spec == Init /\ [][Next]_vars

\* A task that holds or waits for the append lock is run on by the executor.
Fairness == \A p \in Conn : WF_vars(AppendOp(p) \/ ApplyToMirror(p) \/ Reply(p))

FairSpec == Spec /\ Fairness

-----------------------------------------------------------------------------
\* The room, every task and both loops hold what their code can hold: no row
\* lies outside 1..head, no snapshot above snapshot_seq (store.rs, graph.rs).
TypeOK == /\ IsRoom(room) /\ up \in BOOLEAN /\ mirror \in Doc
          /\ append_lock \in Seq(Conn)
          /\ DOMAIN task = Conn /\ \A p \in Conn : IsTask(task[p])
          /\ snapshotter \in SnapshotterState /\ gc \in GcState
          /\ ledger \in Seq(Op) /\ faults \in 0..MaxFaults

IsPrefixOf(d, e) == Len(d) <= Len(e) /\ \A n \in 1..Len(d) : d[n] = e[n]

\* The log is dense and never rewritten: it holds exactly the ops above the
\* compaction threshold, each under the seq it was given (migrations: unique
\* and dense).
LogIsDense ==
    /\ room.head = Len(ledger)
    /\ room.compacted_below <= room.head
    /\ DOMAIN room.ops = room.compacted_below + 1 .. room.head
    /\ \A n \in DOMAIN room.ops : room.ops[n].op = ledger[n]

\* Whatever the loops and the submits interleave to, the store can still give
\* back the whole log: some snapshot reaches the compaction threshold, and
\* every snapshot is the fold of a prefix of the log.
Recoverable ==
    /\ \A s \in DOMAIN room.snapshots : IsPrefixOf(room.snapshots[s], ledger)
    /\ room.compacted_below = 0
       \/ \E s \in DOMAIN room.snapshots :
            Len(room.snapshots[s]) = s /\ room.compacted_below <= s

\* The mirror never folds anything but a prefix of the log.
MirrorFoldsLog == IsPrefixOf(mirror, ledger)

\* While nobody holds the append lock the mirror is at head, so that a
\* snapshot taken then is one of everything that was stored.
MirrorAtHead == up /\ append_lock = << >> => mirror = ledger

\* What a client that holds the first since ops makes of the answer it gets.
Given(p) ==
    LET has == SubSeq(ledger, 1, task[p].since) IN
    Replay(IF task[p].at = "answered" /\ task[p].snap # None THEN task[p].snap ELSE has,
           task[p].rows)

\* Nobody is given anything but a prefix of the log, and a Welcome or a Catchup
\* ends short of the head it announces only if compaction passed its start.
AnswersReachHead ==
    \A p \in Conn : task[p].at \in {"answered", "caught up"} =>
        /\ IsPrefixOf(Given(p), ledger)
        /\ Len(Given(p)) < task[p].head =>
              (IF task[p].at = "answered" THEN From(p) ELSE task[p].since)
                  < room.compacted_below

\* Compaction never passes what a peer it knew of has yet to ack.
CompactionWaitsForAcks ==
    gc.at = "compact" =>
        \A p \in gc.peers \cap DOMAIN room.acks : gc.upper <= room.acks[p]

\* Every submit gets the lock and gives it back, also behind a submit whose
\* append failed or whose op the mirror refused; only a crash ends one early.
SubmitReturns ==
    \A p \in Conn : task[p].at = "locking" ~> task[p].at \in {"reading", "gone"}

\* graph.rs:42: restore applies every op since the snapshot to bring the
\* mirror to head.
RoomReopens == ~ up => Len(Rebuilt) = room.head
=============================================================================
