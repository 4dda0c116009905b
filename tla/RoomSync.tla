------------------------------ MODULE RoomSync ------------------------------
(***************************************************************************)
(* A room and its clients: GraphRoomHandler, the broadcast channel, the    *)
(* writer task of each connection, and what the client engine does with    *)
(* the frames it is sent (apps/kyoso_server/src/services/room.rs,          *)
(* handlers/room_ws.rs; crates/kyoso_graph_sync/src/plugin.rs).            *)
(*                                                                         *)
(* Abstracted: a frame is applied when it is written: between the writer   *)
(* and the client there are only queues that keep order and lose nothing,  *)
(* so the delay can be the writer's.  Pongs, errors and presence frames do *)
(* not touch the document.  A client never asks for a Catchup and never    *)
(* reconnects, because nothing in the code does.                           *)
(***************************************************************************)
EXTENDS GraphRoomHandler

CONSTANTS Reader,   \* connections of Tier::Read; the others are ReadWrite
          Capacity  \* BROADCAST_CAPACITY

ASSUME RoomAssumption == Reader \subseteq Conn /\ Capacity \in Nat \ {0}

VARIABLES
    sent,       \* every Apply broadcast so far, in order
    cursor,     \* per connection, how far its receiver has read; None before it subscribes
    outbox,     \* per connection, the Welcome waiting for its writer, if any
    writer,     \* per connection, "none", "running", "lagged" or "closed"
    buffer,     \* per reader, the ops held for the next ApplyBatch
    view,       \* per client, the ops its engine has applied, in order
    connected,  \* per client, whether it has seen its Welcome
    raced       \* history: per client, why the stream it was given has a hole

net == <<sent, cursor, outbox, writer, buffer, view, connected, raced>>
roomVars == <<vars, net>>

Set(f, p, x) == [f EXCEPT ![p] = x]

RoomInit ==
    /\ Init
    /\ sent = << >>
    /\ cursor = [p \in Conn |-> None]
    /\ outbox = [p \in Conn |-> << >>]
    /\ writer = [p \in Conn |-> "none"]
    /\ buffer = [p \in Conn |-> << >>]
    /\ view = [p \in Conn |-> << >>]
    /\ connected = [p \in Conn |-> FALSE]
    /\ raced = [p \in Conn |-> {}]

-----------------------------------------------------------------------------
\* The client's side.

\* Mutant: an op past a gap is taken.
AppliedPastGap(doc, frame) == IF frame.seq > Len(doc) THEN Append(doc, frame.op) ELSE doc

\* apply_one: the engine takes the next op; a refusal is logged and forgotten.
Applied(doc, frame) == IF frame.seq = Len(doc) + 1 THEN Append(doc, frame.op) ELSE doc

AppliedAll(doc, frames) ==
    LET after[n \in 0..Len(frames)] ==
          IF n = 0 THEN doc ELSE Applied(after[n - 1], frames[n])
    IN after[Len(frames)]

\* graph_inbound_system on a Welcome: restore the snapshot if there is one,
\* then apply the diff op by op.
Welcomed(doc, welcome) ==
    Replay(IF welcome.snap = None THEN doc ELSE welcome.snap, welcome.rows)

\* connect: a client is new, so it says since = 0.
Hello(p) == /\ ReadHead(p) /\ task'[p].since = 0
            /\ UNCHANGED net

\* outbound_system: a connected client ships its ops ...
Submit(p) == /\ connected[p] /\ p \notin Reader
             /\ submit(p)
             /\ UNCHANGED net

\* ... and acks what it has applied, when that has grown.
Ack(p) == /\ Is(p, "reading") /\ connected[p] /\ Len(view[p]) > room.acks[p]
          /\ Ping(p) /\ room'.acks[p] = Len(view[p])
          /\ UNCHANGED net

-----------------------------------------------------------------------------
\* The connection task.
Greet(p) == (ReadSnapshot(p) \/ ReadSlice(p)) /\ UNCHANGED net

\* Why the Welcome of p falls short of the head it announces, if it does:
\* compaction passed its start, or rows came out of the store without a seq.
Shortfall(p) ==
    {why \in {"compacted", "unstamped"} :
        /\ Len(Given(p)) < task[p].head
        /\ why = "compacted" => From(p) < room.compacted_below
        /\ why = "unstamped" => Unstamped(task[p].rows)}

\* handshake, its end: the Welcome goes to the outbox.
SendWelcome(p) ==
    /\ SeedAck(p)
    /\ outbox' = Set(outbox, p, <<[snap |-> task[p].snap, rows |-> task[p].rows,
                                   head |-> task[p].head]>>)
    /\ raced' = [raced EXCEPT ![p] = @ \cup Shortfall(p)]
    /\ UNCHANGED <<sent, cursor, writer, buffer, view, connected>>

Subscribed(p) == cursor[p] # None

\* serve: only after the handshake does the connection subscribe.
Subscribe(p) ==
    /\ Is(p, "reading") /\ ~ Subscribed(p)
    /\ cursor' = Set(cursor, p, Len(sent))
    /\ writer' = Set(writer, p, "running")
    /\ raced' = [raced EXCEPT ![p] =
                   @ \cup IF \E k \in DOMAIN sent : sent[k].seq > outbox[p][1].head
                          THEN {"unsubscribed"} ELSE {}]
    /\ UNCHANGED <<vars, sent, outbox, buffer, view, connected>>

Stamp(p) == (AppendOp(p) \/ ApplyToMirror(p)) /\ UNCHANGED net

\* Room::submit: the broadcast comes after the append lock was given back.
Broadcast(p) ==
    /\ task[p].at = "stamped" /\ Reply(p)
    /\ sent' = Append(sent, [op |-> task[p].op, seq |-> task[p].seq])
    /\ UNCHANGED <<cursor, outbox, writer, buffer, view, connected, raced>>

\* The client closes: the reader's loop ends, the writer drains its outbox and
\* ends, the ack row goes.
Leave(p) ==
    /\ Subscribed(p)
    /\ release_peer(p)
    /\ writer' = Set(writer, p, "closed")
    /\ UNCHANGED <<sent, cursor, outbox, buffer, view, connected, raced>>

-----------------------------------------------------------------------------
\* The writer task: select! takes a branch that is ready, either one.
Running(p) == writer[p] = "running"
Lagging(p) == Subscribed(p) /\ Len(sent) > cursor[p] + Capacity

\* Both kinds of writer send what is in the outbox at once.
WriteOutbox(p) ==
    /\ Running(p) /\ outbox[p] # << >>
    /\ view' = Set(view, p, Welcomed(view[p], Head(outbox[p])))
    /\ connected' = Set(connected, p, TRUE)
    /\ outbox' = Set(outbox, p, Tail(outbox[p]))
    /\ UNCHANGED <<vars, sent, cursor, writer, buffer, raced>>

Overtakes(p) == IF outbox[p] = << >> THEN {} ELSE {"overtaken"}

\* writer_live: forward the next Apply.
WriteApply(p) ==
    /\ Running(p) /\ p \notin Reader /\ ~ Lagging(p) /\ cursor[p] < Len(sent)
    /\ view' = Set(view, p, Applied(view[p], sent[cursor[p] + 1]))
    /\ cursor' = Set(cursor, p, cursor[p] + 1)
    /\ raced' = [raced EXCEPT ![p] = @ \cup Overtakes(p)]
    /\ UNCHANGED <<vars, sent, outbox, writer, buffer, connected>>

\* Mutant: only the newest Apply is held.
HoldLatest(p) ==
    /\ Running(p) /\ p \in Reader /\ ~ Lagging(p) /\ cursor[p] < Len(sent)
    /\ buffer' = Set(buffer, p, <<sent[cursor[p] + 1]>>)
    /\ cursor' = Set(cursor, p, cursor[p] + 1)
    /\ UNCHANGED <<vars, sent, outbox, writer, view, connected, raced>>

\* writer_coalesced: hold it, and send what is held when the tick comes.
HoldApply(p) ==
    /\ Running(p) /\ p \in Reader /\ ~ Lagging(p) /\ cursor[p] < Len(sent)
    /\ buffer' = Set(buffer, p, Append(buffer[p], sent[cursor[p] + 1]))
    /\ cursor' = Set(cursor, p, cursor[p] + 1)
    /\ UNCHANGED <<vars, sent, outbox, writer, view, connected, raced>>

WriteBatch(p) ==
    /\ Running(p) /\ p \in Reader /\ buffer[p] # << >>
    /\ view' = Set(view, p, AppliedAll(view[p], buffer[p]))
    /\ buffer' = Set(buffer, p, << >>)
    /\ raced' = [raced EXCEPT ![p] = @ \cup Overtakes(p)]
    /\ UNCHANGED <<vars, sent, cursor, outbox, writer, connected>>

\* Mutant: the writer goes on with the oldest Apply still held.
LagResumes(p) ==
    /\ Running(p) /\ Lagging(p)
    /\ cursor' = Set(cursor, p, Len(sent) - Capacity)
    /\ UNCHANGED <<vars, sent, outbox, writer, buffer, view, connected, raced>>

\* The receiver was left behind: the writer stops.  The reader half goes on.
WriterLags(p) ==
    /\ Running(p) /\ Lagging(p)
    /\ writer' = Set(writer, p, "lagged")
    /\ UNCHANGED <<vars, sent, cursor, outbox, buffer, view, connected, raced>>

-----------------------------------------------------------------------------
\* The two background loops.
Loops == /\ TakeSnapshot \/ SaveSnapshot \/ GcReadAcks \/ GcReadSnapshot \/ GcCompact
         /\ UNCHANGED net

Serve(p) == Greet(p) \/ SendWelcome(p) \/ Subscribe(p) \/ Stamp(p) \/ Broadcast(p)

Write(p) == WriteApply(p) \/ HoldApply(p) \/ WriterLags(p)

RoomNext == \/ \E p \in Conn : \/ Hello(p) \/ Submit(p) \/ Ack(p) \/ Leave(p)
                               \/ Serve(p)
                               \/ WriteOutbox(p) \/ Write(p) \/ WriteBatch(p)
            \/ Loops

RoomSpec == RoomInit /\ [][RoomNext]_roomVars

\* The executor runs every task that can go on; select! leaves no ready branch
\* waiting for ever; the flush tick keeps coming.  Nothing makes a client say
\* Hello, submit, ack or leave, and nothing here needs the loops to run.
RoomFairness == \A p \in Conn : /\ WF_roomVars(Serve(p))
                                /\ WF_roomVars(WriteOutbox(p))
                                /\ WF_roomVars(Write(p))
                                /\ WF_roomVars(WriteBatch(p))

FairRoomSpec == RoomSpec /\ RoomFairness

-----------------------------------------------------------------------------
\* A receiver never reads past what was broadcast, and a connection has at most
\* one frame waiting in its outbox (room_ws.rs).
RoomTypeOK ==
    /\ sent \in Seq([op : Op, seq : Nat])
    /\ cursor \in [Conn -> (0..Len(sent)) \cup {None}]
    /\ \A p \in Conn : Len(outbox[p]) <= 1
    /\ writer \in [Conn -> {"none", "running", "lagged", "closed"}]
    /\ buffer \in [Conn -> Seq([op : Op, seq : Nat])]
    /\ view \in [Conn -> Doc]
    /\ connected \in [Conn -> BOOLEAN]
    /\ raced \in [Conn -> SUBSET {"compacted", "unstamped", "unsubscribed", "overtaken"}]

\* The promise: RoomSync implements AbstractLog.
Promise == INSTANCE AbstractLog WITH log <- ledger, welcomed <- connected
ImplementsLog == Promise!Spec

\* Two connections broadcast in another order than they appended.
OutOfOrder == \E k \in DOMAIN sent : sent[k].seq # k

\* The seqs p can still be sent.
OnTheWay(p) ==
    (UNION {DOMAIN outbox[p][k].rows : k \in DOMAIN outbox[p]})
    \cup {buffer[p][k].seq : k \in DOMAIN buffer[p]}
    \cup {sent[k].seq : k \in {j \in DOMAIN sent : j > cursor[p]}}
    \cup {task[q].seq : q \in {r \in Conn : task[r].at \in {"appended", "stamped"}}}

\* What p has, or will have with the Welcome on its way to it.
Base(p) == IF outbox[p] # << >> /\ outbox[p][1].snap # None
           THEN Len(outbox[p][1].snap) ELSE Len(view[p])

\* A client that is subscribed and not left behind has every op, or the op is
\* on its way to it ...
MissesNothing(p) == (Base(p) + 1 .. room.head) \subseteq OnTheWay(p)

\* ... unless one of five things put a hole in its stream: ops were broadcast
\* between its Welcome and its subscription, an Apply overtook its Welcome,
\* compaction overtook its Welcome, the broadcast itself lost the order, or,
\* with Postgres, the rows of its Welcome had no seq (store.rs: append encodes
\* the op before it is stamped).  There is no sixth way.
HolesHaveKnownCauses ==
    \A p \in Conn : Running(p) /\ raced[p] = {} /\ ~ OutOfOrder => MissesNothing(p)

\* Every op reaches every client that keeps up, unless such a race happened.
OpsArrive ==
    \A p \in Conn, n \in 1..Cardinality(Op) :
        Running(p) /\ Len(ledger) >= n
            ~> Len(view[p]) >= n \/ ~ Running(p) \/ raced[p] # {} \/ OutOfOrder

=============================================================================
