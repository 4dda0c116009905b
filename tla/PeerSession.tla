---------------------------- MODULE PeerSession -----------------------------
(***************************************************************************)
(* A client's session: the peer id a room gives it, the ids it mints under *)
(* that peer, and the presence of the others.  The server side is Room     *)
(* (apps/kyoso_server/src/services/room.rs) and the task of a connection   *)
(* (handlers/room_ws.rs), the client side SyncTransportPlugin              *)
(* (crates/kyoso_sync/src/transport.rs) and IdGen (kyoso_crdt/src/id.rs).  *)
(*                                                                         *)
(* A client connects once.  The server may restart: its log is kept, its   *)
(* rooms are not.  A client's presence frames are handled when sent.  What *)
(* the others see of it is their typed view and the cursors they draw      *)
(* (apps/kyoso_client/src/presence.rs).                                    *)
(***************************************************************************)
EXTENDS Maps, Integers, FiniteSets, Sequences, SequencesExt

CONSTANTS Client,
          States,       \* what a client can say of itself
          Unsaid,       \* PresenceState::default
          MaxMints, MaxSets, MaxRestarts  \* bounds

VARIABLES
    epoch,      \* bound: how often the server has started
    next_peer,  \* Room.next_peer
    presence,   \* Room.presence
    phase,      \* per client, how far the task of its connection is
    peer,       \* per client, the peer id it was given; 0 for none
    born,       \* per client, the epoch that gave it
    outbox,     \* per connection, the Welcome not yet written
    casts,      \* per connection, its receiver of the room's broadcast
    inbox,      \* per client, the frames received and not drained
    status,     \* per client, SyncStatus
    ids,        \* per client, the IdGenerator behind PeerIdGen
    unread,     \* per client, whether its model plugin has a Welcome to read
    raw,        \* per client, RawPresence
    typed,      \* per client, Presence
    cursors,    \* per client, the RemoteCursors on its screen
    local,      \* per client, LocalPresence
    sets,       \* bound: how often presence was set or cleared
    mints,      \* history: every id minted
    missed,     \* history: per client, the peers whose news it can have missed
    failed      \* history: the peers whose release failed

server == <<epoch, next_peer, presence>>
connections == <<phase, peer, born, outbox, casts>>
screen == <<typed, cursors>>
clients == <<inbox, status, ids, unread, raw, screen, local>>
vars == <<server, connections, clients, sets, mints, missed, failed>>

Peers == 1..Cardinality(Client)

\* Bound: a behaviour mints ids or says something of its clients, not both:
\* neither reads what the other writes.
MintsAlone == sets = 0
SaysAlone == mints = << >>

Init ==
    /\ epoch = 0 /\ next_peer = 1 /\ presence = EmptyMap
    /\ phase = [c \in Client |-> "new"]
    /\ peer = [c \in Client |-> 0] /\ born = [c \in Client |-> 0]
    /\ outbox = [c \in Client |-> << >>] /\ casts = [c \in Client |-> << >>]
    /\ inbox = [c \in Client |-> << >>]
    /\ status = [c \in Client |-> "AwaitingWelcome"]
    /\ ids = [c \in Client |-> [peer |-> 0, next |-> 0]]
    /\ unread = [c \in Client |-> FALSE]
    /\ raw = [c \in Client |-> EmptyMap]
    /\ typed = [c \in Client |-> EmptyMap] /\ cursors = [c \in Client |-> EmptyMap]
    /\ local = [c \in Client |-> Unsaid]
    /\ sets = 0 /\ mints = << >>
    /\ missed = [c \in Client |-> {}] /\ failed = {}

\* broadcast.send: to every receiver there is.  A connection that has copied
\* the presence and has not subscribed misses it.
Broadcast(msg) ==
    /\ casts' = [c \in Client |-> IF phase[c] = "live" THEN Append(casts[c], msg) ELSE casts[c]]
    /\ missed' = [c \in Client |-> IF phase[c] = "greeted" THEN missed[c] \cup {msg.peer}
                                   ELSE missed[c]]

-----------------------------------------------------------------------------
\* Mutant: the counter is read and not moved.
SamePeer(c) ==
    /\ phase[c] = "new"
    /\ phase' = [phase EXCEPT ![c] = "greeted"]
    /\ peer' = [peer EXCEPT ![c] = next_peer] /\ born' = [born EXCEPT ![c] = epoch]
    /\ outbox' = [outbox EXCEPT ![c] = <<[type |-> "Welcome", peer |-> next_peer,
                                          presence |-> presence]>>]
    /\ UNCHANGED <<epoch, next_peer, presence, casts, clients, sets, mints, missed, failed>>

\* handshake: assign_peer, welcome_for, presence_snapshot, and the Welcome
\* goes to the outbox.
Handshake(c) ==
    /\ phase[c] = "new"
    /\ phase' = [phase EXCEPT ![c] = "greeted"]
    /\ peer' = [peer EXCEPT ![c] = next_peer] /\ born' = [born EXCEPT ![c] = epoch]
    /\ next_peer' = next_peer + 1
    /\ outbox' = [outbox EXCEPT ![c] = <<[type |-> "Welcome", peer |-> next_peer,
                                          presence |-> presence]>>]
    /\ UNCHANGED <<epoch, presence, casts, clients, sets, mints, missed, failed>>

\* room.subscribe, and the writer is spawned.
Subscribe(c) ==
    /\ phase[c] = "greeted"
    /\ phase' = [phase EXCEPT ![c] = "live"]
    /\ UNCHANGED <<server, peer, born, outbox, casts, clients, sets, mints, missed, failed>>

\* writer_live: select! takes from either of its channels.  What it sends
\* ahead of the Welcome the client will overwrite.
WriteWelcome(c) ==
    /\ phase[c] = "live" /\ outbox[c] # << >>
    /\ inbox' = [inbox EXCEPT ![c] = @ \o outbox[c]]
    /\ outbox' = [outbox EXCEPT ![c] = << >>]
    /\ UNCHANGED <<server, phase, peer, born, casts, status, ids, unread, raw, screen, local,
                   sets, mints, missed, failed>>

WriteBroadcast(c) ==
    /\ phase[c] = "live" /\ casts[c] # << >>
    /\ inbox' = [inbox EXCEPT ![c] = Append(@, Head(casts[c]))]
    /\ casts' = [casts EXCEPT ![c] = Tail(@)]
    /\ missed' = IF outbox[c] = << >> THEN missed
                 ELSE [missed EXCEPT ![c] = @ \cup {Head(casts[c]).peer}]
    /\ UNCHANGED <<server, phase, peer, born, outbox, status, ids, unread, raw, screen, local,
                   sets, mints, failed>>

\* broadcast_local_cursor, of a cursor that moved, presence_outbound_system,
\* and Room::update_presence.
update_presence(c) ==
    /\ phase[c] = "live" /\ status[c] = "Connected" /\ sets < MaxSets /\ SaysAlone
    /\ \E state \in States \ {local[c]} :
         /\ presence' = Put(presence, peer[c], state)
         /\ local' = [local EXCEPT ![c] = state]
         /\ Broadcast([type |-> "PresenceUpdate", peer |-> peer[c], state |-> state])
    /\ sets' = sets + 1
    /\ UNCHANGED <<epoch, next_peer, phase, peer, born, outbox, inbox, status, ids, unread, raw,
                   screen, mints, failed>>

\* Room::clear_presence.
clear_presence(p) ==
    IF p \in DOMAIN presence
    THEN /\ presence' = Without(presence, p)
         /\ Broadcast([type |-> "PresenceLeft", peer |-> p])
    ELSE UNCHANGED <<presence, casts, missed>>

LeavePresence(c) ==
    /\ phase[c] = "live" /\ status[c] = "Connected" /\ sets < MaxSets /\ SaysAlone
    /\ clear_presence(peer[c])
    /\ sets' = sets + 1
    /\ UNCHANGED <<epoch, next_peer, phase, peer, born, outbox, clients, mints, failed>>

\* The client is told at the end of the frames it has.
Hangup(c) == inbox' = [inbox EXCEPT ![c] = Append(@, [type |-> "Disconnected"])]

\* Mutant: the presence of a peer that goes is left to the next restart.
Forgotten(c) ==
    /\ phase[c] = "live"
    /\ phase' = [phase EXCEPT ![c] = "closed"]
    /\ Hangup(c) /\ outbox' = [outbox EXCEPT ![c] = << >>]
    /\ UNCHANGED <<server, peer, born, casts, status, ids, unread, raw, screen, local,
                   sets, mints, missed, failed>>

\* The connection ends; the task goes on to release_peer, which leaves the
\* presence alone when a handler's release_peer fails.
Disconnect(c) ==
    /\ phase[c] = "live"
    /\ phase' = [phase EXCEPT ![c] = "closed"]
    /\ Hangup(c) /\ outbox' = [outbox EXCEPT ![c] = << >>]
    /\ \/ clear_presence(peer[c]) /\ UNCHANGED failed
       \/ failed' = failed \cup {peer[c]} /\ UNCHANGED <<presence, casts, missed>>
    /\ UNCHANGED <<epoch, next_peer, peer, born, status, ids, unread, raw, screen, local,
                   sets, mints>>

\* The server dies and starts: its rooms are built anew, its connections gone.
Restart ==
    /\ epoch < MaxRestarts
    /\ epoch' = epoch + 1 /\ next_peer' = 1 /\ presence' = EmptyMap
    /\ failed' = {}
    /\ phase' = [c \in Client |-> IF phase[c] = "new" THEN "new" ELSE "closed"]
    /\ inbox' = [c \in Client |-> IF phase[c] \in {"greeted", "live"}
                                  THEN Append(inbox[c], [type |-> "Disconnected"]) ELSE inbox[c]]
    /\ outbox' = [c \in Client |-> << >>] /\ casts' = [c \in Client |-> << >>]
    /\ UNCHANGED <<peer, born, status, ids, unread, raw, screen, local, sets, mints, missed>>

-----------------------------------------------------------------------------
\* IdGen::next, for a node, an edge or an op.
Mint(c) ==
    /\ Len(mints) < MaxMints /\ MintsAlone
    /\ mints' = Append(mints, [id |-> ids[c], by |-> c, epoch |-> born[c], unread |-> unread[c]])
    /\ ids' = [ids EXCEPT ![c].next = @ + 1]
    /\ UNCHANGED <<server, connections, inbox, status, unread, raw, screen, local, sets, missed,
                   failed>>

\* IdGen::set_peer.
set_peer(c, p) == ids' = [ids EXCEPT ![c] = [peer |-> p, next |-> 0]]

\* What a frame makes of RawPresence.
Drained(known, msg) ==
    CASE msg.type = "Welcome" -> msg.presence
      [] msg.type = "PresenceUpdate" -> Put(known, msg.peer, msg.state)
      [] msg.type = "PresenceLeft" -> Without(known, msg.peer)
      [] msg.type = "Disconnected" -> EmptyMap

\* Mutant: a departure leaves the typed view as it was.
TypedUpdates(now, view, msg) ==
    CASE msg.type = "Welcome" -> now
      [] msg.type = "PresenceUpdate" -> Put(view, msg.peer, msg.state)
      [] msg.type \in {"PresenceLeft", "Disconnected"} -> view

\* What a RawPresenceEvent makes of Presence: a snapshot is read from
\* RawPresence as it is by now, and the end of the connection is no event.
Typed(now, view, msg) ==
    CASE msg.type = "Welcome" -> now
      [] msg.type = "PresenceUpdate" -> Put(view, msg.peer, msg.state)
      [] msg.type = "PresenceLeft" -> Without(view, msg.peer)
      [] msg.type = "Disconnected" -> view

\* The events of one frame of the screen, in their order.
update_typed_presence(now, view, events) ==
    FoldLeft(LAMBDA known, msg : Typed(now, known, msg), view, events)

\* drain_inbound_system, all frames there are one after the other, and
\* update_typed_presence later in the same frame.
Drain(c) ==
    /\ inbox[c] # << >> /\ inbox' = [inbox EXCEPT ![c] = << >>]
    /\ \E now \in {FoldLeft(Drained, raw[c], inbox[c])} :
         /\ raw' = [raw EXCEPT ![c] = now]
         /\ typed' = [typed EXCEPT ![c] = update_typed_presence(now, @, inbox[c])]
    /\ LET welcomes == {m \in Range(inbox[c]) : m.type = "Welcome"}    \* one at most
           marks == {k \in DOMAIN inbox[c] : inbox[c][k].type \in {"Welcome", "Disconnected"}}
       IN  /\ \/ welcomes = {} /\ UNCHANGED ids
              \/ \E m \in welcomes : set_peer(c, m.peer)
           /\ unread' = [unread EXCEPT ![c] = @ \/ welcomes # {}]
           /\ status' = [status EXCEPT ![c] =
                            IF marks = {} THEN @
                            ELSE IF inbox[c][Max(marks)].type = "Welcome" THEN "Connected"
                            ELSE "Disconnected"]
    /\ UNCHANGED <<server, connections, cursors, local, sets, mints, missed, failed>>

\* A cursor for each peer but the own one, which a client knows while it is
\* connected; one that is there stays while its peer does.
Drawn(c) ==
    LET own == IF status[c] = "Connected" THEN {peer[c]} ELSE {}
        known == DOMAIN typed[c]
    IN  [p \in (known \ own) \cup (known \cap DOMAIN cursors[c]) |-> typed[c][p]]

\* spawn_or_move_remote_cursors and despawn_left_cursors.
DrawCursors(c) ==
    /\ cursors[c] # Drawn(c)
    /\ cursors' = [cursors EXCEPT ![c] = Drawn(c)]
    /\ UNCHANGED <<server, connections, inbox, status, ids, unread, raw, typed, local, sets,
                   mints, missed, failed>>

\* graph_inbound_system: engine.set_peer, over the same IdGen, and restore of
\* a snapshot without records, which has no id to bump the counter past.
ReadWelcome(c) ==
    /\ unread[c]
    /\ set_peer(c, peer[c])
    /\ unread' = [unread EXCEPT ![c] = FALSE]
    /\ UNCHANGED <<server, connections, inbox, status, raw, screen, local, sets, mints, missed,
                   failed>>

Next ==
    \/ \E c \in Client :
         \/ Handshake(c) \/ Subscribe(c) \/ WriteWelcome(c) \/ WriteBroadcast(c)
         \/ update_presence(c) \/ LeavePresence(c) \/ Disconnect(c)
         \/ Mint(c) \/ Drain(c) \/ ReadWelcome(c)
         \/ DrawCursors(c)
    \/ Restart

Spec == Init /\ [][Next]_vars

-----------------------------------------------------------------------------
\* Two ids minted are two, but for what this code leaves open: both minted
\* before a Welcome, under peer 0; under peers given before and after a
\* restart of the server; or by one client, the first of them between the
\* transport's set_peer and the model plugin's, which starts the count again.
IdsCollideOnlyIf ==
    \A i, j \in 1..Len(mints) :
      i < j /\ mints[i].id = mints[j].id =>
        \/ mints[i].id.peer = 0
        \/ mints[i].epoch # mints[j].epoch
        \/ mints[i].by = mints[j].by /\ mints[i].unread

\* Nothing is under way to c, and all of it is drawn.
Settled(c) ==
    /\ phase[c] = "live" /\ outbox[c] = << >> /\ casts[c] = << >> /\ inbox[c] = << >>
    /\ cursors[c] = Drawn(c)

\* Nobody is present who has gone, but for those whose release failed.
GhostsHaveCauses ==
    DOMAIN presence \subseteq
      failed \cup {peer[c] : c \in {x \in Client : phase[x] = "live" /\ born[x] = epoch}}

\* A client that has all its frames draws the cursor of every other peer that
\* is present in the room, with what the peer last said, and of nobody else,
\* but for peers whose news came between the copy of the presence and the
\* subscription, or left the writer ahead of the Welcome; and the room has nobody
\* who has gone, as above.
PresenceAgrees ==
    /\ GhostsHaveCauses
    /\ \A c \in Client : Settled(c) =>
         /\ typed[c] = raw[c]
         /\ \A p \in Peers \ missed[c] :
              /\ p \in DOMAIN cursors[c] <=> p \in DOMAIN presence \ {peer[c]}
              /\ p \in DOMAIN cursors[c] => cursors[c][p] = presence[p]
=============================================================================
