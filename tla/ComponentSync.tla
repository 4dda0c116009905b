--------------------------- MODULE ComponentSync ---------------------------
(***************************************************************************)
(* One property of one node, end to end: the component a user edits, the   *)
(* diff that turns the edit into ops, the log, the server's opaque record, *)
(* and the echo that is applied to the typed document and projected back   *)
(* (crates/kyoso_sync/src/component_sync.rs; mutate_node of                *)
(* crates/kyoso_graph_crdt/src/graph_backend.rs).                          *)
(*                                                                         *)
(* A client in Holder has the component on an entity of its world, and was *)
(* there before the node was.  The others hold the backend's own document, *)
(* which they edit with mutate_node, and join when they like; beside it    *)
(* their world keeps a SchemaDoc, fed by the same frames.  Frames arrive   *)
(* in order and none is missed: RoomSync says when that is so.  What was   *)
(* in the log but not yet broadcast when a client joined comes twice.      *)
(***************************************************************************)
EXTENDS SchemaSync

CONSTANTS Client,    \* peer ids
          Holder,    \* the clients with the component
          Kinds,     \* the kinds of field tried
          Items,     \* values, set items, sequence elements, keys and nodes
          MaxEdits,  \* bound: edits by hand
          MaxOps     \* bound: ops minted

ASSUME ClientAssumption == Client \subseteq Nat /\ Holder \subseteq Client
ASSUME ItemAssumption == IsFiniteSet(Items) /\ None \notin Items
ASSUME NoneAssumption ==
    None \notin Nat \X Nat /\ None \notin [stamp : Nat \X Nat, value : Items \cup {Default}]
ASSUME KindAssumption ==
    Kinds \subseteq {"lww", "or_set", "counter", "narrow", "sequence", "map", "tree"}

VARIABLES
    kind,     \* the kind of the field
    log,      \* the room's log
    record,   \* the server's OpaqueRecord of the node
    doc,      \* per client, a holder's SchemaDoc slot, or else its backend's document
    late,     \* per client, the SchemaDoc slot of one that joined late, the frames heard for
              \* it, and (history) from where they repeat and where the Welcome ended
    joined,   \* the clients that have had their Welcome
    applied,  \* per client, how much of the log is in its document
    queue,    \* per client, the engine's pending ops
    wire,     \* per client, the ops shipped and not yet logged
    next,     \* per client, its IdGen
    comp,     \* per holder, the component
    changed,  \* per holder, Changed<C> for the next detection
    at,       \* per holder, "idle" or, inside a frame, "detected"
    edits,    \* bound: the edits made
    edited,   \* history: per holder, whether the user changed it since the last detection
    meant,    \* history: per holder, the sum of the user's changes to a counter
    mixed     \* history: per holder, whether an edit met an op in flight or a projection

vars == <<kind, log, record, doc, late, joined, applied, queue, wire, next,
          comp, changed, at, edits, edited, meant, mixed>>

IsCounter == kind \in {"counter", "narrow"}

Fresh(k) == CASE k = "lww" -> Default
              [] k = "or_set" -> {}
              [] k \in {"counter", "narrow"} -> 0
              [] k \in {"sequence", "tree"} -> << >>
              [] k = "map" -> EmptyMap

\* A node was spawned by a holder in this frame, with its default value.
Init ==
    /\ kind \in Kinds
    /\ log = << >> /\ record = EmptyMap
    /\ doc = [c \in Client |-> Bottom(kind)]
    /\ late = [c \in Client |-> [doc |-> Bottom(kind), heard |-> 0, from |-> 0, head |-> 0]]
    /\ joined = Holder
    /\ applied = [c \in Client |-> 0]
    /\ queue = [c \in Client |-> << >>] /\ wire = [c \in Client |-> << >>]
    /\ next = [c \in Client |-> 0]
    /\ comp = [c \in Holder |-> Fresh(kind)]
    /\ changed = [c \in Holder |-> TRUE]
    /\ at = [c \in Holder |-> "idle"]
    /\ edits = 0
    /\ edited = [c \in Holder |-> FALSE]
    /\ meant = [c \in Holder |-> 0]
    /\ mixed = [c \in Holder |-> FALSE]

Minted == FoldFunction(LAMBDA x, y : x + y, 0, next)

\* The values a user can give the component.
Edits(c) ==
    CASE kind = "lww" -> Items
      [] kind = "or_set" -> SUBSET Items
      [] kind = "counter" -> {comp[c] - 1, comp[c] + 1}
      [] kind = "narrow" -> {comp[c] - 1, comp[c] + 1} \cap 0..Wrap - 1
      [] kind = "sequence" -> SeqOf(Items, 2)
      [] kind = "map" -> UNION {[K -> Items] : K \in SUBSET Items}
      [] kind = "tree" -> {}

\* The mutations a client without the component can make.
Mutations(c) ==
    CASE kind = "lww" -> [type : {"Set"}, value : Items]
      [] kind = "or_set" -> [type : {"Add", "Remove"}, value : Items]
      [] IsCounter -> [type : {"Inc"}, by : {-1, 1}]
      [] kind = "sequence" ->
           [type : {"InsertAt"}, pos : 0..Len(Visible(doc[c])), value : Items]
             \cup [type : {"DeleteAt"}, pos : 0..Len(Visible(doc[c])), len : {1, 2}]
      [] kind = "map" -> [type : {"Apply"}, key : Items, value : Items]
                           \cup [type : {"Remove"}, key : Items]
      [] kind = "tree" -> [type : {"Move"}, child : Items, parent : Items \cup {None}]

\* The ops of a list of mutations, as `c' mints them.  `seen' and `of' are
\* history: what of the log the author had, and the mutation.
Ops(c, mutations) ==
    LET ops == Emit(kind, doc[c], mutations, c, next[c], Len(log)).ops
    IN [n \in 1..Len(ops) |-> [id |-> ops[n].id, path |-> ops[n].path, delta |-> ops[n].delta,
                                seen |-> applied[c], of |-> mutations[n]]]

\* An op of c is minted and has not come back.
InFlight(c) ==
    queue[c] # << >> \/ wire[c] # << >> \/ \E n \in applied[c] + 1..Len(log) : log[n].id[1] = c

-----------------------------------------------------------------------------
\* The user, or any system of the app, writes the component.
UserEdit(c) ==
    /\ edits < MaxEdits
    /\ \E value \in Edits(c) \ {comp[c]} :
         /\ comp' = [comp EXCEPT ![c] = value]
         /\ meant' = IF IsCounter THEN [meant EXCEPT ![c] = @ + value - comp[c]] ELSE meant
    /\ changed' = [changed EXCEPT ![c] = TRUE]
    /\ edited' = [edited EXCEPT ![c] = TRUE]
    /\ edits' = edits + 1
    /\ UNCHANGED <<kind, log, record, doc, late, joined, applied, queue, wire, next, at, mixed>>

\* ensure_schema_slots and detect_local_changes.
detect_local_changes(c) ==
    /\ at[c] = "idle"
    /\ LET mutations == IF changed[c] THEN diff(kind, doc[c], comp[c]) ELSE << >>
       IN /\ Minted + Len(mutations) <= MaxOps
          /\ queue' = [queue EXCEPT ![c] = @ \o Ops(c, mutations)]
          /\ next' = [next EXCEPT ![c] = @ + Len(mutations)]
    /\ changed' = [changed EXCEPT ![c] = FALSE]
    /\ edited' = [edited EXCEPT ![c] = FALSE]
    /\ mixed' = [mixed EXCEPT ![c] = @ \/ (edited[c] /\ InFlight(c))]
    /\ at' = [at EXCEPT ![c] = "detected"]
    /\ UNCHANGED <<kind, log, record, doc, late, joined, applied, wire, comp, edits, meant>>

\* The document after the ops of the log up to n.
Caught(c, n) ==
    FoldLeft(LAMBDA d, k : apply_property(kind, d, log[k], k), doc[c],
             [k \in 1..(n - applied[c]) |-> applied[c] + k])

\* Whether the SchemaDoc changed: an op on this node came, or on another one
\* that has the schema.
Stirred(c, n, other) == n > applied[c] \/ other

\* Mutant: the change of the document is not noticed.
ProjectNever(c, n, other) == comp[c]

\* project_to_components: nothing is written unless the SchemaDoc changed, and
\* then every component that has the schema is.
Projected(c, n, other) ==
    IF Stirred(c, n, other) THEN project_to(kind, Caught(c, n), comp[c]) ELSE comp[c]

\* Mutant: ops are applied with change detection bypassed.
IntegrateUnseen(c) ==
    /\ at[c] = "detected"
    /\ \E n \in applied[c]..Len(log) :
         /\ doc' = [doc EXCEPT ![c] = Caught(c, n)]
         /\ applied' = [applied EXCEPT ![c] = n]
    /\ wire' = [wire EXCEPT ![c] = @ \o queue[c]]
    /\ queue' = [queue EXCEPT ![c] = << >>]
    /\ at' = [at EXCEPT ![c] = "idle"]
    /\ UNCHANGED <<kind, log, record, late, joined, next, comp, changed, edits, edited, meant, mixed>>

\* The rest of the frame: apply_remote_changes and project_to_components for
\* the ops that arrived, then outbound_system.
Integrate(c) ==
    /\ at[c] = "detected"
    /\ \E n \in applied[c]..Len(log), other \in BOOLEAN :
         /\ doc' = [doc EXCEPT ![c] = Caught(c, n)]
         /\ applied' = [applied EXCEPT ![c] = n]
         /\ comp' = [comp EXCEPT ![c] = Projected(c, n, other)]
         /\ changed' = [changed EXCEPT ![c] = @ \/ Stirred(c, n, other)]
         /\ mixed' = [mixed EXCEPT ![c] = @ \/ (edited[c] /\ Stirred(c, n, other))]
    /\ wire' = [wire EXCEPT ![c] = @ \o queue[c]]
    /\ queue' = [queue EXCEPT ![c] = << >>]
    /\ at' = [at EXCEPT ![c] = "idle"]
    /\ UNCHANGED <<kind, log, record, late, joined, next, edits, edited, meant>>

\* mutate_node, by a client without the component.
mutate_node(c) ==
    /\ c \in joined \ Holder /\ edits < MaxEdits /\ Minted < MaxOps
    /\ \E m \in Mutations(c) : wire' = [wire EXCEPT ![c] = @ \o Ops(c, <<m>>)]
    /\ next' = [next EXCEPT ![c] = @ + 1]
    /\ edits' = edits + 1
    /\ UNCHANGED <<kind, log, record, doc, late, joined, applied, queue, comp, changed, at,
                   edited, meant, mixed>>

\* The server stamps an op, applies it to its record and sends it to all.
Log(c) ==
    /\ wire[c] # << >>
    /\ log' = Append(log, Head(wire[c]))
    /\ record' = apply_wire(record, Head(wire[c]), Len(log) + 1)
    /\ wire' = [wire EXCEPT ![c] = Tail(@)]
    /\ UNCHANGED <<kind, doc, late, joined, applied, queue, next, comp, changed, at, edits,
                   edited, meant, mixed>>

\* An Apply frame comes to a client that joined late.  Backend::apply_remote
\* skips what it has and says Ok, so apply_one hands the op on either way, and
\* SchemaDoc::apply_property takes it.
Receive(c) ==
    /\ c \in joined \ Holder
    /\ \E n \in 1..Len(log) :
         /\ n = late[c].heard + 1
         /\ late' = [late EXCEPT ![c].heard = n,
                                 ![c].doc = apply_property(kind, @, log[n], n)]
         /\ \E m \in {IF n > applied[c] THEN n ELSE applied[c]} :
              /\ doc' = [doc EXCEPT ![c] = Caught(c, m)]
              /\ applied' = [applied EXCEPT ![c] = m]
    /\ UNCHANGED <<kind, log, record, joined, queue, wire, next, comp, changed, at, edits,
                   edited, meant, mixed>>

\* Each connection has at most one op in the log that is not broadcast yet, so
\* what a Welcome gives and an Apply repeats is of different authors.
AuthorsDiffer(from) ==
    \A n, m \in from + 1..Len(log) : log[n].id[1] = log[m].id[1] => n = m

\* A Welcome with a snapshot: both documents are the record's.  The ops after
\* `from' were not broadcast when the client subscribed.
Join(c) ==
    /\ c \notin joined
    /\ joined' = joined \cup {c}
    /\ doc' = [doc EXCEPT ![c] = Hydrated(kind, record)]
    /\ applied' = [applied EXCEPT ![c] = Len(log)]
    /\ \E from \in 0..Len(log) :
         /\ AuthorsDiffer(from)
         /\ late' = [late EXCEPT ![c] = [doc |-> Hydrated(kind, record), heard |-> from,
                                         from |-> from, head |-> Len(log)]]
    /\ UNCHANGED <<kind, log, record, queue, wire, next, comp, changed, at, edits,
                   edited, meant, mixed>>

Next ==
    \/ \E c \in Holder : UserEdit(c) \/ detect_local_changes(c) \/ Integrate(c)
    \/ \E c \in Client : mutate_node(c) \/ Log(c) \/ Receive(c) \/ Join(c)

Spec == Init /\ [][Next]_vars

-----------------------------------------------------------------------------
\* The sum of the deltas up to n.
SumSaid(n) == FoldLeft(LAMBDA x, k : x + log[k].delta.by, 0, [k \in 1..n |-> k])

\* What the ops up to n say, without the CRDTs: the last write, the sum, the
\* items some add of which no removal had seen.
Said(n) ==
    LET On(key) == Max({0} \cup {k \in 1..n : log[k].of.key = key})
    IN CASE kind = "lww" -> IF n = 0 THEN Default ELSE log[n].of.value
         [] kind = "counter" -> SumSaid(n)
         [] kind = "narrow" -> SumSaid(n) % Wrap
         [] kind = "or_set" ->
              {x \in Items : \E a \in 1..n :
                 /\ log[a].of = [type |-> "Add", value |-> x]
                 /\ \A r \in 1..n : log[r].of = [type |-> "Remove", value |-> x]
                                    => log[r].seen < a}
         [] kind = "map" ->
              LET kept == {k \in Items : On(k) > 0 /\ log[On(k)].of.type = "Apply"}
              IN [k \in kept |-> log[On(k)].of.value]

\* Every document that takes each op once shows what the log says, whoever
\* mutated what on a copy of which state: a removal takes away only what its
\* author had seen, and a write after a map entry's removal brings it back
\* (SchemaDoc of those that were there first, Backend of the others).
DocsMeanTheLog ==
    kind \in {"sequence", "tree"}
    \/ \A c \in joined : project_to(kind, doc[c], Fresh(kind)) = Said(applied[c])

\* The server's record, which knows no schema, hydrates to the document that
\* the log replays to, so that joining by snapshot and by ops agree
\* (opaque.rs and the typed types, hydrate_schema_doc).
HydratedIsReplayed ==
    Hydrated(kind, record)
      = FoldLeft(LAMBDA d, k : apply_property(kind, d, log[k], k), Bottom(kind),
                 [k \in 1..Len(log) |-> k])

\* The forest of a move tree is one, whichever moves met (MoveTree::forest).
ForestHasNoCycle ==
    kind = "tree" => \A c \in joined :
        LET forest == Forest(doc[c])
        IN \A x \in DOMAIN forest : x \notin UpFrom(forest, forest[x])

\* The elements of s are in t, in the same order.
KeepsOrder(s, t) ==
    /\ Range(s) \subseteq Range(t)
    /\ \A n, m \in DOMAIN s : n < m => \E p, q \in DOMAIN t : p < q /\ t[p] = s[n] /\ t[q] = s[m]

\* The elements of a sequence, once placed, keep their order, a deletion loses
\* no element that hangs below, and none is in two places (RGA;
\* Sequence::walk_ids).
OrderIsKept ==
    [][kind = "sequence" => \A c \in joined :
         \A before \in {Walk(doc[c])}, after \in {Walk(doc'[c])} :
            IsInjective(after) /\ KeepsOrder(before, after)]_vars

\* What a holder's diff asks for, applied to the document, is the component.
Diffed(c) ==
    LET step == Emit(kind, doc[c], diff(kind, doc[c], comp[c]), c, next[c], Len(log))
    IN project_to(kind, step.doc, comp[c])

\* How often x is in s.
Often(x, s) == Cardinality({n \in DOMAIN s : s[n] = x})

\* The diff of a component reaches it, but that a sequence which holds an
\* element of a higher peer may come out in another order; none is lost or
\* doubled (SchemaField::diff, sequence_diff, detect_local_changes).
DiffReaches ==
    kind = "tree" \/ \A c \in Holder :
      \/ Diffed(c) = comp[c]
      \/ /\ kind = "sequence" /\ \E i \in DOMAIN doc[c] : i[1] > c
         /\ \A x \in Items : Often(x, Diffed(c)) = Often(x, comp[c])

\* When all is logged and applied, every component shows its document, so
\* that all holders of a node see the same (project_to_components).
RestingComponentsAgree ==
    (/\ \A c \in Client : queue[c] = << >> /\ wire[c] = << >>
     /\ \A c \in Holder : applied[c] = Len(log) /\ at[c] = "idle" /\ ~changed[c])
    => \A c \in Holder : comp[c] = project_to(kind, doc[c], comp[c])

\* The sum of c's ops in l.
SumBy(c, l) == FoldLeft(LAMBDA x, op : IF op.id[1] = c THEN x + op.delta.by ELSE x, 0, l)

\* A holder's ops add up to what its user did to the counter, an edit not yet
\* detected counted as what the component has above the document.  Excepted
\* are an edit that met an op of its own in flight and one in whose frame the
\* component was projected over, be it for an op on another node; and of a
\* component that cannot show the counter's value the sum holds modulo Wrap,
\* for it mints the difference as an op of its own (detect_local_changes).
EditsCountOnce ==
    IsCounter => \A c \in Holder :
      LET owed == meant[c] - SumBy(c, log \o wire[c] \o queue[c])
                    - (IF edited[c] THEN comp[c] - CounterValue(doc[c]) ELSE 0)
      IN \/ mixed[c] \/ (edited[c] /\ InFlight(c))
         \/ IF kind = "narrow" THEN owed % Wrap = 0 ELSE owed = 0

\* Ops that come twice do no lasting harm but to a counter: a register, a set
\* and a tree of moves never show it, a sequence and a map are right again
\* when the repeats are over, and a counter is off by just what was repeated
\* (SchemaDoc::apply_property, which no seq guards).
RepeatsHeal ==
    \A c \in joined \ Holder :
      LET own == late[c]
          over == own.heard >= own.head
      IN IF IsCounter
         THEN CounterValue(own.doc) - CounterValue(doc[c])
                = SumSaid(Min({own.heard, own.head})) - SumSaid(own.from)
         ELSE kind \in {"lww", "or_set", "tree"} \/ over => own.doc = doc[c]
=============================================================================
