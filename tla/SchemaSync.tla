----------------------------- MODULE SchemaSync -----------------------------
(***************************************************************************)
(* One field of a synced component: its typed document on a client, the    *)
(* opaque record the server keeps of it, and the bridge between the        *)
(* document and the component (crates/kyoso_crdt/src/opaque.rs, schema.rs; *)
(* crates/kyoso_sync/src/schema.rs, sequence_diff.rs).                     *)
(*                                                                         *)
(* The kind of a field is what the derive macro is told: "lww", "or_set",  *)
(* "counter" (an i64), "narrow" (a counter in an unsigned component),      *)
(* "sequence", "map" (of registers); "tree" is MoveTree, which no          *)
(* component carries.  Abstracted: the schema and field names that head    *)
(* every path, so that a path is << >> or, in a map, <<key>>.              *)
(***************************************************************************)
EXTENDS CrdtTypes

CONSTANTS Default,  \* what a fresh component holds in an "lww" field
          Wrap      \* how many values a "narrow" component has

ASSUME SchemaAssumption == Wrap \in Nat \ {0}

-----------------------------------------------------------------------------
\* The leaves, as the typed schema and the opaque record both dispatch them.

Bottom(kind) ==
    CASE kind = "lww" -> None
      [] kind = "or_set" -> EmptySet
      [] kind \in {"counter", "narrow"} -> EmptyCounter
      [] OTHER -> EmptyMap

LeafApply(kind, state, delta, ctx) ==
    CASE kind = "lww" -> LwwApply(state, delta, ctx)
      [] kind = "or_set" -> SetApply(state, delta, ctx)
      [] kind \in {"counter", "narrow"} -> CounterApply(state, delta, ctx)
      [] kind = "sequence" -> SequenceApply(state, delta, ctx)
      [] kind = "tree" -> TreeApply(state, delta, ctx)

\* The variant of OpaqueValue a delta asks for.
KindOf(delta) ==
    CASE delta.type = "LwwReplace" -> "lww"
      [] delta.type \in {"OrSetAdd", "OrSetRemove"} -> "or_set"
      [] delta.type = "PnCounterDelta" -> "counter"
      [] delta.type \in {"SequenceInsert", "SequenceDelete"} -> "sequence"
      [] delta.type = "TreeMove" -> "tree"

-----------------------------------------------------------------------------
\* The typed document.

At(map, key) == IF key \in DOMAIN map THEN map[key] ELSE None

\* CausalMap::apply_wire: a removal drops the entry whole; anything else
\* finds or makes the entry and goes on inside it.
MapApply(map, op, ctx) ==
    IF op.delta.type = "MapRemove"
    THEN Without(map, op.path[1])
    ELSE Put(map, op.path[1], LwwApply(At(map, op.path[1]), op.delta, ctx))

\* SchemaDoc::apply_property.
apply_property(kind, doc, op, seq) ==
    LET ctx == [id |-> op.id, seq |-> seq]
    IN IF kind = "map" THEN MapApply(doc, op, ctx) ELSE LeafApply(kind, doc, op.delta, ctx)

-----------------------------------------------------------------------------
\* OpaqueRecord: one value per path, without the schema.

\* Mutant: a removal leaves the record as it is.
RemovalIgnored(record, op, seq) ==
    LET kind == KindOf(op.delta)
        field == IF op.path \in DOMAIN record THEN record[op.path]
                 ELSE [kind |-> kind, state |-> Bottom(kind)]
    IN IF op.delta.type \in {"MapRemove", "SequenceDelete"} THEN record
       ELSE Put(record, op.path, [field EXCEPT !.state =
                LeafApply(kind, @, op.delta, [id |-> op.id, seq |-> seq])])

\* A removal drops every path below its own; any other delta makes the value
\* of its variant, and is refused by a value of another.
apply_wire(record, op, seq) ==
    IF op.delta.type = "MapRemove"
    THEN Restrict(record, {p \in DOMAIN record : ~IsPrefix(op.path, p)})
    ELSE LET kind == KindOf(op.delta)
             field == IF op.path \in DOMAIN record THEN record[op.path]
                      ELSE [kind |-> kind, state |-> Bottom(kind)]
         IN IF field.kind # kind THEN record
            ELSE Put(record, op.path, [field EXCEPT !.state =
                     LeafApply(kind, @, op.delta, [id |-> op.id, seq |-> seq])])

\* hydrate_schema_doc: install_state of each path into an empty document.
Hydrated(kind, record) ==
    IF kind = "map"
    THEN [k \in {p[1] : p \in DOMAIN record} |-> record[<<k>>].state]
    ELSE IF << >> \in DOMAIN record THEN record[<< >>].state ELSE Bottom(kind)

-----------------------------------------------------------------------------
\* SchemaField: what the component shows of a document ...

\* project_to.  An empty register leaves the component alone.
project_to(kind, doc, comp) ==
    CASE kind = "lww" -> IF doc = None THEN comp ELSE doc.value
      [] kind = "or_set" -> Members(doc)
      [] kind = "counter" -> CounterValue(doc)
      [] kind = "narrow" -> CounterValue(doc) % Wrap  \* as u32 and its like
      [] kind = "sequence" -> Visible(doc)
      [] kind = "map" -> [k \in {x \in DOMAIN doc : doc[x] # None} |-> doc[k].value]
      [] kind = "tree" -> comp

\* ... and the mutations that carry an edit of the component into it.

CommonPrefix(a, b) ==
    Max({n \in 0..Min({Len(a), Len(b)}) : SubSeq(a, 1, n) = SubSeq(b, 1, n)})

\* Mutant: the suffix may overlap the prefix.
DiffOverlaps(old, new) ==
    LET prefix == CommonPrefix(old, new)
        suffix == CommonPrefix(Reverse(old), Reverse(new))
        gone == Max({0, Len(old) - prefix - suffix})
        deletes == IF gone = 0 THEN << >>
                   ELSE <<[type |-> "DeleteAt", pos |-> prefix, len |-> gone]>>
    IN deletes \o [n \in 1..Max({0, Len(new) - prefix - suffix}) |->
                     [type |-> "InsertAt", pos |-> prefix + n - 1, value |-> new[prefix + n]]]

\* sequence_diff: what is between the common prefix and the common suffix is
\* deleted, and the component's middle inserted one by one.
sequence_diff(old, new) ==
    LET prefix == CommonPrefix(old, new)
        Rest(s) == SubSeq(s, prefix + 1, Len(s))
        suffix == CommonPrefix(Reverse(Rest(old)), Reverse(Rest(new)))
        gone == Len(old) - prefix - suffix
        deletes == IF gone = 0 THEN << >>
                   ELSE <<[type |-> "DeleteAt", pos |-> prefix, len |-> gone]>>
    IN deletes \o [n \in 1..(Len(new) - prefix - suffix) |->
                     [type |-> "InsertAt", pos |-> prefix + n - 1, value |-> new[prefix + n]]]

Each(S, F(_)) == LET order == SetToSeq(S) IN [n \in 1..Len(order) |-> F(order[n])]

\* SchemaField::diff.
diff(kind, doc, comp) ==
    CASE kind = "lww" ->
           IF (IF doc = None THEN Default ELSE doc.value) = comp THEN << >>
           ELSE <<[type |-> "Set", value |-> comp]>>
      [] kind = "or_set" ->
           Each(comp \ Members(doc), LAMBDA x : [type |-> "Add", value |-> x])
           \o Each(Members(doc) \ comp, LAMBDA x : [type |-> "Remove", value |-> x])
      [] kind \in {"counter", "narrow"} ->
           IF comp = CounterValue(doc) THEN << >>
           ELSE <<[type |-> "Inc", by |-> comp - CounterValue(doc)]>>
      [] kind = "sequence" -> sequence_diff(Visible(doc), comp)
      [] kind = "map" ->
           Each({k \in DOMAIN comp : IF At(doc, k) = None THEN TRUE
                                     ELSE doc[k].value # comp[k]},
                LAMBDA k : [type |-> "Apply", key |-> k, value |-> comp[k]])
           \o Each(DOMAIN doc \ DOMAIN comp, LAMBDA k : [type |-> "Remove", key |-> k])
      [] kind = "tree" -> << >>

\* Crdt::mutate, and the path and delta it puts on the wire.
mutate(kind, doc, m) ==
    CASE kind = "lww" -> [path |-> << >>, delta |-> [type |-> "LwwReplace", value |-> m.value]]
      [] kind = "or_set" ->
           [path |-> << >>, delta |-> IF m.type = "Add" THEN SetAddOf(m.value)
                                      ELSE SetRemoveOf(doc, m.value)]
      [] kind \in {"counter", "narrow"} -> [path |-> << >>, delta |-> [type |-> "PnCounterDelta", by |-> m.by]]
      [] kind = "sequence" ->
           [path |-> << >>, delta |-> IF m.type = "InsertAt" THEN InsertAtOf(doc, m.pos, m.value)
                                      ELSE DeleteAtOf(doc, m.pos, m.len)]
      [] kind = "tree" ->
           [path |-> << >>, delta |-> [type |-> "TreeMove", child |-> m.child, parent |-> m.parent]]
      [] kind = "map" ->
           [path |-> <<m.key>>,
            delta |-> IF m.type = "Apply" THEN [type |-> "LwwReplace", value |-> m.value]
                      ELSE [type |-> "MapRemove"]]

\* What is left of the throwaway after its mutations, and the ops they
\* become: each under an id of its own.  A register takes a mutation whatever
\* its stamp, which the stamp Len(log) + n gives it here.
Emit(kind, doc, mutations, peer, next, head) ==
    LET step[n \in 0..Len(mutations)] ==
          IF n = 0 THEN [doc |-> doc, ops |-> << >>]
          ELSE LET before == step[n - 1]
                   made == mutate(kind, before.doc, mutations[n])
                   op == [id |-> <<peer, next + n - 1>>, path |-> made.path, delta |-> made.delta]
               IN [doc |-> apply_property(kind, before.doc, op, head + n),
                   ops |-> Append(before.ops, op)]
    IN step[Len(mutations)]
=============================================================================
