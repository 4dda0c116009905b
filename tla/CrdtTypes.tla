----------------------------- MODULE CrdtTypes -----------------------------
(***************************************************************************)
(* The value types a property of a node can have, and what each does with  *)
(* a mutation, a delta and another replica's state                         *)
(* (crates/kyoso_crdt/src/types).                                          *)
(*                                                                         *)
(* An id is the pair <<peer, seq>> of CrdtId.  The tag of an added element *)
(* is SubDot(op id, 0), the op's id here.  `ctx' is the CausalContext of   *)
(* an op: its id and its place in the log.  A mutation returns the delta   *)
(* that travels; what it does to the throwaway copy is `apply' of that     *)
(* delta, except where the code differs and an operator says so.           *)
(* Abstracted: values are opaque, and the sibling key of a move is left    *)
(* out.                                                                    *)
(***************************************************************************)
EXTENDS Maps, Integers, FiniteSets, Sequences, SequencesExt, FiniteSetsExt

CONSTANT None

\* The derived order of CrdtId, and of Stamp.
Less(a, b) == a[1] < b[1] \/ (a[1] = b[1] /\ a[2] < b[2])

-----------------------------------------------------------------------------
\* LwwRegister: None, or a value with the stamp it was written under.

\* Mutant: the write that comes last wins.
LastComesWins(reg, delta, ctx) == [stamp |-> <<ctx.seq, ctx.id[1]>>, value |-> delta.value]

LwwApply(reg, delta, ctx) ==
    LET stamp == <<ctx.seq, ctx.id[1]>>
    IN IF reg = None \/ Less(reg.stamp, stamp)
       THEN [stamp |-> stamp, value |-> delta.value]
       ELSE reg

LwwJoin(a, b) ==
    IF b # None /\ (a = None \/ Less(a.stamp, b.stamp)) THEN b ELSE a

-----------------------------------------------------------------------------
\* OrSet: the tags that added each item, and the tags removed.

EmptySet == [adds |-> EmptyMap, removes |-> {}]

Tags(set, item) == IF item \in DOMAIN set.adds THEN set.adds[item] ELSE {}

Members(set) == {x \in DOMAIN set.adds : set.adds[x] \ set.removes # {}}

SetApply(set, delta, ctx) ==
    IF delta.type = "OrSetAdd"
    THEN [set EXCEPT !.adds = Put(@, delta.value, Tags(set, delta.value) \cup {ctx.id})]
    ELSE [set EXCEPT !.removes = @ \cup delta.observed]

SetAddOf(item) == [type |-> "OrSetAdd", value |-> item]

\* Mutant: a removal carries every item's tags.
SetRemoveOfAll(set, item) == [type |-> "OrSetRemove", observed |-> UNION Range(set.adds)]

\* A removal names the tags its author has seen and not yet removed.
SetRemoveOf(set, item) == [type |-> "OrSetRemove", observed |-> Tags(set, item) \ set.removes]

SetJoin(a, b) ==
    [adds |-> [x \in DOMAIN a.adds \cup DOMAIN b.adds |-> Tags(a, x) \cup Tags(b, x)],
     removes |-> a.removes \cup b.removes]

-----------------------------------------------------------------------------
\* PnCounter: what each peer has added and taken.

EmptyCounter == [pos |-> EmptyMap, neg |-> EmptyMap]

Of(entries, peer) == IF peer \in DOMAIN entries THEN entries[peer] ELSE 0

Total(entries) == FoldFunction(LAMBDA x, y : x + y, 0, entries)

CounterValue(c) == Total(c.pos) - Total(c.neg)

CounterApply(c, delta, ctx) ==
    LET peer == ctx.id[1]
    IN IF delta.by >= 0
       THEN [c EXCEPT !.pos = Put(@, peer, Of(@, peer) + delta.by)]
       ELSE [c EXCEPT !.neg = Put(@, peer, Of(@, peer) - delta.by)]

MaxOf(a, b) ==
    [p \in DOMAIN a \cup DOMAIN b |-> IF Of(a, p) < Of(b, p) THEN Of(b, p) ELSE Of(a, p)]

CounterJoin(a, b) == [pos |-> MaxOf(a.pos, b.pos), neg |-> MaxOf(a.neg, b.neg)]

-----------------------------------------------------------------------------
\* Sequence: an RGA.  Each element knows the element it was put after.

\* The children of `parent', newest id first.
Children(elements, parent) ==
    LET kids == {i \in DOMAIN elements : elements[i].predecessor = parent}
    IN CHOOSE s \in [1..Cardinality(kids) -> kids] :
         \A n, m \in DOMAIN s : n < m => Less(s[m], s[n])

\* Every id, tombstones included, in visible order: depth first.
Walk(elements) ==
    LET under[p \in DOMAIN elements \cup {None}] ==
          LET kids == Children(elements, p)
          IN FlattenSeq([n \in 1..Len(kids) |-> <<kids[n]>> \o under[kids[n]]])
    IN under[None]

LiveIds(elements) ==
    FoldLeft(LAMBDA live, i : IF elements[i].tombstoned THEN live ELSE Append(live, i),
             << >>, Walk(elements))

Visible(elements) == LET live == LiveIds(elements)
                     IN [n \in 1..Len(live) |-> elements[live[n]].value]

\* Mutant: a delete forgets the element.
SequenceForgets(elements, delta, ctx) ==
    IF delta.type = "SequenceInsert"
    THEN Put(elements, ctx.id, [value |-> delta.value, tombstoned |-> FALSE,
                                predecessor |-> delta.predecessor])
    ELSE Restrict(elements, DOMAIN elements \ delta.targets)

SequenceApply(elements, delta, ctx) ==
    IF delta.type = "SequenceInsert"
    THEN Put(elements, ctx.id, [value |-> delta.value, tombstoned |-> FALSE,
                                predecessor |-> delta.predecessor])
    ELSE [i \in DOMAIN elements |->
            [elements[i] EXCEPT !.tombstoned = @ \/ i \in delta.targets]]

\* InsertAt { pos, value }: after the live element before pos, if there is one.
InsertAtOf(elements, pos, value) ==
    LET live == LiveIds(elements)
    IN [type |-> "SequenceInsert", value |-> value,
        predecessor |-> IF pos \in 1..Len(live) THEN live[pos] ELSE None]

\* DeleteAt { pos, len }: the live elements there, clamped to the end.
DeleteAtOf(elements, pos, len) ==
    [type |-> "SequenceDelete",
     targets |-> LET live == LiveIds(elements)
                 IN {live[n] : n \in pos + 1..Min({pos + len, Len(live)})}]

\* A delete on either side stays; for the rest the one that is there wins.
SequenceJoin(a, b) ==
    [i \in DOMAIN a \cup DOMAIN b |->
       IF i \notin DOMAIN a THEN b[i]
       ELSE [value |-> a[i].value, predecessor |-> a[i].predecessor,
             tombstoned |-> a[i].tombstoned \/ (i \in DOMAIN b /\ b[i].tombstoned)]]

-----------------------------------------------------------------------------
\* MoveTree: the moves, by their place in the log.

\* The ancestors of a node in a forest, itself included.
UpFrom(forest, node) ==
    LET parent(x) == IF x \in DOMAIN forest THEN forest[x] ELSE None
        up[n \in 0..Cardinality(DOMAIN forest)] ==
          IF n = 0 THEN {node} ELSE up[n - 1] \cup {parent(x) : x \in up[n - 1]}
    IN up[Cardinality(DOMAIN forest)] \ {None}

\* Mutant: any move is taken.
MovedAnyhow(forest, move) == Put(forest, move.child, move.parent)

\* A move that would put a node below itself is skipped.
Moved(forest, move) ==
    IF move.parent # None /\ move.child \in UpFrom(forest, move.parent)
    THEN forest
    ELSE Put(forest, move.child, move.parent)

\* The forest: the moves folded in log order.
Forest(tree) ==
    FoldLeft(LAMBDA forest, n : IF n \in DOMAIN tree THEN Moved(forest, tree[n]) ELSE forest,
             EmptyMap, [n \in 1..Max({0} \cup DOMAIN tree) |-> n])

TreeApply(tree, delta, ctx) ==
    Put(tree, ctx.seq, [child |-> delta.child, parent |-> delta.parent])

\* or_insert: what is there stays.
TreeJoin(a, b) ==
    [n \in DOMAIN a \cup DOMAIN b |-> IF n \in DOMAIN a THEN a[n] ELSE b[n]]
=============================================================================
