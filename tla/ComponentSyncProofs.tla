------------------------ MODULE ComponentSyncProofs ------------------------
(***************************************************************************)
(* First the laws of Lattice (crates/kyoso_crdt/src/lattice.rs) for every  *)
(* value of each type, under what the code guarantees of its states: a     *)
(* stamp, an element id or a place in the log says what was written under  *)
(* it; and what each type does with a delta: a counter moves by it, the    *)
(* moves of a tree leave a forest, and a sequence is walked whole, each id *)
(* once.                                                                   *)
(*                                                                         *)
(* Then, for any clients, holders and values and any number of edits: a    *)
(* document is the replay of what its client has of the log, the server's  *)
(* record hydrates to the same, the trees of moves are forests, what a     *)
(* document shows is what the log says, a component nobody is editing      *)
(* shows its document, an edit of a counter reaches the log once, and the  *)
(* elements of a sequence keep their order.                                *)
(***************************************************************************)
EXTENDS ComponentSync, FoldProofs

\* A join that does not depend on the order, the grouping or the number of
\* its arguments.
Laws(J(_, _), a, b, c) ==
    /\ J(a, a) = a
    /\ J(a, b) = J(b, a)
    /\ J(J(a, b), c) = J(a, J(b, c))

-----------------------------------------------------------------------------
IsRegister(r) == r = None \/ r.stamp \in Nat \X Nat

\* Two registers written under one stamp are one.
Agreed(a, b) == a # None /\ b # None /\ a.stamp = b.stamp => a = b

LEMMA LessIsTotal ==
    ASSUME NEW a \in Nat \X Nat, NEW b \in Nat \X Nat
    PROVE  /\ ~Less(a, a)
           /\ Less(a, b) \/ a = b \/ Less(b, a)
           /\ ~(Less(a, b) /\ Less(b, a))
  BY DEF Less

LEMMA LessIsTransitive ==
    ASSUME NEW a \in Nat \X Nat, NEW b \in Nat \X Nat, NEW c \in Nat \X Nat,
           Less(a, b), Less(b, c)
    PROVE  Less(a, c)
  BY DEF Less

\* Registers meet the laws of Lattice (lww.rs, join).
THEOREM RegisterLaws ==
    ASSUME NEW a, NEW b, NEW c,
           IsRegister(a), IsRegister(b), IsRegister(c),
           Agreed(a, b), Agreed(b, c), Agreed(a, c)
    PROVE  Laws(LwwJoin, a, b, c)
<1>1. LwwJoin(a, a) = a
  BY LessIsTotal DEF LwwJoin, IsRegister
<1>2. LwwJoin(a, b) = LwwJoin(b, a)
  <2>1. CASE a = None \/ b = None
    BY <2>1 DEF LwwJoin
  <2>2. CASE a # None /\ b # None
    BY <2>2, LessIsTotal DEF LwwJoin, IsRegister, Agreed
  <2> QED BY <2>1, <2>2
<1>3. LwwJoin(LwwJoin(a, b), c) = LwwJoin(a, LwwJoin(b, c))
  <2>1. CASE a = None
    BY <2>1 DEF LwwJoin
  <2>2. CASE b = None
    BY <2>2 DEF LwwJoin
  <2>3. CASE c = None
    BY <2>3 DEF LwwJoin
  <2>4. CASE a # None /\ b # None /\ c # None
    <3>1. a.stamp \in Nat \X Nat /\ b.stamp \in Nat \X Nat /\ c.stamp \in Nat \X Nat
      BY <2>4 DEF IsRegister
    <3>2. CASE Less(a.stamp, b.stamp) /\ Less(b.stamp, c.stamp)
      BY <3>1, <3>2, <2>4, LessIsTransitive DEF LwwJoin
    <3>3. CASE Less(a.stamp, b.stamp) /\ ~Less(b.stamp, c.stamp)
      BY <3>1, <3>3, <2>4 DEF LwwJoin
    <3>4. CASE ~Less(a.stamp, b.stamp) /\ Less(b.stamp, c.stamp)
      BY <3>1, <3>4, <2>4 DEF LwwJoin
    <3>5. CASE ~Less(a.stamp, b.stamp) /\ ~Less(b.stamp, c.stamp)
      <4>1. ~Less(a.stamp, c.stamp)
        BY <3>1, <3>5, LessIsTotal, LessIsTransitive
      <4> QED BY <4>1, <3>5, <2>4 DEF LwwJoin
    <3> QED BY <3>2, <3>3, <3>4, <3>5
  <2> QED BY <2>1, <2>2, <2>3, <2>4
<1> QED BY <1>1, <1>2, <1>3 DEF Laws

\* Whatever write a register meets, newer or older than what it holds or the
\* same once more, it does not go back in the order of the lattice, keeps what
\* is at least as new as it, and is not changed by the write again; and two
\* writes with stamps of their own leave the same in either order (lww.rs,
\* apply; Agreed of the register says that a stamp names one write).
THEOREM RegisterGrows ==
    ASSUME NEW a, IsRegister(a), \A s, v : [stamp |-> s, value |-> v] # None,
           NEW delta, NEW ctx, <<ctx.seq, ctx.id[1]>> \in Nat \X Nat,
           NEW other, NEW octx, <<octx.seq, octx.id[1]>> \in Nat \X Nat
    PROVE  LET b == LwwApply(a, delta, ctx)
           IN /\ LwwJoin(a, b) = b
              /\ b # None
              /\ ~Less(b.stamp, <<ctx.seq, ctx.id[1]>>)
              /\ a # None => ~Less(b.stamp, a.stamp)
              /\ LwwApply(b, delta, ctx) = b
              /\ <<ctx.seq, ctx.id[1]>> # <<octx.seq, octx.id[1]>> =>
                     LwwApply(b, other, octx) =
                         LwwApply(LwwApply(a, other, octx), delta, ctx)
<1> DEFINE s == <<ctx.seq, ctx.id[1]>>
           o == <<octx.seq, octx.id[1]>>
           w == [stamp |-> s, value |-> delta.value]
           u == [stamp |-> o, value |-> other.value]
<1>1. /\ LwwApply(a, delta, ctx) = IF a = None \/ Less(a.stamp, s) THEN w ELSE a
      /\ LwwApply(w, other, octx) = IF Less(s, o) THEN u ELSE w
      /\ LwwApply(a, other, octx) = IF a = None \/ Less(a.stamp, o) THEN u ELSE a
      /\ LwwApply(u, delta, ctx) = IF Less(o, s) THEN w ELSE u
      /\ w # None /\ w.stamp = s /\ u # None /\ u.stamp = o
      /\ LwwApply(w, delta, ctx) = IF Less(s, s) THEN w ELSE w
  BY DEF LwwApply
<1>2. s \in Nat \X Nat /\ o \in Nat \X Nat /\ (a # None => a.stamp \in Nat \X Nat)
  BY DEF IsRegister
<1>3. LwwJoin(a, a) = a /\ LwwJoin(None, w) = w
      /\ (a # None /\ Less(a.stamp, s) => LwwJoin(a, w) = w)
  BY <1>1, <1>2, LessIsTotal DEF LwwJoin
<1> HIDE DEF s, o, w, u
<1>4. CASE a = None
  BY <1>1, <1>2, <1>3, <1>4, LessIsTotal DEF s, o
<1>5. CASE a # None /\ Less(a.stamp, s)
  <2>1. CASE Less(a.stamp, o)
    BY <1>1, <1>2, <1>3, <1>5, <2>1, LessIsTotal DEF s, o
  <2>2. CASE ~Less(a.stamp, o)
    <3>1. ~Less(s, o)
      BY <1>2, <1>5, <2>2, LessIsTransitive
    <3> QED BY <1>1, <1>2, <1>3, <1>5, <2>2, <3>1, LessIsTotal DEF s, o
  <2> QED BY <2>1, <2>2
<1>6. CASE a # None /\ ~Less(a.stamp, s)
  <2>1. CASE Less(a.stamp, o)
    <3>1. ~Less(o, s)
      BY <1>2, <1>6, <2>1, LessIsTransitive
    <3> QED BY <1>1, <1>2, <1>3, <1>6, <2>1, <3>1, LessIsTotal DEF s, o
  <2>2. CASE ~Less(a.stamp, o)
    BY <1>1, <1>2, <1>3, <1>6, <2>2, LessIsTotal DEF s, o
  <2> QED BY <2>1, <2>2
<1> QED BY <1>4, <1>5, <1>6

-----------------------------------------------------------------------------
IsSet(s) ==
    /\ s = [adds |-> s.adds, removes |-> s.removes]
    /\ s.adds = [x \in DOMAIN s.adds |-> s.adds[x]]

LEMMA TagsOfJoin ==
    ASSUME NEW a, NEW b, NEW x
    PROVE  Tags(SetJoin(a, b), x) = Tags(a, x) \cup Tags(b, x)
  BY DEF Tags, SetJoin

\* Observed-remove sets meet the laws of Lattice (or_set.rs, join).
THEOREM SetLaws ==
    ASSUME NEW a, NEW b, NEW c, IsSet(a), IsSet(b), IsSet(c)
    PROVE  Laws(SetJoin, a, b, c)
<1>1. SetJoin(a, a) = a
  <2>1. SetJoin(a, a).adds = a.adds
    BY DEF SetJoin, IsSet, Tags
  <2>2. SetJoin(a, a).removes = a.removes
    BY DEF SetJoin
  <2> QED BY <2>1, <2>2 DEF SetJoin, IsSet
<1>2. SetJoin(a, b) = SetJoin(b, a)
  <2>1. \A x : Tags(a, x) \cup Tags(b, x) = Tags(b, x) \cup Tags(a, x)
    OBVIOUS
  <2> QED BY <2>1 DEF SetJoin
<1>3. SetJoin(SetJoin(a, b), c) = SetJoin(a, SetJoin(b, c))
  <2> DEFINE l == SetJoin(SetJoin(a, b), c)
             r == SetJoin(a, SetJoin(b, c))
             D == DOMAIN a.adds \cup DOMAIN b.adds \cup DOMAIN c.adds
             T(x) == Tags(a, x) \cup Tags(b, x) \cup Tags(c, x)
  <2>1. l.adds = [x \in D |-> T(x)]
    <3>1. DOMAIN SetJoin(a, b).adds = DOMAIN a.adds \cup DOMAIN b.adds
      BY DEF SetJoin
    <3> QED BY <3>1, TagsOfJoin DEF SetJoin
  <2>2. r.adds = [x \in D |-> T(x)]
    <3>1. DOMAIN SetJoin(b, c).adds = DOMAIN b.adds \cup DOMAIN c.adds
      BY DEF SetJoin
    <3>2. \A x : Tags(a, x) \cup Tags(SetJoin(b, c), x) = T(x)
      BY TagsOfJoin
    <3>3. D = DOMAIN a.adds \cup DOMAIN SetJoin(b, c).adds
      BY <3>1
    <3> QED BY <3>2, <3>3 DEF SetJoin
  <2>3. l.removes = r.removes
    BY DEF SetJoin
  <2>4. l = [adds |-> l.adds, removes |-> l.removes] /\ r = [adds |-> r.adds, removes |-> r.removes]
    BY DEF SetJoin
  <2> QED BY <2>1, <2>2, <2>3, <2>4
<1> QED BY <1>1, <1>2, <1>3 DEF Laws

\* An addition is shown at once, and a removal that has not seen it leaves it
\* shown: add wins (or_set.rs, apply and contains).
THEOREM AddWins ==
    ASSUME NEW s, IsSet(s), NEW x, NEW ctx, ctx.id \notin s.removes,
           NEW observed, ctx.id \notin observed
    PROVE  LET added == SetApply(s, SetAddOf(x), ctx)
           IN x \in Members(SetApply(added, [type |-> "OrSetRemove", observed |-> observed], ctx))
<1> DEFINE added == SetApply(s, SetAddOf(x), ctx)
           after == SetApply(added, [type |-> "OrSetRemove", observed |-> observed], ctx)
<1>1. added = [s EXCEPT !.adds = Put(s.adds, x, Tags(s, x) \cup {ctx.id})]
  BY DEF SetApply, SetAddOf
<1>2. /\ added.removes = s.removes
      /\ added.adds = Put(s.adds, x, Tags(s, x) \cup {ctx.id})
      /\ added = [adds |-> added.adds, removes |-> added.removes]
  BY <1>1 DEF IsSet
<1>3. x \in DOMAIN added.adds /\ ctx.id \in added.adds[x]
  BY <1>2 DEF Put
<1>4. after = [added EXCEPT !.removes = added.removes \cup observed]
  BY DEF SetApply
<1>5. after.adds = added.adds /\ after.removes = s.removes \cup observed
  BY <1>4, <1>2
<1> QED BY <1>3, <1>5 DEF Members

-----------------------------------------------------------------------------
IsEntries(f) == f \in [DOMAIN f -> Nat]

IsPnCounter(c) ==
    c = [pos |-> c.pos, neg |-> c.neg] /\ IsEntries(c.pos) /\ IsEntries(c.neg)

LEMMA OfMaxOf ==
    ASSUME NEW a, NEW b, IsEntries(a), IsEntries(b), NEW p
    PROVE  /\ Of(a, p) \in Nat
           /\ Of(MaxOf(a, b), p) = IF Of(a, p) < Of(b, p) THEN Of(b, p) ELSE Of(a, p)
           /\ IsEntries(MaxOf(a, b))
<1>1. \A q : Of(a, q) \in Nat /\ Of(b, q) \in Nat
  BY DEF Of, IsEntries
<1>2. IsEntries(MaxOf(a, b))
  BY <1>1 DEF IsEntries, MaxOf
<1>3. p \in DOMAIN a \cup DOMAIN b => Of(MaxOf(a, b), p) = MaxOf(a, b)[p]
  BY DEF Of, MaxOf
<1>4. p \notin DOMAIN a \cup DOMAIN b => Of(MaxOf(a, b), p) = 0 /\ Of(a, p) = 0 /\ Of(b, p) = 0
  BY DEF Of, MaxOf
<1> QED BY <1>1, <1>2, <1>3, <1>4 DEF MaxOf

\* The entries of a counter meet the laws under the pointwise maximum.
LEMMA EntriesLaws ==
    ASSUME NEW a, NEW b, NEW c, IsEntries(a), IsEntries(b), IsEntries(c)
    PROVE  Laws(MaxOf, a, b, c)
<1>0. \A p : Of(a, p) \in Nat /\ Of(b, p) \in Nat /\ Of(c, p) \in Nat
  BY DEF Of, IsEntries
<1>1. MaxOf(a, a) = a
  BY DEF MaxOf, Of, IsEntries
<1>2. MaxOf(a, b) = MaxOf(b, a)
  <2>1. \A p : (IF Of(a, p) < Of(b, p) THEN Of(b, p) ELSE Of(a, p))
                 = (IF Of(b, p) < Of(a, p) THEN Of(a, p) ELSE Of(b, p))
    BY <1>0
  <2> QED BY <2>1 DEF MaxOf
<1>3. MaxOf(MaxOf(a, b), c) = MaxOf(a, MaxOf(b, c))
  <2> DEFINE ab == MaxOf(a, b)
             bc == MaxOf(b, c)
  <2>1. DOMAIN ab = DOMAIN a \cup DOMAIN b /\ DOMAIN bc = DOMAIN b \cup DOMAIN c
    BY DEF MaxOf
  <2>2. \A p : (IF Of(ab, p) < Of(c, p) THEN Of(c, p) ELSE Of(ab, p))
                 = (IF Of(a, p) < Of(bc, p) THEN Of(bc, p) ELSE Of(a, p))
    <3> TAKE p
    <3>1. Of(ab, p) = IF Of(a, p) < Of(b, p) THEN Of(b, p) ELSE Of(a, p)
      BY OfMaxOf
    <3>2. Of(bc, p) = IF Of(b, p) < Of(c, p) THEN Of(c, p) ELSE Of(b, p)
      BY OfMaxOf
    <3> HIDE DEF ab, bc
    <3> QED BY <3>1, <3>2, <1>0
  <2>3. DOMAIN ab \cup DOMAIN c = DOMAIN a \cup DOMAIN bc
    BY <2>1
  <2> HIDE DEF ab, bc
  <2>4. MaxOf(ab, c) = MaxOf(a, bc)
    BY <2>2, <2>3 DEF MaxOf
  <2> QED BY <2>4 DEF ab, bc
<1> QED BY <1>1, <1>2, <1>3 DEF Laws

\* Counters meet the laws of Lattice (pn_counter.rs, join).
THEOREM CounterLaws ==
    ASSUME NEW a, NEW b, NEW c, IsPnCounter(a), IsPnCounter(b), IsPnCounter(c)
    PROVE  Laws(CounterJoin, a, b, c)
<1>1. Laws(MaxOf, a.pos, b.pos, c.pos) /\ Laws(MaxOf, a.neg, b.neg, c.neg)
  BY EntriesLaws DEF IsPnCounter
<1> QED BY <1>1 DEF Laws, CounterJoin, IsPnCounter

-----------------------------------------------------------------------------
IsElement(e) ==
    /\ e = [value |-> e.value, predecessor |-> e.predecessor, tombstoned |-> e.tombstoned]
    /\ e.tombstoned \in BOOLEAN

IsSequence(s) == s = [i \in DOMAIN s |-> s[i]] /\ \A i \in DOMAIN s : IsElement(s[i])

\* Elements under one id differ at most in the tombstone.
OneHistory(a, b) ==
    \A i \in DOMAIN a \cap DOMAIN b :
      a[i].value = b[i].value /\ a[i].predecessor = b[i].predecessor

\* Whether a sequence deletes i.
Deletes(s, i) == i \in DOMAIN s /\ s[i].tombstoned

LEMMA SequenceJoinIsASequence ==
    ASSUME NEW a, NEW b, IsSequence(a), IsSequence(b), OneHistory(a, b)
    PROVE  /\ IsSequence(SequenceJoin(a, b))
           /\ DOMAIN SequenceJoin(a, b) = DOMAIN a \cup DOMAIN b
           /\ OneHistory(a, SequenceJoin(a, b))
           /\ OneHistory(b, SequenceJoin(a, b))
           /\ \A i : Deletes(SequenceJoin(a, b), i) <=> Deletes(a, i) \/ Deletes(b, i)
<1> DEFINE j == SequenceJoin(a, b)
<1>1. DOMAIN j = DOMAIN a \cup DOMAIN b /\ j = [i \in DOMAIN j |-> j[i]]
  BY DEF SequenceJoin
<1>2. ASSUME NEW i \in DOMAIN a
      PROVE  /\ j[i].value = a[i].value /\ j[i].predecessor = a[i].predecessor
             /\ j[i].tombstoned = (a[i].tombstoned \/ (i \in DOMAIN b /\ b[i].tombstoned))
             /\ IsElement(j[i])
  BY <1>2 DEF SequenceJoin, IsElement, IsSequence
<1>3. ASSUME NEW i \in DOMAIN b, i \notin DOMAIN a
      PROVE  j[i] = b[i]
  BY <1>3 DEF SequenceJoin
<1> HIDE DEF j
<1>4. IsSequence(j)
  BY <1>1, <1>2, <1>3 DEF IsSequence
<1>5. OneHistory(a, j) /\ OneHistory(b, j)
  BY <1>1, <1>2, <1>3 DEF OneHistory
<1>6. \A i : Deletes(j, i) <=> Deletes(a, i) \/ Deletes(b, i)
  BY <1>1, <1>2, <1>3 DEF Deletes
<1> QED BY <1>1, <1>4, <1>5, <1>6 DEF j

\* Two sequences of one history with the same elements and the same deletes
\* are one.
LEMMA SameSequence ==
    ASSUME NEW a, NEW b, IsSequence(a), IsSequence(b), OneHistory(a, b),
           DOMAIN a = DOMAIN b, \A i : Deletes(a, i) <=> Deletes(b, i)
    PROVE  a = b
<1>1. ASSUME NEW i \in DOMAIN a PROVE a[i] = b[i]
  <2>1. IsElement(a[i]) /\ IsElement(b[i])
    BY DEF IsSequence
  <2>2. a[i].tombstoned <=> b[i].tombstoned
    BY DEF Deletes
  <2>3. a[i].value = b[i].value /\ a[i].predecessor = b[i].predecessor
    BY DEF OneHistory
  <2>4. a[i].tombstoned = b[i].tombstoned
    BY <2>1, <2>2 DEF IsElement
  <2> QED BY <2>1, <2>3, <2>4 DEF IsElement
<1> QED BY <1>1 DEF IsSequence

\* Sequences of one history meet the laws of Lattice: of either order and
\* grouping, the tombstone is the disjunction (sequence.rs, join).
THEOREM SequenceLaws ==
    ASSUME NEW a, NEW b, NEW c, IsSequence(a), IsSequence(b), IsSequence(c),
           OneHistory(a, b), OneHistory(b, c), OneHistory(a, c)
    PROVE  Laws(SequenceJoin, a, b, c)
<1>0. OneHistory(a, a) /\ OneHistory(b, a) /\ OneHistory(c, b)
  BY DEF OneHistory
<1> DEFINE ab == SequenceJoin(a, b)
           ba == SequenceJoin(b, a)
           bc == SequenceJoin(b, c)
<1>1. SequenceJoin(a, a) = a
  <2> DEFINE aa == SequenceJoin(a, a)
  <2>1. /\ IsSequence(aa) /\ OneHistory(a, aa) /\ DOMAIN aa = DOMAIN a
        /\ \A i : Deletes(a, i) <=> Deletes(aa, i)
    BY <1>0, SequenceJoinIsASequence
  <2> HIDE DEF aa
  <2>2. a = aa
    BY <2>1, SameSequence
  <2> QED BY <2>2 DEF aa
<1>2. /\ IsSequence(ab) /\ OneHistory(a, ab) /\ OneHistory(b, ab)
      /\ DOMAIN ab = DOMAIN a \cup DOMAIN b
      /\ \A i : Deletes(ab, i) <=> Deletes(a, i) \/ Deletes(b, i)
  BY SequenceJoinIsASequence
<1>3. /\ IsSequence(ba) /\ OneHistory(a, ba) /\ OneHistory(b, ba)
      /\ DOMAIN ba = DOMAIN a \cup DOMAIN b
      /\ \A i : Deletes(ba, i) <=> Deletes(a, i) \/ Deletes(b, i)
  <2>1. /\ IsSequence(ba) /\ OneHistory(b, ba) /\ OneHistory(a, ba)
        /\ DOMAIN ba = DOMAIN b \cup DOMAIN a
        /\ \A i : Deletes(ba, i) <=> Deletes(b, i) \/ Deletes(a, i)
    BY <1>0, SequenceJoinIsASequence
  <2> HIDE DEF ba
  <2> QED BY <2>1
<1>4. /\ IsSequence(bc) /\ OneHistory(b, bc) /\ OneHistory(c, bc)
      /\ DOMAIN bc = DOMAIN b \cup DOMAIN c
      /\ \A i : Deletes(bc, i) <=> Deletes(b, i) \/ Deletes(c, i)
  BY SequenceJoinIsASequence
<1> HIDE DEF ab, ba, bc
<1>5. ab = ba
  <2>1. OneHistory(ab, ba)
    BY <1>2, <1>3 DEF OneHistory
  <2> QED BY <2>1, <1>2, <1>3, SameSequence
<1>6. SequenceJoin(ab, c) = SequenceJoin(a, bc)
  <2>1. OneHistory(ab, c) /\ OneHistory(a, bc)
    BY <1>2, <1>4 DEF OneHistory
  <2> DEFINE l == SequenceJoin(ab, c)
             r == SequenceJoin(a, bc)
  <2>2. /\ IsSequence(l) /\ OneHistory(ab, l) /\ OneHistory(c, l)
        /\ DOMAIN l = DOMAIN ab \cup DOMAIN c
        /\ \A i : Deletes(l, i) <=> Deletes(ab, i) \/ Deletes(c, i)
    BY <2>1, <1>2, SequenceJoinIsASequence
  <2>3. /\ IsSequence(r) /\ OneHistory(a, r) /\ OneHistory(bc, r)
        /\ DOMAIN r = DOMAIN a \cup DOMAIN bc
        /\ \A i : Deletes(r, i) <=> Deletes(a, i) \/ Deletes(bc, i)
    BY <2>1, <1>4, SequenceJoinIsASequence
  <2> HIDE DEF l, r
  <2>4. DOMAIN l = DOMAIN r /\ \A i : Deletes(l, i) <=> Deletes(r, i)
    BY <2>2, <2>3, <1>2, <1>4
  <2>5. OneHistory(l, r)
    BY <2>2, <2>3, <1>2, <1>4 DEF OneHistory
  <2>6. l = r
    BY <2>2, <2>3, <2>4, <2>5, SameSequence
  <2> QED BY <2>6 DEF l, r
<1> QED BY <1>1, <1>5, <1>6 DEF Laws, ab, ba, bc

-----------------------------------------------------------------------------
\* Move logs of one room meet the laws of Lattice (move_tree.rs, join).
THEOREM TreeLaws ==
    ASSUME NEW a, NEW b, NEW c,
           a = [n \in DOMAIN a |-> a[n]],
           \A n \in DOMAIN a \cap DOMAIN b : a[n] = b[n],
           \A n \in DOMAIN b \cap DOMAIN c : b[n] = c[n],
           \A n \in DOMAIN a \cap DOMAIN c : a[n] = c[n]
    PROVE  Laws(TreeJoin, a, b, c)
<1>1. TreeJoin(a, a) = a
  BY DEF TreeJoin
<1>2. TreeJoin(a, b) = TreeJoin(b, a)
  BY DEF TreeJoin
<1>3. TreeJoin(TreeJoin(a, b), c) = TreeJoin(a, TreeJoin(b, c))
  <2>1. DOMAIN TreeJoin(a, b) = DOMAIN a \cup DOMAIN b /\ DOMAIN TreeJoin(b, c) = DOMAIN b \cup DOMAIN c
    BY DEF TreeJoin
  <2> QED BY <2>1 DEF TreeJoin
<1> QED BY <1>1, <1>2, <1>3 DEF Laws
-----------------------------------------------------------------------------
(* Move trees.                                                             *)

\* A parent for some of the nodes C.
Parents(C) == UNION {[A -> C \cup {None}] : A \in SUBSET C}

LEMMA ParentsAre ==
    ASSUME NEW C, NEW f
    PROVE  f \in Parents(C) <=>
             /\ f = [x \in DOMAIN f |-> f[x]] /\ DOMAIN f \subseteq C
             /\ \A x \in DOMAIN f : f[x] \in C \cup {None}
  BY DEF Parents

\* The forests over the nodes C in which every parent has a lower rank.
Forests(C) ==
    {f \in Parents(C) :
       /\ IsFiniteSet(DOMAIN f)
       /\ \E r \in [C -> Nat] : \A x \in DOMAIN f : f[x] # None => r[f[x]] < r[x]}

\* One step up, and the recursion of UpFrom.
ParentIn(f, x) == IF x \in DOMAIN f THEN f[x] ELSE None

Climbs(up, f, node) ==
    up = [n \in 0..Cardinality(DOMAIN f) |->
            IF n = 0 THEN {node} ELSE up[n - 1] \cup {ParentIn(f, x) : x \in up[n - 1]}]

ClosedIn(f, U) == \A x \in U : x \in DOMAIN f => f[x] \in U

Ascent(C, f, node, up) ==
    /\ up \in [0..Cardinality(DOMAIN f) -> SUBSET (C \cup {None})]
    /\ UpFrom(f, node) = up[Cardinality(DOMAIN f)] \ {None}
    /\ up[0] = {node}
    /\ \A n \in 1..Cardinality(DOMAIN f) :
         up[n] = up[n - 1] \cup {ParentIn(f, x) : x \in up[n - 1]}

LEMMA UpFromClimbs ==
    ASSUME NEW C, None \notin C, NEW f \in Parents(C),
           IsFiniteSet(DOMAIN f), NEW node \in C \cup {None}
    PROVE  \E up : Ascent(C, f, node, up)
<1> DEFINE N == Cardinality(DOMAIN f)
           E == C \cup {None}
           D == SUBSET E
           More(U) == U \cup {ParentIn(f, x) : x \in U}
           step == [x \in D \X (1..N) |-> More(x[1])]
           chosen == CHOOSE up : Climbs(up, f, node)
<1>1. N \in Nat
  BY FS_CardinalityType
<1>2. \A x \in E : ParentIn(f, x) \in E
  BY ParentsAre DEF ParentIn
<1>3. \A U \in D : More(U) \in D
  BY <1>2
<1>4. step \in [D \X (1..N) -> D] /\ {node} \in D
  BY <1>3
<1>5. PICK g \in [0..N -> D] : g[0] = {node} /\ \A k \in 1..N : g[k] = step[<<g[k-1], k>>]
  <2> DEFINE b == {node}
  <2> HIDE DEF N, D, step, b
  <2>1. b \in D /\ step \in [D \X (1..N) -> D]
    BY <1>4 DEF b
  <2>2. \E g : Recursion(g, D, b, N, step)
    BY <1>1, <2>1, Recurs
  <2> QED BY <2>2 DEF b, Recursion
<1>6. \A k \in 1..N : g[k] = More(g[k-1])
  <2>1. ASSUME NEW k \in 1..N PROVE <<g[k-1], k>> \in D \X (1..N)
    <3>1. k - 1 \in 0..N
      BY <1>1
    <3> QED BY <1>5, <3>1
  <2> QED BY <1>5, <2>1
<1>7. Climbs(g, f, node)
  <2>1. \A k \in 0..N : k # 0 => k \in 1..N
    BY <1>1
  <2>2. \A k \in 0..N : g[k] = IF k = 0 THEN {node} ELSE More(g[k-1])
    BY <1>5, <1>6, <2>1
  <2>3. g = [k \in 0..N |-> IF k = 0 THEN {node} ELSE More(g[k-1])]
    BY <1>5, <2>2
  <2> QED BY <2>3 DEF Climbs
<1>8. Climbs(chosen, f, node)
  BY <1>7
<1>9. UpFrom(f, node) = chosen[N] \ {None}
  BY DEF UpFrom, Climbs, ParentIn
<1> HIDE DEF chosen
<1>10. /\ \A k \in 0..N : chosen[k] = IF k = 0 THEN {node} ELSE More(chosen[k-1])
       /\ chosen = [k \in 0..N |-> chosen[k]]
  BY <1>8 DEF Climbs
<1>11. chosen[0] = {node} /\ \A k \in 1..N : chosen[k] = More(chosen[k-1])
  <2>1. 0 \in 0..N /\ \A k \in 1..N : k \in 0..N /\ k # 0
    BY <1>1
  <2> QED BY <1>10, <2>1
<1>12. \A k \in 0..N : chosen[k] \in D
  <2> DEFINE T == {k \in 0..N : chosen[k] \in D}
  <2>1. 0 \in T
    BY <1>1, <1>4, <1>11
  <2>2. ASSUME NEW k \in 0..N-1, k \in T PROVE k + 1 \in T
    <3>1. k + 1 \in 1..N /\ k + 1 \in 0..N /\ (k + 1) - 1 = k
      BY <1>1
    <3>2. chosen[k + 1] = More(chosen[k])
      BY <1>11, <3>1
    <3> QED BY <1>3, <2>2, <3>1, <3>2
  <2> HIDE DEF T
  <2>3. \A k \in 0..N : k \in T
    BY <1>1, <2>1, <2>2, UpTo
  <2> QED BY <2>3 DEF T
<1>13. chosen \in [0..N -> D]
  BY <1>10, <1>12
<1>14. Ascent(C, f, node, chosen)
  BY <1>9, <1>11, <1>13 DEF Ascent
<1> QED BY <1>14

\* The ancestors of a node of a forest are below nothing they are above of.
LEMMA AncestorsRank ==
    ASSUME NEW C, None \notin C, NEW f \in Parents(C),
           IsFiniteSet(DOMAIN f), NEW node \in C \cup {None}, NEW r \in [C -> Nat],
           \A x \in DOMAIN f : f[x] # None => r[f[x]] < r[x]
    PROVE  \A y \in UpFrom(f, node) : y \in C /\ node # None /\ r[y] <= r[node]
<1> DEFINE N == Cardinality(DOMAIN f)
           Low == {y \in C \cup {None} : y # None => node # None /\ r[y] <= r[node]}
<1>1. N \in Nat
  BY FS_CardinalityType
<1>0. PICK up : Ascent(C, f, node, up)
  BY UpFromClimbs
<1>2. /\ up \in [0..N -> SUBSET (C \cup {None})]
      /\ UpFrom(f, node) = up[N] \ {None}
      /\ up[0] = {node}
      /\ \A n \in 1..N : up[n] = up[n - 1] \cup {ParentIn(f, x) : x \in up[n - 1]}
  BY <1>0 DEF Ascent
<1>3. ASSUME NEW y \in Low PROVE ParentIn(f, y) \in Low
  <2>1. CASE y \notin DOMAIN f \/ f[y] = None
    BY <2>1 DEF ParentIn
  <2>2. CASE y \in DOMAIN f /\ f[y] # None
    <3>1. y \in C /\ f[y] \in C /\ r[f[y]] < r[y] /\ node # None /\ node \in C /\ r[y] <= r[node]
      BY <1>3, <2>2, ParentsAre
    <3>2. r[f[y]] \in Nat /\ r[y] \in Nat /\ r[node] \in Nat
      BY <3>1
    <3>3. r[f[y]] <= r[node]
      BY ONLY <3>1, <3>2
    <3> QED BY <2>2, <3>1, <3>3 DEF ParentIn
  <2> QED BY <2>1, <2>2
<1>4. \A k \in 0..N : up[k] \subseteq Low
  <2> DEFINE T == {k \in 0..N : up[k] \subseteq Low}
  <2>1. 0 \in T
    <3>1. node \in Low
      BY DEF Low
    <3> QED BY <1>1, <1>2, <3>1
  <2>2. ASSUME NEW k \in 0..N-1, k \in T PROVE k + 1 \in T
    <3>1. k + 1 \in 1..N /\ k + 1 \in 0..N /\ (k + 1) - 1 = k
      BY <1>1
    <3>2. up[k + 1] = up[k] \cup {ParentIn(f, x) : x \in up[k]}
      BY <1>2, <3>1
    <3> HIDE DEF Low
    <3> QED BY <1>3, <2>2, <3>1, <3>2
  <2> HIDE DEF T
  <2>3. \A k \in 0..N : k \in T
    BY <1>1, <2>1, <2>2, UpTo
  <2> QED BY <2>3 DEF T
<1>5. up[N] \subseteq Low
  BY <1>1, <1>4
<1> QED BY <1>2, <1>5

\* UpFrom climbs far enough: as many steps as there are children.
LEMMA AncestorsAreClosed ==
    ASSUME NEW C, None \notin C, NEW f \in Parents(C),
           IsFiniteSet(DOMAIN f), NEW node \in C
    PROVE  LET U == UpFrom(f, node) IN
           U \subseteq C /\ node \in U /\ \A x \in U : x \in DOMAIN f /\ f[x] # None => f[x] \in U
<1> DEFINE N == Cardinality(DOMAIN f)
<1>1. N \in Nat
  BY FS_CardinalityType
<1>0. PICK up : Ascent(C, f, node, up)
  BY UpFromClimbs
<1>2. /\ up \in [0..N -> SUBSET (C \cup {None})]
      /\ UpFrom(f, node) = up[N] \ {None}
      /\ up[0] = {node}
      /\ \A n \in 1..N : up[n] = up[n - 1] \cup {ParentIn(f, x) : x \in up[n - 1]}
  BY <1>0 DEF Ascent
<1> DEFINE In(k) == up[k] \cap DOMAIN f
           Ok(k) == ClosedIn(f, up[k]) \/ Cardinality(In(k)) >= k + 1
<1>3. \A k \in 0..N : IsFiniteSet(In(k)) /\ Cardinality(In(k)) \in Nat /\ Cardinality(In(k)) <= N
  <2> TAKE k \in 0..N
  <2>1. In(k) \in SUBSET DOMAIN f
    OBVIOUS
  <2> QED BY <2>1, FS_Subset, FS_CardinalityType
<1>4. node \in up[0] /\ Ok(0)
  <2>1. CASE node \in DOMAIN f
    <3>1. In(0) = {node}
      BY <1>2, <2>1
    <3>2. Cardinality(In(0)) = 1
      BY <3>1, FS_Singleton
    <3> QED BY <1>2, <3>2
  <2>2. CASE node \notin DOMAIN f
    BY <1>2, <2>2 DEF ClosedIn
  <2> QED BY <2>1, <2>2
<1>5. ASSUME NEW k \in 0..N-1, Ok(k), node \in up[k] PROVE Ok(k + 1) /\ node \in up[k + 1]
  <2>1. k + 1 \in 1..N /\ k + 1 \in 0..N /\ (k + 1) - 1 = k /\ k \in 0..N
    BY <1>1
  <2>2. up[k + 1] = up[k] \cup {ParentIn(f, x) : x \in up[k]}
    BY <1>2, <2>1
  <2>3. None \notin DOMAIN f
    BY ParentsAre
  <2>4. CASE ClosedIn(f, up[k])
    <3>1. ASSUME NEW x \in up[k + 1], x \in DOMAIN f PROVE f[x] \in up[k + 1]
      <4>1. x \in up[k]
        BY <2>2, <2>3, <2>4, <3>1 DEF ClosedIn, ParentIn
      <4> QED BY <2>2, <2>4, <3>1, <4>1 DEF ClosedIn
    <3>2. ClosedIn(f, up[k + 1])
      BY <3>1 DEF ClosedIn
    <3> QED BY <2>2, <3>2, <1>5
  <2>5. CASE ~ ClosedIn(f, up[k])
    <3>1. Cardinality(In(k)) >= k + 1
      BY <1>5, <2>5
    <3>2. CASE ClosedIn(f, up[k + 1])
      BY <2>2, <3>2, <1>5
    <3>3. CASE ~ ClosedIn(f, up[k + 1])
      <4>1. PICK x \in up[k + 1] : x \in DOMAIN f /\ f[x] \notin up[k + 1]
        BY <3>3 DEF ClosedIn
      <4>2. x \notin up[k]
        BY <2>2, <4>1 DEF ParentIn
      <4>3. In(k) \cup {x} \in SUBSET In(k + 1)
        BY <2>2, <4>1
      <4>4. Cardinality(In(k) \cup {x}) = Cardinality(In(k)) + 1
        BY <1>3, <2>1, <4>2, FS_AddElement
      <4>5. Cardinality(In(k) \cup {x}) <= Cardinality(In(k + 1))
        BY <1>3, <2>1, <4>3, FS_Subset
      <4>6. Cardinality(In(k)) \in Nat /\ Cardinality(In(k + 1)) \in Nat
        BY <1>3, <2>1, Zenon
      <4> DEFINE a == Cardinality(In(k))
                 b == Cardinality(In(k + 1))
      <4>7. a \in Nat /\ b \in Nat /\ k \in Nat /\ a >= k + 1 /\ a + 1 <= b
        BY <2>1, <3>1, <4>4, <4>5, <4>6
      <4> HIDE DEF a, b
      <4>8. b >= (k + 1) + 1
        BY <4>7
      <4> QED BY <2>2, <4>8, <1>5 DEF b
    <3> QED BY <3>2, <3>3
  <2> QED BY <2>4, <2>5
<1>6. \A k \in 0..N : Ok(k) /\ node \in up[k]
  <2> DEFINE T == {k \in 0..N : Ok(k) /\ node \in up[k]}
  <2>1. 0 \in T
    BY <1>1, <1>4
  <2>2. ASSUME NEW k \in 0..N-1, k \in T PROVE k + 1 \in T
    <3>1. k + 1 \in 0..N
      BY <1>1
    <3> HIDE DEF Ok
    <3> QED BY <1>5, <2>2, <3>1
  <2> HIDE DEF T
  <2>3. \A k \in 0..N : k \in T
    BY <1>1, <2>1, <2>2, UpTo
  <2> QED BY <2>3 DEF T
<1>7. N \in 0..N
  BY <1>1
<1>8. ClosedIn(f, up[N]) /\ node \in up[N]
  <2>1. Cardinality(In(N)) \in Nat /\ Cardinality(In(N)) <= N /\ Ok(N) /\ node \in up[N]
    BY <1>3, <1>6, <1>7
  <2> DEFINE a == Cardinality(In(N))
  <2> HIDE DEF N, a
  <2>2. ~ (a >= N + 1)
    BY <1>1, <2>1 DEF a
  <2> QED BY <2>1, <2>2 DEF a
<1>9. up[N] \in SUBSET (C \cup {None})
  BY <1>2, <1>7
<1> QED BY <1>2, <1>8, <1>9 DEF ClosedIn

\* In a forest of ranks nothing is above itself.
LEMMA RankedHasNoCycle ==
    ASSUME NEW C, None \notin C, NEW f \in Forests(C), NEW x \in DOMAIN f
    PROVE  x \notin UpFrom(f, f[x])
<1>1. f \in Parents(C) /\ IsFiniteSet(DOMAIN f)
  BY DEF Forests
<1>2. PICK r \in [C -> Nat] : \A y \in DOMAIN f : f[y] # None => r[f[y]] < r[y]
  BY DEF Forests
<1>3. x \in C /\ f[x] \in C \cup {None}
  BY <1>1, ParentsAre
<1>4. \A y \in UpFrom(f, f[x]) : y \in C /\ f[x] # None /\ r[y] <= r[f[x]]
  BY <1>1, <1>2, <1>3, AncestorsRank
<1>5. ASSUME x \in UpFrom(f, f[x]) PROVE FALSE
  <2>1. f[x] # None /\ r[x] <= r[f[x]] /\ r[f[x]] < r[x]
    BY <1>2, <1>4, <1>5
  <2>2. r[x] \in Nat /\ r[f[x]] \in Nat
    BY <1>3, <2>1
  <2> QED BY ONLY <2>1, <2>2
<1> QED BY <1>5

\* A move keeps a forest one: what is above the new parent keeps its rank, and
\* all else, the child with it, is ranked above that.
LEMMA MovedKeeps ==
    ASSUME NEW C, None \notin C, NEW f \in Forests(C), NEW m,
           m.child \in C, m.parent \in C \cup {None}
    PROVE  Moved(f, m) \in Forests(C)
<1> DEFINE c == m.child
           p == m.parent
           g == Put(f, c, p)
<1>1. f \in Parents(C) /\ IsFiniteSet(DOMAIN f)
  BY DEF Forests
<1>2. PICK r \in [C -> Nat] : \A y \in DOMAIN f : f[y] # None => r[f[y]] < r[y]
  BY DEF Forests
<1>3. CASE p # None /\ c \in UpFrom(f, p)
  BY <1>3 DEF Moved
<1>4. CASE ~ (p # None /\ c \in UpFrom(f, p))
  <2>1. Moved(f, m) = g
    BY <1>4 DEF Moved
  <2> HIDE DEF c, p
  <2>2. DOMAIN g = DOMAIN f \cup {c} /\ \A y \in DOMAIN g : g[y] = IF y = c THEN p ELSE f[y]
    BY DEF Put
  <2>3. /\ f = [x \in DOMAIN f |-> f[x]] /\ DOMAIN f \subseteq C
        /\ \A x \in DOMAIN f : f[x] \in C \cup {None}
    BY <1>1, ParentsAre
  <2>4. c \in C /\ p \in C \cup {None}
    BY DEF c, p
  <2>5. g \in Parents(C)
    <3>1. g = [y \in DOMAIN g |-> g[y]]
      BY DEF Put
    <3> HIDE DEF g
    <3>2. DOMAIN g \subseteq C /\ \A y \in DOMAIN g : g[y] \in C \cup {None}
      BY <2>2, <2>3, <2>4
    <3> QED BY <3>1, <3>2, ParentsAre
  <2>6. IsFiniteSet(DOMAIN g)
    BY <1>1, <2>2, FS_AddElement
  <2> HIDE DEF g
  <2>7. CASE p = None
    <3>1. \A y \in DOMAIN g : g[y] # None => r[g[y]] < r[y]
      BY <1>2, <2>2, <2>7
    <3> QED BY <2>1, <2>5, <2>6, <3>1, <1>2 DEF Forests
  <2>8. CASE p # None
    <3> DEFINE U == UpFrom(f, p)
               s == [y \in C |-> IF y \in U THEN r[y] ELSE r[y] + r[p] + 1]
    <3>1. U \subseteq C /\ p \in U /\ \A x \in U : x \in DOMAIN f /\ f[x] # None => f[x] \in U
      BY <1>1, <2>4, <2>8, AncestorsAreClosed
    <3>2. \A y \in U : r[y] <= r[p]
      BY <1>1, <1>2, <2>4, AncestorsRank
    <3>3. c \notin U
      BY <1>4, <2>8
    <3> HIDE DEF U
    <3>4. \A y \in C : r[y] \in Nat
      BY <1>2
    <3>5. r[p] \in Nat /\ p \in C
      BY <2>4, <2>8, <3>4
    <3>6. s \in [C -> Nat]
      <4>1. \A y \in C : (IF y \in U THEN r[y] ELSE r[y] + r[p] + 1) \in Nat
        BY <3>4, <3>5
      <4> QED BY <4>1
    <3>7. ASSUME NEW y \in DOMAIN g, g[y] # None PROVE s[g[y]] < s[y]
      <4>1. y \in C /\ g[y] \in C
        BY <2>5, <3>7, ParentsAre
      <4>2. r[y] \in Nat /\ r[g[y]] \in Nat
        BY <3>4, <4>1
      <4>3. CASE y = c
        <5>1. s[g[y]] = r[p] /\ s[y] = r[y] + r[p] + 1
          BY <2>2, <3>1, <3>3, <4>1, <4>3
        <5> QED BY ONLY <3>5, <4>2, <5>1
      <4>4. CASE y # c
        <5>1. g[y] = f[y] /\ y \in DOMAIN f /\ r[g[y]] < r[y]
          BY <1>2, <2>2, <3>7, <4>4
        <5>2. CASE y \in U
          <6>1. g[y] \in U
            BY <3>1, <3>7, <5>1, <5>2
          <6>2. s[g[y]] = r[g[y]] /\ s[y] = r[y]
            BY <4>1, <5>2, <6>1
          <6> QED BY ONLY <5>1, <6>2
        <5>3. CASE y \notin U /\ g[y] \in U
          <6>1. s[g[y]] = r[g[y]] /\ s[y] = r[y] + r[p] + 1
            BY <4>1, <5>3
          <6> QED BY ONLY <3>5, <4>2, <5>1, <6>1
        <5>4. CASE y \notin U /\ g[y] \notin U
          <6>1. s[g[y]] = r[g[y]] + r[p] + 1 /\ s[y] = r[y] + r[p] + 1
            BY <4>1, <5>4
          <6> QED BY ONLY <3>5, <4>2, <5>1, <6>1
        <5> QED BY <5>2, <5>3, <5>4
      <4> QED BY <4>3, <4>4
    <3> HIDE DEF s
    <3> QED BY <2>1, <2>5, <2>6, <3>6, <3>7 DEF Forests
  <2> QED BY <2>7, <2>8
<1> QED BY <1>3, <1>4

\* Whatever moves meet in the log, what they leave is a forest: no node is
\* among its own ancestors (move_tree.rs, forest and apply).
THEOREM ForestIsAForest ==
    ASSUME NEW C, None \notin C, NEW tree, NEW last \in Nat, DOMAIN tree \subseteq 1..last,
           \A n \in DOMAIN tree : tree[n].child \in C /\ tree[n].parent \in C \cup {None}
    PROVE  \A x \in DOMAIN Forest(tree) : x \notin UpFrom(Forest(tree), Forest(tree)[x])
<1> DEFINE n == Max({0} \cup DOMAIN tree)
           After(f, k) == IF k \in DOMAIN tree THEN Moved(f, tree[k]) ELSE f
           Folds(it) == it = [S \in SUBSET (1..n) |->
                                IF S = {} THEN EmptyMap
                                ELSE After(it[S \ {Max(S)}], [j \in 1..n |-> j][Max(S)])]
           iter == CHOOSE it : Folds(it)
           D == Forests(C)
           step == [x \in D \X (1..n) |-> After(x[1], x[2])]
<1>1. n \in Nat
  <2> DEFINE T == {0} \cup DOMAIN tree
  <2>1. T \in SUBSET Nat /\ T # {} /\ \A x \in T : x <= last
    OBVIOUS
  <2> HIDE DEF T
  <2>2. Max(T) \in T
    BY <2>1, MaxOfBounded
  <2> QED BY <2>1, <2>2 DEF T
<1>2. Forest(tree) = iter[1..n]
  <2>1. DOMAIN [j \in 1..n |-> j] = 1..n
    OBVIOUS
  <2> QED BY <2>1 DEF Forest, FoldLeft, MapThenFoldSet, Max
<1>3. step \in [D \X (1..n) -> D]
  <2>1. ASSUME NEW f \in D, NEW k \in 1..n PROVE After(f, k) \in D
    BY MovedKeeps
  <2> HIDE DEF D, After
  <2> QED BY <2>1
<1>4. EmptyMap \in D
  <2>1. EmptyMap = [x \in DOMAIN EmptyMap |-> EmptyMap[x]] /\ DOMAIN EmptyMap = {}
    BY DEF EmptyMap
  <2>2. EmptyMap \in Parents(C) /\ IsFiniteSet(DOMAIN EmptyMap)
    BY <2>1, ParentsAre, FS_EmptySet
  <2>3. [x \in C |-> 0] \in [C -> Nat]
    OBVIOUS
  <2> QED BY <2>1, <2>2, <2>3 DEF Forests
<1> HIDE DEF n, D
<1>5. PICK g \in [SUBSET (1..n) -> D] : Iterated(g, step, EmptyMap, n)
  BY <1>1, <1>3, <1>4, Iterates
<1>6. ASSUME NEW S \in SUBSET (1..n), S # {}
      PROVE  step[<<g[S \ {Max(S)}], Max(S)>>]
               = After(g[S \ {Max(S)}], [j \in 1..n |-> j][Max(S)])
  <2>1. S \in SUBSET Nat /\ \A x \in S : x <= n
    BY <1>1
  <2>2. Max(S) \in S
    BY <1>1, <1>6, <2>1, MaxOfBounded
  <2>3. <<g[S \ {Max(S)}], Max(S)>> \in D \X (1..n) /\ [j \in 1..n |-> j][Max(S)] = Max(S)
    BY <2>2
  <2> HIDE DEF After
  <2> QED BY <2>3
<1> HIDE DEF step, After
<1>7. Folds(g)
  BY <1>5, <1>6 DEF Iterated
<1>8. Folds(iter)
  <2> HIDE DEF Folds
  <2> QED BY <1>7
<1> HIDE DEF iter
<1>9. ASSUME NEW k \in 0..n PROVE iter[1..k] \in D
  <2> DEFINE T == {k_1 \in 0..n : iter[1..k_1] \in D}
  <2>1. 0 \in T
    <3>1. 1..0 = {} /\ {} \in SUBSET (1..n) /\ 0 \in 0..n
      BY <1>1
    <3> QED BY <1>4, <1>8, <3>1
  <2>2. ASSUME NEW j \in 0..n-1, j \in T PROVE j + 1 \in T
    <3>1. j + 1 \in 1..n /\ j + 1 \in 0..n /\ (j + 1) - 1 = j
      BY <1>1
    <3> DEFINE i == j + 1
    <3>2. 1..i # {} /\ 1..i \in SUBSET (1..n) /\ Max(1..i) = i /\ (1..i) \ {i} = 1..j
      BY <1>1, <3>1, Prefix
    <3> HIDE DEF i
    <3>3. iter[1..i] = After(iter[1..j], [l \in 1..n |-> l][i])
      BY <1>8, <3>2
    <3>4. i \in 1..n /\ [l \in 1..n |-> l][i] = i /\ iter[1..j] \in D
      BY <2>2, <3>1 DEF i
    <3>5. After(iter[1..j], i) \in D
      BY <3>4, MovedKeeps DEF After, D
    <3> QED BY <3>1, <3>3, <3>4, <3>5 DEF i
  <2> HIDE DEF T
  <2>3. \A j \in 0..n : j \in T
    BY <1>1, <2>1, <2>2, UpTo
  <2> QED BY <2>3 DEF T
<1>10. Forest(tree) \in Forests(C)
  BY <1>1, <1>2, <1>9 DEF D
<1> QED BY <1>10, RankedHasNoCycle

-----------------------------------------------------------------------------
(* What a counter counts.                                                  *)

\* What peers have added: a number for some of them.
IsSummed(m) ==
    m = [p \in DOMAIN m |-> m[p]] /\ IsFiniteSet(DOMAIN m) /\ \A p \in DOMAIN m : m[p] \in Int

LEMMA TotalIsSum ==
    ASSUME NEW m, IsSummed(m)
    PROVE  \E it \in [SUBSET DOMAIN m -> Int] :
             Sums(it, DOMAIN m, m) /\ Total(m) = it[DOMAIN m]
<1> DEFINE S == DOMAIN m
           Solves(it) == it = [T \in SUBSET S |->
                                 IF T = {} THEN 0 ELSE m[Some(T)] + it[T \ {Some(T)}]]
           iter == CHOOSE it : Solves(it)
<1>1. Total(m) = iter[S]
  BY DEF Total, FoldFunction, FoldFunctionOnSet, MapThenFoldSet, Some
<1>2. m \in [S -> Int] /\ IsFiniteSet(S)
  BY DEF IsSummed
<1>3. PICK g \in [SUBSET S -> Int] : Sums(g, S, m)
  <2> HIDE DEF S
  <2> QED BY <1>2, SumExists
<1>4. Solves(g)
  <2>1. g = [T \in SUBSET S |-> g[T]]
    BY <1>3
  <2>2. \A T \in SUBSET S : g[T] = IF T = {} THEN 0 ELSE m[Some(T)] + g[T \ {Some(T)}]
    BY <1>3 DEF Sums
  <2> HIDE DEF S
  <2> QED BY <2>1, <2>2
<1>5. Solves(iter)
  <2> HIDE DEF Solves
  <2> QED BY <1>4
<1> HIDE DEF iter
<1>6. Sums(iter, S, m)
  BY <1>5 DEF Sums
<1>7. \A T \in SUBSET S : iter[T] = g[T]
  <2> TAKE T \in SUBSET S
  <2> HIDE DEF S, Solves
  <2> QED BY <1>2, <1>3, <1>6, SumsAgree
<1>8. iter \in [SUBSET S -> Int]
  <2>1. iter = [T \in SUBSET S |-> iter[T]]
    BY <1>5
  <2>2. \A T \in SUBSET S : iter[T] \in Int
    BY <1>3, <1>7
  <2> HIDE DEF S, Solves
  <2> QED BY <2>1, <2>2
<1> QED BY <1>1, <1>6, <1>8

LEMMA TotalOfEmpty == IsSummed(EmptyMap) /\ Total(EmptyMap) = 0
<1>1. EmptyMap = [p \in DOMAIN EmptyMap |-> EmptyMap[p]] /\ DOMAIN EmptyMap = {}
  BY DEF EmptyMap
<1>2. IsSummed(EmptyMap)
  BY <1>1, FS_EmptySet DEF IsSummed
<1>3. PICK it \in [SUBSET DOMAIN EmptyMap -> Int] :
        Sums(it, DOMAIN EmptyMap, EmptyMap) /\ Total(EmptyMap) = it[DOMAIN EmptyMap]
  BY <1>2, TotalIsSum
<1>4. it[{}] = 0
  BY <1>3, <1>1 DEF Sums
<1> QED BY <1>1, <1>2, <1>3, <1>4

LEMMA TotalOfPut ==
    ASSUME NEW m, IsSummed(m), NEW p, NEW v \in Int
    PROVE  /\ IsSummed(Put(m, p, v)) /\ Total(m) \in Int /\ Of(m, p) \in Int
           /\ Total(Put(m, p, v)) = Total(m) - Of(m, p) + v
<1> DEFINE g == Put(m, p, v)
           S == DOMAIN m
           R == DOMAIN g
           V == S \ {p}
<1>1. g = [x \in S \cup {p} |-> IF x = p THEN v ELSE m[x]] /\ R = S \cup {p}
  BY DEF Put
<1>2. IsFiniteSet(S) /\ IsFiniteSet(R)
  BY <1>1, FS_AddElement DEF IsSummed
<1>3. \A x \in S : m[x] \in Int
  BY DEF IsSummed
<1>4. g[p] = v /\ \A x \in V : g[x] = m[x]
  BY <1>1
<1>5. IsSummed(g)
  <2> HIDE DEF g, S
  <2>1. g = [x \in DOMAIN g |-> g[x]] /\ \A x \in DOMAIN g : g[x] \in Int
    BY <1>1, <1>3
  <2> QED BY <2>1, <1>2 DEF IsSummed
<1>6. PICK it \in [SUBSET S -> Int] : Sums(it, S, m) /\ Total(m) = it[S]
  BY TotalIsSum
<1>7. PICK ig \in [SUBSET R -> Int] : Sums(ig, R, g) /\ Total(g) = ig[R]
  <2> HIDE DEF g
  <2> QED BY <1>5, TotalIsSum
<1>8. m \in [S -> Int] /\ g \in [R -> Int]
  <2> HIDE DEF g
  <2> QED BY <1>5 DEF IsSummed
<1>9. R \ {p} = V /\ p \in R /\ V \in SUBSET S /\ V \in SUBSET R
  BY <1>1
<1> HIDE DEF g, S, R, V
<1>10. ig[R] = v + ig[V]
  <2>1. Takes(ig, R, g)
    BY <1>2, <1>7, <1>8, SumTakes
  <2> QED BY <2>1, <1>4, <1>9 DEF Takes
<1>11. it[V] = ig[V]
  <2>1. \A x \in V : m[x] = g[x]
    BY <1>4
  <2> QED BY <2>1, <1>2, <1>6, <1>7, <1>9, SumsAgree
<1>12. it[S] = Of(m, p) + it[V] /\ Of(m, p) \in Int
  <2>1. CASE p \in S
    <3>1. Takes(it, S, m)
      BY <1>2, <1>6, <1>8, SumTakes
    <3>2. it[S] = m[p] + it[S \ {p}]
      BY <2>1, <3>1 DEF Takes
    <3> QED BY <2>1, <3>2, <1>3 DEF Of, S, V
  <2>2. CASE p \notin S
    <3>1. V = S
      BY <2>2 DEF V
    <3>2. Of(m, p) = 0 /\ it[S] \in Int
      BY <2>2, <1>6 DEF Of, S
    <3> QED BY <3>1, <3>2
  <2> QED BY <2>1, <2>2
<1>13. it[V] \in Int /\ it[S] \in Int /\ Total(m) = it[S]
  BY <1>6, <1>9
<1>14. Total(g) = Total(m) - Of(m, p) + v
  BY <1>7, <1>10, <1>11, <1>12, <1>13
<1> QED BY <1>5, <1>12, <1>13, <1>14 DEF g

IsSummedCounter(c) == c = [pos |-> c.pos, neg |-> c.neg] /\ IsSummed(c.pos) /\ IsSummed(c.neg)

\* A delta adds what it says to the value, whoever sends it and whatever was
\* counted before (pn_counter.rs, apply and value).
THEOREM DeltaCounts ==
    ASSUME NEW c, IsSummedCounter(c), NEW delta, delta.by \in Int, NEW ctx
    PROVE  /\ IsSummedCounter(CounterApply(c, delta, ctx))
           /\ CounterValue(c) \in Int
           /\ CounterValue(CounterApply(c, delta, ctx)) = CounterValue(c) + delta.by
<1> DEFINE p == ctx.id[1]
           up == Of(c.pos, p) + delta.by
           dn == Of(c.neg, p) - delta.by
           e == CounterApply(c, delta, ctx)
<1>0. IsSummed(c.pos) /\ IsSummed(c.neg) /\ delta.by \in Int /\ 0 \in Int
  BY DEF IsSummedCounter
<1>1. /\ Of(c.pos, p) \in Int /\ Of(c.neg, p) \in Int
      /\ Total(c.pos) \in Int /\ Total(c.neg) \in Int
  <2> DEFINE m == c.pos
             n == c.neg
  <2> HIDE DEF m, n, p
  <2> QED BY <1>0, TotalOfPut DEF m, n
<1>2. up \in Int /\ dn \in Int
  BY <1>0, <1>1
<1>3. CASE delta.by >= 0
  <2>1. e = [pos |-> Put(c.pos, p, up), neg |-> c.neg]
    BY <1>3 DEF CounterApply, IsSummedCounter
  <2>2. /\ IsSummed(Put(c.pos, p, up))
        /\ Total(Put(c.pos, p, up)) = Total(c.pos) - Of(c.pos, p) + up
    <3> DEFINE m == c.pos
    <3> HIDE DEF m, p, up
    <3> QED BY <1>0, <1>2, TotalOfPut DEF m
  <2> HIDE DEF e
  <2>3. IsSummedCounter(e)
    BY <1>0, <2>1, <2>2 DEF IsSummedCounter
  <2>4. CounterValue(e) = Total(Put(c.pos, p, up)) - Total(c.neg)
    BY <2>1 DEF CounterValue
  <2>5. CounterValue(e) = (Total(c.pos) - Total(c.neg)) + delta.by
    BY <1>0, <1>1, <2>2, <2>4
  <2> QED BY <1>1, <2>3, <2>5 DEF CounterValue, e
<1>4. CASE ~ (delta.by >= 0)
  <2>1. e = [pos |-> c.pos, neg |-> Put(c.neg, p, dn)]
    BY <1>4 DEF CounterApply, IsSummedCounter
  <2>2. /\ IsSummed(Put(c.neg, p, dn))
        /\ Total(Put(c.neg, p, dn)) = Total(c.neg) - Of(c.neg, p) + dn
    <3> DEFINE m == c.neg
    <3> HIDE DEF m, p, dn
    <3> QED BY <1>0, <1>2, TotalOfPut DEF m
  <2> HIDE DEF e
  <2>3. IsSummedCounter(e)
    BY <1>0, <2>1, <2>2 DEF IsSummedCounter
  <2>4. CounterValue(e) = Total(c.pos) - Total(Put(c.neg, p, dn))
    BY <2>1 DEF CounterValue
  <2>5. CounterValue(e) = (Total(c.pos) - Total(c.neg)) + delta.by
    BY <1>0, <1>1, <2>2, <2>4
  <2> QED BY <1>1, <2>3, <2>5 DEF CounterValue, e
<1> QED BY <1>3, <1>4
-----------------------------------------------------------------------------
(* The walk of a sequence is one.                                          *)

\* A list from the newest id to the oldest.
Descends(s) == \A n, m \in DOMAIN s : n < m => Less(s[m], s[n])

LEMMA OldestId ==
    ASSUME NEW T \in SUBSET (Nat \X Nat), T # {}
    PROVE  \E x \in T : \A y \in T : y # x => Less(x, y)
<1> DEFINE A == {t[1] : t \in T}
<1>1. A \in SUBSET Nat /\ A # {}
  OBVIOUS
<1>2. PICK a \in A : \A m \in A : a <= m
  BY <1>1, LeastNat, Zenon
<1> DEFINE B == {t[2] : t \in {u \in T : u[1] = a}}
<1>3. B \in SUBSET Nat /\ B # {}
  BY <1>2
<1>4. PICK b \in B : \A m \in B : b <= m
  BY <1>3, LeastNat, Zenon
<1>5. <<a, b>> \in T
  BY <1>4
<1>6. ASSUME NEW y \in T, y # <<a, b>> PROVE Less(<<a, b>>, y)
  <2>1. y[1] \in A /\ y[1] \in Nat /\ y[2] \in Nat /\ y = <<y[1], y[2]>> /\ a \in Nat /\ b \in Nat
    BY <1>1, <1>3
  <2>2. a <= y[1]
    BY <1>2, <2>1
  <2>3. y[1] = a => y[2] \in B /\ b <= y[2] /\ y[2] # b
    BY <1>4, <1>6, <2>1
  <2>4. a < y[1] \/ (a = y[1] /\ b < y[2])
    BY <2>1, <2>2, <2>3
  <2> QED BY <2>4 DEF Less
<1> QED BY <1>5, <1>6

LEMMA DescendingExists ==
    ASSUME NEW S \in SUBSET (Nat \X Nat), IsFiniteSet(S)
    PROVE  \E s \in [1..Cardinality(S) -> S] : Descends(s)
<1> DEFINE P == {T \in SUBSET S : \E s \in [1..Cardinality(T) -> T] : Descends(s)}
<1>1. ASSUME NEW T \in SUBSET S, \A x \in T : T \ {x} \in P PROVE T \in P
  <2>0. IsFiniteSet(T) /\ Cardinality(T) \in Nat
    BY FS_Subset, FS_CardinalityType
  <2>1. CASE T = {}
    <3> DEFINE s == [n \in 1..Cardinality(T) |-> n]
    <3>1. Cardinality(T) = 0
      BY <2>1, FS_EmptySet
    <3>2. 1..Cardinality(T) = {}
      BY <3>1
    <3>3. s \in [1..Cardinality(T) -> T]
      BY <3>2
    <3>4. Descends(s)
      BY <3>2 DEF Descends
    <3> QED BY <3>3, <3>4
  <2>2. CASE T # {}
    <3>1. PICK x \in T : \A y \in T : y # x => Less(x, y)
      <4>1. T \in SUBSET (Nat \X Nat)
        OBVIOUS
      <4> QED BY <2>2, <4>1, OldestId
    <3> DEFINE R == T \ {x}
               N == Cardinality(R)
    <3>2. R \in P
      BY <1>1
    <3>3. PICK r \in [1..N -> R] : Descends(r)
      BY <3>2
    <3>4. Cardinality(R) = Cardinality(T) - 1
      BY <2>0, FS_RemoveElement
    <3>5. N \in Nat /\ Cardinality(T) = N + 1
      <4>1. IsFiniteSet(R)
        BY <2>0, FS_RemoveElement
      <4>2. Cardinality(R) \in Nat
        BY <4>1, FS_CardinalityType
      <4> QED BY <2>0, <3>4, <4>2
    <3> HIDE DEF N
    <3> DEFINE s == [n \in 1..N + 1 |-> IF n = N + 1 THEN x ELSE r[n]]
    <3>6. ASSUME NEW n \in 1..N + 1 PROVE s[n] \in T
      <4>1. CASE n = N + 1
        BY <4>1
      <4>2. CASE n # N + 1
        <5>1. n \in 1..N
          BY <4>2, <3>5
        <5> QED BY <4>2, <5>1
      <4> QED BY <4>1, <4>2
    <3>7. s \in [1..Cardinality(T) -> T]
      BY <3>5, <3>6
    <3>8. ASSUME NEW n \in 1..N + 1, NEW m \in 1..N + 1, n < m PROVE Less(s[m], s[n])
      <4>1. n \in 1..N /\ s[n] = r[n] /\ r[n] \in R
        BY <3>5, <3>8
      <4>2. CASE m = N + 1
        <5>1. s[m] = x
          BY <4>2
        <5> HIDE DEF s
        <5> QED BY <3>1, <4>1, <5>1
      <4>3. CASE m # N + 1
        <5>1. m \in 1..N /\ s[m] = r[m]
          BY <3>5, <4>3
        <5> HIDE DEF s
        <5> QED BY <3>3, <3>8, <4>1, <5>1 DEF Descends
      <4> QED BY <4>2, <4>3
    <3>9. Descends(s)
      <4>1. DOMAIN s = 1..N + 1
        OBVIOUS
      <4> HIDE DEF s
      <4> QED BY <3>8, <4>1 DEF Descends
    <3> HIDE DEF s
    <3> QED BY <3>7, <3>9
  <2> QED BY <2>1, <2>2
<1> HIDE DEF P
<1>2. \A T \in SUBSET S : T \in P
  BY <1>1, SubsetInduction
<1>3. S \in P
  BY <1>2
<1> QED BY <1>3 DEF P

LEMMA ChildrenAreListed ==
    ASSUME NEW e, IsFiniteSet(DOMAIN e), DOMAIN e \subseteq Nat \X Nat, NEW p
    PROVE  Children(e, p) \in Seq({i \in DOMAIN e : e[i].predecessor = p})
<1> DEFINE kids == {i \in DOMAIN e : e[i].predecessor = p}
           F == [1..Cardinality(kids) -> kids]
<1>1. kids \in SUBSET DOMAIN e
  OBVIOUS
<1>2. IsFiniteSet(kids) /\ kids \in SUBSET (Nat \X Nat)
  BY <1>1, FS_Subset
<1>3. Cardinality(kids) \in Nat
  BY <1>2, FS_CardinalityType
<1>4. \E s \in F : Descends(s)
  BY <1>2, DescendingExists
<1>5. Children(e, p) = CHOOSE s \in F : Descends(s)
  BY DEF Children, Descends
<1>6. Children(e, p) \in F
  <2> HIDE DEF F
  <2> QED BY <1>4, <1>5
<1> HIDE DEF kids
<1>7. Children(e, p) \in Seq(kids)
  BY <1>3, <1>6
<1> QED BY <1>7 DEF kids

\* Every element hangs below elements that rank lower, up to None.
Ranked(e, rank, N) ==
    /\ rank \in [DOMAIN e -> 1..N]
    /\ \A i \in DOMAIN e : \/ e[i].predecessor = None
                           \/ /\ e[i].predecessor \in DOMAIN e
                              /\ rank[e[i].predecessor] < rank[i]

Rooted(e) ==
    /\ IsFiniteSet(DOMAIN e) /\ DOMAIN e \subseteq Nat \X Nat
    /\ \E N \in Nat : \E rank : Ranked(e, rank, N)

\* The recursion of Walk at p.
Below(e, f, p) ==
    FlattenSeq([n \in 1..Len(Children(e, p)) |->
                  <<Children(e, p)[n]>> \o f[Children(e, p)[n]]])

Walks(e, f) == f = [p \in DOMAIN e \cup {None} |-> Below(e, f, p)]

LEMMA BelowIsSeq ==
    ASSUME NEW e, IsFiniteSet(DOMAIN e), DOMAIN e \subseteq Nat \X Nat, NEW p, NEW f,
           \A i \in DOMAIN e : e[i].predecessor = p => f[i] \in Seq(DOMAIN e)
    PROVE  Below(e, f, p) \in Seq(DOMAIN e)
<1> DEFINE kids == {i \in DOMAIN e : e[i].predecessor = p}
           c == Children(e, p)
<1>1. c \in Seq(kids)
  BY ChildrenAreListed
<1> HIDE DEF c
<1>2. Len(c) \in Nat /\ \A n \in 1..Len(c) : c[n] \in kids
  BY <1>1
<1>3. ASSUME NEW n \in 1..Len(c) PROVE <<c[n]>> \o f[c[n]] \in Seq(DOMAIN e)
  <2>1. c[n] \in DOMAIN e /\ f[c[n]] \in Seq(DOMAIN e)
    BY <1>2
  <2> QED BY <2>1
<1> DEFINE s == [n \in 1..Len(c) |-> <<c[n]>> \o f[c[n]]]
<1>4. s \in [1..Len(c) -> Seq(DOMAIN e)]
  BY <1>3
<1> HIDE DEF s
<1>5. FlattenSeq(s) \in Seq(DOMAIN e)
  BY <1>2, <1>4, FlattenIsSeq
<1> QED BY <1>5 DEF Below, s, c

\* Only what f says of the children of p matters.
LEMMA BelowAgrees ==
    ASSUME NEW e, IsFiniteSet(DOMAIN e), DOMAIN e \subseteq Nat \X Nat, NEW p, NEW f, NEW g,
           \A i \in DOMAIN e : e[i].predecessor = p => f[i] = g[i]
    PROVE  Below(e, f, p) = Below(e, g, p)
<1> DEFINE kids == {i \in DOMAIN e : e[i].predecessor = p}
           c == Children(e, p)
<1>1. c \in Seq(kids)
  BY ChildrenAreListed
<1> HIDE DEF c
<1>2. \A n \in 1..Len(c) : f[c[n]] = g[c[n]]
  BY <1>1
<1>3. [n \in 1..Len(c) |-> <<c[n]>> \o f[c[n]]] = [n \in 1..Len(c) |-> <<c[n]>> \o g[c[n]]]
  BY <1>2
<1> QED BY <1>3, Zenon DEF Below, c

\* Elements hang below what is less deep.
Deepens(e, lev, N) ==
    /\ \A p \in DOMAIN e \cup {None} : lev[p] \in 0..N
    /\ \A i \in DOMAIN e : /\ e[i].predecessor \in DOMAIN e \cup {None}
                            /\ lev[e[i].predecessor] < lev[i]

LEMMA RootedDeepens ==
    ASSUME NEW e, Rooted(e), None \notin Nat \X Nat
    PROVE  \E N \in Nat : \E lev : Deepens(e, lev, N)
<1> DEFINE D == DOMAIN e \cup {None}
<1>1. IsFiniteSet(DOMAIN e) /\ DOMAIN e \subseteq Nat \X Nat /\ None \notin DOMAIN e
  BY DEF Rooted
<1>2. PICK N \in Nat : \E rank : Ranked(e, rank, N)
  BY DEF Rooted
<1>3. PICK rank : Ranked(e, rank, N)
  BY <1>2
<1> DEFINE lev == [p \in D |-> IF p = None THEN 0 ELSE rank[p]]
<1>4. /\ \A p \in D : lev[p] \in 0..N
      /\ \A i \in DOMAIN e : e[i].predecessor \in D /\ lev[e[i].predecessor] < lev[i]
  <2>1. \A p \in DOMAIN e : lev[p] = rank[p] /\ lev[p] \in 1..N
    BY <1>1, <1>3 DEF Ranked
  <2>2. lev[None] = 0
    OBVIOUS
  <2>3. \A p \in D : lev[p] \in 0..N
    BY <2>1, <2>2
  <2>4. ASSUME NEW i \in DOMAIN e PROVE e[i].predecessor \in D /\ lev[e[i].predecessor] < lev[i]
    <3>1. CASE e[i].predecessor = None
      <4> HIDE DEF lev
      <4> QED BY <3>1, <2>1, <2>2
    <3>2. CASE e[i].predecessor # None
      <4>1. e[i].predecessor \in DOMAIN e /\ rank[e[i].predecessor] < rank[i]
        BY <1>3, <3>2 DEF Ranked
      <4> HIDE DEF lev
      <4> QED BY <2>1, <4>1
    <3> QED BY <3>1, <3>2
  <2> HIDE DEF lev
  <2> QED BY <2>3, <2>4
<1> HIDE DEF lev
<1> QED BY <1>4 DEF Deepens

\* What Walk finds below each element.
Walked(e, f) ==
    \A p \in DOMAIN e \cup {None} : f[p] \in Seq(DOMAIN e) /\ f[p] = Below(e, f, p)

LEMMA WalkUnder ==
    ASSUME NEW e, Rooted(e), None \notin Nat \X Nat
    PROVE  \E f : Walked(e, f) /\ Walk(e) = f[None]
<1> DEFINE D == DOMAIN e \cup {None}
<1>1. IsFiniteSet(DOMAIN e) /\ DOMAIN e \subseteq Nat \X Nat /\ None \notin DOMAIN e
  BY DEF Rooted
<1>2. PICK N \in Nat : \E lev : Deepens(e, lev, N)
  BY RootedDeepens
<1>3. PICK lev : Deepens(e, lev, N)
  BY <1>2
<1>4. /\ \A p \in D : lev[p] \in 0..N
      /\ \A i \in DOMAIN e : e[i].predecessor \in D /\ lev[e[i].predecessor] < lev[i]
  BY <1>3 DEF Deepens
<1> DEFINE Good(f, p) == f[p] \in Seq(DOMAIN e) /\ f[p] = Below(e, f, p)
           T == {m \in 0..N + 1 : \E f : \A p \in D : lev[p] > N - m => Good(f, p)}
<1>5. 0 \in T
  <2>1. \A p \in D : ~ (lev[p] > N - 0)
    BY <1>4
  <2> QED BY <2>1
<1>6. ASSUME NEW m \in 0..(N + 1) - 1, m \in T PROVE m + 1 \in T
  <2>1. PICK f : \A p \in D : lev[p] > N - m => Good(f, p)
    BY <1>6
  <2> DEFINE g == [p \in D |-> IF lev[p] > N - m THEN f[p] ELSE Below(e, f, p)]
  <2>2. ASSUME NEW p \in D, lev[p] > N - (m + 1) PROVE Good(g, p)
    <3>1. ASSUME NEW i \in DOMAIN e, e[i].predecessor = p
          PROVE  lev[i] > N - m /\ g[i] = f[i] /\ f[i] \in Seq(DOMAIN e)
      <4>1. lev[p] < lev[i] /\ lev[p] \in 0..N /\ lev[i] \in 0..N
        BY <1>4, <3>1
      <4>2. lev[i] > N - m
        <5> DEFINE a == lev[i]
                   b == lev[p]
        <5>1. a \in Int /\ b \in Int /\ b < a /\ b > N - (m + 1)
          BY <2>2, <4>1
        <5> HIDE DEF a, b
        <5>2. a > N - m
          BY <5>1
        <5> QED BY <5>2 DEF a
      <4>3. i \in D
        OBVIOUS
      <4> QED BY <2>1, <4>2, <4>3
    <3>2. Below(e, g, p) = Below(e, f, p)
      <4> HIDE DEF g
      <4> QED BY <1>1, <3>1, BelowAgrees
    <3>3. Below(e, f, p) \in Seq(DOMAIN e)
      BY <1>1, <3>1, BelowIsSeq
    <3>4. CASE lev[p] > N - m
      <4>1. g[p] = f[p] /\ f[p] = Below(e, f, p)
        BY <2>1, <3>4
      <4> HIDE DEF g
      <4> QED BY <3>2, <3>3, <4>1
    <3>5. CASE ~ (lev[p] > N - m)
      <4>1. g[p] = Below(e, f, p)
        BY <3>5
      <4> HIDE DEF g
      <4> QED BY <3>2, <3>3, <4>1
    <3> QED BY <3>4, <3>5
  <2> HIDE DEF g, Good
  <2>3. m + 1 \in 0..N + 1
    OBVIOUS
  <2> QED BY <2>2, <2>3
<1> HIDE DEF T
<1>7. N + 1 \in T
  <2>1. N + 1 \in Nat /\ N + 1 \in 0..N + 1
    OBVIOUS
  <2>2. \A m \in 0..N + 1 : m \in T
    BY <1>5, <1>6, <2>1, UpTo
  <2> QED BY <2>1, <2>2
<1>8. PICK f : \A p \in D : Good(f, p)
  <2>1. PICK f : \A p \in D : lev[p] > N - (N + 1) => Good(f, p)
    BY <1>7 DEF T
  <2>2. \A p \in D : lev[p] > N - (N + 1)
    BY <1>4
  <2> HIDE DEF Good
  <2> QED BY <2>1, <2>2
<1> DEFINE h == [p \in D |-> f[p]]
<1>9. \A p \in D : h[p] = Below(e, h, p)
  <2> TAKE p \in D
  <2>1. \A i \in DOMAIN e : h[i] = f[i]
    OBVIOUS
  <2>2. h[p] = f[p]
    OBVIOUS
  <2> HIDE DEF h
  <2>3. Below(e, h, p) = Below(e, f, p)
    BY <1>1, <2>1, BelowAgrees
  <2> QED BY <1>8, <2>2, <2>3
<1>10. Walks(e, h)
  <2>1. h = [p \in D |-> h[p]]
    OBVIOUS
  <2> HIDE DEF h
  <2> QED BY <1>9, <2>1 DEF Walks
<1> HIDE DEF h
<1> DEFINE under == CHOOSE w : Walks(e, w)
<1>11. Walk(e) = under[None]
  BY DEF Walk, Walks, Below
<1>12. Walks(e, under)
  BY <1>10
<1> HIDE DEF under
<1>13. \A p \in D : under[p] = Below(e, under, p)
  BY <1>12 DEF Walks
\* Any solution is f.
<1> DEFINE U == {m \in 0..N + 1 : \A p \in D : lev[p] > N - m => under[p] = f[p]}
<1>14. 0 \in U
  <2>1. \A p \in D : ~ (lev[p] > N - 0)
    BY <1>4
  <2> QED BY <2>1
<1>15. ASSUME NEW m \in 0..(N + 1) - 1, m \in U PROVE m + 1 \in U
  <2>1. ASSUME NEW p \in D, lev[p] > N - (m + 1) PROVE under[p] = f[p]
    <3>1. ASSUME NEW i \in DOMAIN e, e[i].predecessor = p PROVE under[i] = f[i]
      <4>1. lev[p] < lev[i] /\ lev[p] \in 0..N /\ lev[i] \in 0..N
        BY <1>4, <3>1
      <4>2. lev[i] > N - m
        <5> DEFINE a == lev[i]
                   b == lev[p]
        <5>1. a \in Int /\ b \in Int /\ b < a /\ b > N - (m + 1)
          BY <2>1, <4>1
        <5> HIDE DEF a, b
        <5>2. a > N - m
          BY <5>1
        <5> QED BY <5>2 DEF a
      <4>3. i \in D
        OBVIOUS
      <4> QED BY <1>15, <4>2, <4>3
    <3>2. Below(e, under, p) = Below(e, f, p)
      BY <1>1, <3>1, BelowAgrees
    <3> QED BY <1>8, <1>13, <3>2
  <2>2. m + 1 \in 0..N + 1
    OBVIOUS
  <2> QED BY <2>1, <2>2
<1> HIDE DEF U
<1>16. N + 1 \in U
  <2>1. N + 1 \in Nat /\ N + 1 \in 0..N + 1
    OBVIOUS
  <2>2. \A m \in 0..N + 1 : m \in U
    BY <1>14, <1>15, <2>1, UpTo
  <2> QED BY <2>1, <2>2
<1>17. under[None] = f[None]
  <2>1. None \in D /\ lev[None] > N - (N + 1)
    BY <1>4
  <2> QED BY <1>16, <2>1 DEF U
<1>18. Walked(e, f)
  BY <1>8 DEF Walked
<1> QED BY <1>11, <1>17, <1>18

LEMMA WalkIsSeq ==
    ASSUME NEW e, Rooted(e), None \notin Nat \X Nat
    PROVE  Walk(e) \in Seq(DOMAIN e)
  BY WalkUnder DEF Walked

\* What LiveIds does, element by element of the walk.
Lives(e, g, w) ==
    /\ g[0] = << >>
    /\ \A k \in 1..Len(w) : g[k] = IF e[w[k]].tombstoned THEN g[k-1] ELSE Append(g[k-1], w[k])
    /\ \A k \in 0..Len(w) : g[k] \in Seq(DOMAIN e)

LEMMA LiveSteps ==
    ASSUME NEW e, Rooted(e), None \notin Nat \X Nat
    PROVE  \E g : Lives(e, g, Walk(e)) /\ LiveIds(e) = g[Len(Walk(e))]
<1> DEFINE w == Walk(e)
           n == Len(w)
           D == DOMAIN e
           Op(x, i) == IF e[i].tombstoned THEN x ELSE Append(x, i)
           step == [x \in Seq(D) \X (1..n) |-> Op(x[1], w[x[2]])]
           From(it, S) == IF S = {} THEN << >> ELSE Op(it[S \ {Max(S)}], w[Max(S)])
           Folds(it) == it = [S \in SUBSET (1..n) |-> From(it, S)]
           iter == CHOOSE it : Folds(it)
<1>1. w \in Seq(D)
  BY WalkIsSeq
<1> HIDE DEF w
<1>2. n \in Nat /\ DOMAIN w = 1..n /\ \A k \in 1..n : w[k] \in D
  BY <1>1
<1>3. LiveIds(e) = iter[1..n]
  BY <1>2 DEF LiveIds, FoldLeft, MapThenFoldSet, Max, w
<1> HIDE DEF n
<1>4. ASSUME NEW x \in Seq(D), NEW i \in D PROVE Op(x, i) \in Seq(D)
  <2>1. Append(x, i) \in Seq(D)
    <3> HIDE DEF D
    <3> QED BY <1>4
  <2> QED BY <1>4, <2>1
<1> HIDE DEF Op
<1>5. step \in [Seq(D) \X (1..n) -> Seq(D)] /\ << >> \in Seq(D)
  BY <1>2, <1>4
<1>6. PICK f \in [SUBSET (1..n) -> Seq(D)] : Iterated(f, step, << >>, n)
  BY <1>2, <1>5, Iterates
<1>7. ASSUME NEW S \in SUBSET (1..n), S # {}
      PROVE  step[<<f[S \ {Max(S)}], Max(S)>>] = Op(f[S \ {Max(S)}], w[Max(S)])
  <2>1. S \in SUBSET Nat /\ \A x \in S : x <= n
    BY <1>2
  <2>2. Max(S) \in S
    BY <1>2, <1>7, <2>1, MaxOfBounded
  <2>3. <<f[S \ {Max(S)}], Max(S)>> \in Seq(D) \X (1..n)
    BY <2>2
  <2> QED BY <2>3
<1> HIDE DEF step
<1>8. Folds(f)
  BY <1>6, <1>7 DEF Iterated
<1>9. Folds(iter)
  <2> HIDE DEF Folds
  <2> QED BY <1>8
<1> HIDE DEF iter
<1>10. iter[1..0] = << >>
  <2>1. 1..0 = {} /\ {} \in SUBSET (1..n)
    OBVIOUS
  <2> QED BY <1>9, <2>1
<1>11. ASSUME NEW k \in 1..n PROVE iter[1..k] = Op(iter[1..(k-1)], w[k])
  <2>1. 1..k # {} /\ 1..k \in SUBSET (1..n) /\ Max(1..k) = k /\ (1..k) \ {k} = 1..(k-1)
    BY <1>2, Prefix
  <2> QED BY <1>9, <2>1
<1> HIDE DEF Folds
<1> DEFINE T == {k \in 0..n : iter[1..k] \in Seq(D)}
<1>12. 0 \in T
  <2>1. 0 \in 0..n
    BY <1>2
  <2>2. iter[1..0] \in Seq(D)
    <3> HIDE DEF D
    <3> QED BY <1>5, <1>10, Zenon
  <2> QED BY <2>1, <2>2
<1>13. ASSUME NEW k \in 0..n-1, k \in T PROVE k + 1 \in T
  <2>1. k + 1 \in 1..n /\ (k + 1) - 1 = k /\ k + 1 \in 0..n
    BY <1>2
  <2>2. iter[1..(k+1)] = Op(iter[1..k], w[k+1]) /\ w[k+1] \in D
    BY <1>2, <1>11, <2>1
  <2>3. iter[1..k] \in Seq(D)
    BY <1>13
  <2>4. iter[1..(k+1)] \in Seq(D)
    BY <1>4, <2>2, <2>3
  <2> QED BY <2>1, <2>4
<1> HIDE DEF T
<1>14. \A k \in 0..n : k \in T
  BY <1>2, <1>12, <1>13, UpTo
<1> DEFINE g == [k \in 0..n |-> iter[1..k]]
<1>15. /\ \A k \in 0..n : g[k] \in Seq(D)
       /\ g[0] = iter[1..0] /\ g[n] = iter[1..n] /\ \A k \in 1..n : g[k] = iter[1..k] /\ g[k-1] = iter[1..(k-1)]
  <2>1. 0 \in 0..n /\ n \in 0..n /\ \A k \in 1..n : k \in 0..n /\ k - 1 \in 0..n
    BY <1>2
  <2>2. \A k \in 0..n : g[k] = iter[1..k]
    OBVIOUS
  <2> HIDE DEF g
  <2> QED BY <1>14, <2>1, <2>2 DEF T
<1> HIDE DEF g, D
<1>16. Lives(e, g, w)
  BY <1>10, <1>11, <1>15 DEF Lives, Op, n, D
<1> QED BY <1>3, <1>15, <1>16 DEF w, n

LEMMA LiveIdsAreSeq ==
    ASSUME NEW e, Rooted(e), None \notin Nat \X Nat
    PROVE  LiveIds(e) \in Seq(DOMAIN e)
<1>1. PICK g : Lives(e, g, Walk(e)) /\ LiveIds(e) = g[Len(Walk(e))]
  BY LiveSteps
<1>2. Len(Walk(e)) \in 0..Len(Walk(e))
  BY WalkIsSeq
<1> QED BY <1>1, <1>2 DEF Lives

\* A fresh id below an element, or below none, and a deletion, leave the
\* elements rooted.
LEMMA RootedPut ==
    ASSUME NEW e, Rooted(e), None \notin Nat \X Nat, NEW delta, NEW ctx,
           delta.type = "SequenceInsert" =>
             ctx.id \in Nat \X Nat /\ ctx.id \notin DOMAIN e
             /\ delta.predecessor \in DOMAIN e \cup {None}
    PROVE  /\ Rooted(SequenceApply(e, delta, ctx))
           /\ DOMAIN SequenceApply(e, delta, ctx)
                = DOMAIN e \cup (IF delta.type = "SequenceInsert" THEN {ctx.id} ELSE {})
<1> DEFINE g == SequenceApply(e, delta, ctx)
<1>1. IsFiniteSet(DOMAIN e) /\ DOMAIN e \subseteq Nat \X Nat /\ None \notin DOMAIN e
  BY DEF Rooted
<1>2. PICK N \in Nat : \E rank : Ranked(e, rank, N)
  BY DEF Rooted
<1>3. PICK rank : Ranked(e, rank, N)
  BY <1>2
<1>4. CASE delta.type = "SequenceInsert"
  <2> DEFINE i == ctx.id
             p == delta.predecessor
             up == [j \in DOMAIN e \cup {i} |-> IF j = i THEN N + 1 ELSE rank[j]]
  <2>1. i \in Nat \X Nat /\ i \notin DOMAIN e /\ p \in DOMAIN e \cup {None}
    BY <1>4
  <2>2. /\ DOMAIN g = DOMAIN e \cup {i} /\ g[i].predecessor = p
        /\ \A j \in DOMAIN e : j # i => g[j] = e[j]
    BY <1>4 DEF SequenceApply, Put
  <2> HIDE DEF g, i, p
  <2>3. IsFiniteSet(DOMAIN g) /\ DOMAIN g \subseteq Nat \X Nat
    BY <1>1, <2>1, <2>2, FS_AddElement
  <2>4. up[i] = N + 1 /\ \A j \in DOMAIN e : up[j] = rank[j] /\ up[j] \in 1..N
    BY <2>1, <1>3 DEF Ranked
  <2>5. up \in [DOMAIN g -> 1..N + 1]
    <3>1. \A j \in DOMAIN g : up[j] \in 1..N + 1
      <4> HIDE DEF up
      <4> QED BY <2>2, <2>4
    <3> QED BY <2>2, <3>1
  <2>6. ASSUME NEW j \in DOMAIN g, g[j].predecessor # None
        PROVE  g[j].predecessor \in DOMAIN g /\ up[g[j].predecessor] < up[j]
    <3>1. CASE j = i
      <4>1. p \in DOMAIN e
        BY <2>1, <2>2, <2>6, <3>1
      <4> HIDE DEF up
      <4>2. up[p] \in 1..N /\ up[j] = N + 1
        BY <2>4, <3>1, <4>1
      <4>3. up[p] < up[j]
        BY <4>2
      <4> QED BY <2>2, <3>1, <4>1, <4>3
    <3>2. CASE j # i
      <4>1. j \in DOMAIN e /\ g[j] = e[j]
        BY <2>2, <3>2
      <4>2. e[j].predecessor \in DOMAIN e /\ rank[e[j].predecessor] < rank[j]
        BY <1>3, <2>6, <4>1 DEF Ranked
      <4> HIDE DEF up
      <4> QED BY <2>2, <2>4, <4>1, <4>2
    <3> QED BY <3>1, <3>2
  <2> HIDE DEF up
  <2>7. Ranked(g, up, N + 1) /\ N + 1 \in Nat
    BY <2>5, <2>6 DEF Ranked
  <2>8. Rooted(g)
    BY <2>3, <2>7 DEF Rooted
  <2> QED BY <1>4, <2>2, <2>8 DEF g, i
<1>5. CASE delta.type # "SequenceInsert"
  <2>1. DOMAIN g = DOMAIN e
    BY <1>5 DEF SequenceApply
  <2>2. \A j \in DOMAIN e : g[j].predecessor = e[j].predecessor
    <3> TAKE j \in DOMAIN e
    <3>1. g[j] = [e[j] EXCEPT !.tombstoned = @ \/ j \in delta.targets]
      BY <1>5 DEF SequenceApply
    <3> QED BY <3>1
  <2> HIDE DEF g
  <2>3. Ranked(g, rank, N)
    BY <1>3, <2>1, <2>2 DEF Ranked
  <2>4. Rooted(g)
    BY <1>1, <2>1, <2>3 DEF Rooted
  <2> QED BY <1>5, <2>1, <2>4 DEF g
<1> QED BY <1>4, <1>5

-----------------------------------------------------------------------------
(* Replaying the log.                                                      *)

\* The document d after n ops of the log from a on.
Folded(k, l, d, a, n) ==
    FoldLeft(LAMBDA x, m : apply_property(k, x, l[m], m), d, [m \in 1..n |-> a + m])

\* The recursion of that fold, over the subsets of 1..n.
Refolds(it, k, l, d, a, n) ==
    it = [S \in SUBSET (1..n) |->
            IF S = {} THEN d
            ELSE apply_property(k, it[S \ {Max(S)}], l[a + Max(S)], a + Max(S))]

RefoldsAt(it, k, l, d, a, n) ==
    \A S \in SUBSET (1..n) :
        it[S] = IF S = {} THEN d
                ELSE apply_property(k, it[S \ {Max(S)}], l[a + Max(S)], a + Max(S))

LEMMA RefoldExists ==
    ASSUME NEW k, NEW l, NEW d, NEW a, NEW n \in Nat
    PROVE  \E it : Refolds(it, k, l, d, a, n)
<1> DEFINE T == {m \in 0..n : \E f : RefoldsAt(f, k, l, d, a, m)}
<1>1. 0 \in T
  <2> DEFINE f == [S \in SUBSET (1..0) |-> d]
  <2>1. \A S \in SUBSET (1..0) : S = {} /\ f[S] = d
    OBVIOUS
  <2>2. RefoldsAt(f, k, l, d, a, 0)
    BY <2>1 DEF RefoldsAt
  <2> QED BY <2>2
<1>2. ASSUME NEW m \in 0..n-1, m \in T PROVE m + 1 \in T
  <2>1. PICK f : RefoldsAt(f, k, l, d, a, m)
    BY <1>2
  <2> DEFINE e == a + (m + 1)
             g == [S \in SUBSET (1..m+1) |->
                     IF m + 1 \in S THEN apply_property(k, f[S \ {m + 1}], l[e], e) ELSE f[S]]
  <2>2. ASSUME NEW S \in SUBSET (1..m+1), m + 1 \in S
        PROVE  S # {} /\ Max(S) = m + 1 /\ S \ {m + 1} \in SUBSET (1..m)
    <3>1. m + 1 \in Nat /\ S \in SUBSET Nat /\ S # {} /\ \A x \in S : x <= m + 1
      BY <2>2
    <3>2. Max(S) \in S /\ \A x \in S : x <= Max(S)
      BY <3>1, MaxOfBounded, Zenon
    <3>3. Max(S) = m + 1
      <4> DEFINE x == Max(S)
      <4>1. x \in 1..m+1 /\ m + 1 <= x
        BY <2>2, <3>2
      <4> HIDE DEF x
      <4>2. x = m + 1
        BY <4>1
      <4> QED BY <4>2 DEF x
    <3>4. S \ {m + 1} \in SUBSET (1..m)
      OBVIOUS
    <3> QED BY <3>1, <3>3, <3>4
  <2>3. ASSUME NEW S \in SUBSET (1..m+1), m + 1 \notin S
        PROVE  S \in SUBSET (1..m) /\ (S # {} => Max(S) \in S)
    <3>1. m + 1 \in Nat /\ S \in SUBSET Nat /\ \A x \in S : x <= m + 1
      BY <2>3
    <3>2. S # {} => Max(S) \in S
      BY <3>1, MaxOfBounded, Zenon
    <3> QED BY <2>3, <3>2
  <2>4. ASSUME NEW S \in SUBSET (1..m+1)
        PROVE  g[S] = IF S = {} THEN d
                      ELSE apply_property(k, g[S \ {Max(S)}], l[a + Max(S)], a + Max(S))
    <3>1. CASE m + 1 \in S
      <4>1. S # {} /\ Max(S) = m + 1 /\ S \ {m + 1} \in SUBSET (1..m)
        BY <2>2, <3>1
      <4>2. g[S \ {m + 1}] = f[S \ {m + 1}]
        BY <4>1
      <4>3. g[S] = apply_property(k, f[S \ {m + 1}], l[e], e)
        BY <3>1
      <4> HIDE DEF g
      <4> QED BY <4>1, <4>2, <4>3
    <3>2. CASE m + 1 \notin S
      <4>1. S \in SUBSET (1..m) /\ (S # {} => Max(S) \in S)
        BY <2>3, <3>2
      <4>2. g[S] = f[S] /\ g[S \ {Max(S)}] = f[S \ {Max(S)}]
        BY <3>2, <4>1
      <4>3. f[S] = IF S = {} THEN d
                   ELSE apply_property(k, f[S \ {Max(S)}], l[a + Max(S)], a + Max(S))
        BY <4>1, <2>1, Zenon DEF RefoldsAt
      <4> HIDE DEF g
      <4> QED BY <4>2, <4>3
    <3> QED BY <3>1, <3>2
  <2>5. RefoldsAt(g, k, l, d, a, m + 1)
    <3> HIDE DEF g
    <3> QED BY <2>4 DEF RefoldsAt
  <2> HIDE DEF g
  <2>6. m + 1 \in 0..n
    OBVIOUS
  <2> QED BY <2>5, <2>6
<1> HIDE DEF T
<1>3. n \in T
  BY <1>1, <1>2, UpTo
<1>4. PICK f : RefoldsAt(f, k, l, d, a, n)
  BY <1>3 DEF T
<1> DEFINE g == [S \in SUBSET (1..n) |-> f[S]]
<1>5. ASSUME NEW S \in SUBSET (1..n)
      PROVE  g[S] = IF S = {} THEN d
                    ELSE apply_property(k, g[S \ {Max(S)}], l[a + Max(S)], a + Max(S))
  <2>1. S \ {Max(S)} \in SUBSET (1..n)
    OBVIOUS
  <2>2. g[S] = f[S] /\ g[S \ {Max(S)}] = f[S \ {Max(S)}]
    BY <2>1
  <2> HIDE DEF g
  <2> QED BY <1>4, <2>2 DEF RefoldsAt
<1>6. g = [S \in SUBSET (1..n) |-> g[S]]
  OBVIOUS
<1> HIDE DEF g
<1>7. Refolds(g, k, l, d, a, n)
  BY <1>5, <1>6, Zenon DEF Refolds
<1> QED BY <1>7

\* The documents on the way.
Trail(r, k, l, d, a, n) ==
    /\ r[0] = d
    /\ \A m \in 1..n : r[m] = apply_property(k, r[m - 1], l[a + m], a + m)

LEMMA FoldedTrail ==
    ASSUME NEW k, NEW l, NEW d, NEW a, NEW n \in Nat
    PROVE  \E r : Trail(r, k, l, d, a, n) /\ r[n] = Folded(k, l, d, a, n)
<1> DEFINE iter == CHOOSE it : Refolds(it, k, l, d, a, n)
           From(it, S) == IF S = {} THEN d
                          ELSE apply_property(k, it[S \ {Max(S)}], l[[m \in 1..n |-> a + m][Max(S)]],
                                              [m \in 1..n |-> a + m][Max(S)])
           found == CHOOSE it : it = [S \in SUBSET (1..n) |-> From(it, S)]
<1>1. Folded(k, l, d, a, n) = found[1..n]
  <2>1. DOMAIN [m \in 1..n |-> a + m] = 1..n
    OBVIOUS
  <2> QED BY <2>1 DEF Folded, FoldLeft, MapThenFoldSet, Max
<1>2. PICK it : Refolds(it, k, l, d, a, n)
  BY RefoldExists
<1>3. \A S \in SUBSET (1..n) : S # {} => [m \in 1..n |-> a + m][Max(S)] = a + Max(S)
  <2> TAKE S \in SUBSET (1..n)
  <2> HAVE S # {}
  <2>1. S \in SUBSET Nat /\ S # {} /\ \A x \in S : x <= n
    OBVIOUS
  <2>2. Max(S) \in S
    BY <2>1, MaxOfBounded, Zenon
  <2> QED BY <2>2
<1>4. it = [S \in SUBSET (1..n) |-> From(it, S)]
  <2>1. ASSUME NEW S \in SUBSET (1..n) PROVE it[S] = From(it, S)
    BY <1>2, <1>3 DEF Refolds
  <2>2. it = [S \in SUBSET (1..n) |-> it[S]]
    BY <1>2 DEF Refolds
  <2> HIDE DEF From
  <2> QED BY <2>1, <2>2
<1>5. found = [S \in SUBSET (1..n) |-> From(found, S)]
  <2> HIDE DEF From
  <2> QED BY <1>4
<1> HIDE DEF found
<1>6. ASSUME NEW S \in SUBSET (1..n)
      PROVE  found[S] = IF S = {} THEN d
                        ELSE apply_property(k, found[S \ {Max(S)}], l[a + Max(S)], a + Max(S))
  <2>1. found[S] = From(found, S)
    <3> HIDE DEF From
    <3> QED BY <1>5
  <2> QED BY <1>3, <2>1
<1> HIDE DEF From
<1> DEFINE r == [m \in 0..n |-> found[1..m]]
<1>7. r[0] = d
  <2>1. 1..0 = {} /\ {} \in SUBSET (1..n) /\ 0 \in 0..n
    OBVIOUS
  <2> QED BY <1>6, <2>1
<1>8. ASSUME NEW m \in 1..n PROVE r[m] = apply_property(k, r[m - 1], l[a + m], a + m)
  <2>1. 1..m # {} /\ 1..m \in SUBSET (1..n) /\ Max(1..m) = m /\ (1..m) \ {m} = 1..(m-1)
    BY Prefix
  <2>2. m \in 0..n /\ m - 1 \in 0..n
    OBVIOUS
  <2>3. r[m] = found[1..m] /\ r[m - 1] = found[1..(m-1)]
    BY <2>2
  <2> HIDE DEF r
  <2>4. found[1..m] = apply_property(k, found[1..(m-1)], l[a + m], a + m)
    BY <1>6, <2>1
  <2> QED BY <2>3, <2>4
<1>9. n \in 0..n
  OBVIOUS
<1>10. r[n] = found[1..n]
  BY <1>9
<1> HIDE DEF r
<1>11. Trail(r, k, l, d, a, n)
  BY <1>7, <1>8 DEF Trail
<1> QED BY <1>1, <1>10, <1>11

\* There is one way only.
LEMMA TrailsAgree ==
    ASSUME NEW k, NEW l, NEW h, NEW d, NEW a \in Nat, NEW n \in Nat, NEW r, NEW s,
           Trail(r, k, l, d, a, n), Trail(s, k, h, d, a, n),
           \A m \in 1..n : l[a + m] = h[a + m]
    PROVE  \A m \in 0..n : r[m] = s[m]
<1> DEFINE T == {m \in 0..n : r[m] = s[m]}
<1>1. 0 \in T
  BY DEF Trail
<1>2. ASSUME NEW m \in 0..n-1, m \in T PROVE m + 1 \in T
  <2>1. m + 1 \in 1..n /\ m + 1 \in 0..n /\ (m + 1) - 1 = m
    OBVIOUS
  <2> DEFINE j == m + 1
  <2>2. j \in 1..n /\ r[j - 1] = s[j - 1]
    BY <1>2, <2>1
  <2> HIDE DEF j
  <2>3. r[j] = apply_property(k, r[j - 1], l[a + j], a + j)
    BY <2>2, Zenon DEF Trail
  <2>4. s[j] = apply_property(k, s[j - 1], h[a + j], a + j)
    BY <2>2, Zenon DEF Trail
  <2>5. r[j] = s[j]
    BY <2>2, <2>3, <2>4
  <2> QED BY <2>1, <2>5 DEF j
<1> HIDE DEF T
<1>3. \A m \in 0..n : m \in T
  BY <1>1, <1>2, UpTo
<1> QED BY <1>3 DEF T

LEMMA FoldedSteps ==
    ASSUME NEW k, NEW l, NEW d, NEW a \in Nat, NEW n \in Nat
    PROVE  /\ Folded(k, l, d, a, 0) = d
           /\ Folded(k, l, d, a, n + 1)
                = apply_property(k, Folded(k, l, d, a, n), l[a + (n + 1)], a + (n + 1))
<1>1. Folded(k, l, d, a, 0) = d
  <2>1. PICK r : Trail(r, k, l, d, a, 0) /\ r[0] = Folded(k, l, d, a, 0)
    BY FoldedTrail
  <2> QED BY <2>1 DEF Trail
<1>2. PICK r : Trail(r, k, l, d, a, n) /\ r[n] = Folded(k, l, d, a, n)
  BY FoldedTrail
<1>3. PICK s : Trail(s, k, l, d, a, n + 1) /\ s[n + 1] = Folded(k, l, d, a, n + 1)
  <2>1. n + 1 \in Nat
    OBVIOUS
  <2> QED BY <2>1, FoldedTrail
<1>4. Trail(s, k, l, d, a, n)
  <2>1. \A m \in 1..n : m \in 1..n + 1
    OBVIOUS
  <2> QED BY <1>3, <2>1, Zenon DEF Trail
<1>5. r[n] = s[n]
  <2>1. \A m \in 0..n : r[m] = s[m]
    BY <1>2, <1>4, TrailsAgree
  <2>2. n \in 0..n
    OBVIOUS
  <2> QED BY <2>1, <2>2
<1>6. s[n + 1] = apply_property(k, s[n], l[a + (n + 1)], a + (n + 1))
  <2>1. n + 1 \in 1..n + 1 /\ (n + 1) - 1 = n
    OBVIOUS
  <2> QED BY <1>3, <2>1 DEF Trail
<1> QED BY <1>1, <1>2, <1>3, <1>5, <1>6

\* The document of the log's first n ops.
Replay(k, l, n) == Folded(k, l, Bottom(k), 0, n)

LEMMA ReplaySteps ==
    ASSUME NEW k, NEW l, NEW n \in Nat
    PROVE  /\ Replay(k, l, 0) = Bottom(k)
           /\ Replay(k, l, n + 1) = apply_property(k, Replay(k, l, n), l[n + 1], n + 1)
<1>1. 0 + (n + 1) = n + 1 /\ 0 \in Nat
  OBVIOUS
<1> QED BY <1>1, FoldedSteps DEF Replay

\* Catching up is replaying on.
LEMMA ReplayOn ==
    ASSUME NEW k, NEW l, NEW a \in Nat, NEW n \in Nat, NEW d, d = Replay(k, l, a)
    PROVE  Folded(k, l, d, a, n) = Replay(k, l, a + n)
<1> DEFINE T == {m \in 0..n : Folded(k, l, d, a, m) = Replay(k, l, a + m)}
<1>1. 0 \in T
  BY FoldedSteps
<1>2. ASSUME NEW m \in 0..n-1, m \in T PROVE m + 1 \in T
  <2>1. m \in Nat /\ a + m \in Nat /\ a + (m + 1) = (a + m) + 1 /\ m + 1 \in 0..n
    OBVIOUS
  <2>2. Folded(k, l, d, a, m + 1)
          = apply_property(k, Folded(k, l, d, a, m), l[a + (m + 1)], a + (m + 1))
    <3>1. m \in Nat
      BY <2>1
    <3>2. /\ Folded(k, l, d, a, 0) = d
          /\ Folded(k, l, d, a, m + 1)
               = apply_property(k, Folded(k, l, d, a, m), l[a + (m + 1)], a + (m + 1))
      BY ONLY <3>1, a \in Nat, FoldedSteps
    <3> QED BY <3>2
  <2>3. Replay(k, l, (a + m) + 1)
          = apply_property(k, Replay(k, l, a + m), l[(a + m) + 1], (a + m) + 1)
    BY <2>1, ReplaySteps
  <2>4. Folded(k, l, d, a, m) = Replay(k, l, a + m)
    BY <1>2
  <2>5. Folded(k, l, d, a, m + 1) = Replay(k, l, a + (m + 1))
    BY <2>1, <2>2, <2>3, <2>4
  <2> QED BY <2>1, <2>5
<1> HIDE DEF T
<1>3. \A m \in 0..n : m \in T
  BY <1>1, <1>2, UpTo
<1>4. n \in T
  BY <1>3
<1> QED BY <1>4 DEF T

\* Only the ops that are replayed matter.
LEMMA ReplayOfPrefix ==
    ASSUME NEW k, NEW l, NEW h, NEW n \in Nat, \A m \in 1..n : l[m] = h[m]
    PROVE  Replay(k, l, n) = Replay(k, h, n)
<1>1. PICK r : Trail(r, k, l, Bottom(k), 0, n) /\ r[n] = Replay(k, l, n)
  BY FoldedTrail DEF Replay
<1>2. PICK s : Trail(s, k, h, Bottom(k), 0, n) /\ s[n] = Replay(k, h, n)
  BY FoldedTrail DEF Replay
<1>3. n \in 0..n /\ \A m \in 1..n : l[0 + m] = h[0 + m]
  OBVIOUS
<1> QED BY <1>1, <1>2, <1>3, TrailsAgree

-----------------------------------------------------------------------------
(* Ops.                                                                    *)

Values == Items \cup {Default}

\* An op of a kind says in its delta what its mutation said.
Fits(k, op) ==
    /\ k \in {"lww", "or_set", "counter", "narrow", "sequence", "tree"} => op.path = << >>
    /\ k = "lww" =>
         op.delta = [type |-> "LwwReplace", value |-> op.of.value] /\ op.of.value \in Values
    /\ k = "or_set" =>
         /\ op.of.type \in {"Add", "Remove"} /\ op.of.value \in Items
         /\ op.of = [type |-> op.of.type, value |-> op.of.value]
         /\ op.of.type = "Add" => op.delta = [type |-> "OrSetAdd", value |-> op.of.value]
         /\ op.of.type = "Remove" =>
              op.delta = [type |-> "OrSetRemove", observed |-> op.delta.observed]
    /\ k \in {"counter", "narrow"} =>
         op.delta = [type |-> "PnCounterDelta", by |-> op.delta.by] /\ op.delta.by \in Int
    /\ k = "sequence" => op.delta.type \in {"SequenceInsert", "SequenceDelete"}
    /\ k = "tree" =>
         /\ op.delta.type = "TreeMove"
         /\ op.delta.child \in Items /\ op.delta.parent \in Items \cup {None}
    /\ k = "map" =>
         /\ op.of.type \in {"Apply", "Remove"} /\ op.of.key \in Items /\ op.path = <<op.of.key>>
         /\ op.of.type = "Apply" =>
              op.delta = [type |-> "LwwReplace", value |-> op.of.value] /\ op.of.value \in Values
         /\ op.of.type = "Remove" => op.delta = [type |-> "MapRemove"]

\* The server's record of what is in a document.
Recorded(k, r, d) ==
    /\ r = [p \in DOMAIN r |-> [kind |-> r[p].kind, state |-> r[p].state]]
    /\ k # "map" => /\ DOMAIN r \subseteq {<< >>}
                    /\ << >> \in DOMAIN r =>
                         r[<< >>].kind = (IF k = "narrow" THEN "counter" ELSE k)
    /\ k = "map" => /\ \A p \in DOMAIN r : \E x \in Items : p = <<x>>
                    /\ \A p \in DOMAIN r : r[p].kind = "lww"
    /\ Hydrated(k, r) = d

AllKinds == {"lww", "or_set", "counter", "narrow", "sequence", "map", "tree"}

LEMMA LeafKinds ==
    ASSUME NEW k \in AllKinds, k # "map", NEW op, Fits(k, op)
    PROVE  /\ op.path = << >> /\ op.delta.type # "MapRemove"
           /\ KindOf(op.delta) = (IF k = "narrow" THEN "counter" ELSE k)
           /\ Bottom(KindOf(op.delta)) = Bottom(k)
           /\ \A s, x : LeafApply(KindOf(op.delta), s, op.delta, x) = LeafApply(k, s, op.delta, x)
<1>1. CASE k = "lww"
  BY <1>1 DEF Fits, KindOf, Bottom, LeafApply
<1>2. CASE k = "or_set"
  BY <1>2 DEF Fits, KindOf, Bottom, LeafApply
<1>3. CASE k = "counter"
  BY <1>3 DEF Fits, KindOf, Bottom, LeafApply
<1>4. CASE k = "narrow"
  BY <1>4 DEF Fits, KindOf, Bottom, LeafApply
<1>5. CASE k = "sequence"
  BY <1>5 DEF Fits, KindOf, Bottom, LeafApply
<1>6. CASE k = "tree"
  BY <1>6 DEF Fits, KindOf, Bottom, LeafApply
<1> QED BY <1>1, <1>2, <1>3, <1>4, <1>5, <1>6 DEF AllKinds

\* A record that differs at one path.
PutAt(s, r, q, kd, st) ==
    /\ s = [p \in DOMAIN s |-> [kind |-> s[p].kind, state |-> s[p].state]]
    /\ DOMAIN s = DOMAIN r \cup {q}
    /\ s[q].kind = kd /\ s[q].state = st
    /\ \A p \in DOMAIN s : p # q => s[p] = r[p]

LEMMA RecordPut ==
    ASSUME NEW r, r = [p \in DOMAIN r |-> [kind |-> r[p].kind, state |-> r[p].state]],
           NEW q, NEW kd, NEW st, NEW f, f = [kind |-> kd, state |-> st]
    PROVE  PutAt(Put(r, q, f), r, q, kd, st)
<1> DEFINE s == Put(r, q, f)
<1>1. s = [p \in DOMAIN r \cup {q} |-> IF p = q THEN f ELSE r[p]]
  BY DEF Put
<1> HIDE DEF s
<1>2. DOMAIN s = DOMAIN r \cup {q} /\ s = [p \in DOMAIN s |-> s[p]]
  BY <1>1
<1>3. s[q] = f /\ \A p \in DOMAIN s : p # q => s[p] = r[p]
  BY <1>1, <1>2
<1>4. s[q].kind = kd /\ s[q].state = st
  BY <1>3
<1>5. \A p \in DOMAIN s : s[p] = [kind |-> s[p].kind, state |-> s[p].state]
  <2> TAKE p \in DOMAIN s
  <2>1. CASE p = q
    BY <2>1, <1>3, <1>4
  <2>2. CASE p # q
    <3>1. p \in DOMAIN r /\ s[p] = r[p]
      BY <2>2, <1>2, <1>3
    <3> QED BY <3>1
  <2> QED BY <2>1, <2>2
<1>6. s = [p \in DOMAIN s |-> [kind |-> s[p].kind, state |-> s[p].state]]
  BY <1>2, <1>5
<1> QED BY <1>2, <1>3, <1>4, <1>6 DEF s, PutAt

LEMMA PathsArePrefixes ==
    ASSUME NEW x, NEW y
    PROVE  IsPrefix(<<x>>, <<y>>) <=> x = y
<1>1. Len(<<x>>) = 1 /\ Len(<<y>>) = 1
  OBVIOUS
<1>2. \A z : SubSeq(<<z>>, 1, 1) = [i \in 1..1 |-> <<z>>[i]]
  OBVIOUS
<1>3. <<x>> = <<y>> <=> x = y
  OBVIOUS
<1>4. \A z : [i \in 1..1 |-> <<z>>[i]] = <<z>>
  OBVIOUS
<1> QED BY <1>1, <1>2, <1>3, <1>4 DEF IsPrefix

\* The server applies an op to its record as a client to its document.
LEMMA RecordKeeps ==
    ASSUME NEW k \in AllKinds, NEW op, Fits(k, op), NEW r, NEW d, Recorded(k, r, d), NEW n
    PROVE  Recorded(k, apply_wire(r, op, n), apply_property(k, d, op, n))
<1> DEFINE x == [id |-> op.id, seq |-> n]
           q == KindOf(op.delta)
           f == IF op.path \in DOMAIN r THEN r[op.path] ELSE [kind |-> q, state |-> Bottom(q)]
           st == LeafApply(q, f.state, op.delta, x)
           g == [f EXCEPT !.state = LeafApply(q, @, op.delta, x)]
<1>0. f = [kind |-> f.kind, state |-> f.state] /\ g = [kind |-> f.kind, state |-> st]
  <2>1. op.path \in DOMAIN r => r[op.path] = [kind |-> r[op.path].kind, state |-> r[op.path].state]
    BY DEF Recorded
  <2>2. f = [kind |-> f.kind, state |-> f.state]
    <3>1. CASE op.path \in DOMAIN r
      BY <3>1, <2>1
    <3>2. CASE op.path \notin DOMAIN r
      BY <3>2
    <3> QED BY <3>1, <3>2
  <2> HIDE DEF f
  <2>3. [f EXCEPT !.state = LeafApply(q, @, op.delta, x)] = [kind |-> f.kind, state |-> st]
    BY <2>2
  <2> QED BY <2>2, <2>3
<1> DEFINE s == Put(r, op.path, g)
<1>00. /\ s = [p \in DOMAIN s |-> [kind |-> s[p].kind, state |-> s[p].state]]
       /\ DOMAIN s = DOMAIN r \cup {op.path}
       /\ s[op.path].kind = f.kind /\ s[op.path].state = st
       /\ \A p \in DOMAIN s : p # op.path => s[p] = r[p]
  <2>1. r = [p \in DOMAIN r |-> [kind |-> r[p].kind, state |-> r[p].state]]
    BY DEF Recorded
  <2> DEFINE kd == f.kind
  <2> HIDE DEF g, st
  <2>2. g = [kind |-> kd, state |-> st]
    BY <1>0
  <2> HIDE DEF kd
  <2>3. PutAt(s, r, op.path, kd, st)
    BY <2>1, <2>2, RecordPut
  <2> HIDE DEF s
  <2> QED BY <2>3 DEF kd, PutAt
<1>1. CASE k # "map"
  <2>1. /\ op.path = << >> /\ op.delta.type # "MapRemove"
        /\ q = (IF k = "narrow" THEN "counter" ELSE k)
        /\ Bottom(q) = Bottom(k)
        /\ \A z, y : LeafApply(q, z, op.delta, y) = LeafApply(k, z, op.delta, y)
    BY <1>1, LeafKinds
  <2>2. f.kind = q /\ f.state = d
    BY <1>1, <2>1 DEF Recorded, Hydrated
  <2>3. apply_wire(r, op, n) = s
    BY <2>1, <2>2 DEF apply_wire
  <2>4. apply_property(k, d, op, n) = LeafApply(k, d, op.delta, x)
    BY <1>1 DEF apply_property
  <2>5. st = apply_property(k, d, op, n)
    <3> HIDE DEF f, x, q
    <3> QED BY <2>1, <2>2, <2>4
  <2>6. DOMAIN s = {<< >>} /\ s[<< >>].kind = q
    <3>1. DOMAIN r \subseteq {<< >>}
      BY <1>1 DEF Recorded
    <3> HIDE DEF s, f, q
    <3> QED BY <1>00, <2>1, <2>2, <3>1
  <2>7. Hydrated(k, s) = st
    <3> HIDE DEF s, st
    <3> QED BY <1>1, <1>00, <2>1, <2>6 DEF Hydrated
  <2> HIDE DEF s, st, q
  <2> QED BY <1>1, <1>00, <2>1, <2>3, <2>5, <2>6, <2>7 DEF Recorded
<1>2. CASE k = "map"
  <2> DEFINE key == op.of.key
  <2>0. key \in Items /\ op.path = <<key>> /\ op.path[1] = key
    BY <1>2 DEF Fits
  <2>1. /\ \A p \in DOMAIN r : \E y \in Items : p = <<y>>
        /\ \A p \in DOMAIN r : r[p].kind = "lww"
        /\ d = [y \in {p[1] : p \in DOMAIN r} |-> r[<<y>>].state]
    BY <1>2 DEF Recorded, Hydrated
  <2>2. \A y : y \in DOMAIN d <=> <<y>> \in DOMAIN r
    <3>1. \A p \in DOMAIN r : p = <<p[1]>>
      BY <2>1
    <3>2. \A y : <<y>>[1] = y
      OBVIOUS
    <3> QED BY <2>1, <3>1, <3>2
  <2>3. CASE op.of.type = "Remove"
    <3> DEFINE t == Restrict(r, {p \in DOMAIN r : ~IsPrefix(op.path, p)})
               e == Without(d, key)
    <3>1. op.delta.type = "MapRemove"
      BY <1>2, <2>3 DEF Fits
    <3>2. apply_wire(r, op, n) = t /\ apply_property(k, d, op, n) = e
      BY <1>2, <2>0, <3>1 DEF apply_wire, apply_property, MapApply
    <3>3. \A p : p \in DOMAIN t <=> p \in DOMAIN r /\ p # op.path
      <4>1. \A p \in DOMAIN r : IsPrefix(op.path, p) <=> p = op.path
        BY <2>0, <2>1, PathsArePrefixes
      <4> QED BY <4>1 DEF Restrict
    <3>4. \A p \in DOMAIN t : t[p] = r[p]
      BY DEF Restrict
    <3>5. t = [p \in DOMAIN t |-> [kind |-> t[p].kind, state |-> t[p].state]]
      <4>1. t = [p \in DOMAIN t |-> t[p]]
        BY DEF Restrict
      <4> HIDE DEF t
      <4>2. \A p \in DOMAIN t : t[p] = [kind |-> t[p].kind, state |-> t[p].state]
        BY <3>3, <3>4 DEF Recorded
      <4> QED BY <4>1, <4>2
    <3>6. Hydrated(k, t) = [y \in {p[1] : p \in DOMAIN t} |-> t[<<y>>].state]
      BY <1>2 DEF Hydrated
    <3>7. e = [y \in DOMAIN d \ {key} |-> d[y]]
      BY DEF Without, Restrict
    <3> HIDE DEF t, e
    <3>8. {p[1] : p \in DOMAIN t} = DOMAIN d \ {key}
      <4>1. ASSUME NEW y PROVE y \in {p[1] : p \in DOMAIN t} <=> <<y>> \in DOMAIN t
        <5>1. \A p \in DOMAIN t : p = <<p[1]>>
          BY <2>1, <3>3
        <5>2. <<y>>[1] = y
          OBVIOUS
        <5> QED BY <5>1, <5>2
      <4>2. \A y : <<y>> = op.path <=> y = key
        BY <2>0
      <4> QED BY <2>2, <3>3, <4>1, <4>2
    <3>9. \A y \in DOMAIN d \ {key} : t[<<y>>].state = d[y]
      <4>1. ASSUME NEW y \in DOMAIN d, y # key PROVE t[<<y>>] = r[<<y>>] /\ d[y] = r[<<y>>].state
        <5>1. <<y>> # op.path
          BY <2>0, <4>1
        <5>2. <<y>> \in DOMAIN t
          BY <2>2, <3>3, <5>1
        <5>3. d[y] = r[<<y>>].state
          BY <2>1
        <5> QED BY <3>4, <5>2, <5>3
      <4> QED BY <4>1
    <3>10. Hydrated(k, t) = e
      BY <3>6, <3>7, <3>8, <3>9
    <3>11. \A p \in DOMAIN t : (\E y \in Items : p = <<y>>) /\ t[p].kind = "lww"
      BY <2>1, <3>3, <3>4
    <3> QED BY <1>2, <3>2, <3>5, <3>10, <3>11 DEF Recorded
  <2>4. CASE op.of.type = "Apply"
    <3> DEFINE reg == LwwApply(At(d, key), op.delta, x)
               e == Put(d, key, reg)
    <3>1. op.delta.type = "LwwReplace" /\ op.delta.type # "MapRemove" /\ q = "lww" /\ Bottom(q) = None
      BY <1>2, <2>4 DEF Fits, KindOf, Bottom
    <3>2. f.kind = q
      BY <2>1, <3>1
    <3>3. f.state = At(d, key)
      <4>1. op.path \in DOMAIN r => d[key] = r[op.path].state
        BY <2>0, <2>1, <2>2
      <4>2. op.path \in DOMAIN r <=> key \in DOMAIN d
        BY <2>0, <2>2
      <4> QED BY <3>1, <4>1, <4>2 DEF At
    <3>4. apply_wire(r, op, n) = s
      BY <3>1, <3>2 DEF apply_wire
    <3>5. apply_property(k, d, op, n) = e
      BY <1>2, <2>0, <3>1 DEF apply_property, MapApply
    <3>6. st = reg
      <4> HIDE DEF f, x
      <4>1. st = LwwApply(f.state, op.delta, x)
        BY <3>1 DEF LeafApply
      <4> QED BY <3>3, <4>1
    <3>7. e = [y \in DOMAIN d \cup {key} |-> IF y = key THEN reg ELSE d[y]]
      BY DEF Put
    <3>8. Hydrated(k, s) = [y \in {p[1] : p \in DOMAIN s} |-> s[<<y>>].state]
      BY <1>2 DEF Hydrated
    <3> HIDE DEF s, e, reg, st, f, q
    <3>9. {p[1] : p \in DOMAIN s} = DOMAIN d \cup {key}
      <4>1. ASSUME NEW y PROVE y \in {p[1] : p \in DOMAIN s} <=> <<y>> \in DOMAIN s
        <5>1. \A p \in DOMAIN s : p = <<p[1]>>
          BY <1>00, <2>0, <2>1
        <5>2. <<y>>[1] = y
          OBVIOUS
        <5> QED BY <5>1, <5>2
      <4>2. \A y : <<y>> = op.path <=> y = key
        BY <2>0
      <4> QED BY <1>00, <2>2, <4>1, <4>2
    <3>10. \A y \in DOMAIN d \cup {key} : s[<<y>>].state = IF y = key THEN reg ELSE d[y]
      <4>1. s[<<key>>].state = reg
        BY <1>00, <2>0, <3>6
      <4>2. ASSUME NEW y \in DOMAIN d, y # key PROVE s[<<y>>] = r[<<y>>] /\ d[y] = r[<<y>>].state
        <5>1. <<y>> # op.path
          BY <2>0, <4>2
        <5>2. <<y>> \in DOMAIN s
          BY <1>00, <2>2
        <5>3. d[y] = r[<<y>>].state
          BY <2>1
        <5> QED BY <1>00, <5>1, <5>2, <5>3
      <4> QED BY <4>1, <4>2
    <3>11. Hydrated(k, s) = e
      BY <3>7, <3>8, <3>9, <3>10
    <3>12. \A p \in DOMAIN s : (\E y \in Items : p = <<y>>) /\ s[p].kind = "lww"
      BY <1>00, <2>0, <2>1, <3>1, <3>2
    <3> QED BY <1>2, <1>00, <3>4, <3>5, <3>11, <3>12 DEF Recorded
  <2> QED BY <1>2, <2>3, <2>4 DEF Fits
<1> QED BY <1>1, <1>2

-----------------------------------------------------------------------------
(* Documents, components and mutations of a kind.                          *)

Registers == [stamp : Nat \X Nat, value : Values]

IsDoc(k, d) ==
    /\ k = "lww" => d = None \/ d \in Registers
    /\ k = "or_set" =>
         /\ d = [adds |-> d.adds, removes |-> d.removes]
         /\ d.adds = [x \in DOMAIN d.adds |-> d.adds[x]] /\ DOMAIN d.adds \subseteq Items
    /\ k \in {"counter", "narrow"} => IsSummedCounter(d)
    /\ k = "sequence" => Rooted(d)
    /\ k = "map" =>
         /\ d = [x \in DOMAIN d |-> d[x]] /\ DOMAIN d \subseteq Items
         /\ \A x \in DOMAIN d : d[x] \in Registers
    /\ k = "tree" =>
         /\ DOMAIN d \subseteq Nat
         /\ \A n \in DOMAIN d : d[n].child \in Items /\ d[n].parent \in Items \cup {None}

\* A component of a kind.
Shown(k, v) ==
    /\ k = "lww" => v \in Values
    /\ k = "or_set" => v \subseteq Items
    /\ k = "counter" => v \in Int
    /\ k = "narrow" => v \in 0..Wrap - 1
    /\ k = "sequence" => Listed(v)
    /\ k = "map" => /\ v = [x \in DOMAIN v |-> v[x]] /\ DOMAIN v \subseteq Items
                    /\ \A x \in DOMAIN v : v[x] \in Values

\* A mutation of a kind.
Means(k, m) ==
    /\ k = "lww" => m.value \in Values
    /\ k = "or_set" => /\ m = [type |-> m.type, value |-> m.value]
                       /\ m.type \in {"Add", "Remove"} /\ m.value \in Items
    /\ k \in {"counter", "narrow"} => m.by \in Int
    /\ k = "tree" => m.child \in Items /\ m.parent \in Items \cup {None}
    /\ k = "map" => /\ m.type \in {"Apply", "Remove"} /\ m.key \in Items
                    /\ m.type = "Apply" => m.value \in Values

\* Where an insertion hangs, and that its id is a new one.
FindsPlace(k, op, d) ==
    k = "sequence" /\ op.delta.type = "SequenceInsert" =>
        op.id \notin DOMAIN d /\ op.delta.predecessor \in DOMAIN d \cup {None}

LEMMA EmptyMapIs == DOMAIN EmptyMap = {} /\ EmptyMap = [x \in {} |-> EmptyMap[x]]
  BY DEF EmptyMap

LEMMA BottomIsDoc ==
    ASSUME NEW k \in AllKinds
    PROVE  IsDoc(k, Bottom(k))
<1>1. CASE k = "lww"
  BY <1>1 DEF IsDoc, Bottom
<1>2. CASE k = "or_set"
  BY <1>2, EmptyMapIs DEF IsDoc, Bottom, EmptySet
<1>3. CASE k \in {"counter", "narrow"}
  <2>1. Bottom(k) = EmptyCounter
    BY <1>3 DEF Bottom
  <2>2. IsSummedCounter(EmptyCounter)
    BY TotalOfEmpty DEF IsSummedCounter, EmptyCounter
  <2> QED BY <1>3, <2>1, <2>2 DEF IsDoc
<1>4. CASE k = "sequence"
  <2>1. Bottom(k) = EmptyMap
    BY <1>4 DEF Bottom
  <2>2. Ranked(EmptyMap, EmptyMap, 0)
    BY EmptyMapIs DEF Ranked
  <2>3. Rooted(EmptyMap)
    BY <2>2, EmptyMapIs, FS_EmptySet DEF Rooted
  <2> QED BY <1>4, <2>1, <2>3 DEF IsDoc
<1>5. CASE k \in {"map", "tree"}
  BY <1>5, EmptyMapIs DEF IsDoc, Bottom
<1> QED BY <1>1, <1>2, <1>3, <1>4, <1>5 DEF AllKinds

LEMMA RegisterOf ==
    ASSUME NEW reg, reg = None \/ reg \in Registers, NEW delta, delta.value \in Values,
           NEW ctx, ctx.id \in Nat \X Nat, ctx.seq \in Nat
    PROVE  LwwApply(reg, delta, ctx) \in Registers
  BY DEF LwwApply, Registers

IsPut(e, f, x, v) ==
    /\ DOMAIN e = DOMAIN f \cup {x} /\ e = [y \in DOMAIN f \cup {x} |-> e[y]]
    /\ e[x] = v /\ \A y \in DOMAIN f : y # x => e[y] = f[y]

LEMMA PutIs ==
    ASSUME NEW f, NEW x, NEW v, NEW e, e = Put(f, x, v)
    PROVE  IsPut(e, f, x, v)
  BY DEF Put, IsPut

LEMMA WithoutIs ==
    ASSUME NEW f, NEW x
    PROVE  /\ DOMAIN Without(f, x) = DOMAIN f \ {x}
           /\ Without(f, x) = [y \in DOMAIN f \ {x} |-> Without(f, x)[y]]
           /\ \A y \in DOMAIN f : y # x => Without(f, x)[y] = f[y]
  BY DEF Without, Restrict

\* An op leaves a document of its kind.
\* A document after op is a document, with what op inserted.
Grown(k, d, op, n, e) ==
    /\ IsDoc(k, e)
    /\ k = "sequence" =>
         DOMAIN e = DOMAIN d \cup (IF op.delta.type = "SequenceInsert" THEN {op.id} ELSE {})
    /\ k = "tree" => DOMAIN e = DOMAIN d \cup {n}

LEMMA ApplyKeepsDoc ==
    ASSUME NEW k \in AllKinds, NEW d, IsDoc(k, d), NEW op, Fits(k, op),
           op.id \in Nat \X Nat, NEW n \in Nat, FindsPlace(k, op, d)
    PROVE  Grown(k, d, op, n, apply_property(k, d, op, n))
<1> DEFINE ctx == [id |-> op.id, seq |-> n]
           e == apply_property(k, d, op, n)
<1> SUFFICES /\ IsDoc(k, e)
             /\ k = "sequence" =>
                  DOMAIN e = DOMAIN d
                    \cup (IF op.delta.type = "SequenceInsert" THEN {op.id} ELSE {})
             /\ k = "tree" => DOMAIN e = DOMAIN d \cup {n}
  BY DEF Grown
<1>0. ctx.id = op.id /\ ctx.seq = n /\ ctx.id \in Nat \X Nat /\ ctx.seq \in Nat
  OBVIOUS
<1>1. CASE k = "lww"
  <2>1. e = LwwApply(d, op.delta, ctx)
    BY <1>1 DEF apply_property, LeafApply
  <2>2. d = None \/ d \in Registers
    BY <1>1 DEF IsDoc
  <2>3. op.delta.value \in Values
    BY <1>1 DEF Fits
  <2> HIDE DEF ctx, e
  <2>4. e \in Registers
    BY <1>0, <2>1, <2>2, <2>3, RegisterOf
  <2> QED BY <1>1, <2>4 DEF IsDoc, e
<1>2. CASE k = "or_set"
  <2>1. e = SetApply(d, op.delta, ctx)
    BY <1>2 DEF apply_property, LeafApply
  <2>2. /\ d = [adds |-> d.adds, removes |-> d.removes]
        /\ d.adds = [x \in DOMAIN d.adds |-> d.adds[x]] /\ DOMAIN d.adds \subseteq Items
    BY <1>2 DEF IsDoc
  <2>3. CASE op.of.type = "Add"
    <3> DEFINE x == op.of.value
               t == Tags(d, x) \cup {op.id}
               adds == d.adds
               a == Put(adds, x, t)
    <3>1. op.delta.type = "OrSetAdd" /\ op.delta.value = x /\ x \in Items
      BY <1>2, <2>3 DEF Fits
    <3>2. e = [adds |-> a, removes |-> d.removes]
      BY <1>0, <2>1, <2>2, <3>1 DEF SetApply
    <3>3. DOMAIN a = DOMAIN adds \cup {x} /\ a = [y \in DOMAIN adds \cup {x} |-> a[y]]
      <4> HIDE DEF x, t, adds
      <4>1. a = Put(adds, x, t)
        OBVIOUS
      <4> HIDE DEF a
      <4>2. IsPut(a, adds, x, t)
        BY <4>1, PutIs
      <4> QED BY <4>2 DEF IsPut
    <3> HIDE DEF a, e
    <3> QED BY <1>2, <2>2, <3>1, <3>2, <3>3 DEF IsDoc, e
  <2>4. CASE op.of.type = "Remove"
    <3>1. op.delta.type # "OrSetAdd"
      BY <1>2, <2>4 DEF Fits
    <3>2. e = [adds |-> d.adds, removes |-> d.removes \cup op.delta.observed]
      BY <2>1, <2>2, <3>1 DEF SetApply
    <3> HIDE DEF e
    <3> QED BY <1>2, <2>2, <3>2 DEF IsDoc, e
  <2> QED BY <1>2, <2>3, <2>4 DEF Fits
<1>3. CASE k \in {"counter", "narrow"}
  <2>1. e = CounterApply(d, op.delta, ctx)
    BY <1>3 DEF apply_property, LeafApply
  <2>2. op.delta.by \in Int
    BY <1>3 DEF Fits
  <2>3. IsSummedCounter(d)
    BY <1>3 DEF IsDoc
  <2> DEFINE delta == op.delta
  <2> HIDE DEF e, ctx, delta
  <2>4. IsSummedCounter(CounterApply(d, delta, ctx))
    BY <2>2, <2>3, DeltaCounts DEF delta
  <2> QED BY <1>3, <2>1, <2>4 DEF IsDoc, e, delta
<1>4. CASE k = "sequence"
  <2>1. e = SequenceApply(d, op.delta, ctx)
    BY <1>4 DEF apply_property, LeafApply
  <2>2. Rooted(d)
    BY <1>4 DEF IsDoc
  <2>3. op.delta.type = "SequenceInsert" =>
          op.id \notin DOMAIN d /\ op.delta.predecessor \in DOMAIN d \cup {None}
    BY <1>4 DEF FindsPlace
  <2> DEFINE delta == op.delta
  <2>4. delta.type = "SequenceInsert" =>
          ctx.id \in Nat \X Nat /\ ctx.id \notin DOMAIN d
          /\ delta.predecessor \in DOMAIN d \cup {None}
    BY <1>0, <2>3
  <2> HIDE DEF e, ctx, delta
  <2>5. /\ Rooted(SequenceApply(d, delta, ctx))
        /\ DOMAIN SequenceApply(d, delta, ctx)
             = DOMAIN d \cup (IF delta.type = "SequenceInsert" THEN {ctx.id} ELSE {})
    BY <2>2, <2>4, NoneAssumption, RootedPut
  <2> QED BY <1>0, <1>4, <2>1, <2>5 DEF IsDoc, e, delta
<1>5. CASE k = "tree"
  <2> DEFINE v == [child |-> op.delta.child, parent |-> op.delta.parent]
  <2>1. e = Put(d, n, v)
    BY <1>5 DEF apply_property, LeafApply, TreeApply
  <2>2. /\ DOMAIN d \subseteq Nat
        /\ \A m \in DOMAIN d : d[m].child \in Items /\ d[m].parent \in Items \cup {None}
    BY <1>5 DEF IsDoc
  <2>3. v.child \in Items /\ v.parent \in Items \cup {None}
    BY <1>5 DEF Fits
  <2> HIDE DEF e, v
  <2>4. /\ DOMAIN e = DOMAIN d \cup {n} /\ e[n] = v
        /\ \A m \in DOMAIN d : m # n => e[m] = d[m]
    <3>1. IsPut(e, d, n, v)
      BY <2>1, PutIs
    <3> QED BY <3>1 DEF IsPut
  <2> QED BY <1>5, <2>2, <2>3, <2>4 DEF IsDoc, e
<1>6. CASE k = "map"
  <2> DEFINE x == op.of.key
             reg == LwwApply(At(d, x), op.delta, ctx)
  <2>1. /\ d = [y \in DOMAIN d |-> d[y]] /\ DOMAIN d \subseteq Items
        /\ \A y \in DOMAIN d : d[y] \in Registers
    BY <1>6 DEF IsDoc
  <2>2. x \in Items /\ op.path[1] = x
    BY <1>6 DEF Fits
  <2>3. CASE op.of.type = "Remove"
    <3>1. e = Without(d, x)
      BY <1>6, <2>2, <2>3 DEF apply_property, MapApply, Fits
    <3> HIDE DEF e, x
    <3>2. /\ DOMAIN e = DOMAIN d \ {x} /\ e = [y \in DOMAIN d \ {x} |-> e[y]]
          /\ \A y \in DOMAIN d : y # x => e[y] = d[y]
      BY <3>1, WithoutIs, ZenonT(40)
    <3>3. DOMAIN e \subseteq Items /\ \A y \in DOMAIN e : e[y] \in Registers
      BY <2>1, <3>2
    <3>4. e = [y \in DOMAIN e |-> e[y]]
      BY <3>2, Zenon
    <3> QED BY <1>6, <3>3, <3>4, Zenon DEF IsDoc, e
  <2>4. CASE op.of.type = "Apply"
    <3>1. op.delta.type = "LwwReplace" /\ op.delta.value \in Values
      BY <1>6, <2>4 DEF Fits
    <3>2. e = Put(d, x, reg)
      BY <1>6, <2>2, <3>1 DEF apply_property, MapApply
    <3>3. reg \in Registers
      <4> DEFINE r == At(d, x)
                 delta == op.delta
      <4>1. r = None \/ r \in Registers
        BY <2>1 DEF At
      <4> HIDE DEF r, ctx, delta
      <4>2. LwwApply(r, delta, ctx) \in Registers
        BY <1>0, <3>1, <4>1, RegisterOf DEF delta
      <4> QED BY <4>2 DEF r, delta
    <3> HIDE DEF e, x, reg
    <3>4. /\ DOMAIN e = DOMAIN d \cup {x} /\ e = [y \in DOMAIN d \cup {x} |-> e[y]]
          /\ e[x] = reg /\ \A y \in DOMAIN d : y # x => e[y] = d[y]
      <4>1. IsPut(e, d, x, reg)
        BY <3>2, PutIs
      <4> QED BY <4>1 DEF IsPut
    <3> QED BY <1>6, <2>1, <2>2, <3>3, <3>4 DEF IsDoc, e
  <2> QED BY <1>6, <2>3, <2>4 DEF Fits
<1> QED BY <1>1, <1>2, <1>3, <1>4, <1>5, <1>6 DEF AllKinds

LEMMA ProjectShows ==
    ASSUME NEW k \in AllKinds, NEW d, IsDoc(k, d), NEW v, Shown(k, v)
    PROVE  /\ Shown(k, project_to(k, d, v))
           /\ k \in {"counter", "narrow"} => CounterValue(d) \in Int
<1>0. k \in {"counter", "narrow"} => CounterValue(d) \in Int
  <2> DEFINE delta == [by |-> 0]
  <2>1. delta.by \in Int
    OBVIOUS
  <2> HIDE DEF delta
  <2>2. IsSummedCounter(d) => CounterValue(d) \in Int
    BY <2>1, DeltaCounts
  <2> QED BY <2>2 DEF IsDoc
<1>1. CASE k = "lww"
  BY <1>1 DEF IsDoc, Shown, project_to, Registers
<1>2. CASE k = "or_set"
  BY <1>2 DEF IsDoc, Shown, project_to, Members
<1>3. CASE k = "counter"
  BY <1>0, <1>3 DEF Shown, project_to
<1>4. CASE k = "narrow"
  <2>1. project_to(k, d, v) = CounterValue(d) % Wrap
    BY <1>4 DEF project_to
  <2>2. \A x \in Int : x % Wrap \in 0..Wrap - 1
    BY SchemaAssumption
  <2> QED BY <1>0, <1>4, <2>1, <2>2 DEF Shown
<1>5. CASE k = "sequence"
  <2>1. project_to(k, d, v) = Visible(d)
    BY <1>5 DEF project_to
  <2> DEFINE live == LiveIds(d)
  <2>2. live \in Seq(DOMAIN d)
    BY <1>5, NoneAssumption, LiveIdsAreSeq DEF IsDoc
  <2>3. Visible(d) = [n \in 1..Len(live) |-> d[live[n]].value]
    BY DEF Visible
  <2> HIDE DEF live
  <2>4. Len(live) \in Nat
    BY <2>2
  <2>5. Listed([n \in 1..Len(live) |-> d[live[n]].value])
    BY <2>4 DEF Listed
  <2> QED BY <1>5, <2>1, <2>3, <2>5 DEF Shown
<1>6. CASE k = "map"
  <2> DEFINE p == [x \in {y \in DOMAIN d : d[y] # None} |-> d[x].value]
  <2>1. project_to(k, d, v) = p
    BY <1>6 DEF project_to
  <2>2. p = [x \in DOMAIN p |-> p[x]] /\ DOMAIN p \subseteq DOMAIN d
    OBVIOUS
  <2>3. \A x \in DOMAIN p : p[x] \in Values
    BY <1>6 DEF IsDoc, Registers
  <2> HIDE DEF p
  <2> QED BY <1>6, <2>1, <2>2, <2>3 DEF IsDoc, Shown
<1>7. CASE k = "tree"
  BY <1>7 DEF Shown
<1> QED BY <1>0, <1>1, <1>2, <1>3, <1>4, <1>5, <1>6, <1>7 DEF AllKinds

-----------------------------------------------------------------------------
(* The difference of two lists.                                            *)

LEMMA CommonPrefixIs ==
    ASSUME NEW a, NEW b, Listed(a), Listed(b)
    PROVE  /\ CommonPrefix(a, b) \in Nat
           /\ CommonPrefix(a, b) <= Len(a) /\ CommonPrefix(a, b) <= Len(b)
           /\ \A i \in 1..CommonPrefix(a, b) : a[i] = b[i]
<1> DEFINE M == Min({Len(a), Len(b)})
           S == {n \in 0..M : SubSeq(a, 1, n) = SubSeq(b, 1, n)}
           p == CommonPrefix(a, b)
<1>1. Len(a) \in Nat /\ Len(b) \in Nat
  BY DEF Listed
<1>2. M \in Nat /\ M <= Len(a) /\ M <= Len(b)
  BY <1>1, MinOfTwo
<1> HIDE DEF M
<1>3. ASSUME NEW n \in 0..M
      PROVE  /\ Len(SubSeq(a, 1, n)) = n /\ \A i \in 1..n : SubSeq(a, 1, n)[i] = a[i]
             /\ Len(SubSeq(b, 1, n)) = n /\ \A i \in 1..n : SubSeq(b, 1, n)[i] = b[i]
             /\ Listed(SubSeq(a, 1, n)) /\ Listed(SubSeq(b, 1, n))
  <2>1. 1 \in 1..Len(a) + 1 /\ n \in (1 - 1)..Len(a)
    BY <1>1, <1>2
  <2>2. 1 \in 1..Len(b) + 1 /\ n \in (1 - 1)..Len(b)
    BY <1>1, <1>2
  <2>3. n - 1 + 1 = n /\ \A i \in 1..n : 1 + i - 1 = i
    OBVIOUS
  <2>4. /\ Listed(SubSeq(a, 1, n)) /\ Len(SubSeq(a, 1, n)) = n - 1 + 1
        /\ \A i \in 1..n - 1 + 1 : SubSeq(a, 1, n)[i] = a[1 + i - 1]
    BY <2>1, SubSeqOf
  <2>5. /\ Listed(SubSeq(b, 1, n)) /\ Len(SubSeq(b, 1, n)) = n - 1 + 1
        /\ \A i \in 1..n - 1 + 1 : SubSeq(b, 1, n)[i] = b[1 + i - 1]
    BY <2>2, SubSeqOf
  <2> QED BY <2>3, <2>4, <2>5
<1>4. 0 \in S
  <2>1. 0 \in 0..M
    BY <1>2
  <2>2. /\ Len(SubSeq(a, 1, 0)) = 0 /\ Len(SubSeq(b, 1, 0)) = 0
        /\ Listed(SubSeq(a, 1, 0)) /\ Listed(SubSeq(b, 1, 0))
    BY <1>3, <2>1
  <2>3. SubSeq(a, 1, 0) = SubSeq(b, 1, 0)
    BY <2>2 DEF Listed
  <2> QED BY <2>1, <2>3
<1>5. S \in SUBSET Nat /\ S # {} /\ \A x \in S : x <= M
  <2>1. \A x \in S : x \in 0..M
    BY Zenon
  <2> HIDE DEF S
  <2> QED BY <1>2, <1>4, <2>1
<1>6. p = Max(S)
  BY DEF CommonPrefix, M
<1> HIDE DEF S, p
<1>7. p \in S
  BY <1>2, <1>5, <1>6, MaxOfBounded
<1>8. p \in 0..M /\ SubSeq(a, 1, p) = SubSeq(b, 1, p)
  BY <1>7 DEF S
<1>9. \A i \in 1..p : a[i] = b[i]
  BY <1>3, <1>8
<1>10. p \in Nat /\ p <= Len(a) /\ p <= Len(b)
  BY <1>1, <1>2, <1>8
<1> QED BY <1>9, <1>10 DEF p

\* The parts of a difference: p elements at the begin and r at the end are the
\* same; between them, `gone' are deleted at once and `ins' inserted one by one.
Parts(old, new, ms, p, gone, ins, r) ==
    LET cuts == IF gone = 0 THEN 0 ELSE 1
    IN /\ p \in Nat /\ gone \in Nat /\ ins \in Nat /\ r \in Nat
       /\ Len(old) = p + gone + r /\ Len(new) = p + ins + r
       /\ \A i \in 1..p : old[i] = new[i]
       /\ \A i \in 1..r : old[p + gone + i] = new[p + ins + i]
       /\ Listed(ms) /\ Len(ms) = cuts + ins
       /\ gone # 0 => ms[1] = [type |-> "DeleteAt", pos |-> p, len |-> gone]
       /\ \A n \in 1..ins :
            ms[cuts + n] = [type |-> "InsertAt", pos |-> p + n - 1, value |-> new[p + n]]

LEMMA DiffHasParts ==
    ASSUME NEW old, NEW new, Listed(old), Listed(new)
    PROVE  \E p, gone, ins, r : Parts(old, new, sequence_diff(old, new), p, gone, ins, r)
<1> DEFINE p == CommonPrefix(old, new)
           ro == SubSeq(old, p + 1, Len(old))
           rn == SubSeq(new, p + 1, Len(new))
           s == CommonPrefix(Reverse(ro), Reverse(rn))
           gone == Len(old) - p - s
           ins == Len(new) - p - s
           dels == IF gone = 0 THEN << >>
                   ELSE <<[type |-> "DeleteAt", pos |-> p, len |-> gone]>>
           adds == [n \in 1..ins |-> [type |-> "InsertAt", pos |-> p + n - 1, value |-> new[p + n]]]
           ms == sequence_diff(old, new)
           cuts == IF gone = 0 THEN 0 ELSE 1
<1>1. Len(old) \in Nat /\ Len(new) \in Nat
  BY DEF Listed
<1>2. p \in Nat /\ p <= Len(old) /\ p <= Len(new) /\ \A i \in 1..p : old[i] = new[i]
  BY CommonPrefixIs
<1>3. ms = dels \o adds
  BY DEF sequence_diff
<1> HIDE DEF p, ms
<1>4. /\ Listed(ro) /\ Len(ro) = Len(old) - p
      /\ \A i \in 1..Len(old) - p : ro[i] = old[p + i]
  <2>1. p + 1 \in 1..Len(old) + 1 /\ Len(old) \in ((p + 1) - 1)..Len(old)
    BY <1>1, <1>2
  <2>2. /\ Listed(ro) /\ Len(ro) = Len(old) - (p + 1) + 1
        /\ \A i \in 1..Len(old) - (p + 1) + 1 : ro[i] = old[(p + 1) + i - 1]
    BY <2>1, SubSeqOf
  <2>3. Len(old) - (p + 1) + 1 = Len(old) - p
    BY <1>1, <1>2
  <2>4. \A i \in 1..Len(old) - p : (p + 1) + i - 1 = p + i
    BY <1>1, <1>2
  <2> HIDE DEF ro
  <2> QED BY <2>2, <2>3, <2>4
<1>5. /\ Listed(rn) /\ Len(rn) = Len(new) - p
      /\ \A i \in 1..Len(new) - p : rn[i] = new[p + i]
  <2>1. p + 1 \in 1..Len(new) + 1 /\ Len(new) \in ((p + 1) - 1)..Len(new)
    BY <1>1, <1>2
  <2>2. /\ Listed(rn) /\ Len(rn) = Len(new) - (p + 1) + 1
        /\ \A i \in 1..Len(new) - (p + 1) + 1 : rn[i] = new[(p + 1) + i - 1]
    BY <2>1, SubSeqOf
  <2>3. Len(new) - (p + 1) + 1 = Len(new) - p
    BY <1>1, <1>2
  <2>4. \A i \in 1..Len(new) - p : (p + 1) + i - 1 = p + i
    BY <1>1, <1>2
  <2> HIDE DEF rn
  <2> QED BY <2>2, <2>3, <2>4
<1> HIDE DEF ro, rn
<1>6. /\ Listed(Reverse(ro)) /\ Len(Reverse(ro)) = Len(ro)
      /\ \A i \in 1..Len(ro) : Reverse(ro)[Len(ro) - i + 1] = ro[i]
  BY <1>4, ReverseOf
<1>7. /\ Listed(Reverse(rn)) /\ Len(Reverse(rn)) = Len(rn)
      /\ \A i \in 1..Len(rn) : Reverse(rn)[Len(rn) - i + 1] = rn[i]
  BY <1>5, ReverseOf
<1>8. /\ s \in Nat /\ s <= Len(ro) /\ s <= Len(rn)
      /\ \A i \in 1..s : Reverse(ro)[i] = Reverse(rn)[i]
  BY <1>6, <1>7, CommonPrefixIs
<1> HIDE DEF s
<1>9. gone \in Nat /\ ins \in Nat /\ Len(old) = p + gone + s /\ Len(new) = p + ins + s
      /\ Len(ro) = gone + s /\ Len(rn) = ins + s
  BY <1>1, <1>2, <1>4, <1>5, <1>8
<1> HIDE DEF gone, ins
<1>10. /\ Listed(dels) /\ Len(dels) = cuts /\ cuts \in Nat
       /\ gone # 0 => 1 \in 1..Len(dels) /\ dels[1] = [type |-> "DeleteAt", pos |-> p, len |-> gone]
  <2>1. Listed(<< >>) /\ Len(<< >>) = 0
    BY DEF Listed
  <2>2. \A x : Listed(<<x>>) /\ Len(<<x>>) = 1 /\ <<x>>[1] = x
    BY DEF Listed
  <2>3. CASE gone = 0
    BY <2>1, <2>3
  <2>4. CASE gone # 0
    <3> DEFINE x == [type |-> "DeleteAt", pos |-> p, len |-> gone]
    <3>1. dels = <<x>>
      BY <2>4
    <3> HIDE DEF x, dels
    <3>2. Listed(dels) /\ Len(dels) = 1 /\ dels[1] = x
      BY <2>2, <3>1
    <3> QED BY <2>4, <3>2 DEF x
  <2> QED BY <2>3, <2>4
<1>11. /\ Listed(adds) /\ Len(adds) = ins
       /\ \A n \in 1..ins : adds[n] = [type |-> "InsertAt", pos |-> p + n - 1, value |-> new[p + n]]
  BY <1>9 DEF Listed
<1> HIDE DEF dels, adds
<1>12. /\ Listed(ms) /\ Len(ms) = cuts + ins
       /\ \A n \in 1..cuts : ms[n] = dels[n]
       /\ \A n \in 1..ins : ms[cuts + n] = adds[n]
  <2>1. /\ Listed(dels \o adds) /\ Len(dels \o adds) = Len(dels) + Len(adds)
        /\ \A n \in 1..Len(dels) : (dels \o adds)[n] = dels[n]
        /\ \A n \in 1..Len(adds) : (dels \o adds)[Len(dels) + n] = adds[n]
    <3>1. Listed(dels) /\ Listed(adds)
      BY <1>10, <1>11
    <3> QED BY <3>1, ConcatOf
  <2> HIDE DEF cuts
  <2> QED BY <1>3, <1>10, <1>11, <2>1
<1>13. ASSUME NEW i \in 1..s PROVE old[p + gone + i] = new[p + ins + i]
  <2> DEFINE x == gone + i
             y == ins + i
             z == s - i + 1
  <2>1. /\ x \in 1..Len(ro) /\ x \in 1..Len(old) - p /\ p + gone + i = p + x /\ Len(ro) - x + 1 = z
        /\ y \in 1..Len(rn) /\ y \in 1..Len(new) - p /\ p + ins + i = p + y /\ Len(rn) - y + 1 = z
        /\ z \in 1..s
    BY <1>2, <1>8, <1>9
  <2> HIDE DEF x, y, z
  <2>2. Reverse(ro)[z] = ro[x] /\ Reverse(rn)[z] = rn[y]
    BY <1>6, <1>7, <2>1
  <2>3. Reverse(ro)[z] = Reverse(rn)[z]
    BY <1>8, <2>1
  <2>4. ro[x] = old[p + x] /\ rn[y] = new[p + y]
    BY <1>4, <1>5, <2>1
  <2> QED BY <2>1, <2>2, <2>3, <2>4
<1>14. gone # 0 => ms[1] = [type |-> "DeleteAt", pos |-> p, len |-> gone]
  BY <1>10, <1>12
<1>15. Parts(old, new, ms, p, gone, ins, s)
  <2>1. \A n \in 1..ins :
           ms[cuts + n] = [type |-> "InsertAt", pos |-> p + n - 1, value |-> new[p + n]]
    BY <1>11, <1>12
  <2>2. Listed(ms) /\ Len(ms) = cuts + ins
    BY <1>12
  <2>3. /\ p \in Nat /\ gone \in Nat /\ ins \in Nat /\ s \in Nat
        /\ Len(old) = p + gone + s /\ Len(new) = p + ins + s
    BY <1>2, <1>8, <1>9
  <2>4. \A i \in 1..p : old[i] = new[i]
    BY <1>2
  <2>5. \A i \in 1..s : old[p + gone + i] = new[p + ins + i]
    BY <1>13
  <2> QED BY <2>1, <2>2, <2>3, <2>4, <2>5, <1>14, Zenon DEF Parts
<1> QED BY <1>15 DEF ms

\* A difference that is empty is one of lists that are the same.
LEMMA DiffIsListed ==
    ASSUME NEW old, NEW new, Listed(old), Listed(new)
    PROVE  /\ Listed(sequence_diff(old, new))
           /\ Len(sequence_diff(old, new)) = 0 => old = new
<1> DEFINE ms == sequence_diff(old, new)
<1>1. PICK p, gone, ins, r : Parts(old, new, ms, p, gone, ins, r)
  BY DiffHasParts
<1> HIDE DEF ms
<1>2. Listed(ms)
  BY <1>1 DEF Parts
<1>3. ASSUME Len(ms) = 0 PROVE old = new
  <2>0. gone \in Nat /\ ins \in Nat /\ (IF gone = 0 THEN 0 ELSE 1) + ins = 0
    BY <1>1, <1>3, Zenon DEF Parts
  <2>1. gone = 0 /\ ins = 0
    BY <2>0
  <2>2. Len(old) = Len(new) /\ Len(new) = p + r /\ p \in Nat /\ r \in Nat
        /\ (\A i \in 1..p : old[i] = new[i]) /\ \A i \in 1..r : old[p + i] = new[p + i]
    BY <1>1, <2>1 DEF Parts
  <2>3. ASSUME NEW i \in 1..Len(new) PROVE old[i] = new[i]
    <3>1. i \in 1..p \/ (i - p \in 1..r /\ p + (i - p) = i)
      BY <2>2
    <3> QED BY <2>2, <3>1
  <2> QED BY <2>2, <2>3 DEF Listed
<1> QED BY <1>2, <1>3 DEF ms

-----------------------------------------------------------------------------
(* What a diff asks for.                                                   *)

\* An or_set's diff names an item once, and adds what is not there.
Asks(d, ms) ==
    /\ \A n \in 1..Len(ms) : ms[n].type = "Add" <=> ms[n].value \notin Members(d)
    /\ \A n, m \in 1..Len(ms) : ms[n].value = ms[m].value => n = m

\* When it asks for nothing, the component shows the document.
IsDiff(k, d, v, ms) ==
    /\ Listed(ms) /\ \A n \in 1..Len(ms) : Means(k, ms[n])
    /\ Len(ms) = 0 => v = project_to(k, d, v)
    /\ k = "or_set" => Asks(d, ms)

LEMMA DiffOfNone ==
    ASSUME NEW k, k # "or_set", NEW d, NEW v, NEW ms, ms = << >>, v = project_to(k, d, v)
    PROVE  IsDiff(k, d, v, ms)
<1>1. Listed(ms) /\ Len(ms) = 0
  BY DEF Listed
<1>2. \A n \in 1..Len(ms) : Means(k, ms[n])
  BY <1>1
<1> QED BY <1>1, <1>2, Zenon DEF IsDiff

LEMMA DiffOfOne ==
    ASSUME NEW k, k # "or_set", NEW d, NEW v, NEW m, Means(k, m), NEW ms, ms = <<m>>
    PROVE  IsDiff(k, d, v, ms)
<1>1. Listed(ms) /\ Len(ms) = 1 /\ ms[1] = m
  BY DEF Listed
<1>2. \A n \in 1..Len(ms) : Means(k, ms[n])
  BY <1>1
<1> QED BY <1>1, <1>2 DEF IsDiff

LEMMA DiffIs ==
    ASSUME NEW k \in AllKinds, NEW d, IsDoc(k, d), NEW v, Shown(k, v)
    PROVE  IsDiff(k, d, v, diff(k, d, v))
<1> DEFINE ms == diff(k, d, v)
<1>1. CASE k = "lww"
  <2> DEFINE shown == IF d = None THEN Default ELSE d.value
             m == [type |-> "Set", value |-> v]
  <2>1. ms = IF shown = v THEN << >> ELSE <<m>>
    BY <1>1 DEF diff
  <2>2. Means(k, m)
    BY <1>1 DEF Means, Shown
  <2>3. shown = v => v = project_to(k, d, v)
    BY <1>1 DEF project_to
  <2> HIDE DEF ms, m, shown
  <2>4. CASE shown = v
    <3>1. ms = << >>
      BY <2>1, <2>4
    <3> QED BY <1>1, <2>3, <2>4, <3>1, DiffOfNone DEF ms
  <2>5. CASE shown # v
    <3>1. ms = <<m>>
      BY <2>1, <2>5
    <3> QED BY <1>1, <2>2, <3>1, DiffOfOne DEF ms
  <2> QED BY <2>4, <2>5 DEF ms
<1>2. CASE k = "or_set"
  <2> DEFINE M == Members(d)
             s == SetToSeq(v \ M)
             t == SetToSeq(M \ v)
             f == [n \in 1..Len(s) |-> [type |-> "Add", value |-> s[n]]]
             g == [n \in 1..Len(t) |-> [type |-> "Remove", value |-> t[n]]]
  <2>1. ms = f \o g
    BY <1>2 DEF diff, Each
  <2>2. M \subseteq Items /\ v \subseteq Items
    BY <1>2 DEF IsDoc, Shown, Members
  <2>3. project_to(k, d, v) = M
    BY <1>2 DEF project_to
  <2> HIDE DEF M, ms
  <2>4. Lists(s, v \ M) /\ Lists(t, M \ v)
    <3>1. IsFiniteSet(v \ M) /\ IsFiniteSet(M \ v)
      BY <2>2, ItemAssumption, FS_Subset
    <3> QED BY <3>1, SetToSeqLists
  <2> HIDE DEF s, t
  <2>5. /\ Listed(f \o g) /\ Len(f \o g) = Len(s) + Len(t)
        /\ Len(s) \in Nat /\ Len(t) \in Nat
        /\ \A n \in 1..Len(f \o g) :
             \/ n \in 1..Len(s) /\ (f \o g)[n] = f[n]
             \/ n - Len(s) \in 1..Len(t) /\ (f \o g)[n] = g[n - Len(s)]
    <3>1. f = [n \in 1..Len(s) |-> f[n]] /\ g = [n \in 1..Len(t) |-> g[n]]
      OBVIOUS
    <3> HIDE DEF f, g
    <3>2. IsJoined(f \o g, f, g, Len(s), Len(t))
      BY <2>4, <3>1, TwoLists
    <3> QED BY <3>2 DEF IsJoined
  <2>6. ASSUME NEW n \in 1..Len(ms)
        PROVE  \/ n \in 1..Len(s) /\ ms[n] = [type |-> "Add", value |-> s[n]] /\ s[n] \in v \ M
               \/ n - Len(s) \in 1..Len(t) /\ ms[n] = [type |-> "Remove", value |-> t[n - Len(s)]]
                  /\ t[n - Len(s)] \in M \ v
    <3>1. CASE n \in 1..Len(s) /\ ms[n] = f[n]
      BY <2>4, <3>1 DEF Lists
    <3>2. CASE n - Len(s) \in 1..Len(t) /\ ms[n] = g[n - Len(s)]
      BY <2>4, <3>2 DEF Lists
    <3> QED BY <2>1, <2>5, <3>1, <3>2
  <2> HIDE DEF f, g
  <2>7. ASSUME NEW n \in 1..Len(ms)
        PROVE  /\ ms[n] = [type |-> ms[n].type, value |-> ms[n].value]
               /\ ms[n].type \in {"Add", "Remove"} /\ ms[n].value \in Items
               /\ ms[n].type = "Add" <=> ms[n].value \notin M
               /\ ms[n].type = "Add" => n \in 1..Len(s) /\ ms[n].value = s[n]
               /\ ms[n].type # "Add" => n - Len(s) \in 1..Len(t) /\ ms[n].value = t[n - Len(s)]
    <3>1. CASE n \in 1..Len(s) /\ ms[n] = [type |-> "Add", value |-> s[n]] /\ s[n] \in v \ M
      BY <2>2, <3>1
    <3>2. CASE n - Len(s) \in 1..Len(t) /\ ms[n] = [type |-> "Remove", value |-> t[n - Len(s)]]
               /\ t[n - Len(s)] \in M \ v
      BY <2>2, <3>2
    <3> QED BY <2>6, <3>1, <3>2
  <2>8. ASSUME NEW n \in 1..Len(ms), NEW m \in 1..Len(ms), ms[n].value = ms[m].value
        PROVE  n = m
    <3>1. CASE ms[n].type = "Add"
      <4>1. ms[m].type = "Add"
        BY <2>7, <2>8, <3>1
      <4>2. n \in 1..Len(s) /\ m \in 1..Len(s) /\ s[n] = s[m]
        BY <2>7, <2>8, <3>1, <4>1
      <4> QED BY <2>4, <4>2 DEF Lists
    <3>2. CASE ms[n].type # "Add"
      <4>1. ms[m].type # "Add"
        BY <2>7, <2>8, <3>2
      <4> DEFINE i == n - Len(s)
                 j == m - Len(s)
      <4>2. i \in 1..Len(t) /\ j \in 1..Len(t) /\ t[i] = t[j]
        BY <2>7, <2>8, <3>2, <4>1
      <4>3. i = j => n = m
        BY <2>5
      <4> HIDE DEF i, j
      <4> QED BY <2>4, <4>2, <4>3 DEF Lists
    <3> QED BY <3>1, <3>2
  <2>9. Asks(d, ms)
    BY <2>7, <2>8 DEF Asks, M
  <2>10. Len(ms) = 0 => v = M
    <3>1. Len(ms) = 0 => Len(s) = 0 /\ Len(t) = 0
      BY <2>1, <2>5
    <3> QED BY <2>4, <3>1 DEF Lists
  <2>11. \A n \in 1..Len(ms) : Means(k, ms[n])
    BY <1>2, <2>7 DEF Means
  <2> QED BY <1>2, <2>1, <2>3, <2>5, <2>9, <2>10, <2>11 DEF IsDiff, ms
<1>3. CASE k \in {"counter", "narrow"}
  <2> DEFINE c == CounterValue(d)
             m == [type |-> "Inc", by |-> v - c]
  <2>1. ms = IF v = c THEN << >> ELSE <<m>>
    BY <1>3 DEF diff
  <2>2. c \in Int
    BY <1>3, ProjectShows
  <2> HIDE DEF c
  <2>3. Means(k, m)
    <3>1. v \in Int
      BY <1>3, SchemaAssumption DEF Shown
    <3>2. m.by \in Int
      BY <2>2, <3>1
    <3> QED BY <1>3, <3>2 DEF Means
  <2>4. v = c => v = project_to(k, d, v)
    <3>1. CASE k = "counter"
      BY <3>1 DEF project_to, c
    <3>2. CASE k = "narrow"
      <4>1. v \in 0..Wrap - 1 /\ project_to(k, d, v) = c % Wrap
        BY <3>2 DEF project_to, c, Shown
      <4>2. v % Wrap = v
        BY <4>1, SchemaAssumption
      <4> QED BY <4>1, <4>2
    <3> QED BY <1>3, <3>1, <3>2
  <2> HIDE DEF ms, m
  <2>5. CASE v = c
    <3>1. ms = << >>
      BY <2>1, <2>5
    <3> QED BY <1>3, <2>4, <2>5, <3>1, DiffOfNone DEF ms
  <2>6. CASE v # c
    <3>1. ms = <<m>>
      BY <2>1, <2>6
    <3> QED BY <1>3, <2>3, <3>1, DiffOfOne DEF ms
  <2> QED BY <2>5, <2>6 DEF ms
<1>4. CASE k = "sequence"
  <2>1. ms = sequence_diff(Visible(d), v)
    BY <1>4 DEF diff
  <2>2. project_to(k, d, v) = Visible(d)
    BY <1>4 DEF project_to
  <2>3. Listed(v) /\ Listed(Visible(d))
    <3>1. Shown(k, project_to(k, d, v))
      BY ProjectShows
    <3> QED BY <1>4, <2>2, <3>1 DEF Shown
  <2>4. Listed(ms) /\ (Len(ms) = 0 => Visible(d) = v)
    BY <2>1, <2>3, DiffIsListed
  <2> HIDE DEF ms
  <2>5. \A n \in 1..Len(ms) : Means(k, ms[n])
    BY <1>4 DEF Means
  <2> QED BY <1>4, <2>2, <2>4, <2>5 DEF IsDiff, ms
<1>5. CASE k = "map"
  <2> DEFINE A == {x \in DOMAIN v : IF At(d, x) = None THEN TRUE ELSE d[x].value # v[x]}
             B == DOMAIN d \ DOMAIN v
             s == SetToSeq(A)
             t == SetToSeq(B)
             f == [n \in 1..Len(s) |-> [type |-> "Apply", key |-> s[n], value |-> v[s[n]]]]
             g == [n \in 1..Len(t) |-> [type |-> "Remove", key |-> t[n]]]
  <2>1. ms = f \o g
    BY <1>5 DEF diff, Each
  <2>2. /\ d = [x \in DOMAIN d |-> d[x]] /\ DOMAIN d \subseteq Items
        /\ \A x \in DOMAIN d : d[x] \in Registers
        /\ v = [x \in DOMAIN v |-> v[x]] /\ DOMAIN v \subseteq Items
        /\ \A x \in DOMAIN v : v[x] \in Values
    BY <1>5 DEF IsDoc, Shown
  <2>20. \A x \in DOMAIN d : d[x] # None
    BY <2>2, NoneAssumption DEF Registers, Values
  <2>3. project_to(k, d, v) = [x \in DOMAIN d |-> d[x].value]
    <3>1. project_to(k, d, v) = [x \in {y \in DOMAIN d : d[y] # None} |-> d[x].value]
      BY <1>5 DEF project_to
    <3>2. {y \in DOMAIN d : d[y] # None} = DOMAIN d
      BY <2>20
    <3> QED BY <3>1, <3>2
  <2> HIDE DEF ms
  <2>4. Lists(s, A) /\ Lists(t, B)
    <3>1. A \subseteq Items /\ B \subseteq Items
      BY <2>2
    <3> HIDE DEF A, B
    <3>2. IsFiniteSet(A) /\ IsFiniteSet(B)
      BY <3>1, ItemAssumption, FS_Subset
    <3> QED BY <3>2, SetToSeqLists
  <2> HIDE DEF s, t
  <2>5. /\ Listed(f \o g) /\ Len(f \o g) = Len(s) + Len(t)
        /\ Len(s) \in Nat /\ Len(t) \in Nat
        /\ \A n \in 1..Len(f \o g) :
             \/ n \in 1..Len(s) /\ (f \o g)[n] = f[n]
             \/ n - Len(s) \in 1..Len(t) /\ (f \o g)[n] = g[n - Len(s)]
    <3>1. f = [n \in 1..Len(s) |-> f[n]] /\ g = [n \in 1..Len(t) |-> g[n]]
      OBVIOUS
    <3> HIDE DEF f, g, A, B
    <3>2. IsJoined(f \o g, f, g, Len(s), Len(t))
      BY <2>4, <3>1, TwoLists
    <3> QED BY <3>2 DEF IsJoined
  <2>6. ASSUME NEW n \in 1..Len(ms) PROVE Means(k, ms[n])
    <3>1. CASE n \in 1..Len(s) /\ ms[n] = f[n]
      <4>1. s[n] \in A
        BY <2>4, <3>1 DEF Lists
      <4>2. s[n] \in DOMAIN v /\ s[n] \in Items /\ v[s[n]] \in Values
        BY <2>2, <4>1
      <4>3. ms[n] = [type |-> "Apply", key |-> s[n], value |-> v[s[n]]]
        BY <3>1
      <4> QED BY <1>5, <4>2, <4>3 DEF Means
    <3>2. CASE n - Len(s) \in 1..Len(t) /\ ms[n] = g[n - Len(s)]
      <4>1. t[n - Len(s)] \in B
        BY <2>4, <3>2 DEF Lists
      <4>2. t[n - Len(s)] \in Items
        BY <2>2, <4>1
      <4>3. ms[n] = [type |-> "Remove", key |-> t[n - Len(s)]]
        BY <3>2
      <4> QED BY <1>5, <4>2, <4>3 DEF Means
    <3> QED BY <2>1, <2>5, <3>1, <3>2
  <2> HIDE DEF f, g
  <2>7. Len(ms) = 0 => v = [x \in DOMAIN d |-> d[x].value]
    <3> SUFFICES ASSUME Len(ms) = 0 PROVE v = [x \in DOMAIN d |-> d[x].value]
      OBVIOUS
    <3>1. Len(s) = 0 /\ Len(t) = 0
      BY <2>1, <2>5
    <3>2. A = {} /\ B = {}
      BY <2>4, <3>1 DEF Lists
    <3>3. ASSUME NEW x \in DOMAIN v PROVE x \in DOMAIN d /\ d[x].value = v[x]
      <4>1. ~ (At(d, x) = None) /\ ~ (d[x].value # v[x])
        BY <3>2
      <4> QED BY <4>1 DEF At
    <3>4. DOMAIN v = DOMAIN d
      BY <3>2, <3>3
    <3> QED BY <2>2, <3>3, <3>4
  <2> QED BY <1>5, <2>1, <2>3, <2>5, <2>6, <2>7 DEF IsDiff, ms
<1>6. CASE k = "tree"
  <2>1. ms = << >>
    BY <1>6 DEF diff
  <2>2. project_to(k, d, v) = v
    BY <1>6 DEF project_to
  <2> HIDE DEF ms
  <2> QED BY <1>6, <2>1, <2>2, DiffOfNone DEF ms
<1> QED BY <1>1, <1>2, <1>3, <1>4, <1>5, <1>6 DEF AllKinds

-----------------------------------------------------------------------------
(* The ops a list of mutations becomes.                                    *)

\* The op of a mutation made on document d.
MadeOp(k, d, m, id, s) ==
    [id |-> id, path |-> mutate(k, d, m).path, delta |-> mutate(k, d, m).delta,
     seen |-> s, of |-> m]

\* An insertion hangs below one of S, or none.
HangsOn(op, S) ==
    op.delta.type = "SequenceInsert" => op.delta.predecessor \in S \cup {None}

LEMMA MutateFits ==
    ASSUME NEW k \in AllKinds, NEW d, IsDoc(k, d), NEW m, Means(k, m), NEW id, NEW s,
           NEW op, op = MadeOp(k, d, m, id, s)
    PROVE  /\ Fits(k, op)
           /\ op.id = id /\ op.seen = s /\ op.of = m
           /\ k = "sequence" => HangsOn(op, DOMAIN d)
           /\ k = "or_set" /\ m.type = "Remove" =>
                op.delta.observed = Tags(d, m.value) \ d.removes
<1>0. /\ op.id = id /\ op.seen = s /\ op.of = m
      /\ op.path = mutate(k, d, m).path /\ op.delta = mutate(k, d, m).delta
  BY DEF MadeOp
<1>1. CASE k = "lww"
  <2>1. op.path = << >> /\ op.delta = [type |-> "LwwReplace", value |-> m.value]
    BY <1>0, <1>1 DEF mutate
  <2> QED BY <1>0, <1>1, <2>1 DEF Fits, Means
<1>2. CASE k = "or_set"
  <2>1. /\ op.path = << >>
        /\ op.delta = IF m.type = "Add" THEN SetAddOf(m.value) ELSE SetRemoveOf(d, m.value)
    BY <1>0, <1>2 DEF mutate
  <2>2. /\ m = [type |-> m.type, value |-> m.value]
        /\ m.type \in {"Add", "Remove"} /\ m.value \in Items
    BY <1>2 DEF Means
  <2>3. CASE m.type = "Add"
    <3>1. op.delta = [type |-> "OrSetAdd", value |-> m.value]
      BY <2>1, <2>3 DEF SetAddOf
    <3> QED BY <1>0, <1>2, <2>1, <2>2, <2>3, <3>1 DEF Fits
  <2>4. CASE m.type = "Remove"
    <3>1. op.delta = [type |-> "OrSetRemove", observed |-> Tags(d, m.value) \ d.removes]
      BY <2>1, <2>4 DEF SetRemoveOf
    <3>2. op.delta = [type |-> "OrSetRemove", observed |-> op.delta.observed]
          /\ op.delta.observed = Tags(d, m.value) \ d.removes
      BY <3>1
    <3> QED BY <1>0, <1>2, <2>1, <2>2, <2>4, <3>2 DEF Fits
  <2> QED BY <2>2, <2>3, <2>4
<1>3. CASE k \in {"counter", "narrow"}
  <2>1. op.path = << >> /\ op.delta = [type |-> "PnCounterDelta", by |-> m.by]
    BY <1>0, <1>3 DEF mutate
  <2>2. m.by \in Int
    BY <1>3 DEF Means
  <2>3. op.delta.by = m.by
    BY <2>1
  <2>4. k # "lww" /\ k # "or_set" /\ k # "sequence" /\ k # "tree" /\ k # "map"
    BY <1>3
  <2> QED BY <1>0, <2>1, <2>2, <2>3, <2>4 DEF Fits
<1>4. CASE k = "sequence"
  <2>1. /\ op.path = << >>
        /\ op.delta = IF m.type = "InsertAt" THEN InsertAtOf(d, m.pos, m.value)
                      ELSE DeleteAtOf(d, m.pos, m.len)
    BY <1>0, <1>4 DEF mutate
  <2>2. Rooted(d)
    BY <1>4 DEF IsDoc
  <2> DEFINE live == LiveIds(d)
  <2>3. live \in Seq(DOMAIN d)
    BY <2>2, NoneAssumption, LiveIdsAreSeq
  <2>4. CASE m.type = "InsertAt"
    <3>1. op.delta = [type |-> "SequenceInsert", value |-> m.value,
                      predecessor |-> IF m.pos \in 1..Len(live) THEN live[m.pos] ELSE None]
      BY <2>1, <2>4 DEF InsertAtOf
    <3> HIDE DEF live
    <3>2. m.pos \in 1..Len(live) => live[m.pos] \in DOMAIN d
      BY <2>3
    <3>3. /\ op.delta.type = "SequenceInsert"
          /\ op.delta.predecessor = IF m.pos \in 1..Len(live) THEN live[m.pos] ELSE None
      BY <3>1
    <3>4. HangsOn(op, DOMAIN d)
      BY <3>2, <3>3 DEF HangsOn
    <3> QED BY <1>0, <1>4, <2>1, <3>3, <3>4 DEF Fits
  <2>5. CASE m.type # "InsertAt"
    <3>1. op.delta.type = "SequenceDelete"
      BY <2>1, <2>5 DEF DeleteAtOf
    <3> QED BY <1>0, <1>4, <2>1, <3>1 DEF Fits, HangsOn
  <2> QED BY <2>4, <2>5
<1>5. CASE k = "tree"
  <2>1. op.path = << >>
        /\ op.delta = [type |-> "TreeMove", child |-> m.child, parent |-> m.parent]
    BY <1>0, <1>5 DEF mutate
  <2> QED BY <1>0, <1>5, <2>1 DEF Fits, Means
<1>6. CASE k = "map"
  <2>1. /\ op.path = <<m.key>>
        /\ op.delta = IF m.type = "Apply" THEN [type |-> "LwwReplace", value |-> m.value]
                      ELSE [type |-> "MapRemove"]
    BY <1>0, <1>6 DEF mutate
  <2>2. /\ m.type \in {"Apply", "Remove"} /\ m.key \in Items
        /\ m.type = "Apply" => m.value \in Values
    BY <1>6 DEF Means
  <2>3. CASE m.type = "Apply"
    <3>1. op.delta = [type |-> "LwwReplace", value |-> m.value]
      BY <2>1, <2>3
    <3> QED BY <1>0, <1>6, <2>1, <2>2, <2>3, <3>1 DEF Fits
  <2>4. CASE m.type = "Remove"
    <3>1. op.delta = [type |-> "MapRemove"]
      BY <2>1, <2>4
    <3> QED BY <1>0, <1>6, <2>1, <2>2, <2>4, <3>1 DEF Fits
  <2> QED BY <2>2, <2>3, <2>4
<1> QED BY <1>1, <1>2, <1>3, <1>4, <1>5, <1>6 DEF AllKinds

\* One step of Emit.
Emitted(k, before, m, id, n) ==
    [doc |-> apply_property(k, before.doc,
               [id |-> id, path |-> mutate(k, before.doc, m).path,
                delta |-> mutate(k, before.doc, m).delta], n),
     ops |-> Append(before.ops,
               [id |-> id, path |-> mutate(k, before.doc, m).path,
                delta |-> mutate(k, before.doc, m).delta])]

Emits(f, k, d, ms, p, q, h, n) ==
    /\ f[0] = [doc |-> d, ops |-> << >>]
    /\ \A j \in 1..n : f[j] = Emitted(k, f[j-1], ms[j], <<p, q + j - 1>>, h + j)

LEMMA EmitSteps ==
    ASSUME NEW k, NEW d, NEW ms, Listed(ms), NEW p, NEW q, NEW h
    PROVE  \E f : Emits(f, k, d, ms, p, q, h, Len(ms))
                  /\ f[Len(ms)] = Emit(k, d, ms, p, q, h)
<1> DEFINE N == Len(ms)
           From(f, n) == IF n = 0 THEN [doc |-> d, ops |-> << >>]
                         ELSE Emitted(k, f[n - 1], ms[n], <<p, q + n - 1>>, h + n)
           step == CHOOSE f : f = [n \in 0..N |-> From(f, n)]
<1>0. N \in Nat
  BY DEF Listed
<1>1. Emit(k, d, ms, p, q, h) = step[N]
  BY DEF Emit, Emitted
<1> HIDE DEF N
<1> DEFINE T == {n \in 0..N : \E f : Emits(f, k, d, ms, p, q, h, n)}
<1>2. 0 \in T
  <2> DEFINE f == [n \in 0..0 |-> [doc |-> d, ops |-> << >>]]
  <2>1. f[0] = [doc |-> d, ops |-> << >>]
    OBVIOUS
  <2> HIDE DEF f
  <2>2. Emits(f, k, d, ms, p, q, h, 0)
    BY <2>1 DEF Emits
  <2> QED BY <1>0, <2>2
<1>3. ASSUME NEW n \in 0..N-1, n \in T PROVE n + 1 \in T
  <2>1. PICK f : Emits(f, k, d, ms, p, q, h, n)
    BY <1>3
  <2> DEFINE new == Emitted(k, f[n], ms[n + 1], <<p, q + (n + 1) - 1>>, h + (n + 1))
             g == [j \in 0..n + 1 |-> IF j = n + 1 THEN new ELSE f[j]]
  <2>2. n \in Nat /\ n + 1 \in 0..N
    BY <1>0
  <2> HIDE DEF new
  <2>3. g[n + 1] = new /\ \A j \in 0..n : g[j] = f[j]
    BY <2>2
  <2> HIDE DEF g
  <2>4. ASSUME NEW j \in 1..n + 1
        PROVE  g[j] = Emitted(k, g[j-1], ms[j], <<p, q + j - 1>>, h + j)
    <3>1. CASE j = n + 1
      <4>1. j - 1 = n /\ n \in 0..n
        BY <2>2, <3>1
      <4> QED BY <2>3, <3>1, <4>1 DEF new
    <3>2. CASE j # n + 1
      <4>1. j \in 1..n /\ j - 1 \in 0..n /\ j \in 0..n
        BY <2>2, <3>2
      <4> QED BY <2>1, <2>3, <4>1 DEF Emits
    <3> QED BY <3>1, <3>2
  <2>5. g[0] = [doc |-> d, ops |-> << >>]
    <3>1. 0 \in 0..n
      BY <2>2
    <3> QED BY <2>1, <2>3, <3>1 DEF Emits
  <2>6. Emits(g, k, d, ms, p, q, h, n + 1)
    BY <2>4, <2>5 DEF Emits
  <2> QED BY <2>2, <2>6
<1> HIDE DEF T
<1>4. N \in T
  <2>1. \A n \in 0..N : n \in T
    BY <1>0, <1>2, <1>3, UpTo
  <2> QED BY <1>0, <2>1
<1>5. PICK f : Emits(f, k, d, ms, p, q, h, N)
  BY <1>4 DEF T
<1> DEFINE g == [n \in 0..N |-> f[n]]
<1>6. ASSUME NEW n \in 0..N PROVE g[n] = From(g, n)
  <2>1. CASE n = 0
    BY <1>5, <2>1 DEF Emits
  <2>2. CASE n # 0
    <3>1. n \in 1..N /\ n - 1 \in 0..N
      BY <1>0, <2>2
    <3>2. g[n] = f[n] /\ g[n - 1] = f[n - 1]
      BY <3>1
    <3> HIDE DEF g
    <3> QED BY <1>5, <2>2, <3>1, <3>2 DEF Emits
  <2> QED BY <2>1, <2>2
<1>7. g = [n \in 0..N |-> From(g, n)]
  <2>1. g = [n \in 0..N |-> g[n]]
    OBVIOUS
  <2> HIDE DEF g, From
  <2> QED BY <1>6, <2>1
<1>8. step = [n \in 0..N |-> From(step, n)]
  <2> HIDE DEF g, From
  <2> QED BY <1>7
<1> HIDE DEF step
<1>9. \A n \in 0..N : step[n] = From(step, n)
  <2> HIDE DEF From
  <2> QED BY <1>8
<1>10. Emits(step, k, d, ms, p, q, h, N)
  <2>1. 0 \in 0..N
    BY <1>0
  <2>2. step[0] = [doc |-> d, ops |-> << >>]
    BY <1>9, <2>1
  <2>3. ASSUME NEW j \in 1..N
        PROVE  step[j] = Emitted(k, step[j-1], ms[j], <<p, q + j - 1>>, h + j)
    <3>1. j \in 0..N /\ j # 0
      BY <1>0
    <3> QED BY <1>9, <3>1
  <2> QED BY <2>2, <2>3 DEF Emits
<1> QED BY <1>1, <1>10 DEF N

\* The documents g on the way through a list of mutations, and its ops.
Drafts(g, ops, k, d, ms, p, q, s, h) ==
    /\ Listed(ops) /\ Len(ops) = Len(ms) /\ g[0] = d
    /\ \A n \in 1..Len(ms) :
         /\ ops[n] = MadeOp(k, g[n-1], ms[n], <<p, q + n - 1>>, s)
         /\ g[n] = apply_property(k, g[n-1], ops[n], h + n)

\* An op is applied for its id, its path and its delta.
LEMMA AppliedFor ==
    ASSUME NEW k, NEW d, NEW op, NEW n
    PROVE  apply_property(k, d, op, n)
             = apply_property(k, d, [id |-> op.id, path |-> op.path, delta |-> op.delta], n)
<1> DEFINE o == [id |-> op.id, path |-> op.path, delta |-> op.delta]
<1>1. o.id = op.id /\ o.path = op.path /\ o.delta = op.delta
  OBVIOUS
<1> HIDE DEF o
<1>2. apply_property(k, d, op, n) = apply_property(k, d, o, n)
  BY <1>1 DEF apply_property, MapApply
<1> QED BY <1>2 DEF o

LEMMA OpsAreDrafted ==
    ASSUME NEW c, NEW ms, Listed(ms)
    PROVE  \E g : /\ Drafts(g, Ops(c, ms), kind, doc[c], ms, c, next[c], applied[c], Len(log))
                  /\ g[Len(ms)] = Emit(kind, doc[c], ms, c, next[c], Len(log)).doc
<1> DEFINE N == Len(ms)
           e == Emit(kind, doc[c], ms, c, next[c], Len(log))
           ops == Ops(c, ms)
<1>0. N \in Nat
  BY DEF Listed
<1>1. PICK f : Emits(f, kind, doc[c], ms, c, next[c], Len(log), N) /\ f[N] = e
  BY EmitSteps
<1> HIDE DEF N
<1> DEFINE bare(j) == [id |-> <<c, next[c] + j - 1>>, path |-> mutate(kind, f[j-1].doc, ms[j]).path,
                       delta |-> mutate(kind, f[j-1].doc, ms[j]).delta]
           T == {n \in 0..N : /\ Listed(f[n].ops) /\ Len(f[n].ops) = n
                              /\ \A j \in 1..n : f[n].ops[j] = bare(j)}
<1>2. 0 \in T
  <2>1. f[0].ops = << >>
    BY <1>1 DEF Emits
  <2>2. Listed(<< >>) /\ Len(<< >>) = 0 /\ 0 \in 0..N
    BY <1>0 DEF Listed
  <2>3. \A j \in 1..0 : f[0].ops[j] = bare(j)
    OBVIOUS
  <2> HIDE DEF bare
  <2> QED BY <2>1, <2>2, <2>3
<1>3. ASSUME NEW n \in 0..N-1, n \in T PROVE n + 1 \in T
  <2>0. n \in Nat /\ n + 1 \in 0..N /\ n + 1 \in 1..N /\ (n + 1) - 1 = n
    BY <1>0
  <2>1. f[n + 1] = Emitted(kind, f[(n + 1) - 1], ms[n + 1], <<c, next[c] + (n + 1) - 1>>, Len(log) + (n + 1))
    BY <1>1, <2>0 DEF Emits
  <2>2. f[n + 1].ops = Append(f[n].ops, bare(n + 1))
    BY <2>0, <2>1 DEF Emitted
  <2> HIDE DEF bare
  <2>3. Listed(f[n].ops) /\ Len(f[n].ops) = n /\ \A j \in 1..n : f[n].ops[j] = bare(j)
    BY <1>3
  <2> DEFINE s == f[n].ops
             b == bare(n + 1)
             t == f[n + 1].ops
  <2> HIDE DEF s, b, t
  <2>4. /\ Listed(Append(s, b)) /\ Len(Append(s, b)) = Len(s) + 1
        /\ \A j \in 1..Len(s) : Append(s, b)[j] = s[j]
        /\ Append(s, b)[Len(s) + 1] = b
    BY <2>3, AppendOf DEF s
  <2>5. t = Append(s, b) /\ Len(s) = n
    BY <2>2, <2>3 DEF s, b, t
  <2>6. Listed(t) /\ Len(t) = n + 1 /\ t[n + 1] = b /\ \A j \in 1..n : t[j] = s[j]
    BY <2>4, <2>5
  <2>7. ASSUME NEW j \in 1..n + 1 PROVE t[j] = bare(j)
    <3>1. CASE j = n + 1
      BY <2>6, <3>1 DEF b
    <3>2. CASE j # n + 1
      <4>1. j \in 1..n
        BY <2>0, <3>2
      <4> QED BY <2>3, <2>6, <4>1 DEF s
    <3> QED BY <3>1, <3>2
  <2> QED BY <2>0, <2>6, <2>7 DEF t
<1>4. N \in T
  <2> HIDE DEF T
  <2>1. \A n \in 0..N : n \in T
    BY <1>0, <1>2, <1>3, UpTo
  <2> QED BY <1>0, <2>1
<1>5. Listed(e.ops) /\ Len(e.ops) = N /\ \A j \in 1..N : e.ops[j] = bare(j)
  BY <1>1, <1>4
<1>6. ops = [n \in 1..Len(e.ops) |->
               [id |-> e.ops[n].id, path |-> e.ops[n].path, delta |-> e.ops[n].delta,
                seen |-> applied[c], of |-> ms[n]]]
  BY DEF Ops
<1> HIDE DEF e, ops, T
<1>7. Listed(ops) /\ Len(ops) = N
  BY <1>0, <1>5, <1>6 DEF Listed
<1> DEFINE g == [n \in 0..N |-> f[n].doc]
<1>8. g[0] = doc[c]
  BY <1>0, <1>1 DEF Emits
<1>9. ASSUME NEW n \in 1..N
      PROVE  /\ ops[n] = MadeOp(kind, g[n-1], ms[n], <<c, next[c] + n - 1>>, applied[c])
             /\ g[n] = apply_property(kind, g[n-1], ops[n], Len(log) + n)
  <2>1. n - 1 \in 0..N /\ n \in 0..N
    BY <1>0
  <2>2. g[n-1] = f[n-1].doc /\ g[n] = f[n].doc
    BY <2>1
  <2> HIDE DEF g
  <2>3. ops[n] = [id |-> bare(n).id, path |-> bare(n).path, delta |-> bare(n).delta,
                  seen |-> applied[c], of |-> ms[n]]
    BY <1>5, <1>6
  <2>4. ops[n] = MadeOp(kind, g[n-1], ms[n], <<c, next[c] + n - 1>>, applied[c])
    BY <2>2, <2>3 DEF MadeOp
  <2>5. f[n] = Emitted(kind, f[n-1], ms[n], <<c, next[c] + n - 1>>, Len(log) + n)
    BY <1>1 DEF Emits
  <2>6. f[n].doc = apply_property(kind, f[n-1].doc, bare(n), Len(log) + n)
    BY <2>5 DEF Emitted
  <2>7. bare(n) = [id |-> ops[n].id, path |-> ops[n].path, delta |-> ops[n].delta]
    BY <2>3
  <2> HIDE DEF bare
  <2>8. g[n] = apply_property(kind, g[n-1], ops[n], Len(log) + n)
    BY <2>2, <2>6, <2>7, AppliedFor
  <2> QED BY <2>4, <2>8
<1>9a. g[N] = e.doc
  <2>1. N \in 0..N
    BY <1>0
  <2> QED BY <1>1, <2>1
<1> HIDE DEF g
<1>10. Drafts(g, ops, kind, doc[c], ms, c, next[c], applied[c], Len(log))
  BY <1>7, <1>8, <1>9 DEF Drafts, N
<1> QED BY <1>9a, <1>10 DEF ops, e, N

-----------------------------------------------------------------------------
(* What is known of the ops of the log, and of those on their way to it.   *)

\* The insertions among the first n ops, and the additions of x.
Inserted(l, n) == {l[m].id : m \in {j \in 1..n : l[j].delta.type = "SequenceInsert"}}

Tagged(l, n, x) == {l[m].id : m \in {j \in 1..n : l[j].of.type = "Add" /\ l[j].of.value = x}}

Untagged(l, n) == UNION {l[m].delta.observed : m \in {j \in 1..n : l[j].of.type = "Remove"}}

\* A removal has observed what its author's document had, and no removal it
\* knew of had observed.
Observes(l, op) ==
    op.of.type = "Remove" =>
      op.delta.observed = Tags(Replay("or_set", l, op.seen), op.of.value)
                            \ Replay("or_set", l, op.seen).removes

\* The op at n: it fits, it is new, its author had seen less than n, and what
\* it hangs on is there.
LogOp(k, l, nx, n) ==
    /\ Fits(k, l[n])
    /\ l[n].id \in Client \X Nat /\ l[n].id[2] < nx[l[n].id[1]]
    /\ l[n].seen \in 0..n - 1
    /\ \A m \in 1..n - 1 : l[m].id # l[n].id
    /\ k = "sequence" => HangsOn(l[n], Inserted(l, n - 1))
    /\ k = "or_set" => Observes(l, l[n])

Logged(k, l, nx) == \A n \in 1..Len(l) : LogOp(k, l, nx, n)

\* The same of the op at j of those u that c, which has minted q, has under way.
WaitOp(k, l, u, c, q, j) ==
    /\ Fits(k, u[j])
    /\ u[j].id \in Client \X Nat /\ u[j].id[1] = c /\ u[j].id[2] < q
    /\ u[j].seen \in 0..Len(l)
    /\ \A n \in 1..Len(l) : l[n].id # u[j].id
    /\ \A i \in 1..j - 1 : u[i].id # u[j].id
    /\ k = "sequence" => HangsOn(u[j], Inserted(l, Len(l)) \cup Inserted(u, j - 1))
    /\ k = "or_set" => Observes(l, u[j])

Waiting(k, l, u, c, q) == \A j \in 1..Len(u) : WaitOp(k, l, u, c, q, j)

LEMMA InsertedMore ==
    ASSUME NEW l, NEW n \in Nat
    PROVE  /\ Inserted(l, 0) = {}
           /\ Inserted(l, n + 1) = Inserted(l, n) \cup
                (IF l[n + 1].delta.type = "SequenceInsert" THEN {l[n + 1].id} ELSE {})
<1>1. \A m : m \in 1..n + 1 <=> m \in 1..n \/ m = n + 1
  OBVIOUS
<1>2. 1..0 = {}
  OBVIOUS
<1> QED BY <1>1, <1>2 DEF Inserted

LEMMA InsertedSame ==
    ASSUME NEW l, NEW h, NEW n \in Nat, \A m \in 1..n : l[m] = h[m]
    PROVE  Inserted(l, n) = Inserted(h, n)
  BY DEF Inserted

LEMMA InsertedWithin ==
    ASSUME NEW l, NEW n \in Nat, NEW m \in 0..n
    PROVE  Inserted(l, m) \subseteq Inserted(l, n)
<1>1. \A j \in 1..m : j \in 1..n
  OBVIOUS
<1> QED BY <1>1 DEF Inserted

\* What an op does to the tags of a set.
LEMMA TagsStep ==
    ASSUME NEW d, IsDoc("or_set", d), NEW op, Fits("or_set", op), NEW n,
           NEW e, e = apply_property("or_set", d, op, n)
    PROVE  /\ op.of.type \in {"Add", "Remove"}
           /\ op.of.type = "Add" =>
                /\ \A x : Tags(e, x) = Tags(d, x) \cup (IF x = op.of.value THEN {op.id} ELSE {})
                /\ e.removes = d.removes
           /\ op.of.type = "Remove" =>
                /\ \A x : Tags(e, x) = Tags(d, x)
                /\ e.removes = d.removes \cup op.delta.observed
<1> DEFINE ctx == [id |-> op.id, seq |-> n]
<1>1. e = SetApply(d, op.delta, ctx)
  BY DEF apply_property, LeafApply
<1>2. d = [adds |-> d.adds, removes |-> d.removes]
  BY DEF IsDoc
<1>3. CASE op.of.type = "Add"
  <2> DEFINE x == op.of.value
             t == Tags(d, x) \cup {op.id}
             adds == d.adds
             a == Put(adds, x, t)
  <2>1. op.delta.type = "OrSetAdd" /\ op.delta.value = x
    BY <1>3 DEF Fits
  <2>2. e = [adds |-> a, removes |-> d.removes]
    BY <1>1, <1>2, <2>1 DEF SetApply
  <2>3. IsPut(a, adds, x, t)
    <3> HIDE DEF x, t, adds
    <3>1. a = Put(adds, x, t)
      OBVIOUS
    <3> HIDE DEF a
    <3> QED BY <3>1, PutIs
  <2> HIDE DEF a
  <2>4. e.adds = a /\ e.removes = d.removes
    BY <2>2
  <2>5. ASSUME NEW y PROVE Tags(e, y) = Tags(d, y) \cup (IF y = x THEN {op.id} ELSE {})
    <3>1. CASE y = x
      <4>1. x \in DOMAIN a /\ a[x] = t
        BY <2>3 DEF IsPut
      <4>2. Tags(e, x) = a[x]
        BY <2>4, <4>1 DEF Tags
      <4> QED BY <3>1, <4>1, <4>2
    <3>2. CASE y # x
      <4>1. y \in DOMAIN a <=> y \in DOMAIN adds
        BY <2>3, <3>2 DEF IsPut
      <4>2. y \in DOMAIN adds => a[y] = adds[y]
        BY <2>3, <3>2 DEF IsPut
      <4>3. Tags(e, y) = Tags(d, y)
        BY <2>4, <4>1, <4>2 DEF Tags
      <4> QED BY <3>2, <4>3
    <3> QED BY <3>1, <3>2
  <2> HIDE DEF t
  <2> QED BY <1>3, <2>4, <2>5
<1>4. CASE op.of.type = "Remove"
  <2>1. op.delta.type # "OrSetAdd"
    BY <1>4 DEF Fits
  <2>2. e = [adds |-> d.adds, removes |-> d.removes \cup op.delta.observed]
    BY <1>1, <1>2, <2>1 DEF SetApply
  <2>3. e.adds = d.adds /\ e.removes = d.removes \cup op.delta.observed
    BY <2>2
  <2> QED BY <1>4, <2>3 DEF Tags
<1> QED BY <1>3, <1>4 DEF Fits

LEMMA TaggedMore ==
    ASSUME NEW l, NEW n \in Nat
    PROVE  /\ \A x : Tagged(l, 0, x) = {}
           /\ Untagged(l, 0) = {}
           /\ \A x : Tagged(l, n + 1, x) = Tagged(l, n, x) \cup
                (IF l[n + 1].of.type = "Add" /\ x = l[n + 1].of.value THEN {l[n + 1].id} ELSE {})
           /\ Untagged(l, n + 1) = Untagged(l, n) \cup
                (IF l[n + 1].of.type = "Remove" THEN l[n + 1].delta.observed ELSE {})
<1>1. \A m : m \in 1..n + 1 <=> m \in 1..n \/ m = n + 1
  OBVIOUS
<1>2. 1..0 = {}
  OBVIOUS
<1>3. (\A x : Tagged(l, 0, x) = {}) /\ Untagged(l, 0) = {}
  BY <1>2 DEF Tagged, Untagged
<1>4. \A x : Tagged(l, n + 1, x) = Tagged(l, n, x) \cup
               (IF l[n + 1].of.type = "Add" /\ x = l[n + 1].of.value THEN {l[n + 1].id} ELSE {})
  BY <1>1 DEF Tagged
<1>5. Untagged(l, n + 1) = Untagged(l, n) \cup
        (IF l[n + 1].of.type = "Remove" THEN l[n + 1].delta.observed ELSE {})
  BY <1>1 DEF Untagged
<1> QED BY <1>3, <1>4, <1>5

\* The documents of the log.
ReplayedAt(k, l, n) ==
    /\ IsDoc(k, Replay(k, l, n))
    /\ k = "sequence" => DOMAIN Replay(k, l, n) = Inserted(l, n)
    /\ k = "tree" => DOMAIN Replay(k, l, n) \subseteq 1..n
    /\ k = "or_set" => /\ \A x : Tags(Replay(k, l, n), x) = Tagged(l, n, x)
                       /\ Replay(k, l, n).removes = Untagged(l, n)

LEMMA LogReplays ==
    ASSUME NEW k \in AllKinds, NEW l, Listed(l), NEW nx, Logged(k, l, nx)
    PROVE  \A n \in 0..Len(l) : ReplayedAt(k, l, n)
<1> DEFINE T == {n \in 0..Len(l) : ReplayedAt(k, l, n)}
<1>0. Len(l) \in Nat
  BY DEF Listed
<1>1. 0 \in T
  <2> DEFINE d == Replay(k, l, 0)
  <2>1. 0 \in Nat
    OBVIOUS
  <2>2. d = Bottom(k)
    BY <2>1, ReplaySteps
  <2>3. IsDoc(k, d)
    BY <2>2, BottomIsDoc
  <2>4. k = "sequence" => DOMAIN d = Inserted(l, 0)
    <3>1. Inserted(l, 0) = {}
      BY <2>1, InsertedMore
    <3>2. k = "sequence" => Bottom(k) = EmptyMap
      BY DEF Bottom
    <3> QED BY <2>2, <3>1, <3>2, EmptyMapIs
  <2>5. k = "tree" => DOMAIN d \subseteq 1..0
    <3>1. k = "tree" => Bottom(k) = EmptyMap
      BY DEF Bottom
    <3> QED BY <2>2, <3>1, EmptyMapIs
  <2>6. k = "or_set" => (\A x : Tags(d, x) = Tagged(l, 0, x)) /\ d.removes = Untagged(l, 0)
    <3>1. k = "or_set" => Bottom(k) = EmptySet
      BY DEF Bottom
    <3>2. EmptySet.removes = {} /\ \A x : Tags(EmptySet, x) = {}
      BY EmptyMapIs DEF EmptySet, Tags
    <3>3. (\A x : Tagged(l, 0, x) = {}) /\ Untagged(l, 0) = {}
      BY <2>1, TaggedMore
    <3> QED BY <2>2, <3>1, <3>2, <3>3
  <2>7. 0 \in 0..Len(l)
    BY <1>0
  <2> HIDE DEF d
  <2>8. ReplayedAt(k, l, 0)
    BY <2>3, <2>4, <2>5, <2>6 DEF ReplayedAt, d
  <2> QED BY <2>7, <2>8
<1>2. ASSUME NEW n \in 0..Len(l)-1, n \in T PROVE n + 1 \in T
  <2> DEFINE m == n + 1
             d == Replay(k, l, n)
             e == Replay(k, l, m)
             op == l[m]
  <2>0. n \in Nat /\ m \in Nat /\ m \in 1..Len(l) /\ m \in 0..Len(l) /\ m - 1 = n
    BY <1>0
  <2>1. ReplayedAt(k, l, n)
    BY <1>2
  <2>2. LogOp(k, l, nx, m)
    BY <2>0 DEF Logged
  <2>3. e = apply_property(k, d, op, m)
    BY <2>0, ReplaySteps
  <2>4. Inserted(l, m) = Inserted(l, n) \cup
          (IF op.delta.type = "SequenceInsert" THEN {op.id} ELSE {})
    BY <2>0, InsertedMore
  <2>5. /\ \A x : Tagged(l, m, x) = Tagged(l, n, x) \cup
             (IF op.of.type = "Add" /\ x = op.of.value THEN {op.id} ELSE {})
        /\ Untagged(l, m) = Untagged(l, n) \cup
             (IF op.of.type = "Remove" THEN op.delta.observed ELSE {})
    BY <2>0, TaggedMore
  <2> HIDE DEF m, d, e, op
  <2>6. Fits(k, op) /\ op.id \in Nat \X Nat
    BY <2>2, ClientAssumption DEF LogOp, op
  <2>7. FindsPlace(k, op, d)
    <3> SUFFICES ASSUME k = "sequence", op.delta.type = "SequenceInsert"
                 PROVE  op.id \notin DOMAIN d /\ op.delta.predecessor \in DOMAIN d \cup {None}
      BY DEF FindsPlace
    <3>1. DOMAIN d = Inserted(l, n)
      BY <2>1 DEF ReplayedAt, d
    <3>2. op.id \notin Inserted(l, n)
      <4>1. \A j \in 1..n : l[j].id # op.id
        BY <2>0, <2>2 DEF LogOp, op
      <4> QED BY <4>1 DEF Inserted
    <3>3. HangsOn(op, Inserted(l, n))
      BY <2>0, <2>2 DEF LogOp, op
    <3> QED BY <3>1, <3>2, <3>3 DEF HangsOn
  <2>8. IsDoc(k, d)
    BY <2>1 DEF ReplayedAt, d
  <2>9. /\ IsDoc(k, e)
        /\ k = "sequence" =>
             DOMAIN e = DOMAIN d \cup (IF op.delta.type = "SequenceInsert" THEN {op.id} ELSE {})
        /\ k = "tree" => DOMAIN e = DOMAIN d \cup {m}
    <3>1. m \in Nat
      BY <2>0
    <3>2. Grown(k, d, op, m, e)
      BY <2>3, <2>6, <2>7, <2>8, <3>1, ApplyKeepsDoc
    <3> QED BY <3>2, Zenon DEF Grown
  <2>10. k = "sequence" => DOMAIN e = Inserted(l, m)
    BY <2>1, <2>4, <2>9 DEF ReplayedAt, d
  <2>11. k = "tree" => DOMAIN e \subseteq 1..m
    <3>1. k = "tree" => DOMAIN d \subseteq 1..n
      BY <2>1 DEF ReplayedAt, d
    <3>2. m \in 1..m /\ \A j \in 1..n : j \in 1..m
      BY <2>0 DEF m
    <3> QED BY <2>9, <3>1, <3>2
  <2>12. k = "or_set" => (\A x : Tags(e, x) = Tagged(l, m, x)) /\ e.removes = Untagged(l, m)
    <3> SUFFICES ASSUME k = "or_set"
                 PROVE  (\A x : Tags(e, x) = Tagged(l, m, x)) /\ e.removes = Untagged(l, m)
      OBVIOUS
    <3>1. (\A x : Tags(d, x) = Tagged(l, n, x)) /\ d.removes = Untagged(l, n)
      BY <2>1 DEF ReplayedAt, d
    <3>2. /\ op.of.type \in {"Add", "Remove"}
          /\ op.of.type = "Add" =>
               /\ \A x : Tags(e, x) = Tags(d, x) \cup (IF x = op.of.value THEN {op.id} ELSE {})
               /\ e.removes = d.removes
          /\ op.of.type = "Remove" =>
               /\ \A x : Tags(e, x) = Tags(d, x)
               /\ e.removes = d.removes \cup op.delta.observed
      BY <2>3, <2>6, <2>8, TagsStep
    <3>3. CASE op.of.type = "Add"
      <4>1. \A x : Tagged(l, m, x) = Tagged(l, n, x) \cup
                     (IF x = op.of.value THEN {op.id} ELSE {})
        BY <2>5, <3>3
      <4>2. Untagged(l, m) = Untagged(l, n)
        BY <2>5, <3>3
      <4>3. \A x : Tags(e, x) = Tagged(l, n, x) \cup (IF x = op.of.value THEN {op.id} ELSE {})
        BY <3>1, <3>2, <3>3
      <4>4. \A x : Tags(e, x) = Tagged(l, m, x)
        BY <4>1, <4>3, Zenon
      <4> QED BY <3>1, <3>2, <3>3, <4>2, <4>4
    <3>4. CASE op.of.type = "Remove"
      BY <2>5, <3>1, <3>2, <3>4
    <3> QED BY <3>2, <3>3, <3>4
  <2>13. ReplayedAt(k, l, m)
    BY <2>9, <2>10, <2>11, <2>12 DEF ReplayedAt, e
  <2> QED BY <2>0, <2>13 DEF m
<1> HIDE DEF T
<1>3. \A n \in 0..Len(l) : n \in T
  BY <1>0, <1>1, <1>2, UpTo
<1> QED BY <1>3 DEF T

-----------------------------------------------------------------------------
(* The ops a client mints are such as wait.                                *)

DraftedAt(g, ops, k, d, n) ==
    /\ IsDoc(k, g[n])
    /\ k = "sequence" => DOMAIN g[n] = DOMAIN d \cup Inserted(ops, n)

DraftOp(g, ops, k, d, ms, c, q, s, n) ==
    /\ Fits(k, ops[n])
    /\ ops[n].id = <<c, q + n - 1>> /\ ops[n].seen = s /\ ops[n].of = ms[n]
    /\ k = "sequence" => HangsOn(ops[n], DOMAIN d \cup Inserted(ops, n - 1))
    /\ k = "or_set" /\ ms[n].type = "Remove" =>
         ops[n].delta.observed = Tags(g[n - 1], ms[n].value) \ g[n - 1].removes

LEMMA DraftOpIs ==
    ASSUME NEW k \in AllKinds, NEW g, NEW ops, NEW d, NEW ms, NEW c, NEW q, NEW s, NEW h,
           Drafts(g, ops, k, d, ms, c, q, s, h), NEW n \in 1..Len(ms), Means(k, ms[n]),
           DraftedAt(g, ops, k, d, n - 1)
    PROVE  DraftOp(g, ops, k, d, ms, c, q, s, n)
<1> DEFINE op == ops[n]
           b == g[n - 1]
           id == <<c, q + n - 1>>
           m == ms[n]
<1>1. op = MadeOp(k, b, m, id, s)
  BY DEF Drafts
<1>2. IsDoc(k, b) /\ Means(k, m) /\ (k = "sequence" => DOMAIN b = DOMAIN d \cup Inserted(ops, n - 1))
  BY DEF DraftedAt
<1> HIDE DEF op, b, id, m
<1>3. /\ Fits(k, op)
      /\ op.id = id /\ op.seen = s /\ op.of = m
      /\ k = "sequence" => HangsOn(op, DOMAIN b)
      /\ k = "or_set" /\ m.type = "Remove" =>
           op.delta.observed = Tags(b, m.value) \ b.removes
  BY <1>1, <1>2, MutateFits
<1> QED BY <1>2, <1>3, Zenon DEF DraftOp, op, b, id, m

LEMMA DraftsAreDocs ==
    ASSUME NEW k \in AllKinds, NEW g, NEW ops, NEW d, IsDoc(k, d), NEW ms, Listed(ms),
           \A n \in 1..Len(ms) : Means(k, ms[n]), NEW c \in Nat, NEW q \in Nat, NEW s,
           NEW h \in Nat, Drafts(g, ops, k, d, ms, c, q, s, h),
           k = "sequence" => \A i \in Nat : i >= q => <<c, i>> \notin DOMAIN d
    PROVE  \A n \in 0..Len(ms) : DraftedAt(g, ops, k, d, n)
<1> DEFINE N == Len(ms)
           T == {n \in 0..N : DraftedAt(g, ops, k, d, n) /\
                   (k = "sequence" => \A i \in Nat : i >= q + n => <<c, i>> \notin DOMAIN g[n])}
<1>0. N \in Nat
  BY DEF Listed
<1>1. 0 \in T
  <2>1. g[0] = d /\ Inserted(ops, 0) = {} /\ 0 \in 0..N /\ q + 0 = q
    BY <1>0, InsertedMore DEF Drafts
  <2>2. DraftedAt(g, ops, k, d, 0)
    BY <2>1 DEF DraftedAt
  <2> QED BY <2>1, <2>2
<1>2. ASSUME NEW n \in 0..N-1, n \in T PROVE n + 1 \in T
  <2> DEFINE m == n + 1
             b == g[n]
             e == g[m]
             op == ops[m]
  <2>0. n \in Nat /\ m \in Nat /\ m \in 1..N /\ m \in 0..N /\ m - 1 = n /\ h + m \in Nat
        /\ q + m - 1 \in Nat /\ q + m - 1 >= q + n
    BY <1>0
  <2>1. DraftedAt(g, ops, k, d, n)
    BY <1>2
  <2>2. k = "sequence" => \A i \in Nat : i >= q + n => <<c, i>> \notin DOMAIN b
    BY <1>2
  <2>3. DraftOp(g, ops, k, d, ms, c, q, s, m)
    <3> HIDE DEF m, T
    <3> QED BY <2>0, <2>1, DraftOpIs
  <2>4. e = apply_property(k, b, op, h + m)
    <3>1. g[m] = apply_property(k, g[m - 1], ops[m], h + m)
      BY <2>0, Zenon DEF Drafts
    <3> QED BY <2>0, <3>1
  <2>5. Inserted(ops, m) = Inserted(ops, n) \cup
          (IF op.delta.type = "SequenceInsert" THEN {op.id} ELSE {})
    BY <2>0, InsertedMore
  <2>6. Fits(k, op) /\ op.id = <<c, q + m - 1>> /\ op.id \in Nat \X Nat
    BY <2>0, <2>3 DEF DraftOp
  <2>7. IsDoc(k, b) /\ (k = "sequence" => DOMAIN b = DOMAIN d \cup Inserted(ops, n))
    BY <2>1 DEF DraftedAt
  <2>8. k = "sequence" => HangsOn(op, DOMAIN b)
    <3>1. k = "sequence" => HangsOn(op, DOMAIN d \cup Inserted(ops, m - 1))
      BY <2>3 DEF DraftOp
    <3> QED BY <2>0, <2>7, <3>1
  <2> DEFINE t == h + m
             last == q + m - 1
  <2>9. t \in Nat /\ e = apply_property(k, b, op, t)
    BY <2>0, <2>4
  <2>10. last \in Nat /\ last >= q + n /\ op.id = <<c, last>>
    BY <2>0, <2>6
  <2>11. last = q + n
    BY <2>0
  <2> HIDE DEF m, b, e, op, t, last, T
  <2>12. FindsPlace(k, op, b)
    <3>1. k = "sequence" => op.id \notin DOMAIN b
      BY <2>2, <2>10
    <3> QED BY <2>8, <3>1 DEF FindsPlace, HangsOn
  <2>13. Grown(k, b, op, t, e)
    BY <2>6, <2>7, <2>9, <2>12, ApplyKeepsDoc
  <2>14. DraftedAt(g, ops, k, d, m)
    <3>1. IsDoc(k, e) /\ (k = "sequence" =>
            DOMAIN e = DOMAIN b \cup (IF op.delta.type = "SequenceInsert" THEN {op.id} ELSE {}))
      BY <2>13 DEF Grown
    <3>2. k = "sequence" => DOMAIN e = DOMAIN d \cup Inserted(ops, m)
      BY <2>5, <2>7, <3>1
    <3> QED BY <3>1, <3>2 DEF DraftedAt, e
  <2>15. k = "sequence" => \A i \in Nat : i >= q + m => <<c, i>> \notin DOMAIN e
    <3> SUFFICES ASSUME k = "sequence", NEW i \in Nat, i >= q + m PROVE <<c, i>> \notin DOMAIN e
      OBVIOUS
    <3>1. i >= q + n /\ i # last
      <4>1. m = n + 1 /\ n \in Nat
        BY <2>0 DEF m
      <4> QED BY <2>11, <4>1
    <3>2. <<c, i>> \notin DOMAIN b
      BY <2>2, <3>1
    <3>3. <<c, i>> # op.id
      BY <2>10, <3>1
    <3>4. DOMAIN e \subseteq DOMAIN b \cup {op.id}
      BY <2>13 DEF Grown
    <3> QED BY <3>2, <3>3, <3>4
  <2> QED BY <2>0, <2>14, <2>15 DEF m, T, e
<1> HIDE DEF T
<1>3. \A n \in 0..N : n \in T
  BY <1>0, <1>1, <1>2, UpTo
<1> QED BY <1>3 DEF T

\* The mutations name different items.
Apart(ms) == \A n, m \in 1..Len(ms) : ms[n].value = ms[m].value => n = m

\* A removal among them takes what the document had, whatever came before it.
Untouched(g, d, x, n) ==
    Tags(g[n], x) = Tags(d, x) /\ Tags(g[n], x) \ g[n].removes = Tags(d, x) \ d.removes

Takings(ops, d, ms) ==
    \A n \in 1..Len(ms) : ms[n].type = "Remove" =>
        ops[n].delta.observed = Tags(d, ms[n].value) \ d.removes

LEMMA DraftsObserve ==
    ASSUME NEW g, NEW ops, NEW d, IsDoc("or_set", d), NEW ms, Listed(ms),
           \A n \in 1..Len(ms) : Means("or_set", ms[n]), NEW c \in Nat, NEW q \in Nat, NEW s,
           NEW h \in Nat, Drafts(g, ops, "or_set", d, ms, c, q, s, h), Apart(ms),
           \A x, y : x # y => Tags(d, x) \cap Tags(d, y) = {}
    PROVE  Takings(ops, d, ms)
<1> DEFINE N == Len(ms)
           k == "or_set"
           T == {n \in 0..N : \A x : (\A j \in 1..n : ms[j].value # x) => Untouched(g, d, x, n)}
<1>0. N \in Nat /\ k \in AllKinds
  BY DEF Listed, AllKinds
<1>1. \A n \in 0..N : DraftedAt(g, ops, k, d, n)
  BY <1>0, DraftsAreDocs
<1>2. ASSUME NEW n \in 1..N PROVE DraftOp(g, ops, k, d, ms, c, q, s, n)
  <2>1. n - 1 \in 0..N
    BY <1>0
  <2>2. DraftedAt(g, ops, k, d, n - 1)
    BY <1>1, <2>1
  <2> HIDE DEF k
  <2> QED BY <1>0, <2>2, DraftOpIs DEF k
<1> HIDE DEF T
<1>3. ASSUME NEW n \in 1..N, n - 1 \in T, ms[n].type = "Remove"
      PROVE  ops[n].delta.observed = Tags(d, ms[n].value) \ d.removes
  <2> DEFINE x == ms[n].value
  <2>1. \A j \in 1..n - 1 : ms[j].value # x
    <3> TAKE j \in 1..n - 1
    <3>1. j \in 1..N /\ j # n
      BY <1>0
    <3> QED BY <3>1 DEF Apart
  <2>2. Untouched(g, d, x, n - 1)
    <3> HIDE DEF x
    <3> QED BY <1>3, <2>1 DEF T
  <2>3. ops[n].delta.observed = Tags(g[n - 1], x) \ g[n - 1].removes
    BY <1>2, <1>3 DEF DraftOp
  <2> QED BY <2>2, <2>3 DEF Untouched
<1>4. 0 \in T
  <2>1. g[0] = d /\ 0 \in 0..N
    BY <1>0 DEF Drafts
  <2> QED BY <2>1 DEF T, Untouched
<1>5. ASSUME NEW n \in 0..N-1, n \in T PROVE n + 1 \in T
  <2> DEFINE m == n + 1
             b == g[n]
             e == g[m]
             op == ops[m]
             y == ms[m].value
             t == h + m
  <2>0. n \in Nat /\ m \in Nat /\ m \in 1..N /\ m \in 0..N /\ m - 1 = n /\ t \in Nat
    BY <1>0
  <2>1. DraftOp(g, ops, k, d, ms, c, q, s, m)
    BY <1>2, <2>0
  <2>2. e = apply_property(k, b, op, t)
    <3>1. g[m] = apply_property(k, g[m - 1], ops[m], t)
      BY <2>0, Zenon DEF Drafts
    <3> QED BY <2>0, <3>1
  <2>3. IsDoc(k, b)
    <3>1. n \in 0..N
      BY <1>0
    <3> QED BY <1>1, <3>1 DEF DraftedAt
  <2>4. op.of.type = "Remove" => op.delta.observed \subseteq Tags(d, y)
    <3>1. op.of = ms[m]
      BY <2>1 DEF DraftOp
    <3>2. op.of.type = "Remove" => op.delta.observed = Tags(d, y) \ d.removes
      <4>1. m - 1 \in T
        BY <1>5, <2>0
      <4> HIDE DEF m
      <4> QED BY <1>3, <2>0, <3>1, <4>1
    <3> QED BY <3>2
  <2>5. Fits(k, op) /\ op.of.value = y
    BY <2>1 DEF DraftOp
  <2>6. \A x : (\A j \in 1..n : ms[j].value # x) => Untouched(g, d, x, n)
    BY <1>5 DEF T
  <2> HIDE DEF m, b, e, op, y, t
  <2>7. /\ op.of.type \in {"Add", "Remove"}
        /\ op.of.type = "Add" =>
             /\ \A x : Tags(e, x) = Tags(b, x) \cup (IF x = op.of.value THEN {op.id} ELSE {})
             /\ e.removes = b.removes
        /\ op.of.type = "Remove" =>
             /\ \A x : Tags(e, x) = Tags(b, x)
             /\ e.removes = b.removes \cup op.delta.observed
    BY <2>2, <2>3, <2>5, TagsStep
  <2>8. ASSUME NEW x, \A j \in 1..m : ms[j].value # x
        PROVE  Untouched(g, d, x, m)
    <3>1. \A j \in 1..n : j \in 1..m
      BY <2>0 DEF m
    <3>2. Tags(b, x) = Tags(d, x) /\ Tags(b, x) \ b.removes = Tags(d, x) \ d.removes
      BY <2>6, <2>8, <3>1 DEF Untouched, b
    <3>3. x # y
      <4>1. m \in 1..m
        BY <2>0
      <4> QED BY <2>8, <4>1 DEF y
    <3>4. Tags(d, x) \cap Tags(d, y) = {}
      BY <3>3
    <3>5. CASE op.of.type = "Add"
      BY <2>5, <2>7, <3>2, <3>3, <3>5 DEF Untouched, e
    <3>6. CASE op.of.type = "Remove"
      BY <2>4, <2>7, <3>2, <3>4, <3>6 DEF Untouched, e
    <3> QED BY <2>7, <3>5, <3>6
  <2> QED BY <2>0, <2>8 DEF T, m
<1>6. \A n \in 0..N : n \in T
  BY <1>0, <1>4, <1>5, UpTo
<1>7. \A n \in 1..N : n - 1 \in 0..N
  BY <1>0
<1> QED BY <1>3, <1>6, <1>7 DEF Takings

\* Two items never share a tag.
LEMMA TagsAreApart ==
    ASSUME NEW l, Listed(l), NEW nx, Logged("or_set", l, nx), NEW s \in 0..Len(l), NEW d,
           d = Replay("or_set", l, s)
    PROVE  \A x, y : x # y => Tags(d, x) \cap Tags(d, y) = {}
<1>0. Len(l) \in Nat /\ "or_set" \in AllKinds
  BY DEF Listed, AllKinds
<1>1. ReplayedAt("or_set", l, s)
  BY <1>0, LogReplays
<1>2. \A x : Tags(d, x) = Tagged(l, s, x)
  BY <1>1 DEF ReplayedAt
<1>3. ASSUME NEW x, NEW y, x # y, NEW t, t \in Tagged(l, s, x), t \in Tagged(l, s, y)
      PROVE  FALSE
  <2>1. PICK n \in 1..s : t = l[n].id /\ l[n].of.value = x
    BY <1>3 DEF Tagged
  <2>2. PICK m \in 1..s : t = l[m].id /\ l[m].of.value = y
    BY <1>3 DEF Tagged
  <2>3. n \in 1..Len(l) /\ m \in 1..Len(l)
    BY <1>0
  <2>4. LogOp("or_set", l, nx, n) /\ LogOp("or_set", l, nx, m)
    BY <2>3 DEF Logged
  <2>5. n # m
    BY <1>3, <2>1, <2>2
  <2>6. m \in 1..n - 1 \/ n \in 1..m - 1
    BY <2>5
  <2> QED BY <2>1, <2>2, <2>4, <2>6 DEF LogOp
<1> QED BY <1>2, <1>3

LEMMA IdsAreOld ==
    ASSUME NEW k, NEW l, Listed(l), NEW nx, Logged(k, l, nx), NEW c, NEW q, q = nx[c],
           NEW n \in 1..Len(l), NEW i, l[n].id = <<c, i>>
    PROVE  i < q
<1>1. l[n].id[2] < nx[l[n].id[1]]
  BY DEF Logged, LogOp
<1>2. l[n].id[1] = c /\ l[n].id[2] = i
  OBVIOUS
<1> QED BY <1>1, <1>2

LEMMA MintKeeps ==
    ASSUME NEW k \in AllKinds, NEW l, Listed(l), NEW nx, Logged(k, l, nx), NEW u, Listed(u),
           NEW c \in Client, NEW q \in Nat, q = nx[c], Waiting(k, l, u, c, q),
           NEW s \in 0..Len(l), NEW ms, Listed(ms), \A n \in 1..Len(ms) : Means(k, ms[n]),
           k = "or_set" => Apart(ms), NEW d, d = Replay(k, l, s),
           NEW g, NEW ops, Drafts(g, ops, k, d, ms, c, q, s, Len(l))
    PROVE  Listed(u \o ops) /\ Waiting(k, l, u \o ops, c, q + Len(ms))
<1> DEFINE N == Len(ms)
           L == Len(l)
           U == Len(u)
           w == u \o ops
<1>0. N \in Nat /\ L \in Nat /\ U \in Nat /\ c \in Nat
  BY ClientAssumption DEF Listed
<1>1. ReplayedAt(k, l, s)
  BY LogReplays
<1>2. IsDoc(k, d) /\ (k = "sequence" => DOMAIN d = Inserted(l, s))
  BY <1>1 DEF ReplayedAt
<1>3. Listed(ops) /\ Len(ops) = N
  BY DEF Drafts
<1>4. /\ Listed(w) /\ Len(w) = U + N
      /\ \A n \in 1..U : w[n] = u[n]
      /\ \A n \in 1..N : w[U + n] = ops[n]
  BY <1>3, ConcatOf
<1> HIDE DEF w, N, U, L
<1>5. k = "sequence" => \A i \in Nat : i >= q => <<c, i>> \notin DOMAIN d
  <2> SUFFICES ASSUME k = "sequence", NEW i \in Nat, i >= q, <<c, i>> \in Inserted(l, s)
               PROVE  FALSE
    BY <1>2
  <2>1. PICK n \in 1..s : l[n].id = <<c, i>>
    BY DEF Inserted
  <2>2. n \in 1..Len(l)
    BY <1>0 DEF L
  <2>3. i < q
    BY <2>1, <2>2, IdsAreOld
  <2> QED BY <2>3
<1>6. \A n \in 0..N : DraftedAt(g, ops, k, d, n)
  <2>1. Len(l) \in Nat
    BY <1>0 DEF L
  <2> QED BY <1>0, <1>2, <1>5, <2>1, DraftsAreDocs DEF N
<1>7. ASSUME NEW n \in 1..N PROVE DraftOp(g, ops, k, d, ms, c, q, s, n)
  <2>1. n - 1 \in 0..N
    BY <1>0
  <2>2. DraftedAt(g, ops, k, d, n - 1)
    BY <1>6, <2>1
  <2>3. n \in 1..Len(ms)
    BY DEF N
  <2> QED BY <2>2, <2>3, DraftOpIs
<1>8. ASSUME k = "or_set", NEW n \in 1..N PROVE Observes(l, ops[n])
  <2>1. \A x, y : x # y => Tags(d, x) \cap Tags(d, y) = {}
    BY <1>8, TagsAreApart
  <2>2. Takings(ops, d, ms)
    <3>1. IsDoc("or_set", d) /\ Apart(ms) /\ \A j \in 1..Len(ms) : Means("or_set", ms[j])
      BY <1>2, <1>8
    <3>2. Drafts(g, ops, "or_set", d, ms, c, q, s, Len(l)) /\ Len(l) \in Nat
      BY <1>0, <1>8 DEF L
    <3> QED BY <1>0, <2>1, <3>1, <3>2, DraftsObserve
  <2>3. ops[n].of = ms[n] /\ ops[n].seen = s
    BY <1>7 DEF DraftOp
  <2>4. Replay("or_set", l, ops[n].seen) = d
    BY <1>8, <2>3
  <2>5. n \in 1..Len(ms)
    BY DEF N
  <2> QED BY <2>2, <2>3, <2>4, <2>5 DEF Observes, Takings
<1>9. ASSUME NEW j \in 1..U PROVE WaitOp(k, l, w, c, q + N, j)
  <2>1. WaitOp(k, l, u, c, q, j)
    BY DEF Waiting, U
  <2>2. j - 1 \in Nat /\ \A m \in 1..j - 1 : m \in 1..U
    BY <1>0
  <2>3. w[j] = u[j] /\ \A m \in 1..j - 1 : w[m] = u[m]
    BY <1>4, <2>2
  <2>4. Inserted(w, j - 1) = Inserted(u, j - 1)
    BY <2>2, <2>3, InsertedSame
  <2>5. u[j].id[2] < q + N
    <3>1. u[j].id \in Client \X Nat /\ u[j].id[2] < q
      BY <2>1 DEF WaitOp
    <3>2. u[j].id[2] \in Nat
      BY <3>1
    <3> DEFINE i == u[j].id[2]
    <3> HIDE DEF i
    <3>3. i \in Nat /\ i < q => i < q + N
      BY <1>0, q \in Nat
    <3> QED BY <3>1, <3>2, <3>3 DEF i
  <2> QED BY <2>1, <2>3, <2>4, <2>5 DEF WaitOp
<1>10. ASSUME NEW n \in 1..N PROVE WaitOp(k, l, w, c, q + N, U + n)
  <2> DEFINE op == ops[n]
             j == U + n
             i == q + n - 1
  <2>1. w[j] = op
    BY <1>4
  <2>2. DraftOp(g, ops, k, d, ms, c, q, s, n)
    BY <1>7
  <2>3. Fits(k, op) /\ op.id = <<c, i>> /\ op.seen = s
    BY <2>2 DEF DraftOp
  <2>4. i \in Nat /\ q <= i /\ i < q + N /\ j - 1 = U + (n - 1) /\ j - 1 \in Nat /\ n - 1 \in Nat
    <3>1. n \in Nat /\ 1 <= n /\ n <= N
      BY <1>0
    <3> QED BY ONLY <1>0, <3>1, q \in Nat
  <2>5. \A m \in 1..L : l[m].id # op.id
    <3> SUFFICES ASSUME NEW m \in 1..L, l[m].id = <<c, i>> PROVE FALSE
      BY <2>3
    <3>1. i < q
      <4>1. m \in 1..Len(l)
        BY DEF L
      <4> HIDE DEF i
      <4> QED BY <4>1, IdsAreOld
    <3> QED BY <2>4, <3>1
  <2>6. \A m \in 1..j - 1 : w[m].id # op.id
    <3> SUFFICES ASSUME NEW m \in 1..j - 1 PROVE w[m].id # <<c, i>>
      BY <2>3
    <3>1. CASE m \in 1..U
      <4>1. w[m] = u[m]
        BY <1>4, <3>1
      <4>2. u[m].id \in Client \X Nat /\ u[m].id[2] < q
        BY <3>1 DEF Waiting, WaitOp, U
      <4> DEFINE o == u[m].id[2]
      <4>3. o \in Nat /\ o < q /\ (u[m].id = <<c, i>> => o = i)
        BY <4>2
      <4> HIDE DEF i, o
      <4>4. o # i
        BY <2>4, <4>3
      <4> QED BY <4>1, <4>3, <4>4
    <3>2. CASE m \notin 1..U
      <4> DEFINE p == m - U
                 o == q + p - 1
      <4>1. p \in 1..N /\ m = U + p /\ p < n
        BY <1>0, <2>4, <3>2
      <4>2. w[m] = ops[p]
        <5> HIDE DEF p
        <5> QED BY <1>4, <4>1
      <4>3. ops[p].id = <<c, o>>
        <5> HIDE DEF p
        <5> QED BY <1>7, <4>1 DEF DraftOp
      <4>4. o # i
        BY <1>0, <4>1
      <4> HIDE DEF o, i
      <4> QED BY <4>2, <4>3, <4>4
    <3> QED BY <3>1, <3>2
  <2>7. k = "sequence" => HangsOn(op, Inserted(l, L) \cup Inserted(w, j - 1))
    <3> SUFFICES ASSUME k = "sequence"
                 PROVE  HangsOn(op, Inserted(l, L) \cup Inserted(w, j - 1))
      OBVIOUS
    <3>1. HangsOn(op, DOMAIN d \cup Inserted(ops, n - 1))
      BY <2>2 DEF DraftOp
    <3>2. DOMAIN d \subseteq Inserted(l, L)
      <4>1. s \in 0..L
        BY DEF L
      <4> QED BY <1>0, <1>2, <4>1, InsertedWithin
    <3>3. Inserted(ops, n - 1) \subseteq Inserted(w, j - 1)
      <4> SUFFICES ASSUME NEW m \in 1..n - 1, ops[m].delta.type = "SequenceInsert"
                   PROVE  ops[m].id \in Inserted(w, j - 1)
        BY DEF Inserted
      <4> DEFINE p == U + m
      <4>1. p \in 1..j - 1 /\ m \in 1..N
        BY <1>0, <2>4
      <4>2. w[p] = ops[m]
        BY <1>4, <4>1
      <4> HIDE DEF p
      <4> QED BY <4>1, <4>2 DEF Inserted
    <3> QED BY <3>1, <3>2, <3>3 DEF HangsOn
  <2>8. k = "or_set" => Observes(l, op)
    BY <1>8
  <2>9. op.id \in Client \X Nat /\ op.id[1] = c /\ op.id[2] < q + N
    BY <2>3, <2>4
  <2> HIDE DEF op, j, i
  <2>10. WaitOp(k, l, w, c, q + N, j)
    BY <2>1, <2>3, <2>5, <2>6, <2>7, <2>8, <2>9 DEF WaitOp, L
  <2> QED BY <2>10 DEF j
<1>11. ASSUME NEW j \in 1..Len(w) PROVE WaitOp(k, l, w, c, q + N, j)
  <2>1. CASE j \in 1..U
    BY <1>9, <2>1
  <2>2. CASE j \notin 1..U
    <3> DEFINE n == j - U
    <3>1. n \in 1..N /\ j = U + n
      BY <1>0, <1>4, <2>2
    <3> HIDE DEF n
    <3> QED BY <1>10, <3>1
  <2> QED BY <2>1, <2>2
<1> QED BY <1>4, <1>11 DEF Waiting, w, N

\* An op's log may grow.
LEMMA ObservesStays ==
    ASSUME NEW l, NEW h, NEW op, op.seen \in Nat, \A m \in 1..op.seen : l[m] = h[m],
           Observes(l, op)
    PROVE  Observes(h, op)
<1>1. Replay("or_set", l, op.seen) = Replay("or_set", h, op.seen)
  BY ReplayOfPrefix
<1> QED BY <1>1 DEF Observes

LEMMA LogOpStays ==
    ASSUME NEW k, NEW l, NEW h, NEW nx, NEW n \in Nat \ {0}, \A m \in 1..n : l[m] = h[m],
           LogOp(k, l, nx, n)
    PROVE  LogOp(k, h, nx, n)
<1>1. n - 1 \in Nat /\ n \in 1..n /\ \A m \in 1..n - 1 : m \in 1..n
  OBVIOUS
<1>2. h[n] = l[n] /\ \A m \in 1..n - 1 : h[m] = l[m]
  BY <1>1
<1>3. Inserted(h, n - 1) = Inserted(l, n - 1)
  BY <1>1, <1>2, InsertedSame
<1>4. k = "or_set" => Observes(h, h[n])
  <2> SUFFICES ASSUME k = "or_set" PROVE Observes(h, l[n])
    BY <1>2
  <2>1. l[n].seen \in 0..n - 1 /\ Observes(l, l[n])
    BY DEF LogOp
  <2>2. l[n].seen \in Nat /\ \A m \in 1..l[n].seen : m \in 1..n - 1
    BY <1>1, <2>1
  <2>3. \A m \in 1..l[n].seen : l[m] = h[m]
    BY <1>2, <2>2
  <2> QED BY <2>1, <2>2, <2>3, ObservesStays
<1> QED BY <1>2, <1>3, <1>4 DEF LogOp

LEMMA LogKeeps ==
    ASSUME NEW k, NEW l, Listed(l), NEW nx, Logged(k, l, nx), NEW u, Listed(u), u # << >>,
           NEW c \in Client, Waiting(k, l, u, c, nx[c]), NEW h, Longer(h, l, Head(u))
    PROVE  Logged(k, h, nx)
<1> DEFINE L == Len(l)
           op == u[1]
<1>1. L \in Nat /\ Len(u) \in Nat \ {0} /\ Head(u) = op
  BY TailOf DEF Listed
<1>2. Len(h) = L + 1 /\ h[L + 1] = op /\ \A m \in 1..L : h[m] = l[m]
  BY <1>1 DEF Longer
<1>3. WaitOp(k, l, u, c, nx[c], 1)
  <2>1. 1 \in 1..Len(u)
    BY <1>1
  <2> QED BY <2>1 DEF Waiting
<1>4. Inserted(u, 0) = {} /\ Inserted(h, L) = Inserted(l, L)
  BY <1>1, <1>2, InsertedMore, InsertedSame
<1>5. ASSUME NEW n \in 1..L PROVE LogOp(k, h, nx, n)
  <2>1. LogOp(k, l, nx, n)
    BY DEF Logged
  <2> HIDE DEF L
  <2>2. n \in Nat \ {0} /\ \A m \in 1..n : m \in 1..L
    BY <1>1
  <2>3. \A m \in 1..n : l[m] = h[m]
    BY <1>2, <2>2
  <2> QED BY <2>1, <2>2, <2>3, LogOpStays
<1>6. LogOp(k, h, nx, L + 1)
  <2>1. /\ Fits(k, op)
        /\ op.id \in Client \X Nat /\ op.id[1] = c /\ op.id[2] < nx[c]
        /\ op.seen \in 0..L
        /\ \A n \in 1..L : l[n].id # op.id
        /\ k = "sequence" => HangsOn(op, Inserted(l, L) \cup Inserted(u, 1 - 1))
        /\ k = "or_set" => Observes(l, op)
    BY <1>3 DEF WaitOp
  <2>2. k = "or_set" => Observes(h, op)
    <3>1. op.seen \in Nat /\ \A m \in 1..op.seen : m \in 1..L
      BY <1>1, <2>1
    <3>2. \A m \in 1..op.seen : l[m] = h[m]
      BY <1>2, <3>1
    <3> HIDE DEF op, L
    <3> QED BY <2>1, <3>1, <3>2, ObservesStays
  <2> DEFINE N == L + 1
  <2>3. N - 1 = L /\ 1 - 1 = 0
    BY <1>1
  <2> HIDE DEF op, L, N
  <2>4. h[N] = op
    BY <1>2 DEF N
  <2>5. op.id[2] < nx[op.id[1]]
    BY <2>1
  <2>6. op.seen \in 0..N - 1 /\ \A m \in 1..N - 1 : h[m].id # op.id
    BY <1>2, <2>1, <2>3
  <2>7. k = "sequence" => HangsOn(op, Inserted(h, N - 1))
    BY <1>4, <2>1, <2>3
  <2>8. LogOp(k, h, nx, N)
    BY <2>1, <2>2, <2>4, <2>5, <2>6, <2>7 DEF LogOp
  <2> QED BY <2>8 DEF N
<1>7. \A n \in 1..Len(h) : n \in 1..L \/ n = L + 1
  BY <1>1, <1>2
<1> QED BY <1>5, <1>6, <1>7 DEF Logged

\* What waits still does, when another's op is logged ...
LEMMA OthersWait ==
    ASSUME NEW k, NEW l, Listed(l), NEW op, NEW h, Longer(h, l, op),
           NEW c, NEW q, op.id[1] # c, NEW u, Waiting(k, l, u, c, q)
    PROVE  Waiting(k, h, u, c, q)
<1> DEFINE L == Len(l)
<1>1. L \in Nat
  BY DEF Listed
<1>2. Len(h) = L + 1 /\ h[L + 1] = op /\ \A m \in 1..L : h[m] = l[m]
  BY DEF Longer
<1> HIDE DEF L
<1>3. Inserted(l, L) \subseteq Inserted(h, Len(h))
  <2>1. Inserted(h, L) = Inserted(l, L)
    BY <1>1, <1>2, InsertedSame
  <2>2. L \in 0..Len(h) /\ Len(h) \in Nat
    BY <1>1, <1>2
  <2> QED BY <2>1, <2>2, InsertedWithin
<1>4. ASSUME NEW j \in 1..Len(u) PROVE WaitOp(k, h, u, c, q, j)
  <2> DEFINE o == u[j]
  <2>1. /\ Fits(k, o)
        /\ o.id \in Client \X Nat /\ o.id[1] = c /\ o.id[2] < q
        /\ o.seen \in 0..L
        /\ \A n \in 1..L : l[n].id # o.id
        /\ \A i \in 1..j - 1 : u[i].id # o.id
        /\ k = "sequence" => HangsOn(o, Inserted(l, L) \cup Inserted(u, j - 1))
        /\ k = "or_set" => Observes(l, o)
    BY DEF Waiting, WaitOp, L
  <2> HIDE DEF o
  <2>2. o.seen \in 0..Len(h) /\ o.seen \in Nat /\ \A m \in 1..o.seen : m \in 1..L
    BY <1>1, <1>2, <2>1
  <2>3. \A n \in 1..Len(h) : h[n].id # o.id
    <3>1. \A n \in 1..Len(h) : n \in 1..L \/ n = L + 1
      BY <1>1, <1>2
    <3> QED BY <1>2, <2>1, <3>1
  <2>4. k = "sequence" => HangsOn(o, Inserted(h, Len(h)) \cup Inserted(u, j - 1))
    BY <1>3, <2>1 DEF HangsOn
  <2>5. k = "or_set" => Observes(h, o)
    <3>1. \A m \in 1..o.seen : l[m] = h[m]
      BY <1>2, <2>2
    <3> QED BY <2>1, <2>2, <3>1, ObservesStays
  <2> QED BY <2>1, <2>2, <2>3, <2>4, <2>5 DEF WaitOp, o
<1> QED BY <1>4 DEF Waiting

\* ... and when its own first op is.
LEMMA RestWaits ==
    ASSUME NEW k, NEW l, Listed(l), NEW c, NEW q, NEW u, Listed(u), u # << >>,
           Waiting(k, l, u, c, q), NEW h, Longer(h, l, Head(u)), NEW v,
           Len(v) = Len(u) - 1, \A j \in 1..Len(u) - 1 : v[j] = u[j + 1]
    PROVE  Waiting(k, h, v, c, q)
<1> DEFINE L == Len(l)
           U == Len(u)
<1>1. L \in Nat /\ U \in Nat \ {0} /\ Head(u) = u[1]
  BY TailOf DEF Listed
<1>2. Len(h) = L + 1 /\ h[L + 1] = u[1] /\ \A m \in 1..L : h[m] = l[m]
  BY <1>1 DEF Longer
<1>3. Inserted(h, Len(h)) = Inserted(l, L) \cup
        (IF u[1].delta.type = "SequenceInsert" THEN {u[1].id} ELSE {})
  <2>1. Inserted(h, L) = Inserted(l, L)
    BY <1>1, <1>2, InsertedSame
  <2> QED BY <1>1, <1>2, <2>1, InsertedMore
<1> HIDE DEF L
<1>4. ASSUME NEW j \in 1..U - 1 PROVE WaitOp(k, h, v, c, q, j)
  <2> DEFINE i == j + 1
             o == u[i]
  <2>0. i \in 1..U /\ i - 1 = j /\ j \in Nat /\ \A m \in 1..j - 1 : m + 1 \in 1..j /\ m \in 1..U - 1
    BY <1>1
  <2>1. /\ Fits(k, o)
        /\ o.id \in Client \X Nat /\ o.id[1] = c /\ o.id[2] < q
        /\ o.seen \in 0..L
        /\ \A n \in 1..L : l[n].id # o.id
        /\ \A m \in 1..j : u[m].id # o.id
        /\ k = "sequence" => HangsOn(o, Inserted(l, L) \cup Inserted(u, j))
        /\ k = "or_set" => Observes(l, o)
    <3>1. WaitOp(k, l, u, c, q, i)
      BY <2>0 DEF Waiting
    <3> HIDE DEF i
    <3> QED BY <2>0, <3>1 DEF WaitOp, L
  <2>2. v[j] = o
    OBVIOUS
  <2>3. \A m \in 1..j - 1 : v[m] = u[m + 1]
    BY <2>0
  <2> HIDE DEF o, i
  <2>4. o.seen \in 0..Len(h) /\ o.seen \in Nat /\ \A m \in 1..o.seen : m \in 1..L
    BY <1>1, <1>2, <2>1
  <2>5. \A n \in 1..Len(h) : h[n].id # o.id
    <3>1. \A n \in 1..Len(h) : n \in 1..L \/ n = L + 1
      BY <1>1, <1>2
    <3>2. 1 \in 1..j
      BY <2>0
    <3> QED BY <1>2, <2>1, <3>1, <3>2
  <2>6. \A m \in 1..j - 1 : v[m].id # o.id
    BY <2>0, <2>1, <2>3
  <2>7. k = "sequence" => HangsOn(o, Inserted(h, Len(h)) \cup Inserted(v, j - 1))
    <3>1. Inserted(u, j) \subseteq Inserted(h, Len(h)) \cup Inserted(v, j - 1)
      <4> SUFFICES ASSUME NEW m \in 1..j, u[m].delta.type = "SequenceInsert"
                   PROVE  u[m].id \in Inserted(h, Len(h)) \cup Inserted(v, j - 1)
        BY DEF Inserted
      <4>1. CASE m = 1
        BY <1>3, <4>1
      <4>2. CASE m # 1
        <5> DEFINE p == m - 1
        <5>1. p \in 1..j - 1 /\ p + 1 = m
          BY <2>0, <4>2
        <5> HIDE DEF p
        <5>2. v[p] = u[m]
          BY <2>3, <5>1
        <5> QED BY <5>1, <5>2 DEF Inserted
      <4> QED BY <4>1, <4>2
    <3> QED BY <1>3, <2>1, <3>1 DEF HangsOn
  <2>8. k = "or_set" => Observes(h, o)
    <3>1. \A m \in 1..o.seen : l[m] = h[m]
      BY <1>2, <2>4
    <3> QED BY <2>1, <2>4, <3>1, ObservesStays
  <2> QED BY <2>1, <2>2, <2>4, <2>5, <2>6, <2>7, <2>8 DEF WaitOp
<1> QED BY <1>4 DEF Waiting

\* A client that minted more has the same behind it.
LEMMA LoggedStays ==
    ASSUME NEW k, NEW l, NEW nx, Logged(k, l, nx), NEW ny,
           \A c \in Client : nx[c] \in Nat /\ ny[c] \in Nat /\ nx[c] <= ny[c]
    PROVE  Logged(k, l, ny)
<1>1. ASSUME NEW n \in 1..Len(l) PROVE LogOp(k, l, ny, n)
  <2> DEFINE c == l[n].id[1]
             i == l[n].id[2]
  <2>1. LogOp(k, l, nx, n)
    BY DEF Logged
  <2>2. c \in Client /\ i \in Nat /\ i < nx[c]
    BY <2>1 DEF LogOp
  <2>3. i < ny[c]
    <3>1. nx[c] \in Nat /\ ny[c] \in Nat /\ nx[c] <= ny[c]
      BY <2>2
    <3> HIDE DEF c, i
    <3> QED BY <2>2, <3>1
  <2> QED BY <2>1, <2>3 DEF LogOp
<1> QED BY <1>1 DEF Logged

-----------------------------------------------------------------------------
(* The state of a client.                                                  *)

\* The document d of client c is the log l up to a, and what it has minted,
\* shipped or not, waits in order.
Held(k, l, d, a, q, w, n, c) ==
    /\ a \in 0..Len(l) /\ n \in Nat /\ Listed(q) /\ Listed(w)
    /\ c \notin Holder => q = << >>
    /\ d = Replay(k, l, a)
    /\ Waiting(k, l, w \o q, c, n)

LEMMA HeldMints ==
    ASSUME NEW k \in AllKinds, NEW l, Listed(l), NEW nx, Logged(k, l, nx), NEW c \in Client,
           NEW d, NEW a, NEW q, NEW w, Held(k, l, d, a, q, w, nx[c], c),
           NEW ms, Listed(ms), \A n \in 1..Len(ms) : Means(k, ms[n]),
           k = "or_set" => Apart(ms),
           NEW g, NEW ops, Drafts(g, ops, k, d, ms, c, nx[c], a, Len(l))
    PROVE  /\ c \in Holder => Held(k, l, d, a, q \o ops, w, nx[c] + Len(ms), c)
           /\ c \notin Holder => Held(k, l, d, a, q, w \o ops, nx[c] + Len(ms), c)
<1> DEFINE u == w \o q
           i == nx[c]
           N == Len(ms)
<1>1. i \in Nat /\ N \in Nat /\ i + N \in Nat
  BY DEF Held, Listed
<1>2. Listed(q) /\ Listed(w) /\ a \in 0..Len(l) /\ Waiting(k, l, u, c, i) /\ d = Replay(k, l, a)
  BY DEF Held
<1>3. Listed(u)
  BY <1>2, ConcatOf
<1>4. Listed(ops)
  BY DEF Drafts
<1> HIDE DEF u, N
<1>5. Listed(u \o ops) /\ Waiting(k, l, u \o ops, c, i + N)
  BY <1>1, <1>2, <1>3, MintKeeps DEF N
<1>6. u \o ops = w \o (q \o ops) /\ Listed(q \o ops) /\ Listed(w \o ops)
  <2>1. Listed(q \o ops)
    BY <1>2, <1>4, ConcatOf
  <2>2. Listed(w \o ops)
    BY <1>2, <1>4, ConcatOf
  <2>3. w \o (q \o ops) = (w \o q) \o ops
    BY <1>2, <1>4, OneAfterOther, SMTT(40)
  <2> QED BY <2>1, <2>2, <2>3 DEF u
<1>7. c \notin Holder => (w \o ops) \o q = u \o ops
  <2> SUFFICES ASSUME c \notin Holder PROVE (w \o ops) \o q = u \o ops
    OBVIOUS
  <2>1. q = << >>
    BY DEF Held
  <2>2. u = w /\ (w \o ops) \o q = w \o ops
    BY <1>2, <1>6, <2>1, NothingMore DEF u
  <2> QED BY <2>2
<1> HIDE DEF i
<1>8. ASSUME c \in Holder PROVE Held(k, l, d, a, q \o ops, w, i + N, c)
  BY <1>1, <1>2, <1>5, <1>6, <1>8 DEF Held
<1>9. ASSUME c \notin Holder PROVE Held(k, l, d, a, q, w \o ops, i + N, c)
  <2>1. q = << >>
    BY <1>9 DEF Held
  <2> QED BY <1>1, <1>2, <1>5, <1>6, <1>7, <1>9, <2>1 DEF Held
<1> QED BY <1>8, <1>9 DEF i, N

LEMMA HeldShips ==
    ASSUME NEW k, NEW l, NEW c, NEW d, NEW a, NEW q, NEW w, NEW n, Held(k, l, d, a, q, w, n, c)
    PROVE  Held(k, l, d, a, << >>, w \o q, n, c)
<1>1. Listed(q) /\ Listed(w)
  BY DEF Held
<1>2. Listed(w \o q) /\ Listed(<< >>)
  BY <1>1, ConcatOf, NothingMore
<1>3. (w \o q) \o << >> = w \o q
  BY <1>2, NothingMore
<1> QED BY <1>2, <1>3 DEF Held

LEMMA HeldCatchesUp ==
    ASSUME NEW k, NEW l, NEW c, NEW d, NEW a, NEW q, NEW w, NEW n, Held(k, l, d, a, q, w, n, c),
           NEW b \in 0..Len(l), NEW e, e = Replay(k, l, b)
    PROVE  Held(k, l, e, b, q, w, n, c)
  BY DEF Held

\* op is the first of w, and r the rest.
Begins(w, op, r) == w # << >> /\ op = Head(w) /\ r = Tail(w)

\* An op of c fits and is the last of the log h.
Lasts(k, h, nx, c, op) == Logged(k, h, nx) /\ Fits(k, op) /\ op.id[1] = c

LEMMA HeldLogs ==
    ASSUME NEW k, NEW l, Listed(l), NEW nx, Logged(k, l, nx), NEW c \in Client,
           NEW i, i = nx[c], NEW d, NEW a, NEW q, NEW w, Held(k, l, d, a, q, w, i, c),
           NEW op, NEW r, Begins(w, op, r), NEW h, Longer(h, l, op)
    PROVE  Held(k, h, d, a, q, r, i, c) /\ Lasts(k, h, nx, c, op)
<1> USE DEF Begins
<1> DEFINE u == w \o q
           v == Tail(w) \o q
           L == Len(l)
<1>1. /\ a \in 0..L /\ i \in Nat /\ Listed(q) /\ Listed(w) /\ (c \notin Holder => q = << >>)
      /\ d = Replay(k, l, a) /\ Waiting(k, l, u, c, i)
  BY DEF Held
<1>2. Listed(u) /\ u # << >> /\ Head(u) = Head(w) /\ Len(v) = Len(u) - 1
      /\ \A n \in 1..Len(u) - 1 : v[n] = u[n + 1]
  BY <1>1, TailFirst
<1>3. Listed(Tail(w))
  BY <1>1, TailOf
<1> HIDE DEF u, v
<1>4. Longer(h, l, Head(u))
  BY <1>2
<1>5. Waiting(k, h, v, c, i)
  BY <1>1, <1>2, <1>4, RestWaits
<1>6. Logged(k, h, nx)
  BY <1>1, <1>2, <1>4, LogKeeps
<1>7. L \in Nat /\ Len(h) = L + 1 /\ \A m \in 1..L : h[m] = l[m]
  BY DEF Longer, Listed
<1>8. a \in 0..Len(h) /\ d = Replay(k, h, a)
  <2>1. a \in Nat /\ a \in 0..Len(h) /\ \A m \in 1..a : m \in 1..L
    BY <1>1, <1>7
  <2>2. \A m \in 1..a : l[m] = h[m]
    BY <1>7, <2>1
  <2> QED BY <1>1, <2>1, <2>2, ReplayOfPrefix
<1>9. Held(k, h, d, a, q, Tail(w), i, c)
  BY <1>1, <1>3, <1>5, <1>8 DEF Held, v
<1>10. Fits(k, Head(u)) /\ Head(u).id[1] = c
  <2>1. 1 \in 1..Len(u) /\ Head(u) = u[1]
    BY <1>2, TailOf
  <2> QED BY <1>1, <2>1 DEF Waiting, WaitOp
<1> QED BY <1>2, <1>6, <1>9, <1>10 DEF Lasts

LEMMA HeldStays ==
    ASSUME NEW k, NEW l, Listed(l), NEW c, NEW d, NEW a, NEW q, NEW w, NEW n,
           Held(k, l, d, a, q, w, n, c), NEW op, op.id[1] # c, NEW h, Longer(h, l, op)
    PROVE  Held(k, h, d, a, q, w, n, c)
<1> DEFINE L == Len(l)
<1>1. /\ a \in 0..L /\ d = Replay(k, l, a) /\ Waiting(k, l, w \o q, c, n)
  BY DEF Held
<1>2. L \in Nat /\ Len(h) = L + 1 /\ \A m \in 1..L : h[m] = l[m]
  BY DEF Longer, Listed
<1>3. a \in 0..Len(h) /\ d = Replay(k, h, a)
  <2>1. a \in Nat /\ a \in 0..Len(h) /\ \A m \in 1..a : m \in 1..L
    BY <1>1, <1>2
  <2>2. \A m \in 1..a : l[m] = h[m]
    BY <1>2, <2>1
  <2> QED BY <1>1, <2>1, <2>2, ReplayOfPrefix
<1>4. Waiting(k, h, w \o q, c, n)
  BY <1>1, OthersWait
<1> QED BY <1>3, <1>4 DEF Held

-----------------------------------------------------------------------------
(* The invariant.                                                          *)

Typed ==
    /\ kind \in AllKinds /\ Listed(log)
    /\ joined \subseteq Client /\ Holder \subseteq joined
    /\ DOMAIN doc = Client /\ DOMAIN applied = Client /\ DOMAIN queue = Client
    /\ DOMAIN wire = Client /\ DOMAIN next = Client
    /\ DOMAIN comp = Holder /\ DOMAIN changed = Holder /\ DOMAIN at = Holder
    /\ DOMAIN edited = Holder /\ DOMAIN meant = Holder /\ DOMAIN mixed = Holder

Kept(c) == Held(kind, log, doc[c], applied[c], queue[c], wire[c], next[c], c)

Kin == Typed /\ Logged(kind, log, next)

RecordFollows == Recorded(kind, record, Replay(kind, log, Len(log)))

AllKept == \A c \in Client : Kept(c)

AllShown == \A c \in Holder : Shown(kind, comp[c])

Core == Kin /\ RecordFollows /\ AllKept /\ AllShown

LEMMA FreshShows ==
    ASSUME NEW k \in AllKinds
    PROVE  Shown(k, Fresh(k))
<1>1. Listed(<< >>)
  BY DEF Listed
<1>2. 0 \in 0..Wrap - 1 /\ 0 \in Int
  BY SchemaAssumption
<1>3. CASE k = "lww"
  BY <1>3 DEF Fresh, Shown, Values
<1>4. CASE k = "or_set"
  BY <1>4 DEF Fresh, Shown
<1>5. CASE k \in {"counter", "narrow"}
  BY <1>2, <1>5 DEF Fresh, Shown
<1>6. CASE k \in {"sequence", "tree"}
  BY <1>1, <1>6 DEF Fresh, Shown
<1>7. CASE k = "map"
  BY <1>7, EmptyMapIs DEF Fresh, Shown
<1> QED BY <1>3, <1>4, <1>5, <1>6, <1>7 DEF AllKinds

LEMMA InitCore == Init => Core
<1> SUFFICES ASSUME Init PROVE Core
  OBVIOUS
<1>1. kind \in AllKinds
  BY KindAssumption DEF Init, AllKinds
<1>2. Listed(<< >>) /\ Len(<< >>) = 0 /\ log = << >>
  BY DEF Init, Listed
<1>3. Typed
  BY <1>1, <1>2, ClientAssumption DEF Init, Typed
<1>4. Logged(kind, log, next)
  BY <1>2 DEF Logged
<1>5. Replay(kind, log, 0) = Bottom(kind)
  BY ReplaySteps
<1>6. RecordFollows
  <2>1. record = EmptyMap
    BY DEF Init
  <2> DEFINE m == EmptyMap
  <2>2. DOMAIN m = {}
    BY EmptyMapIs
  <2>3. m = [p \in DOMAIN m |-> [kind |-> m[p].kind, state |-> m[p].state]]
    BY DEF EmptyMap
  <2>4. Hydrated(kind, m) = Bottom(kind)
    <3>1. CASE kind = "map"
      <4>1. Hydrated(kind, m) = [k \in {} |-> m[<<k>>].state]
        BY <2>2, <3>1 DEF Hydrated
      <4>2. Bottom(kind) = EmptyMap
        BY <3>1 DEF Bottom
      <4> QED BY <4>1, <4>2 DEF EmptyMap
    <3>2. CASE kind # "map"
      BY <2>2, <3>2 DEF Hydrated
    <3> QED BY <3>1, <3>2
  <2> HIDE DEF m
  <2>5. Recorded(kind, m, Bottom(kind))
    BY <2>2, <2>3, <2>4, Zenon DEF Recorded
  <2> QED BY <1>2, <1>5, <2>1, <2>5 DEF RecordFollows, m
<1>7. ASSUME NEW c \in Client PROVE Kept(c)
  <2>1. /\ doc[c] = Bottom(kind) /\ applied[c] = 0
        /\ queue[c] = << >> /\ wire[c] = << >> /\ next[c] = 0
    BY DEF Init
  <2>2. << >> \o << >> = << >>
    BY <1>2, NothingMore
  <2>3. Waiting(kind, log, << >> \o << >>, c, 0)
    BY <1>2, <2>2 DEF Waiting
  <2>4. 0 \in 0..Len(log) /\ 0 \in Nat
    BY <1>2
  <2> QED BY <1>2, <1>5, <2>1, <2>3, <2>4 DEF Kept, Held
<1>8. AllShown
  BY <1>1, FreshShows DEF AllShown, Init
<1> QED BY <1>3, <1>4, <1>6, <1>7, <1>8 DEF Core, Kin, AllKept

\* A step that only touches the components.
LEMMA EditKeeps ==
    ASSUME Core, NEW c \in Holder, UserEdit(c)
    PROVE  Core'
<1>1. UNCHANGED <<kind, log, record, doc, joined, applied, queue, wire, next, at, mixed>>
  BY DEF UserEdit
<1>2. Typed'
  BY <1>1 DEF Core, Kin, Typed, UserEdit
<1>3. Kin' /\ RecordFollows' /\ AllKept'
  BY <1>1, <1>2 DEF Core, Kin, RecordFollows, AllKept, Kept
<1>4. PICK value \in Edits(c) : comp' = [comp EXCEPT ![c] = value]
  BY DEF UserEdit
<1>5. DOMAIN comp = Holder /\ kind \in AllKinds /\ Shown(kind, comp[c])
  BY DEF Core, Kin, Typed, AllShown
<1>6. Shown(kind, value)
  <2>1. CASE kind = "lww"
    BY <1>4, <2>1 DEF Edits, Shown, Values
  <2>2. CASE kind = "or_set"
    BY <1>4, <2>2 DEF Edits, Shown
  <2>3. CASE kind = "counter"
    <3>1. comp[c] \in Int
      BY <1>5, <2>3 DEF Shown
    <3>2. value \in {comp[c] - 1, comp[c] + 1}
      BY <1>4, <2>3 DEF Edits
    <3>3. value \in Int
      BY <3>1, <3>2
    <3> QED BY <2>3, <3>3 DEF Shown
  <2>4. CASE kind = "narrow"
    <3>1. value \in 0..Wrap - 1
      BY <1>4, <2>4 DEF Edits
    <3> QED BY <2>4, <3>1 DEF Shown
  <2>5. CASE kind = "sequence"
    <3>1. value \in UNION {[1..m -> Items] : m \in 0..2}
      BY <1>4, <2>5 DEF Edits, SeqOf
    <3>2. PICK m \in 0..2 : value \in [1..m -> Items]
      BY <3>1
    <3>3. value \in Seq(Items)
      BY <3>2
    <3>4. Listed(value)
      BY <3>3, ListedOf
    <3> QED BY <2>5, <3>4 DEF Shown
  <2>6. CASE kind = "map"
    <3>1. PICK K \in SUBSET Items : value \in [K -> Items]
      BY <1>4, <2>6 DEF Edits
    <3> QED BY <2>6, <3>1 DEF Shown, Values
  <2>7. CASE kind = "tree"
    BY <1>4, <2>7 DEF Edits
  <2> QED BY <1>5, <2>1, <2>2, <2>3, <2>4, <2>5, <2>6, <2>7 DEF AllKinds
<1>7. AllShown'
  <2>1. \A e \in Holder : comp'[e] = IF e = c THEN value ELSE comp[e]
    BY <1>4, <1>5
  <2>2. \A e \in Holder : Shown(kind, comp[e])
    BY DEF Core, AllShown
  <2>3. \A e \in Holder : Shown(kind, comp'[e])
    BY <1>6, <2>1, <2>2
  <2> QED BY <1>1, <2>3 DEF AllShown
<1> QED BY <1>3, <1>7 DEF Core

\* What a diff asks for is meant, and names different items.
LEMMA AskedIs ==
    ASSUME Core, NEW c \in Holder, NEW ms,
           ms = IF changed[c] THEN diff(kind, doc[c], comp[c]) ELSE << >>
    PROVE  /\ Listed(ms) /\ \A n \in 1..Len(ms) : Means(kind, ms[n])
           /\ kind = "or_set" => Apart(ms)
<1>1. kind \in AllKinds /\ Shown(kind, comp[c]) /\ c \in Client
  BY ClientAssumption DEF Core, Kin, Typed, AllShown
<1>2. IsDoc(kind, doc[c])
  <2>1. Kept(c) /\ Listed(log) /\ Logged(kind, log, next)
    BY <1>1 DEF Core, AllKept, Kin, Typed
  <2>2. applied[c] \in 0..Len(log) /\ doc[c] = Replay(kind, log, applied[c])
    BY <2>1 DEF Kept, Held
  <2>3. ReplayedAt(kind, log, applied[c])
    BY <1>1, <2>1, <2>2, LogReplays
  <2> QED BY <2>2, <2>3 DEF ReplayedAt
<1>3. CASE changed[c]
  <2> DEFINE d == doc[c]
             v == comp[c]
  <2>1. ms = diff(kind, d, v)
    BY <1>3
  <2> HIDE DEF d, v
  <2>2. IsDiff(kind, d, v, ms)
    BY <1>1, <1>2, <2>1, DiffIs DEF d, v
  <2> QED BY <2>2 DEF IsDiff, Asks, Apart
<1>4. CASE ~changed[c]
  <2>1. ms = << >>
    BY <1>4
  <2>2. Listed(ms) /\ 1..Len(ms) = {}
    BY <2>1 DEF Listed
  <2> QED BY <2>2 DEF Apart
<1> QED BY <1>3, <1>4

LEMMA DetectKeeps ==
    ASSUME Core, NEW c \in Holder, detect_local_changes(c)
    PROVE  Core'
<1> DEFINE ms == IF changed[c] THEN diff(kind, doc[c], comp[c]) ELSE << >>
           N == Len(ms)
           ops == Ops(c, ms)
<1>1. UNCHANGED <<kind, log, record, doc, joined, applied, wire, comp, edits, meant>>
  BY DEF detect_local_changes
<1>2. /\ queue' = [queue EXCEPT ![c] = @ \o ops]
      /\ next' = [next EXCEPT ![c] = @ + N]
  BY DEF detect_local_changes
<1>3. Typed'
  BY <1>1, <1>2 DEF Core, Kin, Typed, detect_local_changes
<1>4. /\ Listed(ms) /\ \A n \in 1..Len(ms) : Means(kind, ms[n])
      /\ kind = "or_set" => Apart(ms)
  <2> HIDE DEF ms
  <2> QED BY AskedIs DEF ms
<1> HIDE DEF ms
<1>5. c \in Client /\ DOMAIN queue = Client /\ DOMAIN next = Client /\ N \in Nat
      /\ kind \in AllKinds /\ Listed(log) /\ Logged(kind, log, next)
  BY <1>4, ClientAssumption DEF Core, Kin, Typed, Listed
<1>6. PICK g : Drafts(g, ops, kind, doc[c], ms, c, next[c], applied[c], Len(log))
  BY <1>4, OpsAreDrafted
<1> HIDE DEF ops
<1>7. Kept(c)'
  <2>1. Held(kind, log, doc[c], applied[c], queue[c], wire[c], next[c], c)
    BY <1>5 DEF Core, AllKept, Kept
  <2>2. Held(kind, log, doc[c], applied[c], queue[c] \o ops, wire[c], next[c] + Len(ms), c)
    <3> DEFINE d == doc[c]
               a == applied[c]
               q == queue[c]
               w == wire[c]
    <3>1. Held(kind, log, d, a, q, w, next[c], c)
          /\ Drafts(g, ops, kind, d, ms, c, next[c], a, Len(log))
      BY <1>6, <2>1
    <3> HIDE DEF d, a, q, w
    <3>2. /\ c \in Holder => Held(kind, log, d, a, q \o ops, w, next[c] + Len(ms), c)
          /\ c \notin Holder => Held(kind, log, d, a, q, w \o ops, next[c] + Len(ms), c)
      BY <1>4, <1>5, <3>1, HeldMints
    <3> QED BY <3>2 DEF d, a, q, w
  <2>3. queue'[c] = queue[c] \o ops /\ next'[c] = next[c] + Len(ms)
    BY <1>2, <1>5
  <2> QED BY <1>1, <2>2, <2>3 DEF Kept
<1>8. ASSUME NEW e \in Client, e # c PROVE Kept(e)'
  <2>1. queue'[e] = queue[e] /\ next'[e] = next[e] /\ Kept(e)
    BY <1>2, <1>5, <1>8 DEF Core, AllKept
  <2> QED BY <1>1, <2>1 DEF Kept
<1>9. Logged(kind, log, next')
  <2>1. ASSUME NEW e \in Client
        PROVE  next[e] \in Nat /\ next'[e] \in Nat /\ next[e] <= next'[e]
    <3>1. next[e] \in Nat
      BY DEF Core, AllKept, Kept, Held
    <3>2. next'[e] = IF e = c THEN next[e] + N ELSE next[e]
      BY <1>2, <1>5
    <3> HIDE DEF N
    <3> QED BY <1>5, <3>1, <3>2
  <2> QED BY <1>5, <2>1, LoggedStays
<1>10. Kin'
  BY <1>1, <1>3, <1>9 DEF Kin
<1>11. RecordFollows' /\ AllShown'
  BY <1>1 DEF Core, RecordFollows, AllShown
<1>12. AllKept'
  BY <1>7, <1>8 DEF AllKept
<1> QED BY <1>10, <1>11, <1>12 DEF Core

\* What a client has caught up to is the log, replayed that far.
LEMMA CaughtIsReplayed ==
    ASSUME NEW c, NEW n \in applied[c]..Len(log), applied[c] \in Nat, Len(log) \in Nat,
           doc[c] = Replay(kind, log, applied[c])
    PROVE  Caught(c, n) = Replay(kind, log, n)
<1> DEFINE a == applied[c]
           m == n - a
           d == doc[c]
<1>1. a \in Nat /\ m \in Nat /\ a + m = n
  OBVIOUS
<1>2. Caught(c, n) = Folded(kind, log, d, a, m)
  BY DEF Caught, Folded
<1> HIDE DEF m, d
<1>3. Folded(kind, log, d, a, m) = Replay(kind, log, a + m)
  BY <1>1, ReplayOn DEF d
<1> QED BY <1>1, <1>2, <1>3

\* What every client's document is, of the log.
LEMMA DocsAreDocs ==
    ASSUME Core, NEW c \in Client
    PROVE  /\ applied[c] \in 0..Len(log) /\ Len(log) \in Nat
           /\ doc[c] = Replay(kind, log, applied[c])
           /\ \A n \in 0..Len(log) : ReplayedAt(kind, log, n)
<1>1. kind \in AllKinds /\ Listed(log) /\ Logged(kind, log, next) /\ Kept(c)
  BY DEF Core, Kin, Typed, AllKept
<1> QED BY <1>1, LogReplays DEF Kept, Held, Listed

LEMMA IntegrateKeeps ==
    ASSUME Core, NEW c \in Holder, Integrate(c)
    PROVE  Core'
<1>1. UNCHANGED <<kind, log, record, joined, next, edits, edited, meant>>
  BY DEF Integrate
<1>2. PICK n \in applied[c]..Len(log), other \in BOOLEAN :
        /\ doc' = [doc EXCEPT ![c] = Caught(c, n)]
        /\ applied' = [applied EXCEPT ![c] = n]
        /\ comp' = [comp EXCEPT ![c] = Projected(c, n, other)]
        /\ changed' = [changed EXCEPT ![c] = @ \/ Stirred(c, n, other)]
        /\ mixed' = [mixed EXCEPT ![c] = @ \/ (edited[c] /\ Stirred(c, n, other))]
  BY DEF Integrate
<1>3. /\ wire' = [wire EXCEPT ![c] = @ \o queue[c]]
      /\ queue' = [queue EXCEPT ![c] = << >>]
      /\ at' = [at EXCEPT ![c] = "idle"]
  BY DEF Integrate
<1>4. Typed'
  BY <1>1, <1>2, <1>3 DEF Core, Kin, Typed
<1>5. c \in Client /\ Typed /\ kind \in AllKinds
  BY ClientAssumption DEF Core, Kin, Typed
<1>6. applied[c] \in Nat /\ n \in 0..Len(log) /\ doc[c] = Replay(kind, log, applied[c])
  BY <1>5, DocsAreDocs
<1>7. Caught(c, n) = Replay(kind, log, n)
  BY <1>5, <1>6, DocsAreDocs, CaughtIsReplayed
<1>8. Kept(c)'
  <2> DEFINE e == Caught(c, n)
             q == queue[c]
             w == wire[c]
             i == next[c]
  <2>1. Held(kind, log, doc[c], applied[c], q, w, i, c)
    BY <1>5 DEF Core, AllKept, Kept
  <2>2. doc'[c] = e /\ applied'[c] = n /\ queue'[c] = << >> /\ wire'[c] = w \o q
    BY <1>2, <1>3, <1>5 DEF Typed
  <2>3. e = Replay(kind, log, n)
    BY <1>7
  <2> HIDE DEF e, q, w, i
  <2>4. Held(kind, log, e, n, q, w, i, c)
    BY <1>6, <2>1, <2>3, HeldCatchesUp
  <2>5. Held(kind, log, e, n, << >>, w \o q, i, c)
    BY <2>4, HeldShips
  <2> QED BY <1>1, <2>2, <2>5 DEF Kept, i
<1>9. ASSUME NEW e \in Client, e # c PROVE Kept(e)'
  <2>1. /\ doc'[e] = doc[e] /\ applied'[e] = applied[e] /\ queue'[e] = queue[e]
        /\ wire'[e] = wire[e] /\ Kept(e)
    BY <1>2, <1>3, <1>5, <1>9 DEF Core, AllKept, Typed
  <2> QED BY <1>1, <2>1 DEF Kept
<1>10. Shown(kind, Projected(c, n, other))
  <2>1. Shown(kind, comp[c])
    BY DEF Core, AllShown
  <2>2. IsDoc(kind, Caught(c, n))
    BY <1>5, <1>6, <1>7, DocsAreDocs DEF ReplayedAt
  <2>3. Shown(kind, project_to(kind, Caught(c, n), comp[c]))
    <3> DEFINE d == Caught(c, n)
               v == comp[c]
    <3>1. IsDoc(kind, d) /\ Shown(kind, v)
      BY <2>1, <2>2
    <3> HIDE DEF d, v
    <3>2. Shown(kind, project_to(kind, d, v))
      BY <1>5, <3>1, ProjectShows
    <3> QED BY <3>2 DEF d, v
  <2> QED BY <2>1, <2>3 DEF Projected
<1>11. AllShown'
  <2>1. \A e \in Holder : comp'[e] = IF e = c THEN Projected(c, n, other) ELSE comp[e]
    BY <1>2, <1>5 DEF Typed
  <2>2. \A e \in Holder : Shown(kind, comp[e])
    BY DEF Core, AllShown
  <2>3. \A e \in Holder : Shown(kind, comp'[e])
    BY <1>10, <2>1, <2>2
  <2> QED BY <1>1, <2>3 DEF AllShown
<1>12. Kin' /\ RecordFollows'
  BY <1>1, <1>4 DEF Core, Kin, RecordFollows
<1>13. AllKept'
  BY <1>8, <1>9 DEF AllKept
<1> QED BY <1>11, <1>12, <1>13 DEF Core

\* A mutation by hand is meant.
LEMMA MutationsMean ==
    ASSUME kind \in AllKinds, NEW c, NEW m \in Mutations(c)
    PROVE  Means(kind, m)
<1>1. CASE kind = "lww"
  BY <1>1 DEF Mutations, IsCounter, Means, Values
<1>2. CASE kind = "or_set"
  BY <1>2 DEF Mutations, IsCounter, Means
<1>3. CASE kind \in {"counter", "narrow"}
  <2>1. m \in [type : {"Inc"}, by : {-1, 1}]
    BY <1>3 DEF Mutations, IsCounter
  <2>2. m.by \in Int
    BY <2>1
  <2> QED BY <1>3, <2>2 DEF Means
<1>4. CASE kind = "sequence"
  BY <1>4 DEF Means
<1>5. CASE kind = "map"
  BY <1>5 DEF Mutations, IsCounter, Means, Values
<1>6. CASE kind = "tree"
  BY <1>6 DEF Mutations, IsCounter, Means
<1> QED BY <1>1, <1>2, <1>3, <1>4, <1>5, <1>6 DEF AllKinds

LEMMA MutateKeeps ==
    ASSUME Core, NEW c \in Client, mutate_node(c)
    PROVE  Core'
<1>1. UNCHANGED <<kind, log, record, doc, joined, applied, queue, comp, changed, at,
                  edited, meant, mixed>>
  BY DEF mutate_node
<1>2. PICK m \in Mutations(c) : wire' = [wire EXCEPT ![c] = @ \o Ops(c, <<m>>)]
  BY DEF mutate_node
<1> DEFINE ms == <<m>>
           ops == Ops(c, ms)
<1>3. next' = [next EXCEPT ![c] = @ + 1] /\ c \notin Holder
  BY DEF mutate_node
<1>4. Typed'
  BY <1>1, <1>2, <1>3 DEF Core, Kin, Typed
<1>5. DOMAIN wire = Client /\ DOMAIN next = Client
      /\ kind \in AllKinds /\ Listed(log) /\ Logged(kind, log, next)
  BY DEF Core, Kin, Typed
<1>6. Listed(ms) /\ Len(ms) = 1 /\ ms[1] = m
  BY DEF Listed
<1>7. Means(kind, m)
  BY <1>5, MutationsMean
<1>8. wire' = [wire EXCEPT ![c] = @ \o ops]
  BY <1>2
<1> HIDE DEF ms
<1>9. (\A n \in 1..Len(ms) : Means(kind, ms[n])) /\ Apart(ms)
  BY <1>6, <1>7 DEF Apart
<1>10. PICK g : Drafts(g, ops, kind, doc[c], ms, c, next[c], applied[c], Len(log))
  BY <1>6, OpsAreDrafted
<1> HIDE DEF ops
<1>11. Kept(c)'
  <2> DEFINE d == doc[c]
             a == applied[c]
             q == queue[c]
             w == wire[c]
  <2>1. Held(kind, log, d, a, q, w, next[c], c)
    BY DEF Core, AllKept, Kept
  <2>2. Drafts(g, ops, kind, d, ms, c, next[c], a, Len(log))
    BY <1>10
  <2>3. wire'[c] = w \o ops /\ next'[c] = next[c] + Len(ms)
    BY <1>3, <1>5, <1>6, <1>8
  <2> HIDE DEF d, a, q, w
  <2>4. /\ c \in Holder => Held(kind, log, d, a, q \o ops, w, next[c] + Len(ms), c)
        /\ c \notin Holder => Held(kind, log, d, a, q, w \o ops, next[c] + Len(ms), c)
    BY <1>5, <1>6, <1>9, <2>1, <2>2, HeldMints
  <2>5. Held(kind, log, d, a, q, w \o ops, next[c] + Len(ms), c)
    BY <1>3, <2>4
  <2> QED BY <1>1, <2>3, <2>5 DEF Kept, d, a, q, w
<1>12. ASSUME NEW e \in Client, e # c PROVE Kept(e)'
  <2>1. wire'[e] = wire[e] /\ next'[e] = next[e] /\ Kept(e)
    BY <1>3, <1>5, <1>8, <1>12 DEF Core, AllKept
  <2> QED BY <1>1, <2>1 DEF Kept
<1>13. Logged(kind, log, next')
  <2>1. ASSUME NEW e \in Client
        PROVE  next[e] \in Nat /\ next'[e] \in Nat /\ next[e] <= next'[e]
    <3>1. next[e] \in Nat
      BY DEF Core, AllKept, Kept, Held
    <3>2. next'[e] = IF e = c THEN next[e] + 1 ELSE next[e]
      BY <1>3, <1>5
    <3> QED BY <3>1, <3>2
  <2> QED BY <1>5, <2>1, LoggedStays
<1>14. Kin' /\ RecordFollows' /\ AllShown'
  BY <1>1, <1>4, <1>13 DEF Core, Kin, RecordFollows, AllShown
<1>15. AllKept'
  BY <1>11, <1>12 DEF AllKept
<1> QED BY <1>14, <1>15 DEF Core

\* What a step of the log does to the replays.
LEMMA ReplayGrows ==
    ASSUME NEW k, NEW l, Listed(l), NEW op, NEW h, Longer(h, l, op)
    PROVE  /\ Len(h) = Len(l) + 1
           /\ Replay(k, h, Len(l) + 1)
                = apply_property(k, Replay(k, l, Len(l)), op, Len(l) + 1)
           /\ \A n \in 0..Len(l) : Replay(k, h, n) = Replay(k, l, n)
<1> DEFINE L == Len(l)
<1>1. L \in Nat
  BY DEF Listed
<1>2. Len(h) = L + 1 /\ h[L + 1] = op /\ \A m \in 1..L : h[m] = l[m]
  BY DEF Longer
<1> HIDE DEF L
<1>3. ASSUME NEW n \in 0..L PROVE Replay(k, h, n) = Replay(k, l, n)
  <2>1. n \in Nat /\ \A m \in 1..n : m \in 1..L
    BY <1>1
  <2>2. \A m \in 1..n : h[m] = l[m]
    BY <1>2, <2>1
  <2> QED BY <2>1, <2>2, ReplayOfPrefix
<1>4. L \in 0..L
  BY <1>1
<1>5. Replay(k, h, L + 1) = apply_property(k, Replay(k, h, L), h[L + 1], L + 1)
  BY <1>1, ReplaySteps
<1> QED BY <1>2, <1>3, <1>4, <1>5 DEF L

LEMMA LogStepKeeps ==
    ASSUME Core, NEW c \in Client, Log(c)
    PROVE  Core'
<1> DEFINE op == Head(wire[c])
           L == Len(log)
<1>1. UNCHANGED <<kind, doc, joined, applied, queue, next, comp, changed, at, edits,
                  edited, meant, mixed>>
  BY DEF Log
<1>2. /\ wire[c] # << >> /\ log' = Append(log, op) /\ record' = apply_wire(record, op, L + 1)
      /\ wire' = [wire EXCEPT ![c] = Tail(@)]
  BY DEF Log
<1>3. Typed /\ Listed(log) /\ kind \in AllKinds /\ Logged(kind, log, next) /\ DOMAIN wire = Client
  BY DEF Core, Kin, Typed
<1>4. Longer(log', log, op) /\ Listed(log')
  <2>1. Longer(Append(log, op), log, op)
    <3> HIDE DEF op
    <3> QED BY <1>3, AppendIsLonger
  <2> QED BY <1>2, <2>1 DEF Longer
<1>5. /\ Held(kind, log', doc[c], applied[c], queue[c], Tail(wire[c]), next[c], c)
      /\ Logged(kind, log', next) /\ Fits(kind, op) /\ op.id[1] = c
  <2> DEFINE d == doc[c]
             a == applied[c]
             q == queue[c]
             w == wire[c]
             i == next[c]
             r == Tail(w)
             h == log'
  <2>1. Held(kind, log, d, a, q, w, i, c) /\ Begins(w, op, r) /\ Longer(h, log, op)
        /\ i = next[c]
    BY <1>2, <1>4 DEF Core, AllKept, Kept, Begins
  <2> HIDE DEF d, a, q, w, i, r, h, op
  <2>2. Held(kind, h, d, a, q, r, i, c) /\ Lasts(kind, h, next, c, op)
    BY <1>3, <2>1, HeldLogs
  <2> QED BY <2>2 DEF Lasts, d, a, q, w, i, r, h
<1> HIDE DEF op
<1>6. Kept(c)'
  <2>1. wire'[c] = Tail(wire[c])
    BY <1>2, <1>3
  <2> QED BY <1>1, <1>5, <2>1 DEF Kept
<1>7. ASSUME NEW e \in Client, e # c PROVE Kept(e)'
  <2>1. wire'[e] = wire[e]
    BY <1>2, <1>3, <1>7
  <2>2. Held(kind, log, doc[e], applied[e], queue[e], wire[e], next[e], e)
    BY DEF Core, AllKept, Kept
  <2>3. Held(kind, log', doc[e], applied[e], queue[e], wire[e], next[e], e)
    BY <1>3, <1>4, <1>5, <1>7, <2>2, HeldStays
  <2> QED BY <1>1, <2>1, <2>3 DEF Kept
<1>8. RecordFollows'
  <2>1. /\ Len(log') = L + 1
        /\ Replay(kind, log', L + 1) = apply_property(kind, Replay(kind, log, L), op, L + 1)
    BY <1>3, <1>4, ReplayGrows
  <2>2. Recorded(kind, record, Replay(kind, log, L))
    BY DEF Core, RecordFollows
  <2> DEFINE d == Replay(kind, log, L)
             n == L + 1
  <2> HIDE DEF d, n
  <2>3. Recorded(kind, apply_wire(record, op, n), apply_property(kind, d, op, n))
    BY <1>3, <1>5, <2>2, RecordKeeps DEF d
  <2> QED BY <1>1, <1>2, <2>1, <2>3 DEF RecordFollows, d, n
<1>9. Typed'
  BY <1>1, <1>2, <1>3, <1>4 DEF Typed
<1>10. Kin' /\ AllShown'
  BY <1>1, <1>5, <1>9 DEF Core, Kin, AllShown
<1>11. AllKept'
  BY <1>6, <1>7 DEF AllKept
<1> QED BY <1>8, <1>10, <1>11 DEF Core

\* A document that is replaced by one of the log.
LEMMA DocKeeps ==
    ASSUME Core, NEW c \in Client, NEW n \in 0..Len(log), NEW e, e = Replay(kind, log, n),
           doc' = [doc EXCEPT ![c] = e], applied' = [applied EXCEPT ![c] = n],
           joined' \subseteq Client, joined \subseteq joined',
           UNCHANGED <<kind, log, record, queue, wire, next, comp, changed, at, edits,
                       edited, meant, mixed>>
    PROVE  Core'
<1>1. Typed'
  BY DEF Core, Kin, Typed
<1>2. DOMAIN doc = Client /\ DOMAIN applied = Client
  BY DEF Core, Kin, Typed
<1>3. Kept(c)'
  <2>1. Held(kind, log, doc[c], applied[c], queue[c], wire[c], next[c], c)
    BY DEF Core, AllKept, Kept
  <2>2. Held(kind, log, e, n, queue[c], wire[c], next[c], c)
    BY <2>1, HeldCatchesUp
  <2>3. doc'[c] = e /\ applied'[c] = n
    BY <1>2
  <2> QED BY <2>2, <2>3 DEF Kept
<1>4. ASSUME NEW b \in Client, b # c PROVE Kept(b)'
  <2>1. doc'[b] = doc[b] /\ applied'[b] = applied[b] /\ Kept(b)
    BY <1>2, <1>4 DEF Core, AllKept
  <2> QED BY <2>1 DEF Kept
<1>5. AllKept'
  BY <1>3, <1>4 DEF AllKept
<1> QED BY <1>1, <1>5 DEF Core, Kin, RecordFollows, AllShown

LEMMA ReceiveKeeps ==
    ASSUME Core, NEW c \in Client, Receive(c)
    PROVE  Core'
<1>1. applied[c] \in 0..Len(log) /\ Len(log) \in Nat /\ doc[c] = Replay(kind, log, applied[c])
  BY DocsAreDocs
<1>2. PICK n \in applied[c]..Len(log) :
        doc' = [doc EXCEPT ![c] = Caught(c, n)] /\ applied' = [applied EXCEPT ![c] = n]
  <2>1. PICK k \in 1..Len(log) : \E m \in {IF k > applied[c] THEN k ELSE applied[c]} :
          doc' = [doc EXCEPT ![c] = Caught(c, m)] /\ applied' = [applied EXCEPT ![c] = m]
    BY DEF Receive
  <2> DEFINE m == IF k > applied[c] THEN k ELSE applied[c]
  <2>2. m \in applied[c]..Len(log)
    BY <1>1, <2>1
  <2> QED BY <2>1, <2>2
<1>3. /\ joined' = joined /\ n \in 0..Len(log)
      /\ UNCHANGED <<kind, log, record, queue, wire, next, comp, changed, at, edits,
                     edited, meant, mixed>>
  BY <1>1 DEF Receive
<1>4. Caught(c, n) = Replay(kind, log, n)
  BY <1>1, CaughtIsReplayed
<1>5. joined \subseteq Client
  BY DEF Core, Kin, Typed
<1> QED BY <1>2, <1>3, <1>4, <1>5, DocKeeps

LEMMA JoinKeeps ==
    ASSUME Core, NEW c \in Client, Join(c)
    PROVE  Core'
<1> DEFINE n == Len(log)
<1>1. n \in 0..Len(log)
  BY DocsAreDocs
<1>2. /\ doc' = [doc EXCEPT ![c] = Hydrated(kind, record)] /\ applied' = [applied EXCEPT ![c] = n]
      /\ joined' = joined \cup {c}
      /\ UNCHANGED <<kind, log, record, queue, wire, next, comp, changed, at, edits,
                     edited, meant, mixed>>
  BY DEF Join
<1>3. Hydrated(kind, record) = Replay(kind, log, n)
  BY DEF Core, RecordFollows, Recorded
<1> HIDE DEF n
<1>4. joined' \subseteq Client /\ joined \subseteq joined'
  BY <1>2 DEF Core, Kin, Typed
<1> QED BY <1>1, <1>2, <1>3, <1>4, DocKeeps

LEMMA CoreStep == Core /\ [Next]_vars => Core'
<1> SUFFICES ASSUME Core, [Next]_vars PROVE Core'
  OBVIOUS
<1>1. CASE UNCHANGED vars
  BY <1>1 DEF vars, Core, Kin, Typed, RecordFollows, AllKept, Kept, AllShown
<1>2. CASE \E c \in Holder : UserEdit(c) \/ detect_local_changes(c) \/ Integrate(c)
  BY <1>2, EditKeeps, DetectKeeps, IntegrateKeeps
<1>3. CASE \E c \in Client : mutate_node(c) \/ Log(c) \/ Receive(c) \/ Join(c)
  BY <1>3, MutateKeeps, LogStepKeeps, ReceiveKeeps, JoinKeeps
<1> QED BY <1>1, <1>2, <1>3 DEF Next

LEMMA CoreAlways == Spec => []Core
  BY InitCore, CoreStep, PTL DEF Spec

\* Whatever was logged, in whichever order: the server's record hydrates to
\* the document that the log replays to, so that a client that joins by the
\* snapshot has what a client that had every op has.
THEOREM RecordIsTheLog == Spec => []HydratedIsReplayed
<1>1. Core => HydratedIsReplayed
  <2> SUFFICES ASSUME Core PROVE HydratedIsReplayed
    OBVIOUS
  <2> DEFINE n == Len(log)
  <2>1. Hydrated(kind, record) = Replay(kind, log, n)
    BY DEF Core, RecordFollows, Recorded
  <2> DEFINE Along(s) == FoldLeft(LAMBDA d, m : apply_property(kind, d, log[m], m),
                                  Bottom(kind), s)
  <2>2. [m \in 1..n |-> m] = [m \in 1..n |-> 0 + m]
    OBVIOUS
  <2>3. Replay(kind, log, n) = Along([m \in 1..n |-> 0 + m])
    BY DEF Replay, Folded
  <2>4. (Hydrated(kind, record) = Along([m \in 1..n |-> m])) <=> HydratedIsReplayed
    BY DEF HydratedIsReplayed
  <2> HIDE DEF n, Along
  <2> QED BY <2>1, <2>2, <2>3, <2>4
<1> QED BY <1>1, CoreAlways, PTL

\* The forest of a move tree is one, on every client, whatever was moved
\* below what.
THEOREM TreesAreForests == Spec => []ForestHasNoCycle
<1>1. Core => ForestHasNoCycle
  <2> SUFFICES ASSUME Core, kind = "tree", NEW c \in joined
               PROVE  LET forest == Forest(doc[c])
                      IN \A x \in DOMAIN forest : x \notin UpFrom(forest, forest[x])
    BY DEF ForestHasNoCycle
  <2> DEFINE t == doc[c]
  <2>1. c \in Client
    BY DEF Core, Kin, Typed
  <2>2. /\ applied[c] \in 0..Len(log) /\ Len(log) \in Nat
        /\ IsDoc("tree", t) /\ DOMAIN t \subseteq 1..applied[c]
    BY <2>1, DocsAreDocs DEF ReplayedAt
  <2> DEFINE last == applied[c]
  <2>3. last \in Nat /\ None \notin Items
    BY <2>2, ItemAssumption
  <2>4. \A n \in DOMAIN t : t[n].child \in Items /\ t[n].parent \in Items \cup {None}
    BY <2>2 DEF IsDoc
  <2> HIDE DEF t, last
  <2>5. \A x \in DOMAIN Forest(t) : x \notin UpFrom(Forest(t), Forest(t)[x])
    BY <2>2, <2>3, <2>4, ForestIsAForest DEF last
  <2> QED BY <2>5 DEF t
<1> QED BY <1>1, CoreAlways, PTL

-----------------------------------------------------------------------------
(* A component that nobody has touched shows its document.                 *)

\* An op of c is on its way.
Pending(l, a, q, w, c) ==
    q # << >> \/ w # << >> \/ \E n \in a + 1..Len(l) : l[n].id[1] = c

\* A component is to be looked at, waits for an answer, or is the document's.
Shows(c) ==
    \/ changed[c]
    \/ Pending(log, applied[c], queue[c], wire[c], c)
    \/ comp[c] = project_to(kind, doc[c], comp[c])

AllShow == \A c \in Holder : Shows(c)

\* A step that does not touch c, but may let the log grow.
Aside(c) ==
    /\ changed'[c] = changed[c] /\ applied'[c] = applied[c] /\ queue'[c] = queue[c]
    /\ wire'[c] = wire[c] /\ comp'[c] = comp[c] /\ doc'[c] = doc[c] /\ kind' = kind
    /\ \/ log' = log
       \/ \E op : Longer(log', log, op)

LEMMA PendingStays ==
    ASSUME NEW l, Listed(l), NEW h, NEW op, Longer(h, l, op), NEW a \in Nat, NEW q, NEW w, NEW c,
           Pending(l, a, q, w, c)
    PROVE  Pending(h, a, q, w, c)
<1> SUFFICES ASSUME NEW n \in a + 1..Len(l), l[n].id[1] = c
             PROVE  \E m \in a + 1..Len(h) : h[m].id[1] = c
  BY DEF Pending
<1>1. Len(l) \in Nat /\ Len(h) = Len(l) + 1 /\ \A m \in 1..Len(l) : h[m] = l[m]
  BY DEF Longer, Listed
<1>2. n \in 1..Len(l) /\ n \in a + 1..Len(h)
  BY <1>1
<1> QED BY <1>1, <1>2

LEMMA AsideShows ==
    ASSUME Core, NEW c \in Holder, Shows(c), Aside(c)
    PROVE  Shows(c)'
<1>1. c \in Client /\ Listed(log)
  BY ClientAssumption DEF Core, Kin, Typed
<1>2. applied[c] \in Nat
  BY <1>1, DocsAreDocs
<1>3. Pending(log, applied[c], queue[c], wire[c], c)
        => Pending(log', applied[c], queue[c], wire[c], c)
  <2>1. CASE log' = log
    BY <2>1
  <2>2. CASE \E op : Longer(log', log, op)
    BY <1>1, <1>2, <2>2, PendingStays
  <2> QED BY <2>1, <2>2 DEF Aside
<1> QED BY <1>3, Zenon DEF Shows, Aside

LEMMA InitShows == Init => AllShow
  BY DEF Init, AllShow, Shows

LEMMA EditShows ==
    ASSUME Core, AllShow, NEW c \in Holder, UserEdit(c)
    PROVE  AllShow'
<1>1. /\ DOMAIN changed = Holder /\ DOMAIN comp = Holder
      /\ changed' = [changed EXCEPT ![c] = TRUE]
      /\ UNCHANGED <<kind, log, doc, applied, queue, wire>>
      /\ \E value : comp' = [comp EXCEPT ![c] = value]
  BY DEF UserEdit, Core, Kin, Typed
<1>2. Shows(c)'
  <2>1. changed'[c]
    BY <1>1
  <2> QED BY <2>1 DEF Shows
<1>3. ASSUME NEW e \in Holder, e # c PROVE Shows(e)'
  <2>1. Aside(e)
    BY <1>1, <1>3 DEF Aside
  <2> QED BY <2>1, AsideShows DEF AllShow
<1> QED BY <1>2, <1>3 DEF AllShow

LEMMA MoreIsMore ==
    ASSUME NEW s, Listed(s), NEW t, Listed(t), s # << >> \/ Len(t) # 0
    PROVE  s \o t # << >>
<1> DEFINE N == Len(s)
           M == Len(t)
<1>1. N \in Nat /\ M \in Nat /\ Len(s \o t) = N + M
  BY ConcatOf DEF Listed
<1>2. N = 0 => s = << >>
  <2> SUFFICES ASSUME N = 0 PROVE s = << >>
    OBVIOUS
  <2>1. Listed(<< >>) /\ Len(<< >>) = 0
    BY DEF Listed
  <2> DEFINE e == << >>
  <2>2. Listed(e) /\ Len(e) = Len(s) /\ \A n \in 1..Len(s) : s[n] = e[n]
    BY <2>1
  <2> HIDE DEF e
  <2>3. s = e
    BY <2>2, SameList
  <2> QED BY <2>3 DEF e
<1> HIDE DEF N, M
<1>3. N + M # 0
  BY <1>1, <1>2 DEF M
<1>4. Len(<< >>) = 0
  OBVIOUS
<1> QED BY <1>1, <1>3, <1>4

LEMMA DetectShows ==
    ASSUME Core, AllShow, NEW c \in Holder, detect_local_changes(c)
    PROVE  AllShow'
<1> DEFINE d == doc[c]
           v == comp[c]
           ms == IF changed[c] THEN diff(kind, d, v) ELSE << >>
           ops == Ops(c, ms)
           q == queue[c]
<1>1. /\ DOMAIN changed = Holder /\ DOMAIN queue = Client /\ c \in Client
      /\ queue' = [queue EXCEPT ![c] = @ \o ops]
      /\ changed' = [changed EXCEPT ![c] = FALSE]
      /\ UNCHANGED <<kind, log, doc, applied, wire, comp>>
  BY ClientAssumption DEF detect_local_changes, Core, Kin, Typed
<1>2. queue'[c] = q \o ops
  BY <1>1
<1>3. Listed(ms)
  BY AskedIs
<1>4. Listed(ops) /\ Len(ops) = Len(ms)
  <2> HIDE DEF ms
  <2>1. PICK g : Drafts(g, ops, kind, doc[c], ms, c, next[c], applied[c], Len(log))
    BY <1>3, OpsAreDrafted
  <2> HIDE DEF ops
  <2> QED BY <2>1 DEF Drafts
<1>5. Listed(q)
  BY <1>1 DEF Core, AllKept, Kept, Held
<1>6. Shows(c)'
  <2>1. CASE q # << >> \/ Len(ms) # 0
    <3> HIDE DEF ops, q, ms
    <3>1. q \o ops # << >>
      BY <1>4, <1>5, <2>1, MoreIsMore
    <3> QED BY <1>2, <3>1 DEF Shows, Pending
  <2>2. CASE q = << >> /\ Len(ms) = 0 /\ changed[c]
    <3>1. ms = diff(kind, d, v)
      BY <2>2
    <3>2. kind \in AllKinds /\ Shown(kind, v)
      BY DEF Core, Kin, Typed, AllShown
    <3>3. IsDoc(kind, d)
      <4>1. applied[c] \in 0..Len(log) /\ d = Replay(kind, log, applied[c])
            /\ \A n \in 0..Len(log) : ReplayedAt(kind, log, n)
        BY <1>1, DocsAreDocs
      <4> QED BY <4>1 DEF ReplayedAt
    <3> HIDE DEF d, v, ms
    <3>4. IsDiff(kind, d, v, ms)
      BY <3>1, <3>2, <3>3, DiffIs
    <3>5. v = project_to(kind, d, v)
      BY <2>2, <3>4 DEF IsDiff
    <3> QED BY <1>1, <3>5 DEF Shows, d, v
  <2>3. CASE q = << >> /\ Len(ms) = 0 /\ ~changed[c]
    <3> HIDE DEF ops
    <3>1. Shows(c) /\ ~changed[c]
      BY <2>3 DEF AllShow
    <3>2. queue'[c] = << >>
      <4>1. ops = << >>
        <5>1. Listed(<< >>) /\ Len(<< >>) = 0
          BY DEF Listed
        <5> DEFINE e == << >>
        <5>2. Listed(e) /\ Len(e) = Len(ops) /\ \A n \in 1..Len(ops) : ops[n] = e[n]
          BY <1>4, <2>3, <5>1
        <5> HIDE DEF e
        <5>3. ops = e
          BY <1>4, <5>2, SameList
        <5> QED BY <5>3 DEF e
      <4>2. q \o << >> = q
        BY <1>5, NothingMore
      <4> QED BY <1>2, <2>3, <4>1, <4>2
    <3> QED BY <1>1, <2>3, <3>1, <3>2 DEF Shows
  <2> QED BY <2>1, <2>2, <2>3
<1> HIDE DEF ops
<1>7. ASSUME NEW e \in Holder, e # c PROVE Shows(e)'
  <2>1. e \in Client
    BY ClientAssumption
  <2>2. Aside(e)
    BY <1>1, <1>7, <2>1 DEF Aside
  <2> QED BY <2>2, AsideShows DEF AllShow
<1> QED BY <1>6, <1>7 DEF AllShow

LEMMA IntegrateShows ==
    ASSUME Core, AllShow, NEW c \in Holder, Integrate(c)
    PROVE  AllShow'
<1>1. UNCHANGED <<kind, log, record, joined, next, edits, edited, meant>>
  BY DEF Integrate
<1>2. PICK n \in applied[c]..Len(log), other \in BOOLEAN :
        /\ doc' = [doc EXCEPT ![c] = Caught(c, n)]
        /\ applied' = [applied EXCEPT ![c] = n]
        /\ comp' = [comp EXCEPT ![c] = Projected(c, n, other)]
        /\ changed' = [changed EXCEPT ![c] = @ \/ Stirred(c, n, other)]
  BY DEF Integrate
<1>3. /\ wire' = [wire EXCEPT ![c] = @ \o queue[c]]
      /\ queue' = [queue EXCEPT ![c] = << >>]
  BY DEF Integrate
<1>4. c \in Client /\ Typed
  BY ClientAssumption DEF Core, Kin, Typed
<1>5. applied[c] \in 0..Len(log) /\ Len(log) \in Nat /\ doc[c] = Replay(kind, log, applied[c])
  BY <1>4, DocsAreDocs
<1>6. changed'[c] = (changed[c] \/ Stirred(c, n, other))
  BY <1>2, <1>4 DEF Typed
<1>7. Shows(c)'
  <2>1. CASE Stirred(c, n, other)
    BY <1>6, <2>1 DEF Shows
  <2>2. CASE ~Stirred(c, n, other)
    <3>0. n = applied[c]
      BY <1>5, <2>2 DEF Stirred
    <3>1. Caught(c, n) = doc[c]
      BY <1>5, <3>0, CaughtIsReplayed
    <3>2. Projected(c, n, other) = comp[c]
      BY <2>2 DEF Projected
    <3>3. /\ doc'[c] = doc[c] /\ applied'[c] = applied[c] /\ comp'[c] = comp[c]
          /\ wire'[c] = wire[c] \o queue[c] /\ queue'[c] = << >>
      BY <1>2, <1>3, <1>4, <3>0, <3>1, <3>2 DEF Typed
    <3>4. Pending(log, applied[c], queue[c], wire[c], c) =>
            Pending(log, applied[c], << >>, wire[c] \o queue[c], c)
      <4> DEFINE q == queue[c]
                 w == wire[c]
      <4>1. Listed(q) /\ Listed(w)
        BY <1>4 DEF Core, AllKept, Kept, Held
      <4> HIDE DEF q, w
      <4>2. w # << >> => w \o q # << >>
        BY <4>1, MoreIsMore
      <4>3. q # << >> => w \o q # << >>
        <5>1. w = << >> => w \o q = q
          <6>1. << >> \o q = q
            BY <4>1, NothingFirst
          <6> QED BY <6>1
        <5> QED BY <4>2, <5>1
      <4>4. q = queue[c] /\ w = wire[c]
        BY DEF q, w
      <4> QED BY <4>2, <4>3, <4>4 DEF Pending
    <3>5. Shows(c)
      BY DEF AllShow
    <3>6. CASE changed[c]
      BY <1>6, <3>6 DEF Shows
    <3>7. CASE Pending(log, applied[c], queue[c], wire[c], c)
      BY <1>1, <3>3, <3>4, <3>7 DEF Shows
    <3>8. CASE comp[c] = project_to(kind, doc[c], comp[c])
      BY <1>1, <3>3, <3>8 DEF Shows
    <3> QED BY <3>5, <3>6, <3>7, <3>8 DEF Shows
  <2> QED BY <2>1, <2>2
<1>8. ASSUME NEW e \in Holder, e # c PROVE Shows(e)'
  <2>1. e \in Client
    BY ClientAssumption
  <2>2. Aside(e)
    BY <1>1, <1>2, <1>3, <1>4, <1>8, <2>1 DEF Aside, Typed
  <2> QED BY <2>2, AsideShows DEF AllShow
<1> QED BY <1>7, <1>8 DEF AllShow

LEMMA LogShows ==
    ASSUME Core, AllShow, NEW c \in Client, Log(c)
    PROVE  AllShow'
<1> DEFINE op == Head(wire[c])
           L == Len(log)
<1>1. /\ UNCHANGED <<kind, doc, joined, applied, queue, next, comp, changed>>
      /\ log' = Append(log, op) /\ wire' = [wire EXCEPT ![c] = Tail(@)] /\ wire[c] # << >>
  BY DEF Log
<1>2. Listed(log) /\ DOMAIN wire = Client /\ L \in Nat
  BY DEF Core, Kin, Typed, Listed
<1>3. op.id[1] = c
  <2> DEFINE w == wire[c]
             q == queue[c]
  <2>1. Listed(w) /\ Listed(q) /\ w # << >> /\ Waiting(kind, log, w \o q, c, next[c])
    BY <1>1 DEF Core, AllKept, Kept, Held
  <2> DEFINE u == w \o q
  <2>2. Listed(u) /\ u # << >> /\ Head(u) = Head(w)
    <3> HIDE DEF w, q
    <3> QED BY <2>1, TailFirst
  <2> HIDE DEF u
  <2>3. Head(u) = u[1] /\ 1 \in 1..Len(u)
    BY <2>2, TailOf
  <2>4. WaitOp(kind, log, u, c, next[c], 1)
    BY <2>1, <2>3 DEF Waiting, u
  <2> QED BY <2>2, <2>3, <2>4 DEF WaitOp
<1> HIDE DEF op
<1>4. Longer(log', log, op)
  BY <1>1, <1>2, AppendIsLonger
<1>5. ASSUME c \in Holder PROVE Shows(c)'
  <2>1. applied[c] \in 0..L
    BY DocsAreDocs
  <2>2. Len(log') = L + 1 /\ log'[L + 1].id[1] = c
    BY <1>3, <1>4 DEF Longer
  <2> HIDE DEF L
  <2>3. L + 1 \in applied[c] + 1..Len(log')
    BY <1>2, <2>1, <2>2
  <2>4. Pending(log', applied[c], queue[c], wire'[c], c)
    BY <2>2, <2>3 DEF Pending
  <2> QED BY <1>1, <2>4 DEF Shows
<1>6. ASSUME NEW e \in Holder, e # c PROVE Shows(e)'
  <2>1. e \in Client
    BY ClientAssumption
  <2>2. Aside(e)
    BY <1>1, <1>2, <1>4, <1>6, <2>1 DEF Aside
  <2> QED BY <2>2, AsideShows DEF AllShow
<1> QED BY <1>5, <1>6 DEF AllShow

\* What a client without the component does is aside.
LEMMA OthersShow ==
    ASSUME Core, AllShow, NEW c \in Client, mutate_node(c) \/ Receive(c) \/ Join(c)
    PROVE  AllShow'
<1>1. c \notin Holder
  BY DEF mutate_node, Receive, Join, Core, Kin, Typed
<1>2. ASSUME NEW e \in Holder PROVE Shows(e)'
  <2>1. e \in Client /\ e # c /\ Typed
    BY <1>1, ClientAssumption DEF Core, Kin
  <2>2. Aside(e)
    <3>1. CASE mutate_node(c)
      BY <2>1, <3>1 DEF Aside, Typed, mutate_node
    <3>2. CASE Receive(c)
      BY <2>1, <3>2 DEF Aside, Typed, Receive
    <3>3. CASE Join(c)
      BY <2>1, <3>3 DEF Aside, Typed, Join
    <3> QED BY <3>1, <3>2, <3>3
  <2> QED BY <2>2, AsideShows DEF AllShow
<1> QED BY <1>2 DEF AllShow

LEMMA ShowStep == Core /\ AllShow /\ [Next]_vars => AllShow'
<1> SUFFICES ASSUME Core, AllShow, [Next]_vars PROVE AllShow'
  OBVIOUS
<1>1. CASE UNCHANGED vars
  BY <1>1 DEF vars, AllShow, Shows
<1>2. CASE \E c \in Holder : UserEdit(c) \/ detect_local_changes(c) \/ Integrate(c)
  BY <1>2, EditShows, DetectShows, IntegrateShows
<1>3. CASE \E c \in Client : mutate_node(c) \/ Log(c) \/ Receive(c) \/ Join(c)
  BY <1>3, LogShows, OthersShow
<1> QED BY <1>1, <1>2, <1>3 DEF Next

\* Once everything is logged and applied and no component is left to look at,
\* each shows its document; the documents being one, so are the components.
THEOREM ComponentsShowTheirDocuments == Spec => []RestingComponentsAgree
<1>1. Core /\ AllShow => RestingComponentsAgree
  <2> SUFFICES ASSUME Core, AllShow,
                      \A c \in Client : queue[c] = << >> /\ wire[c] = << >>,
                      \A c \in Holder : applied[c] = Len(log) /\ at[c] = "idle" /\ ~changed[c],
                      NEW c \in Holder
               PROVE  comp[c] = project_to(kind, doc[c], comp[c])
    BY DEF RestingComponentsAgree
  <2>1. c \in Client /\ Shows(c) /\ ~changed[c]
    BY ClientAssumption DEF AllShow
  <2>2. applied[c] = Len(log) /\ Len(log) \in Nat
    BY <2>1, DocsAreDocs
  <2>3. applied[c] + 1..Len(log) = {}
    BY <2>2
  <2>4. ~Pending(log, applied[c], queue[c], wire[c], c)
    BY <2>1, <2>3 DEF Pending
  <2> QED BY <2>1, <2>4 DEF Shows
<1>2. Spec => []AllShow
  <2>1. Init => AllShow
    BY InitShows
  <2> QED BY <2>1, ShowStep, CoreAlways, PTL DEF Spec
<1> QED BY <1>1, <1>2, CoreAlways, PTL

-----------------------------------------------------------------------------
(* What a document shows is what the log says.                             *)

\* The sum of the first n ops of l.
Summed(l, n) == FoldLeft(LAMBDA x, k : x + l[k].delta.by, 0, [k \in 1..n |-> k])

\* The sums on the way.
Adds(t, l, n) ==
    /\ t \in [0..n -> Int] /\ t[0] = 0
    /\ \A k \in 1..n : t[k] = t[k - 1] + l[k].delta.by

LEMMA SumSteps ==
    ASSUME NEW l, NEW n \in Nat, \A k \in 1..n : l[k].delta.by \in Int
    PROVE  \E t : Adds(t, l, n) /\ t[n] = Summed(l, n)
<1> DEFINE Op(x, k) == x + l[k].delta.by
           Folds(it) == it = [S \in SUBSET (1..n) |->
                                IF S = {} THEN 0
                                ELSE Op(it[S \ {Max(S)}], [j \in 1..n |-> j][Max(S)])]
           iter == CHOOSE it : Folds(it)
           step == [x \in Int \X (1..n) |-> Op(x[1], x[2])]
<1>1. Summed(l, n) = iter[1..n]
  <2>1. DOMAIN [j \in 1..n |-> j] = 1..n
    OBVIOUS
  <2> QED BY <2>1 DEF Summed, FoldLeft, MapThenFoldSet, Max
<1>2. \A x \in Int, k \in 1..n : Op(x, k) \in Int
  OBVIOUS
<1>3. step \in [Int \X (1..n) -> Int]
  <2> HIDE DEF Op
  <2> QED BY <1>2
<1> HIDE DEF step
<1>4a. 0 \in Int
  OBVIOUS
<1>4. PICK g \in [SUBSET (1..n) -> Int] : Iterated(g, step, 0, n)
  BY <1>3, <1>4a, Iterates
<1> HIDE DEF Op
<1> USE DEF step
<1>5. ASSUME NEW S \in SUBSET (1..n), S # {}
      PROVE  step[<<g[S \ {Max(S)}], Max(S)>>]
               = Op(g[S \ {Max(S)}], [j \in 1..n |-> j][Max(S)])
  <2>1. S \in SUBSET Nat /\ \A x \in S : x <= n
    OBVIOUS
  <2>2. Max(S) \in S
    BY <1>5, <2>1, MaxOfBounded
  <2>3. <<g[S \ {Max(S)}], Max(S)>> \in Int \X (1..n) /\ [j \in 1..n |-> j][Max(S)] = Max(S)
    BY <2>2
  <2> QED BY <2>3
<1> HIDE DEF step
<1>6. Folds(g)
  BY <1>4, <1>5 DEF Iterated
<1>7. Folds(iter)
  <2> HIDE DEF Folds
  <2> QED BY <1>6
<1> HIDE DEF iter
<1> DEFINE t == [k \in 0..n |-> iter[1..k]]
<1>8. iter[1..0] = 0
  <2>1. 1..0 = {} /\ {} \in SUBSET (1..n)
    OBVIOUS
  <2> QED BY <1>7, <2>1
<1>9. ASSUME NEW k \in 1..n PROVE iter[1..k] = Op(iter[1..(k-1)], k)
  <2>1. 1..k # {} /\ 1..k \in SUBSET (1..n) /\ Max(1..k) = k /\ (1..k) \ {k} = 1..(k-1)
    BY Prefix
  <2> QED BY <1>7, <2>1
<1> HIDE DEF Folds
<1> DEFINE T == {k \in 0..n : iter[1..k] \in Int}
<1>10. 0 \in T
  BY <1>8
<1>11. ASSUME NEW k \in 0..n-1, k \in T PROVE k + 1 \in T
  <2> DEFINE m == k + 1
  <2>1. m \in 1..n /\ m - 1 = k /\ m \in 0..n
    OBVIOUS
  <2> HIDE DEF m
  <2>2. iter[1..m] = Op(iter[1..k], m)
    BY <1>9, <2>1
  <2> QED BY <1>2, <1>11, <2>1, <2>2 DEF m
<1> HIDE DEF T
<1>12. \A k \in 0..n : k \in T
  BY <1>10, <1>11, UpTo
<1>13. Adds(t, l, n)
  <2>1. \A k \in 0..n : t[k] = iter[1..k] /\ iter[1..k] \in Int
    BY <1>12 DEF T
  <2>2. t \in [0..n -> Int]
    BY <2>1
  <2>3. 0 \in 0..n /\ \A k \in 1..n : k \in 0..n /\ k - 1 \in 0..n
    OBVIOUS
  <2> HIDE DEF t
  <2>4. t[0] = 0
    BY <1>8, <2>1, <2>3
  <2>5. \A k \in 1..n : t[k] = t[k - 1] + l[k].delta.by
    BY <1>9, <2>1, <2>3 DEF Op
  <2> QED BY <2>2, <2>4, <2>5 DEF Adds
<1>14. t[n] = iter[1..n]
  OBVIOUS
<1> HIDE DEF t
<1> QED BY <1>1, <1>13, <1>14

\* A counter is the sum of its ops.
LEMMA CounterSays ==
    ASSUME NEW k \in {"counter", "narrow"}, NEW l, Listed(l), NEW nx, Logged(k, l, nx)
    PROVE  \A n \in 0..Len(l) : CounterValue(Replay(k, l, n)) = Summed(l, n)
<1> SUFFICES ASSUME NEW n \in 0..Len(l) PROVE CounterValue(Replay(k, l, n)) = Summed(l, n)
  OBVIOUS
<1>0. Len(l) \in Nat /\ n \in Nat /\ k \in AllKinds
  BY DEF Listed, AllKinds
<1>1. \A m \in 1..n : m \in 1..Len(l) /\ Fits(k, l[m]) /\ l[m].delta.by \in Int
  <2> SUFFICES ASSUME NEW m \in 1..n
               PROVE  m \in 1..Len(l) /\ Fits(k, l[m]) /\ l[m].delta.by \in Int
    OBVIOUS
  <2>1. m \in 1..Len(l)
    BY <1>0
  <2>2. Fits(k, l[m])
    BY <2>1 DEF Logged, LogOp
  <2> QED BY <2>1, <2>2 DEF Fits
<1>2. PICK t : Adds(t, l, n) /\ t[n] = Summed(l, n)
  BY <1>0, <1>1, SumSteps
<1> DEFINE T == {m \in 0..n : CounterValue(Replay(k, l, m)) = t[m]}
<1>3. 0 \in T
  <2>1. Replay(k, l, 0) = EmptyCounter
    BY <1>0, ReplaySteps DEF Bottom
  <2>2. CounterValue(EmptyCounter) = 0
    BY TotalOfEmpty DEF CounterValue, EmptyCounter
  <2> QED BY <1>0, <1>2, <2>1, <2>2 DEF Adds
<1>4. ASSUME NEW m \in 0..n-1, m \in T PROVE m + 1 \in T
  <2> DEFINE j == m + 1
             d == Replay(k, l, m)
             e == Replay(k, l, j)
             delta == l[j].delta
             ctx == [id |-> l[j].id, seq |-> j]
  <2>0. m \in Nat /\ j \in 1..n /\ j \in 0..n /\ j - 1 = m /\ m \in 0..Len(l)
    BY <1>0
  <2>1. e = apply_property(k, d, l[j], j)
    BY <2>0, ReplaySteps
  <2>2. e = CounterApply(d, delta, ctx)
    BY <2>1 DEF apply_property, LeafApply
  <2>3. IsSummedCounter(d)
    <3>1. ReplayedAt(k, l, m)
      BY <1>0, <2>0, LogReplays
    <3> QED BY <3>1 DEF ReplayedAt, IsDoc
  <2>4. delta.by \in Int
    BY <1>1, <2>0
  <2>5. CounterValue(d) = t[m]
    BY <1>4
  <2>6. t[j] = t[m] + delta.by
    <3>1. t[j] = t[j - 1] + l[j].delta.by
      <4> HIDE DEF j
      <4> QED BY <1>2, <2>0 DEF Adds
    <3> QED BY <2>0, <3>1
  <2> HIDE DEF d, e, delta, ctx, j
  <2>7. CounterValue(CounterApply(d, delta, ctx)) = CounterValue(d) + delta.by
    BY <2>3, <2>4, DeltaCounts
  <2>8. CounterValue(e) = t[j]
    BY <2>2, <2>5, <2>6, <2>7
  <2> QED BY <2>0, <2>8 DEF e, j
<1> HIDE DEF T
<1>5. \A m \in 0..n : m \in T
  BY <1>0, <1>3, <1>4, UpTo
<1>6. n \in T
  BY <1>0, <1>5
<1> QED BY <1>2, <1>6 DEF T

\* A register holds the last write.
LEMMA RegisterSays ==
    ASSUME NEW l, Listed(l), NEW nx, Logged("lww", l, nx)
    PROVE  \A n \in 0..Len(l) :
             /\ n = 0 => Replay("lww", l, n) = None
             /\ n > 0 => /\ Replay("lww", l, n) # None
                         /\ Replay("lww", l, n).value = l[n].of.value
                         /\ Replay("lww", l, n).stamp = <<n, l[n].id[1]>>
<1> DEFINE k == "lww"
           R(n) == Replay(k, l, n)
           T == {n \in 0..Len(l) :
                   /\ n = 0 => R(n) = None
                   /\ n > 0 => /\ R(n) # None
                               /\ R(n).value = l[n].of.value
                               /\ R(n).stamp = <<n, l[n].id[1]>>}
<1>0. Len(l) \in Nat /\ k \in AllKinds
  BY DEF Listed, AllKinds
<1>1. 0 \in T
  <2>1. R(0) = None
    BY ReplaySteps DEF Bottom
  <2> HIDE DEF R
  <2> QED BY <1>0, <2>1
<1>2. ASSUME NEW n \in 0..Len(l)-1, n \in T PROVE n + 1 \in T
  <2> DEFINE m == n + 1
             op == l[m]
             d == R(n)
             e == R(m)
             p == op.id[1]
  <2>0. n \in Nat /\ m \in 1..Len(l) /\ m \in 0..Len(l) /\ m > 0 /\ m > n
    BY <1>0
  <2>1. e = apply_property(k, d, op, m)
    BY <2>0, ReplaySteps
  <2>2. e = LwwApply(d, op.delta, [id |-> op.id, seq |-> m])
    BY <2>1 DEF apply_property, LeafApply
  <2>3. op.delta = [type |-> "LwwReplace", value |-> op.of.value] /\ op.of.value \in Values
        /\ op.id \in Nat \X Nat
    <3>1. LogOp(k, l, nx, m)
      BY <2>0 DEF Logged
    <3> QED BY <3>1, ClientAssumption DEF LogOp, Fits
  <2>4. d = None \/ Less(d.stamp, <<m, p>>)
    <3>1. CASE n = 0
      BY <1>2, <3>1
    <3>2. CASE n > 0
      <4>1. d.stamp = <<n, l[n].id[1]>>
        BY <1>2, <3>2
      <4> QED BY <2>0, <4>1 DEF Less
    <3> QED BY <2>0, <3>1, <3>2
  <2> HIDE DEF R
  <2>5. e = [stamp |-> <<m, p>>, value |-> op.delta.value]
    BY <2>2, <2>4 DEF LwwApply
  <2>6. op.delta.value = op.of.value
    BY <2>3
  <2>7. e.stamp = <<m, p>> /\ e.value = op.of.value
    BY <2>5, <2>6
  <2>8. e # None
    <3>1. p \in Nat /\ m \in Nat
      BY <2>0, <2>3
    <3>2. e \in [stamp : Nat \X Nat, value : Values]
      <4> HIDE DEF p, m
      <4> QED BY <2>3, <2>5, <2>6, <3>1
    <3> QED BY <3>2, NoneAssumption DEF Values
  <2> QED BY <2>0, <2>7, <2>8
<1> HIDE DEF T
<1>3. \A n \in 0..Len(l) : n \in T
  BY <1>0, <1>1, <1>2, UpTo
<1> QED BY <1>3 DEF T

\* The last of the first n ops that is on key x, or 0.
LastOn(l, n, x) == Max({0} \cup {k \in 1..n : l[k].of.key = x})

LEMMA LastOnSteps ==
    ASSUME NEW l, NEW n \in Nat, NEW x
    PROVE  /\ LastOn(l, 0, x) = 0
           /\ LastOn(l, n, x) \in 0..n
           /\ LastOn(l, n + 1, x) = IF l[n + 1].of.key = x THEN n + 1 ELSE LastOn(l, n, x)
<1> DEFINE On(m) == {0} \cup {k \in 1..m : l[k].of.key = x}
<1>1. ASSUME NEW m \in Nat PROVE Max(On(m)) \in On(m) /\ \A k \in On(m) : k <= Max(On(m))
  <2>1. On(m) \in SUBSET Nat /\ On(m) # {} /\ \A k \in On(m) : k <= m
    OBVIOUS
  <2> HIDE DEF On
  <2> QED BY <2>1, MaxOfBounded
<1>2. On(0) = {0}
  <2>1. 1..0 = {}
    OBVIOUS
  <2> QED BY <2>1
<1>3. On(n + 1) = On(n) \cup (IF l[n + 1].of.key = x THEN {n + 1} ELSE {})
  <2>1. \A k : k \in 1..n + 1 <=> k \in 1..n \/ k = n + 1
    OBVIOUS
  <2> QED BY <2>1
<1>4. On(n) \subseteq 0..n
  OBVIOUS
<1>5. \A m : LastOn(l, m, x) = Max(On(m))
  BY DEF LastOn
<1> HIDE DEF On
<1>6. Max(On(0)) = 0
  BY <1>1, <1>2
<1>7. Max(On(n)) \in 0..n
  BY <1>1, <1>4
<1>8. CASE l[n + 1].of.key = x
  <2> DEFINE m == n + 1
  <2>1. m \in Nat /\ \A k \in 0..n : k < m
    OBVIOUS
  <2>2. On(m) = On(n) \cup {m}
    BY <1>3, <1>8
  <2> HIDE DEF m
  <2>3. Max(On(m)) \in On(m) /\ m <= Max(On(m))
    BY <1>1, <2>1, <2>2
  <2>4. Max(On(m)) = m
    BY <1>4, <2>1, <2>2, <2>3
  <2> QED BY <1>5, <1>6, <1>7, <1>8, <2>4 DEF m
<1>9. CASE l[n + 1].of.key # x
  <2>1. On(n + 1) = On(n)
    BY <1>3, <1>9
  <2> QED BY <1>5, <1>6, <1>7, <1>9, <2>1
<1> QED BY <1>8, <1>9

\* What a map holds of a key whose last op is the m'th.
EntryOf(l, d, x, m) ==
    /\ x \in DOMAIN d <=> m > 0 /\ l[m].of.type = "Apply"
    /\ x \in DOMAIN d => d[x].stamp = <<m, l[m].id[1]>> /\ d[x].value = l[m].of.value

\* An op on another key leaves the entry; one on the key makes it or drops it.
LEMMA EntryStep ==
    ASSUME NEW l, NEW d, IsDoc("map", d), NEW n \in Nat, NEW op, op = l[n + 1],
           Fits("map", op), op.id \in Nat \X Nat,
           NEW e, e = apply_property("map", d, op, n + 1),
           NEW x, NEW m \in 0..n, EntryOf(l, d, x, m)
    PROVE  EntryOf(l, e, x, IF op.of.key = x THEN n + 1 ELSE m)
<1> DEFINE y == op.of.key
           j == n + 1
           ctx == [id |-> op.id, seq |-> j]
           r == LwwApply(At(d, y), op.delta, ctx)
<1>0. j \in Nat /\ j > 0 /\ op = l[j] /\ m < j /\ m \in Nat
  OBVIOUS
<1>1. op.of.type \in {"Apply", "Remove"} /\ op.path[1] = y
  BY DEF Fits
<1>2. CASE op.of.type = "Apply"
  <2>1. op.delta = [type |-> "LwwReplace", value |-> op.of.value]
    BY <1>2 DEF Fits
  <2>2. e = Put(d, y, r)
    BY <1>1, <2>1 DEF apply_property, MapApply
  <2>3. IsPut(e, d, y, r)
    <3> HIDE DEF y, r
    <3> QED BY <2>2, PutIs
  <2>4. CASE y = x
    <3>1. At(d, x) = None \/ Less(At(d, x).stamp, <<j, op.id[1]>>)
      <4>1. CASE x \in DOMAIN d
        <5>1. d[x].stamp = <<m, l[m].id[1]>>
          BY <4>1 DEF EntryOf
        <5>2. At(d, x) = d[x]
          BY <4>1 DEF At
        <5> HIDE DEF j
        <5> QED BY <1>0, <5>1, <5>2 DEF Less
      <4>2. CASE x \notin DOMAIN d
        BY <4>2 DEF At
      <4> QED BY <4>1, <4>2
    <3> HIDE DEF j
    <3>2. r = [stamp |-> <<j, op.id[1]>>, value |-> op.of.value]
      BY <2>1, <2>4, <3>1 DEF LwwApply
    <3> HIDE DEF r, y
    <3>3. x \in DOMAIN e /\ e[x] = r
      BY <2>3, <2>4 DEF IsPut
    <3>4. r.stamp = <<j, op.id[1]>> /\ r.value = op.of.value
      BY <3>2
    <3>5. EntryOf(l, e, x, j)
      BY <1>0, <1>2, <3>3, <3>4 DEF EntryOf
    <3> QED BY <2>4, <3>5 DEF y, j
  <2>5. CASE y # x
    <3> HIDE DEF r, y
    <3>1. (x \in DOMAIN e <=> x \in DOMAIN d) /\ (x \in DOMAIN d => e[x] = d[x])
      BY <2>3, <2>5 DEF IsPut
    <3>2. EntryOf(l, e, x, m)
      BY <3>1 DEF EntryOf
    <3> QED BY <2>5, <3>2 DEF y
  <2> QED BY <2>4, <2>5
<1>3. CASE op.of.type = "Remove"
  <2>1. op.delta = [type |-> "MapRemove"]
    BY <1>3 DEF Fits
  <2>2. e = Without(d, y)
    BY <1>1, <2>1 DEF apply_property, MapApply
  <2> HIDE DEF y
  <2>3. DOMAIN e = DOMAIN d \ {y} /\ \A z \in DOMAIN d : z # y => e[z] = d[z]
    <3> HIDE DEF j
    <3> QED BY <2>2 DEF Without, Restrict
  <2>4. CASE y = x
    <3> HIDE DEF j
    <3>1. EntryOf(l, e, x, j)
      BY <1>0, <1>3, <2>3, <2>4 DEF EntryOf
    <3> QED BY <2>4, <3>1 DEF y, j
  <2>5. CASE y # x
    <3>1. (x \in DOMAIN e <=> x \in DOMAIN d) /\ (x \in DOMAIN d => e[x] = d[x])
      BY <2>3, <2>5
    <3>2. EntryOf(l, e, x, m)
      BY <3>1 DEF EntryOf
    <3> QED BY <2>5, <3>2 DEF y
  <2> QED BY <2>4, <2>5
<1> QED BY <1>1, <1>2, <1>3

\* A map holds, of every key, the last op on it.
LEMMA MapSays ==
    ASSUME NEW l, Listed(l), NEW nx, Logged("map", l, nx)
    PROVE  \A n \in 0..Len(l) : \A x : EntryOf(l, Replay("map", l, n), x, LastOn(l, n, x))
<1> DEFINE T == {n \in 0..Len(l) : \A x : EntryOf(l, Replay("map", l, n), x, LastOn(l, n, x))}
<1>0. Len(l) \in Nat /\ "map" \in AllKinds
  BY DEF Listed, AllKinds
<1>1. 0 \in T
  <2>1. Replay("map", l, 0) = EmptyMap
    BY ReplaySteps DEF Bottom
  <2>2. \A x : LastOn(l, 0, x) = 0
    BY LastOnSteps
  <2>3. \A x : EntryOf(l, EmptyMap, x, 0)
    BY EmptyMapIs DEF EntryOf
  <2> QED BY <1>0, <2>1, <2>2, <2>3
<1>2. ASSUME NEW n \in 0..Len(l)-1, n \in T PROVE n + 1 \in T
  <2> DEFINE j == n + 1
             op == l[j]
             d == Replay("map", l, n)
             e == Replay("map", l, j)
  <2>0. n \in Nat /\ j \in 1..Len(l) /\ j \in 0..Len(l) /\ n \in 0..Len(l)
    BY <1>0
  <2>1. e = apply_property("map", d, op, j)
    BY <2>0, ReplaySteps
  <2>2. Fits("map", op) /\ op.id \in Nat \X Nat
    <3>1. LogOp("map", l, nx, j)
      BY <2>0 DEF Logged
    <3> QED BY <3>1, ClientAssumption DEF LogOp
  <2>3. IsDoc("map", d)
    BY <1>0, <2>0, LogReplays DEF ReplayedAt
  <2>4. ASSUME NEW x PROVE EntryOf(l, e, x, LastOn(l, j, x))
    <3> DEFINE m == LastOn(l, n, x)
    <3>1. m \in 0..n /\ LastOn(l, j, x) = IF op.of.key = x THEN j ELSE m
      BY <2>0, LastOnSteps
    <3>2. EntryOf(l, d, x, m)
      BY <1>2
    <3> HIDE DEF m, d, e
    <3>3. EntryOf(l, e, x, IF op.of.key = x THEN j ELSE m)
      <4> HIDE DEF op
      <4>1. op = l[n + 1]
        BY DEF op
      <4> QED BY <2>0, <2>1, <2>2, <2>3, <3>1, <3>2, <4>1, EntryStep
    <3> QED BY <3>1, <3>3
  <2> HIDE DEF j
  <2> QED BY <2>0, <2>4 DEF e, j
<1> HIDE DEF T
<1>3. \A n \in 0..Len(l) : n \in T
  BY <1>0, <1>1, <1>2, UpTo
<1> QED BY <1>3 DEF T

\* A set holds the items some addition of which no removal had seen.
LEMMA SetSays ==
    ASSUME NEW l, Listed(l), NEW nx, Logged("or_set", l, nx), NEW n \in 0..Len(l)
    PROVE  Members(Replay("or_set", l, n))
             = {x \in Items : \E a \in 1..n :
                  /\ l[a].of = [type |-> "Add", value |-> x]
                  /\ \A r \in 1..n : l[r].of = [type |-> "Remove", value |-> x]
                                     => l[r].seen < a}
<1> DEFINE d == Replay("or_set", l, n)
           Added(a, x) == l[a].of = [type |-> "Add", value |-> x]
           Removes(r, x) == l[r].of = [type |-> "Remove", value |-> x]
           Unseen(a, x) == \A r \in 1..n : Removes(r, x) => l[r].seen < a
<1>0. Len(l) \in Nat /\ n \in Nat /\ "or_set" \in AllKinds
  BY DEF Listed, AllKinds
<1>1. \A m \in 0..Len(l) : ReplayedAt("or_set", l, m)
  BY <1>0, LogReplays
<1>2. IsDoc("or_set", d) /\ d.removes = Untagged(l, n) /\ \A x : Tags(d, x) = Tagged(l, n, x)
  BY <1>1 DEF ReplayedAt
<1>3. ASSUME NEW a \in 1..n
      PROVE  /\ a \in 1..Len(l) /\ LogOp("or_set", l, nx, a) /\ a \in Nat
             /\ \A b \in 1..n : l[a].id = l[b].id => a = b
  <2>1. a \in 1..Len(l) /\ a \in Nat
    BY <1>0
  <2>2. ASSUME NEW b \in 1..n, l[a].id = l[b].id PROVE a = b
    <3>1. b \in 1..Len(l) /\ b \in Nat
      BY <1>0
    <3>2. LogOp("or_set", l, nx, a) /\ LogOp("or_set", l, nx, b)
      BY <2>1, <3>1 DEF Logged
    <3>3. /\ \A m \in 1..a - 1 : l[m].id # l[a].id
          /\ \A m \in 1..b - 1 : l[m].id # l[b].id
      BY <3>2, Zenon DEF LogOp
    <3>4. a \in 1..n /\ (a < b => a \in 1..b - 1) /\ (b < a => b \in 1..a - 1)
      BY <2>1, <3>1
    <3>5. ~(a < b) /\ ~(b < a)
      BY <2>2, <3>3, <3>4
    <3> QED BY <2>1, <3>1, <3>5
  <2> QED BY <2>1, <2>2 DEF Logged
<1>4. \A x : \A a \in 1..n : l[a].of.type = "Add" /\ l[a].of.value = x => Added(a, x)
  BY <1>3 DEF LogOp, Fits
<1>5. ASSUME NEW r \in 1..n, l[r].of.type = "Remove"
      PROVE  /\ l[r].seen \in 0..r - 1 /\ l[r].seen \in 0..Len(l) /\ l[r].seen \in Nat
             /\ l[r].delta.observed
                  = Tagged(l, l[r].seen, l[r].of.value) \ Untagged(l, l[r].seen)
             /\ Removes(r, l[r].of.value)
  <2> DEFINE s == l[r].seen
  <2>1. r \in 1..Len(l) /\ r \in Nat /\ LogOp("or_set", l, nx, r)
    BY <1>3
  <2>2. s \in 0..r - 1
    BY <2>1 DEF LogOp
  <2>3. s \in 0..Len(l) /\ s \in Nat
    BY <1>0, <2>1, <2>2
  <2> HIDE DEF s
  <2>4. ReplayedAt("or_set", l, s)
    BY <1>1, <2>3
  <2>5. Observes(l, l[r])
    BY <2>1 DEF LogOp
  <2>6. l[r].delta.observed = Tags(Replay("or_set", l, s), l[r].of.value)
                                \ Replay("or_set", l, s).removes
    BY <1>5, <2>5 DEF Observes, s
  <2>7. Removes(r, l[r].of.value)
    BY <1>5, <2>1 DEF LogOp, Fits
  <2> QED BY <2>2, <2>3, <2>4, <2>6, <2>7 DEF ReplayedAt, s
<1>6. ASSUME NEW x, NEW a \in 1..n, Added(a, x)
      PROVE  l[a].id \in Untagged(l, n) <=> ~Unseen(a, x)
  <2>1. l[a].of.type = "Add" /\ l[a].of.value = x
    BY <1>6
  <2>2. ASSUME l[a].id \in Untagged(l, n) PROVE ~Unseen(a, x)
    <3>1. PICK r \in 1..n : l[r].of.type = "Remove" /\ l[a].id \in l[r].delta.observed
      BY <2>2 DEF Untagged
    <3> DEFINE s == l[r].seen
               y == l[r].of.value
    <3>2. s \in 0..r - 1 /\ s \in Nat /\ l[a].id \in Tagged(l, s, y) /\ Removes(r, y)
      BY <1>5, <3>1
    <3>3. PICK b \in 1..s : l[b].id = l[a].id /\ l[b].of.value = y
      <4> HIDE DEF s, y
      <4> QED BY <3>2 DEF Tagged
    <3>4. b \in 1..n /\ b \in Nat
      BY <1>0, <3>2
    <3>5. a = b
      BY <1>3, <3>3, <3>4
    <3>6. y = x
      BY <2>1, <3>3, <3>5
    <3>7. ~(s < a)
      BY <3>2, <3>3, <3>4, <3>5
    <3> QED BY <3>2, <3>6, <3>7
  <2>3. ASSUME ~Unseen(a, x) PROVE l[a].id \in Untagged(l, n)
    <3>1. PICK r \in 1..n : Removes(r, x) /\ ~(l[r].seen < a)
      BY <2>3
    <3> DEFINE s == l[r].seen
    <3>2. l[r].of.type = "Remove" /\ l[r].of.value = x
      BY <3>1
    <3>3. /\ s \in 0..r - 1 /\ s \in Nat
          /\ l[r].delta.observed = Tagged(l, s, x) \ Untagged(l, s)
      BY <1>5, <3>2
    <3>4. a \in 1..s
      BY <1>3, <3>1, <3>3
    <3> HIDE DEF s
    <3>5. l[a].id \in Tagged(l, s, x)
      BY <2>1, <3>4 DEF Tagged
    <3>6. CASE l[a].id \in Untagged(l, s)
      <4>1. \A b \in 1..s : b \in 1..n
        BY <1>0, <3>3
      <4> QED BY <3>6, <4>1 DEF Untagged
    <3>7. CASE l[a].id \notin Untagged(l, s)
      <4>1. l[a].id \in l[r].delta.observed
        BY <3>3, <3>5, <3>7
      <4> QED BY <3>2, <4>1 DEF Untagged
    <3> QED BY <3>6, <3>7
  <2> QED BY <2>2, <2>3
<1>7. ASSUME NEW x
      PROVE  x \in Members(d) <=> x \in Items /\ \E a \in 1..n : Added(a, x) /\ Unseen(a, x)
  <2>1. x \in Members(d) <=> Tagged(l, n, x) \ Untagged(l, n) # {}
    <3>1. Tags(d, x) = Tagged(l, n, x) /\ d.removes = Untagged(l, n)
      BY <1>2
    <3> HIDE DEF d
    <3>2. x \in Members(d) <=> Tags(d, x) \ d.removes # {}
      BY DEF Members, Tags
    <3> QED BY <3>1, <3>2
  <2> HIDE DEF d, Added, Unseen
  <2>2. ASSUME NEW a \in 1..n, Added(a, x), Unseen(a, x), x \in Items PROVE x \in Members(d)
    <3>1. l[a].id \notin Untagged(l, n)
      BY <1>6, <2>2
    <3>2. l[a].id \in Tagged(l, n, x)
      BY <2>2 DEF Tagged, Added
    <3> QED BY <2>1, <3>1, <3>2
  <2>3. ASSUME x \in Members(d)
        PROVE  x \in Items /\ \E a \in 1..n : Added(a, x) /\ Unseen(a, x)
    <3>1. PICK a \in 1..n : /\ l[a].of.type = "Add" /\ l[a].of.value = x
                            /\ l[a].id \notin Untagged(l, n)
      BY <2>1, <2>3 DEF Tagged
    <3>2. Added(a, x)
      BY <1>4, <3>1
    <3>3. Unseen(a, x)
      BY <1>6, <3>1, <3>2
    <3>4. x \in Items
      BY <1>3, <3>1 DEF LogOp, Fits
    <3> QED BY <3>2, <3>3, <3>4
  <2> QED BY <2>2, <2>3
<1> HIDE DEF d
<1>8. Members(d) = {x \in Items : \E a \in 1..n : Added(a, x) /\ Unseen(a, x)}
  <2> HIDE DEF Added, Unseen
  <2> QED BY <1>7
<1> QED BY <1>8 DEF d

\* Whatever of the log a client has applied, its document means it.
THEOREM DocumentsMeanTheLog == Spec => []DocsMeanTheLog
<1>1. Core => DocsMeanTheLog
  <2> SUFFICES ASSUME Core, kind \notin {"sequence", "tree"}, NEW c \in joined
               PROVE  project_to(kind, doc[c], Fresh(kind)) = Said(applied[c])
    BY DEF DocsMeanTheLog
  <2> DEFINE n == applied[c]
             d == Replay(kind, log, n)
  <2>1. c \in Client /\ kind \in AllKinds /\ Listed(log) /\ Logged(kind, log, next)
    BY DEF Core, Kin, Typed
  <2>2. n \in 0..Len(log) /\ doc[c] = d /\ ReplayedAt(kind, log, n) /\ n \in Nat
    BY <2>1, DocsAreDocs
  <2>3. IsDoc(kind, d)
    BY <2>2 DEF ReplayedAt
  <2> SUFFICES project_to(kind, d, Fresh(kind)) = Said(n)
    BY <2>2
  <2> HIDE DEF n
  <2>4. CASE kind = "lww"
    <3>1. /\ n = 0 => d = None
          /\ n > 0 => d # None /\ d.value = log[n].of.value
      <4> HIDE DEF d
      <4>1. Logged("lww", log, next)
        BY <2>1, <2>4
      <4> QED BY <2>1, <2>2, <2>4, <4>1, RegisterSays DEF d
    <3> HIDE DEF d
    <3>2. project_to(kind, d, Fresh(kind)) = IF d = None THEN Default ELSE d.value
      BY <2>4 DEF project_to, Fresh
    <3>3. Said(n) = IF n = 0 THEN Default ELSE log[n].of.value
      BY <2>4 DEF Said
    <3>4. n = 0 \/ n > 0
      BY <2>2
    <3> QED BY <3>1, <3>2, <3>3, <3>4
  <2>5. CASE kind \in {"counter", "narrow"}
    <3>1. CounterValue(d) = Summed(log, n)
      BY <2>1, <2>2, <2>5, CounterSays
    <3> HIDE DEF d
    <3>2. SumSaid(n) = Summed(log, n)
      BY DEF SumSaid, Summed, FoldLeft, MapThenFoldSet
    <3>4. CASE kind = "counter"
      BY <3>1, <3>2, <3>4 DEF project_to, Said
    <3>5. CASE kind = "narrow"
      BY <3>1, <3>2, <3>5 DEF project_to, Said
    <3> QED BY <2>5, <3>4, <3>5
  <2>6. CASE kind = "or_set"
    <3>1. Members(d)
            = {x \in Items : \E a \in 1..n :
                 /\ log[a].of = [type |-> "Add", value |-> x]
                 /\ \A r \in 1..n : log[r].of = [type |-> "Remove", value |-> x]
                                    => log[r].seen < a}
      BY <2>1, <2>2, <2>6, SetSays
    <3> HIDE DEF d
    <3>2. project_to(kind, d, Fresh(kind)) = Members(d)
      BY <2>6 DEF project_to
    <3>3. Said(n)
            = {x \in Items : \E a \in 1..n :
                 /\ log[a].of = [type |-> "Add", value |-> x]
                 /\ \A r \in 1..n : log[r].of = [type |-> "Remove", value |-> x]
                                    => log[r].seen < a}
      BY <2>6 DEF Said
    <3> QED BY <3>1, <3>2, <3>3
  <2>7. CASE kind = "map"
    <3> DEFINE On(x) == LastOn(log, n, x)
               kept == {x \in Items : On(x) > 0 /\ log[On(x)].of.type = "Apply"}
    <3>1. \A x : EntryOf(log, d, x, On(x))
      <4> HIDE DEF d
      <4> QED BY <2>1, <2>2, <2>7, MapSays DEF d
    <3>2. DOMAIN d \subseteq Items /\ \A x \in DOMAIN d : d[x] # None
      BY <2>3, <2>7, NoneAssumption DEF IsDoc, Registers, Values
    <3> HIDE DEF d
    <3>3. project_to(kind, d, Fresh(kind)) = [x \in DOMAIN d |-> d[x].value]
      <4>1. project_to(kind, d, Fresh(kind)) = [k \in {x \in DOMAIN d : d[x] # None} |-> d[k].value]
        BY <2>7 DEF project_to
      <4>2. {x \in DOMAIN d : d[x] # None} = DOMAIN d
        BY <3>2
      <4> QED BY <4>1, <4>2
    <3>4. Said(n) = [x \in kept |-> log[On(x)].of.value]
      BY <2>7 DEF Said, LastOn
    <3> HIDE DEF On
    <3>5. DOMAIN d = kept /\ \A x \in kept : d[x].value = log[On(x)].of.value
      BY <3>1, <3>2 DEF EntryOf
    <3> HIDE DEF kept
    <3> QED BY <3>3, <3>4, <3>5
  <2> QED BY <2>1, <2>4, <2>5, <2>6, <2>7 DEF AllKinds
<1> QED BY <1>1, CoreAlways, PTL

-----------------------------------------------------------------------------
(* What a user does to a counter, the log counts once.                     *)

Adding(l) == Listed(l) /\ \A k \in 1..Len(l) : l[k].delta.by \in Int

\* What op adds of c's.
By(c, op) == IF op.id[1] = c THEN op.delta.by ELSE 0

\* The sums on the way.
Tally(t, c, l) ==
    /\ t \in [0..Len(l) -> Int] /\ t[0] = 0
    /\ \A k \in 1..Len(l) : t[k] = t[k - 1] + By(c, l[k])

LEMMA TallyIs ==
    ASSUME NEW c, NEW l, Adding(l)
    PROVE  \E t : Tally(t, c, l) /\ t[Len(l)] = SumBy(c, l)
<1> DEFINE n == Len(l)
           Op(x, o) == IF o.id[1] = c THEN x + o.delta.by ELSE x
           Folds(it) == it = [S \in SUBSET (1..n) |->
                                IF S = {} THEN 0
                                ELSE Op(it[S \ {Max(S)}], l[Max(S)])]
           iter == CHOOSE it : Folds(it)
           step == [x \in Int \X (1..n) |-> Op(x[1], l[x[2]])]
<1>0. n \in Nat /\ DOMAIN l = 1..n /\ \A k \in 1..n : l[k].delta.by \in Int
  BY DEF Adding, Listed
<1> HIDE DEF n
<1>1. SumBy(c, l) = iter[1..n]
  BY <1>0 DEF SumBy, FoldLeft, MapThenFoldSet, Max
<1>2. \A x \in Int, k \in 1..n : Op(x, l[k]) \in Int
  BY <1>0
<1>3. step \in [Int \X (1..n) -> Int]
  <2> HIDE DEF Op
  <2> QED BY <1>2
<1> HIDE DEF step
<1>4a. 0 \in Int
  OBVIOUS
<1>4. PICK g \in [SUBSET (1..n) -> Int] : Iterated(g, step, 0, n)
  BY <1>0, <1>3, <1>4a, Iterates
<1> HIDE DEF Op
<1> USE DEF step
<1>5. ASSUME NEW S \in SUBSET (1..n), S # {}
      PROVE  step[<<g[S \ {Max(S)}], Max(S)>>]
               = Op(g[S \ {Max(S)}], l[Max(S)])
  <2>1. S \in SUBSET Nat /\ \A x \in S : x <= n
    BY <1>0
  <2>2. Max(S) \in S
    BY <1>0, <1>5, <2>1, MaxOfBounded
  <2>3. <<g[S \ {Max(S)}], Max(S)>> \in Int \X (1..n)
    BY <2>2
  <2> QED BY <2>3
<1> HIDE DEF step
<1>6. Folds(g)
  BY <1>4, <1>5 DEF Iterated
<1>7. Folds(iter)
  <2> HIDE DEF Folds
  <2> QED BY <1>6
<1> HIDE DEF iter
<1> DEFINE t == [k \in 0..n |-> iter[1..k]]
<1>8. iter[1..0] = 0
  <2>1. 1..0 = {} /\ {} \in SUBSET (1..n)
    OBVIOUS
  <2> QED BY <1>7, <2>1
<1>9. ASSUME NEW k \in 1..n PROVE iter[1..k] = Op(iter[1..(k-1)], l[k])
  <2>1. 1..k # {} /\ 1..k \in SUBSET (1..n) /\ Max(1..k) = k /\ (1..k) \ {k} = 1..(k-1)
    BY <1>0, Prefix
  <2> QED BY <1>7, <2>1
<1> HIDE DEF Folds
<1> DEFINE T == {k \in 0..n : iter[1..k] \in Int}
<1>10. 0 \in T
  <2>1. 0 \in 0..n /\ iter[1..0] \in Int
    BY <1>0, <1>8
  <2> QED BY <2>1
<1>11. ASSUME NEW k \in 0..n-1, k \in T PROVE k + 1 \in T
  <2> DEFINE m == k + 1
  <2>1. m \in 1..n /\ m - 1 = k /\ m \in 0..n
    BY <1>0
  <2> HIDE DEF m
  <2>2. iter[1..m] = Op(iter[1..k], l[m])
    BY <1>9, <2>1
  <2> QED BY <1>2, <1>11, <2>1, <2>2 DEF m
<1> HIDE DEF T
<1>12. \A k \in 0..n : k \in T
  BY <1>0, <1>10, <1>11, UpTo
<1>13. Tally(t, c, l)
  <2>1. \A k \in 0..n : t[k] = iter[1..k] /\ iter[1..k] \in Int
    BY <1>12 DEF T
  <2>2. t \in [0..n -> Int]
    BY <2>1
  <2>3. 0 \in 0..n /\ \A k \in 1..n : k \in 0..n /\ k - 1 \in 0..n
    BY <1>0
  <2> HIDE DEF t
  <2>4. t[0] = 0
    BY <1>8, <2>1, <2>3
  <2>5. \A k \in 1..n : t[k] = t[k - 1] + By(c, l[k])
    <3> SUFFICES ASSUME NEW k \in 1..n PROVE t[k] = t[k - 1] + By(c, l[k])
      OBVIOUS
    <3>1. t[k] = Op(t[k - 1], l[k]) /\ t[k - 1] \in Int /\ l[k].delta.by \in Int
      BY <1>0, <1>9, <2>1, <2>3
    <3> QED BY <3>1 DEF Op, By
  <2> QED BY <2>2, <2>4, <2>5 DEF Tally, n
<1>14. t[n] = iter[1..n]
  BY <1>0
<1> HIDE DEF t
<1> QED BY <1>1, <1>13, <1>14 DEF n

\* The first n of l are in h from a on.
Within(h, a, l, n) ==
    a + n <= Len(h) /\ n <= Len(l) /\ \A k \in 1..n : h[a + k] = l[k]

LEMMA TalliesAgree ==
    ASSUME NEW c, NEW l, Adding(l), NEW t, Tally(t, c, l),
           NEW h, Listed(h), NEW s, Tally(s, c, h), NEW a \in Nat, NEW n \in Nat,
           Within(h, a, l, n), NEW m, m = a + n
    PROVE  s[m] = s[a] + t[n]
<1> DEFINE T == {k \in 0..n : s[a + k] = s[a] + t[k]}
<1>l. Len(l) \in Nat /\ Len(h) \in Nat
  BY DEF Adding, Listed
<1>w. a + n <= Len(h) /\ n <= Len(l) /\ \A k \in 1..n : h[a + k] = l[k]
  BY DEF Within
<1>0. \A k \in 0..Len(l) : t[k] \in Int
  BY DEF Tally
<1>00. \A k \in 0..Len(h) : s[k] \in Int
  BY DEF Tally
<1>1. 0 \in T
  <2>1. a + 0 = a /\ a \in 0..Len(h) /\ 0 \in 0..n
    BY <1>l, <1>w
  <2>2. s[a] \in Int /\ t[0] = 0
    BY <1>00, <2>1 DEF Tally
  <2>3. s[a] + t[0] = s[a]
    BY <2>2
  <2> QED BY <2>1, <2>3
<1>2. ASSUME NEW k \in 0..n-1, k \in T PROVE k + 1 \in T
  <2> DEFINE j == k + 1
             i == a + j
  <2>1. /\ j \in 1..n /\ j \in 0..n /\ j \in 1..Len(l) /\ i \in 1..Len(h) /\ j - 1 = k
        /\ i - 1 = a + k
        /\ k \in 0..Len(l) /\ a \in 0..Len(h)
    BY <1>l, <1>w
  <2> HIDE DEF j
  <2>2. t[j] = t[k] + By(c, l[j])
    BY <2>1 DEF Tally
  <2>3. h[i] = l[j]
    BY <1>w, <2>1
  <2> HIDE DEF i
  <2>4. s[i] = s[a + k] + By(c, l[j])
    BY <2>1, <2>3 DEF Tally
  <2>5. s[a + k] = s[a] + t[k]
    BY <1>2
  <2>6. t[k] \in Int /\ s[a] \in Int /\ t[j] \in Int
    BY <1>0, <1>00, <2>1
  <2> DEFINE b == By(c, l[j])
             x == s[a]
             y == t[k]
  <2>7. b \in Int
    <3>1. l[j].delta.by \in Int
      BY <2>1 DEF Adding
    <3> QED BY <3>1 DEF By
  <2>8. s[i] = (x + y) + b /\ t[j] = y + b /\ x \in Int /\ y \in Int
    BY <2>2, <2>4, <2>5, <2>6
  <2> HIDE DEF b, x, y
  <2>9. s[i] = x + t[j]
    BY <2>7, <2>8
  <2> QED BY <2>1, <2>9 DEF i, x
<1> HIDE DEF T
<1>3. \A k \in 0..n : k \in T
  BY <1>1, <1>2, UpTo
<1>4. n \in T
  BY <1>3
<1> QED BY <1>4 DEF T

LEMMA SumByGrows ==
    ASSUME NEW c, NEW l, Adding(l), NEW h, Adding(h)
    PROVE  /\ Adding(l \o h) /\ SumBy(c, l) \in Int /\ SumBy(c, h) \in Int
           /\ SumBy(c, l \o h) = SumBy(c, l) + SumBy(c, h)
<1> DEFINE u == l \o h
           A == Len(l)
           B == Len(h)
<1>1. Listed(l) /\ Listed(h) /\ A \in Nat /\ B \in Nat
  BY DEF Adding, Listed
<1>2. /\ Listed(u) /\ Len(u) = A + B
      /\ \A k \in 1..A : u[0 + k] = l[k]
      /\ \A k \in 1..B : u[A + k] = h[k]
  BY <1>1, ConcatOf
<1> HIDE DEF u
<1>3. Adding(u)
  <2> SUFFICES ASSUME NEW k \in 1..Len(u) PROVE u[k].delta.by \in Int
    BY <1>2 DEF Adding
  <2>1. CASE k \in 1..A
    <3>1. u[k] = l[k]
      BY <1>2, <2>1
    <3> QED BY <2>1, <3>1 DEF Adding
  <2>2. CASE k \notin 1..A
    <3> DEFINE j == k - A
    <3>1. j \in 1..B /\ A + j = k
      BY <1>1, <1>2, <2>2
    <3>2. u[k] = h[j]
      BY <1>2, <3>1
    <3> QED BY <3>1, <3>2 DEF Adding
  <2> QED BY <2>1, <2>2
<1>4. PICK t : Tally(t, c, l) /\ t[A] = SumBy(c, l)
  BY TallyIs
<1>5. PICK r : Tally(r, c, h) /\ r[B] = SumBy(c, h)
  BY TallyIs
<1>6. PICK s : Tally(s, c, u) /\ s[Len(u)] = SumBy(c, u)
  BY <1>3, TallyIs
<1>e. A = Len(l) /\ B = Len(h)
  OBVIOUS
<1>n. Len(u) = A + B
  BY <1>2
<1> DEFINE N == Len(u)
<1>N. N = A + B /\ A \in Nat /\ B \in Nat
  BY <1>1, <1>n
<1>M. N = Len(u)
  OBVIOUS
<1> HIDE DEF A, B, N
<1>L. 0 \in Nat /\ 0 + A <= N /\ A <= A /\ B <= B /\ A + B <= N /\ 0 + A = A
      /\ A \in 0..A /\ B \in 0..B
  BY <1>N
<1>7. s[A] = s[0] + t[A]
  <2>1. Within(u, 0, l, A)
    BY <1>2, <1>L, <1>e, <1>M, Zenon DEF Within
  <2> QED BY <1>2, <1>4, <1>6, <1>L, <1>N, <2>1, TalliesAgree
<1>8. s[N] = s[A] + r[B]
  <2>1. Within(u, A, h, B)
    BY <1>2, <1>L, <1>e, <1>M, Zenon DEF Within
  <2> QED BY <1>2, <1>5, <1>6, <1>L, <1>N, <2>1, TalliesAgree
<1>9. s[0] = 0 /\ t[A] \in Int /\ r[B] \in Int
  <2>1. t \in [0..A -> Int] /\ r \in [0..B -> Int] /\ s[0] = 0
    BY <1>4, <1>5, <1>6, <1>e DEF Tally
  <2> QED BY <1>L, <2>1
<1>10. SumBy(c, u) = t[A] + r[B]
  <2>1. s[A] = t[A]
    BY <1>7, <1>9, <1>L
  <2> QED BY <1>6, <1>8, <1>M, <2>1
<1> QED BY <1>3, <1>4, <1>5, <1>9, <1>10 DEF u

LEMMA SumByOne ==
    ASSUME NEW c, NEW l, Adding(l)
    PROVE  /\ Len(l) = 0 => SumBy(c, l) = 0
           /\ Len(l) = 1 => SumBy(c, l) = By(c, l[1])
<1>1. PICK t : Tally(t, c, l) /\ t[Len(l)] = SumBy(c, l)
  BY TallyIs
<1>2. CASE Len(l) = 0
  BY <1>1, <1>2 DEF Tally
<1>3. CASE Len(l) = 1
  <2>1. 1 \in 1..Len(l) /\ 1 - 1 = 0
    BY <1>3
  <2>2. t[1] = t[0] + By(c, l[1]) /\ t[0] = 0
    BY <1>1, <2>1, Zenon DEF Tally
  <2>3. By(c, l[1]) \in Int
    BY <2>1 DEF Adding, By
  <2> QED BY <1>1, <1>3, <2>2, <2>3
<1> QED BY <1>2, <1>3

\* What c's ops come to, those in the log and those on their way to it.
Own(c) == SumBy(c, log \o wire[c] \o queue[c])

Way(c) == Pending(log, applied[c], queue[c], wire[c], c)

Value(c) == CounterValue(doc[c])

\* How the numbers of a kind are read: a narrow component's modulo Wrap.
Read(w) == (kind = "counter" /\ w = 0) \/ (kind = "narrow" /\ w = Wrap)

\* Unless c is editing it shows its document, if it is to look at it or waits
\* for nothing; and what its user did is in its ops, or is what the component
\* has above the document.
Counts(w, c) ==
    /\ meant[c] \in Int
    /\ edited[c] => changed[c]
    /\ ~edited[c] /\ (changed[c] \/ ~Way(c)) => Turns(w, comp[c] - Value(c))
    /\ ~mixed[c] /\ ~edited[c] => Turns(w, meant[c] - Own(c))
    /\ ~mixed[c] /\ edited[c] /\ ~Way(c)
         => Turns(w, (meant[c] - Own(c)) - (comp[c] - Value(c)))

AllCount(w) == Read(w) => \A c \in Holder : Counts(w, c)

LEMMA Numbers ==
    ASSUME Core, NEW w, Read(w), NEW c \in Client
    PROVE  /\ w \in Nat /\ kind \in {"counter", "narrow"}
           /\ c \in Holder => comp[c] \in Int
           /\ Adding(log) /\ Adding(wire[c]) /\ Adding(queue[c])
           /\ Value(c) \in Int /\ Own(c) \in Int
           /\ Own(c) = (SumBy(c, log) + SumBy(c, wire[c])) + SumBy(c, queue[c])
           /\ SumBy(c, log) \in Int /\ SumBy(c, wire[c]) \in Int /\ SumBy(c, queue[c]) \in Int
           /\ Adding(log \o wire[c] \o queue[c])
<1>0. w \in Nat /\ kind \in {"counter", "narrow"}
  BY SchemaAssumption DEF Read
<1> DEFINE v == wire[c]
           q == queue[c]
           u == v \o q
<1>1. Listed(log) /\ Logged(kind, log, next) /\ Listed(v) /\ Listed(q)
      /\ Waiting(kind, log, u, c, next[c])
  BY DEF Core, Kin, Typed, AllKept, Kept, Held
<1>2. Adding(log)
  <2> SUFFICES ASSUME NEW n \in 1..Len(log) PROVE log[n].delta.by \in Int
    BY <1>1 DEF Adding
  <2>1. Fits(kind, log[n])
    BY <1>1 DEF Logged, LogOp
  <2> QED BY <1>0, <2>1 DEF Fits
<1> HIDE DEF v, q
<1>3. /\ Len(u) = Len(v) + Len(q)
      /\ \A n \in 1..Len(v) : u[n] = v[n]
      /\ \A n \in 1..Len(q) : u[Len(v) + n] = q[n]
      /\ Len(v) \in Nat /\ Len(q) \in Nat
  BY <1>1, ConcatOf DEF Listed
<1>4. \A j \in 1..Len(u) : u[j].delta.by \in Int
  <2> HIDE DEF u
  <2> SUFFICES ASSUME NEW j \in 1..Len(u) PROVE u[j].delta.by \in Int
    OBVIOUS
  <2>1. Fits(kind, u[j])
    BY <1>1 DEF Waiting, WaitOp
  <2> QED BY <1>0, <2>1 DEF Fits
<1> HIDE DEF u
<1>5. Adding(v)
  <2>1. \A n \in 1..Len(v) : n \in 1..Len(u)
    BY <1>3
  <2>2. \A n \in 1..Len(v) : u[n] = v[n] /\ u[n].delta.by \in Int
    BY <1>3, <1>4, <2>1, Zenon
  <2> QED BY <1>1, <2>2 DEF Adding
<1>6. Adding(q)
  <2>1. \A n \in 1..Len(q) : Len(v) + n \in 1..Len(u)
    BY <1>3
  <2>2. \A n \in 1..Len(q) : u[Len(v) + n] = q[n] /\ u[Len(v) + n].delta.by \in Int
    BY <1>3, <1>4, <2>1, Zenon
  <2> QED BY <1>1, <2>2 DEF Adding
<1>7. /\ Adding(log \o v) /\ SumBy(c, log) \in Int /\ SumBy(c, v) \in Int
      /\ SumBy(c, log \o v) = SumBy(c, log) + SumBy(c, v)
  BY <1>2, <1>5, SumByGrows
<1>8. /\ Adding((log \o v) \o q) /\ SumBy(c, q) \in Int
      /\ SumBy(c, (log \o v) \o q) = SumBy(c, log \o v) + SumBy(c, q)
  BY <1>6, <1>7, SumByGrows
<1>9. Value(c) \in Int
  <2>1. /\ applied[c] \in 0..Len(log) /\ doc[c] = Replay(kind, log, applied[c])
        /\ \A n \in 0..Len(log) : ReplayedAt(kind, log, n)
    BY DocsAreDocs
  <2> DEFINE d == doc[c]
  <2>2. IsDoc(kind, d)
    BY <2>1 DEF ReplayedAt
  <2> DEFINE z == Fresh(kind)
  <2>3. Shown(kind, z) /\ kind \in AllKinds
    BY <1>0, FreshShows DEF AllKinds
  <2> HIDE DEF d, z
  <2>4. CounterValue(d) \in Int
    BY <1>0, <2>2, <2>3, ProjectShows
  <2> QED BY <2>4 DEF Value, d
<1>10. Own(c) = (SumBy(c, log) + SumBy(c, v)) + SumBy(c, q)
  BY <1>7, <1>8 DEF Own, v, q
<1>11. Own(c) \in Int
  BY <1>7, <1>8, <1>10
<1>12. c \in Holder => comp[c] \in Int
  <2>1. c \in Holder => Shown(kind, comp[c])
    BY DEF Core, AllShown
  <2>2. 0..Wrap - 1 \subseteq Int
    OBVIOUS
  <2> QED BY <1>0, <2>1, <2>2 DEF Shown
<1> QED BY <1>0, <1>2, <1>5, <1>6, <1>7, <1>8, <1>9, <1>10, <1>11, <1>12 DEF v, q

\* A step that leaves c alone.
Aloof(c) ==
    /\ Aside(c) /\ edited'[c] = edited[c] /\ meant'[c] = meant[c] /\ mixed'[c] = mixed[c]
    /\ \/ log' = log
       \/ \E op : Longer(log', log, op) /\ op.id[1] # c /\ op.delta.by \in Int

LEMMA AloofCounts ==
    ASSUME Core, NEW w, Read(w), NEW c \in Holder, Counts(w, c), Aloof(c)
    PROVE  Counts(w, c)'
<1>1. c \in Client /\ Listed(log)
  BY ClientAssumption DEF Core, Kin, Typed
<1>2. applied[c] \in Nat
  BY <1>1, DocsAreDocs
<1>3. Way(c) => Way(c)'
  <2>1. Pending(log, applied[c], queue[c], wire[c], c)
          => Pending(log', applied[c], queue[c], wire[c], c)
    <3>1. CASE log' = log
      BY <3>1
    <3>2. CASE \E op : Longer(log', log, op)
      BY <1>1, <1>2, <3>2, PendingStays
    <3> QED BY <3>1, <3>2 DEF Aloof
  <2> QED BY <2>1, Zenon DEF Way, Aloof, Aside
<1>4. Own(c)' = Own(c)
  <2> DEFINE v == wire[c]
             q == queue[c]
  <2>1. wire'[c] = v /\ queue'[c] = q
    BY DEF Aloof, Aside
  <2>2. /\ Adding(log) /\ Adding(v) /\ Adding(q)
        /\ Own(c) = (SumBy(c, log) + SumBy(c, v)) + SumBy(c, q)
    BY <1>1, Numbers
  <2>3. CASE log' = log
    BY <2>1, <2>3 DEF Own
  <2>4. CASE log' # log
    <3>1. PICK op : Longer(log', log, op) /\ op.id[1] # c /\ op.delta.by \in Int
      BY <2>4 DEF Aloof
    <3> DEFINE o == <<op>>
               h == log'
               l == log
    <3>2. Listed(o) /\ Len(o) = 1 /\ o[1] = op
      BY DEF Listed
    <3>3. Adding(o)
      BY <3>1, <3>2 DEF Adding
    <3> HIDE DEF o, v, q
    <3>4. h = l \o o
      <4> HIDE DEF h, l
      <4>1. Listed(l) /\ Longer(h, l, op)
        BY <1>1, <3>1 DEF h, l
      <4> QED BY <3>2, <4>1, LongerByOne
    <3>5. SumBy(c, o) = 0
      <4>1. SumBy(c, o) = By(c, op)
        BY <3>2, <3>3, SumByOne
      <4> QED BY <3>1, <4>1 DEF By
    <3>6. /\ Adding(l) /\ Adding(h) /\ SumBy(c, l) \in Int
          /\ SumBy(c, h) = SumBy(c, l) + SumBy(c, o)
      <4> HIDE DEF h, l
      <4>1. Adding(l)
        BY <2>2 DEF l
      <4>2. Adding(l \o o) /\ SumBy(c, l) \in Int /\ SumBy(c, l \o o) = SumBy(c, l) + SumBy(c, o)
        BY <3>3, <4>1, SumByGrows
      <4> QED BY <3>4, <4>1, <4>2
    <3>7. SumBy(c, h) = SumBy(c, l)
      <4> HIDE DEF h, l
      <4> QED BY <3>5, <3>6
    <3>8. SumBy(c, (h \o v) \o q) = (SumBy(c, h) + SumBy(c, v)) + SumBy(c, q)
      <4> HIDE DEF h, l
      <4>1. Adding(h \o v) /\ SumBy(c, h \o v) = SumBy(c, h) + SumBy(c, v)
        BY <2>2, <3>6, SumByGrows
      <4>2. SumBy(c, (h \o v) \o q) = SumBy(c, h \o v) + SumBy(c, q)
        BY <2>2, <4>1, SumByGrows
      <4> QED BY <4>1, <4>2
    <3>9. Own(c)' = SumBy(c, (h \o v) \o q)
      BY <2>1 DEF Own
    <3>10. Own(c) = (SumBy(c, l) + SumBy(c, v)) + SumBy(c, q)
      BY <2>2
    <3> HIDE DEF h, l
    <3> QED BY <3>7, <3>8, <3>9, <3>10
  <2> QED BY <2>3, <2>4
<1>5. /\ comp'[c] = comp[c] /\ Value(c)' = Value(c) /\ meant'[c] = meant[c]
      /\ changed'[c] = changed[c] /\ edited'[c] = edited[c] /\ mixed'[c] = mixed[c]
  BY DEF Aloof, Aside, Value
<1> QED BY <1>3, <1>4, <1>5 DEF Counts

LEMMA InitCounts ==
    ASSUME NEW w
    PROVE  Init => AllCount(w)
<1> SUFFICES ASSUME Init, Read(w), NEW c \in Holder PROVE Counts(w, c)
  BY DEF AllCount
<1>1. c \in Client
  BY ClientAssumption
<1>2. /\ comp[c] = 0 /\ doc[c] = EmptyCounter /\ meant[c] = 0 /\ ~edited[c] /\ changed[c]
      /\ log = << >> /\ wire[c] = << >> /\ queue[c] = << >>
  BY <1>1 DEF Init, Fresh, Bottom, Read
<1>3. Value(c) = 0
  BY <1>2, TotalOfEmpty DEF Value, CounterValue, EmptyCounter
<1>4. Own(c) = 0
  <2> DEFINE e == << >>
  <2>1. Listed(e) /\ Len(e) = 0
    BY DEF Listed
  <2>2. Adding(e)
    BY <2>1 DEF Adding
  <2>3. e \o e = e
    BY <2>1, NothingMore
  <2> HIDE DEF e
  <2>4. SumBy(c, e) = 0
    BY <2>1, <2>2, SumByOne
  <2>5. (e \o e) \o e = e
    BY <2>3
  <2>6. Own(c) = SumBy(c, (e \o e) \o e)
    BY <1>2 DEF Own, e
  <2> QED BY <2>4, <2>5, <2>6
<1>5. Turns(w, 0)
  BY SchemaAssumption, TurnsAre DEF Read
<1>6. 0 - 0 = 0 /\ 0 \in Int
  OBVIOUS
<1> QED BY <1>2, <1>3, <1>4, <1>5, <1>6 DEF Counts

LEMMA EditCounts ==
    ASSUME Core, NEW w, AllCount(w), NEW c \in Holder, UserEdit(c)
    PROVE  AllCount(w)'
<1> SUFFICES ASSUME Read(w) PROVE \A e \in Holder : Counts(w, e)'
  BY DEF AllCount, UserEdit, Read
<1>1. /\ DOMAIN comp = Holder /\ DOMAIN meant = Holder /\ DOMAIN changed = Holder
      /\ DOMAIN edited = Holder /\ c \in Client
  BY ClientAssumption DEF Core, Kin, Typed
<1>2. UNCHANGED <<kind, log, doc, applied, queue, wire, mixed>>
  BY DEF UserEdit
<1>3. PICK value \in {comp[c] - 1, comp[c] + 1} :
        /\ comp' = [comp EXCEPT ![c] = value]
        /\ meant' = [meant EXCEPT ![c] = @ + value - comp[c]]
  BY DEF UserEdit, Edits, IsCounter, Read
<1>4. changed' = [changed EXCEPT ![c] = TRUE] /\ edited' = [edited EXCEPT ![c] = TRUE]
  BY DEF UserEdit
<1>5. Counts(w, c)'
  <2> DEFINE v == comp[c]
             m == meant[c]
             s == Value(c)
             o == Own(c)
  <2>1. v \in Int /\ m \in Int /\ s \in Int /\ o \in Int /\ w \in Nat
    BY <1>1, Numbers DEF AllCount, Counts
  <2>2. /\ comp'[c] = value /\ meant'[c] = m + value - v /\ changed'[c] /\ edited'[c]
        /\ Value(c)' = s /\ Own(c)' = o /\ (Way(c)' <=> Way(c)) /\ (mixed'[c] <=> mixed[c])
    BY <1>1, <1>2, <1>3, <1>4 DEF Value, Own, Way
  <2>3. Counts(w, c)
    BY DEF AllCount
  <2>4. ~mixed[c] /\ ~Way(c) => Turns(w, (m - o) - (v - s))
    <3>1. CASE edited[c]
      BY <2>3, <3>1 DEF Counts
    <3>2. CASE ~edited[c]
      <4>1. ~mixed[c] /\ ~Way(c) => Turns(w, v - s) /\ Turns(w, m - o)
        BY <2>3, <3>2 DEF Counts
      <4> HIDE DEF v, m, s, o
      <4>2. v - s \in Int /\ m - o \in Int
        BY <2>1
      <4> QED BY <2>1, <4>1, <4>2, TurnsAdd
    <3> QED BY <3>1, <3>2
  <2>5. value \in Int
    BY <1>3, <2>1
  <2> HIDE DEF v, m, s, o
  <2>6. ((m + value - v) - o) - (value - s) = (m - o) - (v - s)
    BY <2>1, <2>5
  <2>7. m + value - v \in Int
    BY <2>1, <2>5
  <2> QED BY <2>2, <2>4, <2>6, <2>7 DEF Counts
<1>6. ASSUME NEW e \in Holder, e # c PROVE Counts(w, e)'
  <2>1. Aloof(e)
    BY <1>1, <1>2, <1>3, <1>4, <1>6 DEF Aloof, Aside
  <2> QED BY <2>1, AloofCounts DEF AllCount
<1> QED BY <1>5, <1>6

LEMMA DiffOfCounter ==
    ASSUME NEW k \in AllKinds, NEW d, NEW v
    PROVE  k \in {"counter", "narrow"} =>
             diff(k, d, v) = IF v = CounterValue(d) THEN << >>
                             ELSE <<[type |-> "Inc", by |-> v - CounterValue(d)]>>
<1> DEFINE ms == diff(k, d, v)
           s == CounterValue(d)
           m == [type |-> "Inc", by |-> v - s]
<1>1. CASE k \in {"counter", "narrow"}
  <2>1. ms = IF v = s THEN << >> ELSE <<m>>
    BY <1>1 DEF diff
  <2> QED BY <2>1
<1> QED BY <1>1

\* What a detection mints of a counter is the difference, if it looks.
LEMMA DetectAdds ==
    ASSUME Core, kind \in {"counter", "narrow"}, NEW c \in Holder, NEW ms,
           ms = IF changed[c] THEN diff(kind, doc[c], comp[c]) ELSE << >>,
           NEW ops, ops = Ops(c, ms), comp[c] \in Int, Value(c) \in Int
    PROVE  /\ Adding(ops)
           /\ changed[c] => SumBy(c, ops) = comp[c] - Value(c)
           /\ ~changed[c] => SumBy(c, ops) = 0
           /\ changed[c] /\ comp[c] # Value(c) => Len(ops) # 0
<1> DEFINE v == comp[c]
           s == Value(c)
           m == [type |-> "Inc", by |-> v - s]
<1>1. Listed(ms)
  BY AskedIs
<1>2. PICK g : Drafts(g, ops, kind, doc[c], ms, c, next[c], applied[c], Len(log))
  BY <1>1, OpsAreDrafted
<1>3. Listed(ops) /\ Len(ops) = Len(ms)
  BY <1>2 DEF Drafts
<1>d. diff(kind, doc[c], comp[c])
        = IF v = s THEN << >> ELSE <<[type |-> "Inc", by |-> comp[c] - CounterValue(doc[c])]>>
  BY DiffOfCounter DEF Value, AllKinds
<1>4. CASE changed[c] /\ v # s
  <2>1. ms = <<m>>
    BY <1>4, <1>d DEF Value
  <2> DEFINE by == v - s
  <2>2. m.by = by /\ by \in Int
    OBVIOUS
  <2> HIDE DEF m, by
  <2>a. Len(ms) = 1 /\ ms[1] = m
    BY <2>1
  <2>3. 1 \in 1..Len(ms) /\ 1 - 1 = 0
    BY <2>a
  <2> DEFINE id == <<c, next[c] + 1 - 1>>
  <2>4. ops[1] = MadeOp(kind, g[0], m, id, applied[c])
    BY <1>2, <2>a, <2>3 DEF Drafts
  <2>5. id[1] = c
    OBVIOUS
  <2> HIDE DEF id
  <2>6. ops[1].id[1] = c /\ ops[1].delta.by = by
    BY <2>2, <2>4, <2>5 DEF MadeOp, mutate
  <2>7. By(c, ops[1]) = by
    BY <2>6 DEF By
  <2>8. Adding(ops)
    <3>1. \A k \in 1..Len(ops) : k = 1
      <4>1. Len(ops) = 1
        BY <1>3, <2>a
      <4> HIDE DEF m
      <4> QED BY ONLY <4>1
    <3>2. \A k \in 1..Len(ops) : ops[k].delta.by \in Int
      BY <2>2, <2>6, <3>1
    <3> QED BY <1>3, <3>2 DEF Adding
  <2>9. SumBy(c, ops) = by
    BY <1>3, <2>a, <2>7, <2>8, SumByOne
  <2> QED BY <1>3, <1>4, <2>a, <2>8, <2>9 DEF by
<1>5. CASE ~(changed[c] /\ v # s)
  <2>1. ms = << >>
    BY <1>5, <1>d
  <2>2. Len(ms) = 0
    BY <2>1
  <2> HIDE DEF m
  <2>3. Adding(ops)
    <3>1. 1..Len(ops) = {}
      BY <1>3, <2>2
    <3> QED BY <1>3, <3>1 DEF Adding
  <2>4. SumBy(c, ops) = 0
    BY <1>3, <2>2, <2>3, SumByOne
  <2>5. changed[c] => v - s = 0 /\ v = s
    BY <1>5
  <2> QED BY <2>3, <2>4, <2>5
<1> QED BY <1>4, <1>5

LEMMA DetectCounts ==
    ASSUME Core, NEW w, AllCount(w), NEW c \in Holder, detect_local_changes(c)
    PROVE  AllCount(w)'
<1> SUFFICES ASSUME Read(w) PROVE \A e \in Holder : Counts(w, e)'
  BY DEF AllCount, detect_local_changes, Read
<1> DEFINE ms == IF changed[c] THEN diff(kind, doc[c], comp[c]) ELSE << >>
           ops == Ops(c, ms)
           q == queue[c]
<1>1. /\ DOMAIN changed = Holder /\ DOMAIN edited = Holder /\ DOMAIN mixed = Holder
      /\ DOMAIN queue = Client /\ c \in Client
  BY ClientAssumption DEF Core, Kin, Typed
<1>2. /\ queue' = [queue EXCEPT ![c] = @ \o ops]
      /\ changed' = [changed EXCEPT ![c] = FALSE] /\ edited' = [edited EXCEPT ![c] = FALSE]
      /\ mixed' = [mixed EXCEPT ![c] = @ \/ (edited[c] /\ InFlight(c))]
      /\ UNCHANGED <<kind, log, doc, applied, wire, comp, meant>>
  BY DEF detect_local_changes
<1>3. /\ comp[c] \in Int /\ Value(c) \in Int /\ Own(c) \in Int /\ meant[c] \in Int
      /\ w \in Nat /\ kind \in {"counter", "narrow"}
  BY <1>1, Numbers DEF AllCount, Counts
<1>4. /\ Adding(ops)
      /\ changed[c] => SumBy(c, ops) = comp[c] - Value(c)
      /\ ~changed[c] => SumBy(c, ops) = 0
      /\ changed[c] /\ comp[c] # Value(c) => Len(ops) # 0
  <2> HIDE DEF ms
  <2>1. ms = IF changed[c] THEN diff(kind, doc[c], comp[c]) ELSE << >>
    BY DEF ms
  <2> HIDE DEF ops
  <2>2. ops = Ops(c, ms)
    BY DEF ops
  <2> QED BY <1>3, <2>1, <2>2, DetectAdds
<1>5. queue'[c] = q \o ops
  BY <1>1, <1>2
<1> HIDE DEF ops, ms
<1>6. Listed(q) /\ Listed(ops)
  BY <1>1, <1>4 DEF Core, AllKept, Kept, Held, Adding
<1>7. Own(c)' = Own(c) + SumBy(c, ops)
  <2> DEFINE a == log \o wire[c]
             b == a \o q
  <2>1. Listed(a) /\ Adding(b)
    <3>1. Listed(log) /\ Listed(wire[c])
      BY <1>1 DEF Core, Kin, Typed, AllKept, Kept, Held
    <3> QED BY <1>1, <3>1, ConcatOf, Numbers
  <2>2. Own(c)' = SumBy(c, a \o (q \o ops))
    BY <1>2, <1>5 DEF Own
  <2>3. Own(c) = SumBy(c, b)
    BY DEF Own
  <2> HIDE DEF a, q
  <2>4. a \o (q \o ops) = b \o ops
    BY <1>6, <2>1, OneAfterOther
  <2> HIDE DEF b
  <2>5. SumBy(c, b \o ops) = SumBy(c, b) + SumBy(c, ops)
    BY <1>4, <2>1, SumByGrows
  <2> QED BY <2>2, <2>3, <2>4, <2>5
<1>8. Way(c) \/ Len(ops) # 0 => Way(c)'
  <2>1. q # << >> \/ Len(ops) # 0 => q \o ops # << >>
    <3> HIDE DEF q
    <3> QED BY <1>6, MoreIsMore
  <2> QED BY <1>2, <1>5, <2>1 DEF Way, Pending
<1>9. Counts(w, c)'
  <2> DEFINE v == comp[c]
             s == Value(c)
             m == meant[c]
             o == Own(c)
             x == SumBy(c, ops)
  <2>1. comp'[c] = v /\ Value(c)' = s /\ meant'[c] = m /\ ~changed'[c] /\ ~edited'[c]
    BY <1>1, <1>2 DEF Value
  <2>2. mixed'[c] <=> mixed[c] \/ (edited[c] /\ Way(c))
    BY <1>1, <1>2 DEF Way, Pending, InFlight
  <2>3. Counts(w, c)
    BY DEF AllCount
  <2>4. ~Way(c)' => Turns(w, v - s)
    <3>1. ~Way(c)' => ~Way(c) /\ Len(ops) = 0
      BY <1>8
    <3>2. CASE changed[c]
      <4>1. ~Way(c)' => v - s = 0
        BY <1>3, <1>4, <3>1, <3>2
      <4>2. Turns(w, 0)
        BY <1>3, TurnsAre
      <4> QED BY <4>1, <4>2
    <3>3. CASE ~changed[c]
      BY <2>3, <3>1, <3>3 DEF Counts
    <3> QED BY <3>2, <3>3
  <2>5. x \in Int
    BY <1>3, <1>4
  <2>6. ~mixed'[c] => Turns(w, m - (o + x))
    <3> SUFFICES ASSUME ~mixed'[c] PROVE Turns(w, m - (o + x))
      OBVIOUS
    <3>1. CASE edited[c]
      <4>1. changed[c] /\ ~mixed[c] /\ ~Way(c) /\ Turns(w, (m - o) - (v - s))
        BY <2>2, <2>3, <3>1 DEF Counts
      <4>2. x = v - s
        BY <1>4, <4>1
      <4>3. m - (o + x) = (m - o) - (v - s)
        <5> HIDE DEF v, s, m, o, x
        <5> QED BY <1>3, <4>2 DEF v, s, m, o
      <4> QED BY <4>1, <4>3
    <3>2. CASE ~edited[c]
      <4>1. Turns(w, m - o) /\ (changed[c] => Turns(w, v - s))
        BY <2>2, <2>3, <3>2 DEF Counts
      <4>2. Turns(w, x)
        BY <1>3, <1>4, <4>1, TurnsAre
      <4>3. o \in Int /\ m \in Int /\ w \in Nat
        BY <1>3
      <4> HIDE DEF m, o, x
      <4>4. m - o \in Int /\ m - (o + x) = (m - o) - x
        BY <2>5, <4>3
      <4> QED BY <2>5, <4>1, <4>2, <4>3, <4>4, TurnsAdd
    <3> QED BY <3>1, <3>2
  <2>7. m \in Int /\ Own(c)' = o + x
    BY <1>3, <1>7
  <2> HIDE DEF v, s, m, o, x
  <2> QED BY <2>1, <2>4, <2>6, <2>7 DEF Counts
<1>10. ASSUME NEW e \in Holder, e # c PROVE Counts(w, e)'
  <2>1. e \in Client
    BY ClientAssumption
  <2>2. Aloof(e)
    BY <1>1, <1>2, <1>10, <2>1 DEF Aloof, Aside
  <2> QED BY <2>2, AloofCounts DEF AllCount
<1> QED BY <1>9, <1>10

LEMMA PendingShips ==
    ASSUME NEW l, NEW a, NEW q, Listed(q), NEW w, Listed(w), NEW c, Pending(l, a, q, w, c)
    PROVE  Pending(l, a, << >>, w \o q, c)
<1>1. w # << >> => w \o q # << >>
  BY MoreIsMore
<1>2. q # << >> => w \o q # << >>
  <2>1. w = << >> => w \o q = q
    <3>1. << >> \o q = q
      BY NothingFirst
    <3> QED BY <3>1
  <2> QED BY <1>1, <2>1
<1> QED BY <1>1, <1>2 DEF Pending

LEMMA IntegrateCounts ==
    ASSUME Core, NEW w, AllCount(w), NEW c \in Holder, Integrate(c)
    PROVE  AllCount(w)'
<1> SUFFICES ASSUME Read(w) PROVE \A e \in Holder : Counts(w, e)'
  BY DEF AllCount, Integrate, Read
<1>1. UNCHANGED <<kind, log, next, edited, meant>>
  BY DEF Integrate
<1>2. PICK n \in applied[c]..Len(log), other \in BOOLEAN :
        /\ doc' = [doc EXCEPT ![c] = Caught(c, n)]
        /\ applied' = [applied EXCEPT ![c] = n]
        /\ comp' = [comp EXCEPT ![c] = Projected(c, n, other)]
        /\ changed' = [changed EXCEPT ![c] = @ \/ Stirred(c, n, other)]
        /\ mixed' = [mixed EXCEPT ![c] = @ \/ (edited[c] /\ Stirred(c, n, other))]
  BY DEF Integrate
<1>3. /\ wire' = [wire EXCEPT ![c] = @ \o queue[c]]
      /\ queue' = [queue EXCEPT ![c] = << >>]
  BY DEF Integrate
<1>4. c \in Client /\ Typed
  BY ClientAssumption DEF Core, Kin, Typed
<1>5. applied[c] \in 0..Len(log) /\ Len(log) \in Nat /\ doc[c] = Replay(kind, log, applied[c])
  BY <1>4, DocsAreDocs
<1>6. /\ doc'[c] = Caught(c, n) /\ applied'[c] = n /\ comp'[c] = Projected(c, n, other)
      /\ wire'[c] = wire[c] \o queue[c] /\ queue'[c] = << >>
      /\ changed'[c] = (changed[c] \/ Stirred(c, n, other))
      /\ mixed'[c] = (mixed[c] \/ (edited[c] /\ Stirred(c, n, other)))
  BY <1>2, <1>3, <1>4 DEF Typed
<1>7. Own(c)' = Own(c)
  <2> DEFINE v == wire[c]
             q == queue[c]
             l == log
  <2>1. Listed(l) /\ Listed(v) /\ Listed(q)
    BY <1>4 DEF Core, Kin, Typed, AllKept, Kept, Held
  <2>2. Own(c)' = SumBy(c, (l \o (v \o q)) \o << >>)
    BY <1>1, <1>6 DEF Own
  <2>3. Own(c) = SumBy(c, (l \o v) \o q)
    BY DEF Own
  <2> HIDE DEF l, v, q
  <2>4. l \o (v \o q) = (l \o v) \o q
    BY <2>1, OneAfterOther
  <2>5. Listed((l \o v) \o q)
    <3>1. Listed(l \o v)
      BY <2>1, ConcatOf
    <3> QED BY <2>1, <3>1, ConcatOf
  <2> DEFINE u == (l \o v) \o q
  <2>6. u \o << >> = u
    <3> HIDE DEF u
    <3>1. Listed(u)
      BY <2>5 DEF u
    <3> QED BY <3>1, NothingMore
  <2> QED BY <2>2, <2>3, <2>4, <2>6
<1>8. Counts(w, c)
  BY DEF AllCount
<1>9. IsDoc(kind, Caught(c, n)) /\ kind \in AllKinds
  <2>1. n \in 0..Len(log) /\ applied[c] \in Nat
    BY <1>5
  <2> QED BY <1>4, <1>5, <2>1, DocsAreDocs, CaughtIsReplayed DEF ReplayedAt, Core, Kin, Typed
<1>10. Counts(w, c)'
  <2>1. CASE Stirred(c, n, other)
    <3> DEFINE d == Caught(c, n)
    <3>1. comp'[c] = project_to(kind, d, comp[c]) /\ Value(c)' = CounterValue(d)
      BY <1>6, <2>1 DEF Projected, Value
    <3>2. CounterValue(d) \in Int
      <4>1. Shown(kind, comp[c])
        BY DEF Core, AllShown
      <4> QED BY <1>9, <4>1, ProjectShows DEF Read
    <3>3. Turns(w, comp'[c] - Value(c)')
      <4> DEFINE z == CounterValue(d)
      <4>1. kind = "counter" => comp'[c] = z
        BY <3>1 DEF project_to
      <4>2. kind = "narrow" => comp'[c] = z % w
        BY <3>1 DEF project_to, Read
      <4>3. w \in Nat /\ z \in Int /\ Value(c)' = z /\ (kind = "narrow" => w # 0)
            /\ kind \in {"counter", "narrow"}
        BY <3>1, <3>2, SchemaAssumption DEF Read
      <4> HIDE DEF z
      <4>4. z - z = 0
        BY <4>3
      <4> QED BY <4>1, <4>2, <4>3, <4>4, TurnsAre
    <3>4. changed'[c] /\ (mixed'[c] <=> mixed[c] \/ edited[c])
      BY <1>6, <2>1
    <3>5. (edited'[c] <=> edited[c]) /\ meant'[c] = meant[c]
      BY <1>1
    <3> QED BY <1>7, <1>8, <3>3, <3>4, <3>5 DEF Counts
  <2>2. CASE ~Stirred(c, n, other)
    <3>0. n = applied[c]
      BY <1>5, <2>2 DEF Stirred
    <3>1. Caught(c, n) = doc[c] /\ Projected(c, n, other) = comp[c]
      BY <1>5, <2>2, <3>0, CaughtIsReplayed DEF Projected
    <3>2. comp'[c] = comp[c] /\ Value(c)' = Value(c)
      BY <1>6, <3>1 DEF Value
    <3>4. (changed'[c] <=> changed[c]) /\ (mixed'[c] <=> mixed[c])
      BY <1>6, <2>2
    <3>5. (edited'[c] <=> edited[c]) /\ meant'[c] = meant[c]
      BY <1>1
    <3>6. Way(c) => Way(c)'
      <4>1. Listed(queue[c]) /\ Listed(wire[c])
        BY <1>4 DEF Core, AllKept, Kept, Held
      <4>2. Pending(log, applied[c], queue[c], wire[c], c) =>
              Pending(log, applied[c], << >>, wire[c] \o queue[c], c)
        BY <4>1, PendingShips
      <4> QED BY <1>1, <1>6, <3>0, <4>2 DEF Way
    <3> QED BY <1>7, <1>8, <3>2, <3>4, <3>5, <3>6 DEF Counts
  <2> QED BY <2>1, <2>2
<1>11. ASSUME NEW e \in Holder, e # c PROVE Counts(w, e)'
  <2>1. e \in Client
    BY ClientAssumption
  <2>2. Aloof(e)
    BY <1>1, <1>2, <1>3, <1>4, <1>11, <2>1 DEF Aloof, Aside, Typed
  <2> QED BY <2>2, AloofCounts DEF AllCount
<1> QED BY <1>10, <1>11

\* Logging the first op of w leaves the list of all ops as it is.
LEMMA LoggedIsTheSame ==
    ASSUME NEW l, Listed(l), NEW w, Listed(w), NEW op, NEW r, Begins(w, op, r),
           NEW h, Longer(h, l, op)
    PROVE  h \o r = l \o w
<1> DEFINE L == Len(l)
           W == Len(w)
           a == h \o r
           b == l \o w
<1>1. /\ W \in Nat \ {0} /\ op = w[1] /\ Listed(r) /\ Len(r) = W - 1
      /\ \A n \in 1..W - 1 : r[n] = w[n + 1]
  BY TailOf DEF Begins
<1>2. /\ L \in Nat /\ Listed(h) /\ Len(h) = L + 1 /\ h[L + 1] = op
      /\ \A n \in 1..L : h[n] = l[n]
  BY DEF Longer, Listed
<1>3. /\ Listed(a) /\ Len(a) = Len(h) + Len(r)
      /\ \A n \in 1..Len(h) : a[n] = h[n]
      /\ \A n \in 1..Len(r) : a[Len(h) + n] = r[n]
  <2>1. Listed(h) /\ Listed(r)
    BY <1>1, <1>2
  <2> QED BY ONLY <2>1, ConcatOf
<1>4. /\ Listed(b) /\ Len(b) = L + W
      /\ \A n \in 1..L : b[n] = l[n]
      /\ \A n \in 1..W : b[L + n] = w[n]
  <2>1. Listed(l) /\ Listed(w)
    OBVIOUS
  <2> QED BY ONLY <2>1, ConcatOf
<1> HIDE DEF L, W, a, b
<1>5. Len(a) = L + W
  BY <1>1, <1>2, <1>3
<1>6. ASSUME NEW n \in 1..Len(a) PROVE a[n] = b[n]
  <2>1. CASE n \in 1..L
    <3>1. n \in 1..Len(h)
      BY <1>2, <2>1
    <3>2. a[n] = h[n] /\ h[n] = l[n] /\ b[n] = l[n]
      BY <1>2, <1>3, <1>4, <2>1, <3>1, Zenon
    <3> QED BY <3>2
  <2>2. CASE n = L + 1
    <3>1. n \in 1..Len(h) /\ 1 \in 1..W
      BY <1>1, <1>2, <2>2
    <3>2. a[n] = h[n] /\ b[L + 1] = w[1]
      BY <1>3, <1>4, <3>1
    <3> QED BY <1>1, <1>2, <2>2, <3>2
  <2>3. CASE n \notin 1..L /\ n # L + 1
    <3> DEFINE j == n - (L + 1)
               i == j + 1
    <3>1. j \in 1..W - 1 /\ j \in 1..Len(r) /\ i \in 1..W /\ Len(h) + j = n /\ L + i = n
      BY <1>1, <1>2, <1>5, <2>3
    <3>2. a[Len(h) + j] = r[j] /\ b[L + i] = w[i]
      BY <1>3, <1>4, <3>1
    <3>3. r[j] = w[i]
      BY <1>1, <3>1
    <3> QED BY <3>1, <3>2, <3>3
  <2> QED BY <2>1, <2>2, <2>3
<1>7. Len(a) = Len(b)
  BY <1>4, <1>5
<1>8. a = b
  BY <1>3, <1>4, <1>6, <1>7, SameList
<1> QED BY <1>8 DEF a, b

LEMMA LogCounts ==
    ASSUME Core, NEW t, AllCount(t), NEW c \in Client, Log(c)
    PROVE  AllCount(t)'
<1> SUFFICES ASSUME Read(t) PROVE \A e \in Holder : Counts(t, e)'
  BY DEF AllCount, Log, Read
<1> DEFINE op == Head(wire[c])
           L == Len(log)
           w == wire[c]
           q == queue[c]
<1>1. /\ UNCHANGED <<kind, doc, joined, applied, queue, next, comp, changed, edited, meant, mixed>>
      /\ log' = Append(log, op) /\ wire' = [wire EXCEPT ![c] = Tail(@)] /\ wire[c] # << >>
  BY DEF Log
<1>2. Listed(log) /\ DOMAIN wire = Client /\ L \in Nat /\ Listed(w) /\ Listed(q)
      /\ Adding(log) /\ Adding(w)
  BY Numbers DEF Core, Kin, Typed, AllKept, Kept, Held, Listed
<1>3. op.id[1] = c
  <2>1. Listed(w) /\ Listed(q) /\ w # << >> /\ Waiting(kind, log, w \o q, c, next[c])
    BY <1>1 DEF Core, AllKept, Kept, Held
  <2> DEFINE u == w \o q
  <2>2. Listed(u) /\ u # << >> /\ Head(u) = Head(w)
    <3> HIDE DEF w, q
    <3> QED BY <2>1, TailFirst
  <2> HIDE DEF u
  <2>3. Head(u) = u[1] /\ 1 \in 1..Len(u)
    BY <2>2, TailOf
  <2>4. WaitOp(kind, log, u, c, next[c], 1)
    BY <2>1, <2>3 DEF Waiting, u
  <2> QED BY <2>2, <2>3, <2>4 DEF WaitOp
<1>4. op.delta.by \in Int
  <2>1. Head(w) = w[1] /\ 1 \in 1..Len(w)
    BY <1>1, <1>2, TailOf
  <2> QED BY <1>2, <2>1 DEF Adding
<1>5. Longer(log', log, op)
  <2> HIDE DEF op
  <2> QED BY <1>1, <1>2, AppendIsLonger
<1>6. ASSUME c \in Holder PROVE Counts(t, c)'
  <2>1. applied[c] \in 0..L
    BY DocsAreDocs
  <2>2. Len(log') = L + 1 /\ log'[L + 1].id[1] = c
    BY <1>3, <1>5 DEF Longer
  <2>3. Way(c)'
    <3> HIDE DEF L, op
    <3>1. L + 1 \in applied[c] + 1..Len(log')
      BY <1>2, <2>1, <2>2
    <3>2. Pending(log', applied[c], queue[c], wire'[c], c)
      BY <2>2, <3>1 DEF Pending
    <3> QED BY <1>1, <3>2 DEF Way
  <2>4. Own(c)' = Own(c)
    <3> DEFINE l == log
               h == log'
               r == Tail(w)
    <3>1. wire'[c] = r /\ queue'[c] = q
      BY <1>1, <1>2
    <3>2. Own(c)' = SumBy(c, (h \o r) \o q) /\ Own(c) = SumBy(c, (l \o w) \o q)
      BY <3>1 DEF Own
    <3>3. Longer(h, l, op) /\ Begins(w, op, r) /\ Listed(l) /\ Listed(w)
      BY <1>1, <1>2, <1>5 DEF Begins
    <3> HIDE DEF l, h, r, w, op
    <3>4. h \o r = l \o w
      BY <3>3, LoggedIsTheSame
    <3> QED BY <3>2, <3>4
  <2>5. Counts(t, c)
    BY <1>6 DEF AllCount
  <2>6. Value(c)' = Value(c) /\ comp'[c] = comp[c] /\ meant'[c] = meant[c]
        /\ (changed'[c] <=> changed[c]) /\ (edited'[c] <=> edited[c])
        /\ (mixed'[c] <=> mixed[c])
    BY <1>1 DEF Value
  <2> HIDE DEF op, L, w, q
  <2> QED BY <2>3, <2>4, <2>5, <2>6 DEF Counts
<1>7. ASSUME NEW e \in Holder, e # c PROVE Counts(t, e)'
  <2>1. e \in Client
    BY ClientAssumption
  <2>2. wire'[e] = wire[e]
    BY <1>1, <1>2, <1>7, <2>1
  <2>3. op.id[1] # e
    BY <1>3, <1>7
  <2> HIDE DEF op, L, w, q
  <2>4. Aloof(e)
    BY <1>1, <1>4, <1>5, <2>2, <2>3 DEF Aloof, Aside
  <2> QED BY <2>4, AloofCounts DEF AllCount
<1> QED BY <1>6, <1>7

\* What a client without the component does leaves the holders alone.
LEMMA OthersCount ==
    ASSUME Core, NEW w, AllCount(w), NEW c \in Client, mutate_node(c) \/ Receive(c) \/ Join(c)
    PROVE  AllCount(w)'
<1> SUFFICES ASSUME Read(w) PROVE \A e \in Holder : Counts(w, e)'
  BY DEF AllCount, mutate_node, Receive, Join, Read
<1>1. c \notin Holder
  BY DEF mutate_node, Receive, Join, Core, Kin, Typed
<1>2. ASSUME NEW e \in Holder PROVE Counts(w, e)'
  <2>1. e \in Client /\ e # c /\ Typed
    BY <1>1, ClientAssumption DEF Core, Kin
  <2>2. Aloof(e)
    <3>1. CASE mutate_node(c)
      BY <2>1, <3>1 DEF Aloof, Aside, Typed, mutate_node
    <3>2. CASE Receive(c)
      BY <2>1, <3>2 DEF Aloof, Aside, Typed, Receive
    <3>3. CASE Join(c)
      BY <2>1, <3>3 DEF Aloof, Aside, Typed, Join
    <3> QED BY <3>1, <3>2, <3>3
  <2> QED BY <2>2, AloofCounts DEF AllCount
<1> QED BY <1>2

LEMMA CountStep ==
    ASSUME NEW w
    PROVE  Core /\ AllCount(w) /\ [Next]_vars => AllCount(w)'
<1> SUFFICES ASSUME Core, AllCount(w), [Next]_vars PROVE AllCount(w)'
  OBVIOUS
<1>1. CASE UNCHANGED vars
  BY <1>1 DEF vars, AllCount, Counts, Way, Own, Value, Read
<1>2. CASE \E c \in Holder : UserEdit(c) \/ detect_local_changes(c) \/ Integrate(c)
  BY <1>2, EditCounts, DetectCounts, IntegrateCounts
<1>3. CASE \E c \in Client : mutate_node(c) \/ Log(c) \/ Receive(c) \/ Join(c)
  BY <1>3, LogCounts, OthersCount
<1> QED BY <1>1, <1>2, <1>3 DEF Next

\* However edits, detections and echoes interleave, what a user adds to a
\* counter is in the ops minted or in the component, once; modulo Wrap, if the
\* component is narrow.  Not so an edit that met an op of its own in flight or
\* was projected over.
THEOREM EditsReachTheLogOnce == Spec => []EditsCountOnce
<1>1. Core /\ AllCount(0) /\ AllCount(Wrap) => EditsCountOnce
  <2> SUFFICES ASSUME Core, AllCount(0), AllCount(Wrap), IsCounter, NEW c \in Holder,
                      ~mixed[c], ~(edited[c] /\ InFlight(c)),
                      NEW owed, owed = meant[c] - Own(c)
                                         - (IF edited[c] THEN comp[c] - Value(c) ELSE 0)
               PROVE  IF kind = "narrow" THEN owed % Wrap = 0 ELSE owed = 0
    BY DEF EditsCountOnce, Own, Value
  <2> DEFINE w == IF kind = "narrow" THEN Wrap ELSE 0
  <2>1. c \in Client /\ w \in Nat /\ Read(w) /\ AllCount(w)
    BY ClientAssumption, SchemaAssumption DEF Read, IsCounter
  <2>2. Counts(w, c)
    BY <2>1 DEF AllCount
  <2>3. InFlight(c) <=> Way(c)
    BY DEF InFlight, Way, Pending
  <2>4. comp[c] \in Int /\ Value(c) \in Int /\ Own(c) \in Int /\ meant[c] \in Int
    BY <2>1, <2>2, Numbers DEF Counts
  <2>5. owed \in Int /\ Turns(w, owed)
    <3>1. CASE edited[c]
      BY <2>2, <2>3, <2>4, <3>1 DEF Counts
    <3>2. CASE ~edited[c]
      <4>1. Turns(w, meant[c] - Own(c)) /\ owed = meant[c] - Own(c)
        BY <2>2, <2>4, <3>2 DEF Counts
      <4> QED BY <2>4, <4>1
    <3> QED BY <3>1, <3>2
  <2> HIDE DEF w
  <2>6. /\ w = 0 => owed = 0
        /\ w # 0 => owed % w = 0
    BY <2>1, <2>5, TurnsAre
  <2> QED BY <2>6, SchemaAssumption DEF w
<1>2. Spec => []AllCount(0)
  <2>1. Init => AllCount(0)
    BY InitCounts
  <2>2. Core /\ AllCount(0) /\ [Next]_vars => AllCount(0)'
    BY CountStep
  <2> QED BY <2>1, <2>2, CoreAlways, PTL DEF Spec
<1>3. Spec => []AllCount(Wrap)
  <2>1. Init => AllCount(Wrap)
    BY InitCounts
  <2>2. Core /\ AllCount(Wrap) /\ [Next]_vars => AllCount(Wrap)'
    BY CountStep
  <2> QED BY <2>1, <2>2, CoreAlways, PTL DEF Spec
<1> QED BY <1>1, <1>2, <1>3, CoreAlways, PTL

-----------------------------------------------------------------------------
(* What keeps the order of a list.                                         *)

LEMMA OrderOfItself ==
    ASSUME NEW s
    PROVE  KeepsOrder(s, s)
  BY DEF KeepsOrder

LEMMA OrderOnward ==
    ASSUME NEW s, NEW t, NEW u, KeepsOrder(s, t), KeepsOrder(t, u)
    PROVE  KeepsOrder(s, u)
<1>1. Range(s) \subseteq Range(u)
  BY DEF KeepsOrder
<1>2. ASSUME NEW n \in DOMAIN s, NEW m \in DOMAIN s, n < m
      PROVE  \E p, q \in DOMAIN u : p < q /\ u[p] = s[n] /\ u[q] = s[m]
  <2>1. PICK i, j \in DOMAIN t : i < j /\ t[i] = s[n] /\ t[j] = s[m]
    BY <1>2 DEF KeepsOrder
  <2>2. PICK p, q \in DOMAIN u : p < q /\ u[p] = t[i] /\ u[q] = t[j]
    BY <2>1 DEF KeepsOrder
  <2> QED BY <2>1, <2>2
<1> QED BY <1>1, <1>2 DEF KeepsOrder

LEMMA OrderOfPart ==
    ASSUME NEW s, NEW t, Listed(s), Listed(t)
    PROVE  KeepsOrder(s, s \o t)
<1> DEFINE u == s \o t
<1>1. \A n \in DOMAIN s : n \in DOMAIN u /\ u[n] = s[n]
  BY ConcatAt
<1> HIDE DEF u
<1>2. Range(s) \subseteq Range(u)
  BY <1>1 DEF Range
<1>3. \A n, m \in DOMAIN s : n < m => \E p, q \in DOMAIN u : p < q /\ u[p] = s[n] /\ u[q] = s[m]
  BY <1>1
<1> QED BY <1>2, <1>3 DEF KeepsOrder, u

LEMMA OrderOfBoth ==
    ASSUME NEW a, NEW b, NEW c, NEW d, Listed(a), Listed(b), Listed(c), Listed(d),
           KeepsOrder(a, b), KeepsOrder(c, d)
    PROVE  KeepsOrder(a \o c, b \o d)
<1> DEFINE s == a \o c
           t == b \o d
<1>1. /\ \A n \in DOMAIN s : n \in DOMAIN a \/ \E m \in DOMAIN c : n = Len(a) + m
      /\ \A n \in DOMAIN a : s[n] = a[n]
      /\ \A n \in DOMAIN c : s[Len(a) + n] = c[n]
  BY ConcatAt
<1>2. /\ \A n \in DOMAIN b : n \in DOMAIN t /\ t[n] = b[n]
      /\ \A n \in DOMAIN d : Len(b) + n \in DOMAIN t /\ t[Len(b) + n] = d[n]
  BY ConcatAt
<1>3. /\ DOMAIN a = 1..Len(a) /\ DOMAIN b = 1..Len(b) /\ DOMAIN c = 1..Len(c) /\ DOMAIN d = 1..Len(d)
      /\ Len(a) \in Nat /\ Len(b) \in Nat /\ Len(c) \in Nat /\ Len(d) \in Nat
  BY DEF Listed
<1> HIDE DEF s, t
<1>4. ASSUME NEW n \in DOMAIN a PROVE \E p \in DOMAIN b : b[p] = a[n]
  BY DEF KeepsOrder, Range
<1>5. ASSUME NEW n \in DOMAIN c PROVE \E p \in DOMAIN d : d[p] = c[n]
  BY DEF KeepsOrder, Range
<1>6. ASSUME NEW n \in DOMAIN s PROVE \E p \in DOMAIN t : t[p] = s[n]
  <2>1. CASE n \in DOMAIN a
    <3>1. PICK p \in DOMAIN b : b[p] = a[n]
      BY <1>4, <2>1
    <3> QED BY <1>1, <1>2, <2>1, <3>1
  <2>2. CASE \E m \in DOMAIN c : n = Len(a) + m
    <3>1. PICK m \in DOMAIN c : n = Len(a) + m
      BY <2>2
    <3>2. PICK p \in DOMAIN d : d[p] = c[m]
      BY <1>5
    <3> QED BY <1>1, <1>2, <3>1, <3>2
  <2> QED BY <1>1, <2>1, <2>2
<1>7. ASSUME NEW n \in DOMAIN s, NEW m \in DOMAIN s, n < m
      PROVE  \E p, q \in DOMAIN t : p < q /\ t[p] = s[n] /\ t[q] = s[m]
  <2>1. CASE n \in DOMAIN a /\ m \in DOMAIN a
    <3>1. PICK p, q \in DOMAIN b : p < q /\ b[p] = a[n] /\ b[q] = a[m]
      BY <1>7, <2>1 DEF KeepsOrder
    <3> QED BY <1>1, <1>2, <2>1, <3>1
  <2>2. CASE n \in DOMAIN a /\ \E j \in DOMAIN c : m = Len(a) + j
    <3>1. PICK j \in DOMAIN c : m = Len(a) + j
      BY <2>2
    <3>2. PICK p \in DOMAIN b : b[p] = a[n]
      BY <1>4, <2>2
    <3>3. PICK q \in DOMAIN d : d[q] = c[j]
      BY <1>5
    <3>4. p < Len(b) + q
      BY <1>3
    <3> QED BY <1>1, <1>2, <2>2, <3>1, <3>2, <3>3, <3>4
  <2>3. CASE (\E i \in DOMAIN c : n = Len(a) + i) /\ \E j \in DOMAIN c : m = Len(a) + j
    <3>1. PICK i \in DOMAIN c : n = Len(a) + i
      BY <2>3
    <3>2. PICK j \in DOMAIN c : m = Len(a) + j
      BY <2>3
    <3>3. i < j
      BY <1>3, <1>7, <3>1, <3>2
    <3>4. PICK p, q \in DOMAIN d : p < q /\ d[p] = c[i] /\ d[q] = c[j]
      BY <3>3 DEF KeepsOrder
    <3>5. Len(b) + p < Len(b) + q
      BY <1>3, <3>4
    <3> QED BY <1>1, <1>2, <3>1, <3>2, <3>4, <3>5
  <2>4. ~ (m \in DOMAIN a /\ \E i \in DOMAIN c : n = Len(a) + i)
    BY <1>3, <1>7
  <2> QED BY <1>1, <2>1, <2>2, <2>3, <2>4
<1>8. Range(s) \subseteq Range(t)
  BY <1>6 DEF Range
<1> QED BY <1>7, <1>8 DEF KeepsOrder, s, t

\* Lists of lists.  put says where each list of s is among those of t.
LEMMA FlattenKeepsOrder ==
    ASSUME NEW S, NEW R, NEW n \in Nat, NEW s \in [1..n -> Seq(S)],
           NEW m \in Nat, NEW t \in [1..m -> Seq(R)], NEW put \in [1..n -> 1..m],
           \A i, j \in 1..n : i < j => put[i] < put[j],
           \A i \in 1..n : KeepsOrder(s[i], t[put[i]])
    PROVE  KeepsOrder(FlattenSeq(s), FlattenSeq(t))
<1>1. PICK f \in [0..n -> Seq(S)] :
         f[0] = << >> /\ (\A k \in 1..n : f[k] = f[k-1] \o s[k]) /\ FlattenSeq(s) = f[n]
  BY FlattenSteps
<1>2. PICK g \in [0..m -> Seq(R)] :
         g[0] = << >> /\ (\A k \in 1..m : g[k] = g[k-1] \o t[k]) /\ FlattenSeq(t) = g[m]
  BY FlattenSteps
<1>3. /\ \A i \in 0..n : Listed(f[i])
      /\ \A i \in 1..n : Listed(s[i])
      /\ \A i \in 0..m : Listed(g[i])
      /\ \A i \in 1..m : Listed(t[i])
  BY ListedOf
\* A longer prefix of t keeps what a shorter one has.
<1>4. ASSUME NEW a \in 0..m, NEW b \in a..m PROVE KeepsOrder(g[a], g[b])
  <2> DEFINE T == {d \in 0..(m - a) : KeepsOrder(g[a], g[a + d])}
  <2>1. 0 \in T
    <3>1. a + 0 = a /\ 0 \in 0..(m - a)
      OBVIOUS
    <3> QED BY <3>1, OrderOfItself
  <2>2. ASSUME NEW d \in 0..(m - a) - 1, d \in T PROVE d + 1 \in T
    <3> DEFINE k == a + (d + 1)
    <3>1. k \in 1..m /\ k - 1 = a + d /\ k - 1 \in 0..m /\ d + 1 \in 0..(m - a)
      OBVIOUS
    <3>2. KeepsOrder(g[a], g[k-1])
      BY <2>2, <3>1
    <3> HIDE DEF k
    <3>3. g[k] = g[k-1] \o t[k] /\ Listed(g[k-1]) /\ Listed(t[k])
      BY <1>2, <1>3, <3>1
    <3>4. KeepsOrder(g[k-1], g[k])
      BY <3>3, OrderOfPart
    <3>5. KeepsOrder(g[a], g[k])
      BY <3>2, <3>4, OrderOnward
    <3> QED BY <3>1, <3>5 DEF k
  <2> HIDE DEF T
  <2>3. \A d \in 0..(m - a) : d \in T
    <3>1. m - a \in Nat
      OBVIOUS
    <3> QED BY <2>1, <2>2, <3>1, UpTo
  <2>4. b - a \in 0..(m - a) /\ a + (b - a) = b
    OBVIOUS
  <2> QED BY <2>3, <2>4 DEF T
<1> DEFINE upto(k) == IF k = 0 THEN 0 ELSE put[k]
           U == {k \in 0..n : KeepsOrder(f[k], g[upto(k)])}
<1>5. 0 \in U
  <2>1. f[0] = << >> /\ g[upto(0)] = << >> /\ 0 \in 0..n
    BY <1>1, <1>2
  <2> QED BY <2>1, OrderOfItself
<1>6. ASSUME NEW k \in 0..n-1, k \in U PROVE k + 1 \in U
  <2> DEFINE j == k + 1
             p == put[j]
             o == upto(k)
  <2>1. j \in 1..n /\ j \in 0..n /\ j - 1 = k /\ k \in 0..n
    OBVIOUS
  <2>2. p \in 1..m /\ p - 1 \in 0..m
    <3> HIDE DEF j
    <3>1. p \in 1..m
      BY <2>1
    <3> HIDE DEF p
    <3> QED BY <3>1
  <2>3. o \in 0..(p - 1) /\ o \in 0..m
    <3>1. CASE k = 0
      BY <2>2, <3>1
    <3>2. CASE k # 0
      <4>1. k \in 1..n /\ k < j
        BY <3>2
      <4>2. put[k] < p /\ put[k] \in 1..m
        BY <2>1, <4>1
      <4>3. o = put[k]
        BY <3>2
      <4> HIDE DEF o, p
      <4>4. o \in 1..m /\ o < p
        BY <4>2, <4>3
      <4> QED BY <2>2, <4>4
    <3> QED BY <3>1, <3>2
  <2>4. KeepsOrder(f[k], g[o])
    BY <1>6
  <2>5. upto(j) = p
    OBVIOUS
  <2> HIDE DEF o, p, j, upto
  <2>6. KeepsOrder(g[o], g[p-1])
    <3>1. p - 1 \in o..m
      BY <2>2, <2>3
    <3> QED BY <1>4, <2>3, <3>1
  <2>7. KeepsOrder(f[k], g[p-1])
    BY <2>4, <2>6, OrderOnward
  <2>8. f[j] = f[k] \o s[j] /\ Listed(f[k]) /\ Listed(s[j])
    BY <1>1, <1>3, <2>1
  <2>9. g[p] = g[p-1] \o t[p] /\ Listed(g[p-1]) /\ Listed(t[p])
    BY <1>2, <1>3, <2>2
  <2>10. KeepsOrder(s[j], t[p])
    BY <2>1 DEF p
  <2>11. KeepsOrder(f[j], g[p])
    BY <2>7, <2>8, <2>9, <2>10, OrderOfBoth
  <2> QED BY <2>1, <2>5, <2>11 DEF j
<1> HIDE DEF U
<1>7. \A k \in 0..n : k \in U
  BY <1>5, <1>6, UpTo
<1>8. upto(n) \in 0..m /\ n \in 0..n /\ m \in 0..m
  OBVIOUS
<1>9. KeepsOrder(f[n], g[upto(n)])
  BY <1>7, <1>8 DEF U
<1> HIDE DEF upto
<1>10. KeepsOrder(g[upto(n)], g[m])
  <2>1. m \in upto(n)..m
    BY <1>8
  <2> QED BY <1>4, <1>8, <2>1
<1> QED BY <1>1, <1>2, <1>9, <1>10, OrderOnward

-----------------------------------------------------------------------------
(* The order of a sequence.                                                *)

\* Every child of p is listed, newest first.
ListsAll(e, p, c) ==
    /\ c \in Seq({i \in DOMAIN e : e[i].predecessor = p})
    /\ Descends(c)
    /\ \A i \in DOMAIN e : e[i].predecessor = p => \E n \in 1..Len(c) : c[n] = i

LEMMA ChildrenAreAll ==
    ASSUME NEW e, IsFiniteSet(DOMAIN e), DOMAIN e \subseteq Nat \X Nat, NEW p
    PROVE  ListsAll(e, p, Children(e, p))
<1> DEFINE kids == {i \in DOMAIN e : e[i].predecessor = p}
           N == Cardinality(kids)
           F == [1..N -> kids]
           c == Children(e, p)
<1>1. kids \in SUBSET DOMAIN e
  OBVIOUS
<1>2. IsFiniteSet(kids) /\ kids \in SUBSET (Nat \X Nat)
  BY <1>1, FS_Subset
<1>3. N \in Nat
  BY <1>2, FS_CardinalityType
<1>4. \E s \in F : Descends(s)
  BY <1>2, DescendingExists
<1>5. c = CHOOSE s \in F : Descends(s)
  BY DEF Children, Descends
<1>6. c \in F /\ Descends(c)
  <2> HIDE DEF F, c
  <2> QED BY <1>4, <1>5
<1> HIDE DEF kids, N, c
<1>7. c \in Seq(kids) /\ Len(c) = N /\ DOMAIN c = 1..N
  BY <1>3, <1>6
<1>8. c \in Injection(1..N, kids)
  <2> SUFFICES ASSUME NEW n \in 1..N, NEW m \in 1..N, c[n] = c[m] PROVE n = m
    BY <1>6 DEF Injection, IsInjective
  <2>1. c[n] \in Nat \X Nat
    BY <1>2, <1>6
  <2>2. ~ Less(c[n], c[n])
    BY <2>1, LessIsTotal
  <2>3. n < m => Less(c[m], c[n])
    BY <1>6, <1>7 DEF Descends
  <2>4. m < n => Less(c[n], c[m])
    BY <1>6, <1>7 DEF Descends
  <2> QED BY <2>2, <2>3, <2>4
<1>9. Cardinality(1..N) = N
  BY <1>3, FS_Interval
<1>10. c \in Surjection(1..N, kids)
  BY <1>2, <1>8, <1>9, FS_Injection DEF N
<1>11. \A i \in kids : \E n \in 1..Len(c) : c[n] = i
  BY <1>7, <1>10 DEF Surjection
<1> QED BY <1>6, <1>7, <1>11 DEF ListsAll, kids, c

\* What holds of all children of p holds of p: then it holds of all.
LEMMA ByDepth ==
    ASSUME NEW e, Rooted(e), None \notin Nat \X Nat, NEW T,
           \A p \in DOMAIN e \cup {None} :
             (\A i \in DOMAIN e : e[i].predecessor = p => i \in T) => p \in T
    PROVE  \A p \in DOMAIN e \cup {None} : p \in T
<1> DEFINE D == DOMAIN e \cup {None}
<1>1. PICK N \in Nat : \E lev : Deepens(e, lev, N)
  BY RootedDeepens
<1>2. PICK lev : Deepens(e, lev, N)
  BY <1>1
<1>3. /\ \A p \in D : lev[p] \in 0..N
      /\ \A i \in DOMAIN e : lev[e[i].predecessor] < lev[i]
  BY <1>2 DEF Deepens
<1> DEFINE U == {m \in 0..N + 1 : \A p \in D : lev[p] > N - m => p \in T}
<1>4. 0 \in U
  <2>1. \A p \in D : ~ (lev[p] > N - 0)
    BY <1>3
  <2> QED BY <2>1
<1>5. ASSUME NEW m \in 0..(N + 1) - 1, m \in U PROVE m + 1 \in U
  <2>1. ASSUME NEW p \in D, lev[p] > N - (m + 1) PROVE p \in T
    <3>1. ASSUME NEW i \in DOMAIN e, e[i].predecessor = p PROVE i \in T
      <4>1. lev[p] < lev[i] /\ lev[p] \in 0..N /\ lev[i] \in 0..N
        BY <1>3, <3>1
      <4>2. lev[i] > N - m
        <5> DEFINE a == lev[i]
                   b == lev[p]
        <5>1. a \in Int /\ b \in Int /\ b < a /\ b > N - (m + 1)
          BY <2>1, <4>1
        <5> HIDE DEF a, b
        <5>2. a > N - m
          BY <5>1
        <5> QED BY <5>2 DEF a
      <4> QED BY <1>5, <4>2
    <3> QED BY <3>1
  <2>2. m + 1 \in 0..N + 1
    OBVIOUS
  <2> QED BY <2>1, <2>2
<1> HIDE DEF U
<1>6. N + 1 \in U
  <2>1. N + 1 \in Nat /\ N + 1 \in 0..N + 1
    OBVIOUS
  <2>2. \A m \in 0..N + 1 : m \in U
    BY <1>4, <1>5, <2>1, UpTo
  <2> QED BY <2>1, <2>2
<1>7. \A p \in D : lev[p] > N - (N + 1)
  BY <1>3
<1> QED BY <1>6, <1>7 DEF U

\* A document g that has the elements of e, hanging where they hung.
Enlarges(e, g) ==
    DOMAIN e \subseteq DOMAIN g /\ \A i \in DOMAIN e : g[i].predecessor = e[i].predecessor

\* An element, and what is found below it.
Branch(f, i) == <<i>> \o f[i]

LEMMA BranchIs ==
    ASSUME NEW S, NEW f, NEW i \in S, f[i] \in Seq(S)
    PROVE  /\ Branch(f, i) \in Seq(S)
           /\ \A x : x \in Range(Branch(f, i)) <=> x = i \/ x \in Range(f[i])
           /\ i \notin Range(f[i]) /\ IsInjective(f[i]) => IsInjective(Branch(f, i))
<1> DEFINE s == <<i>>
           t == f[i]
           u == s \o t
<1>1. s \in Seq(S) /\ Len(s) = 1 /\ DOMAIN s = {1} /\ s[1] = i
  OBVIOUS
<1> HIDE DEF s
<1>2. t \in Seq(S)
  OBVIOUS
<1> HIDE DEF t
<1>3. u \in Seq(S) /\ Listed(s) /\ Listed(t)
  BY <1>1, <1>2, ListedOf
<1>4. \A x : x \in Range(u) <=> x \in Range(s) \/ x \in Range(t)
  BY <1>3, ConcatHas
<1>5. Range(s) = {i}
  BY <1>1 DEF Range
<1>6. /\ \A n \in DOMAIN t : u[Len(s) + n] = t[n]
      /\ \A n \in DOMAIN s : u[n] = s[n]
      /\ \A n \in DOMAIN u : n \in DOMAIN s \/ \E m \in DOMAIN t : n = Len(s) + m
  BY <1>3, ConcatAt
<1>7. DOMAIN t = 1..Len(t) /\ Len(t) \in Nat
  BY <1>3 DEF Listed
<1> HIDE DEF u
<1>8. ASSUME i \notin Range(t), IsInjective(t) PROVE IsInjective(u)
  <2> SUFFICES ASSUME NEW n \in DOMAIN u, NEW m \in DOMAIN u, u[n] = u[m] PROVE n = m
    BY DEF IsInjective
  <2>1. \A j \in DOMAIN t : t[j] # i
    BY <1>8 DEF Range
  <2>2. \A j, h \in DOMAIN t : t[j] = t[h] => j = h
    BY <1>8 DEF IsInjective
  <2>3. u[1] = i
    BY <1>1, <1>6
  <2> QED BY <1>1, <1>6, <2>1, <2>2, <2>3
<1>9. Branch(f, i) = u
  BY DEF Branch, u, s, t
<1> QED BY <1>3, <1>4, <1>5, <1>8, <1>9 DEF t

\* The order of a sequence is that of any document it has grown from.
LEMMA WalkKeepsOrder ==
    ASSUME NEW e, NEW g, Rooted(e), Rooted(g), Enlarges(e, g), None \notin Nat \X Nat
    PROVE  KeepsOrder(Walk(e), Walk(g))
<1>1. /\ IsFiniteSet(DOMAIN e) /\ DOMAIN e \subseteq Nat \X Nat /\ None \notin DOMAIN e
      /\ IsFiniteSet(DOMAIN g) /\ DOMAIN g \subseteq Nat \X Nat /\ None \notin DOMAIN g
  BY DEF Rooted
<1>2. PICK f : Walked(e, f) /\ Walk(e) = f[None]
  BY WalkUnder
<1>3. PICK h : Walked(g, h) /\ Walk(g) = h[None]
  BY WalkUnder
<1> DEFINE T == {p \in DOMAIN e \cup {None} : KeepsOrder(f[p], h[p])}
<1>4. ASSUME NEW p \in DOMAIN e \cup {None}, \A i \in DOMAIN e : e[i].predecessor = p => i \in T
      PROVE  p \in T
  <2> DEFINE c == Children(e, p)
             d == Children(g, p)
             n == Len(c)
             m == Len(d)
             s == [k \in 1..n |-> Branch(f, c[k])]
             t == [k \in 1..m |-> Branch(h, d[k])]
             put == [k \in 1..n |-> CHOOSE j \in 1..m : d[j] = c[k]]
  <2>1. ListsAll(e, p, c) /\ ListsAll(g, p, d)
    BY <1>1, ChildrenAreAll
  <2>2. f[p] = FlattenSeq(s) /\ h[p] = FlattenSeq(t)
    <3>1. f[p] = Below(e, f, p)
      BY <1>2 DEF Walked
    <3>2. p \in DOMAIN g \cup {None}
      BY DEF Enlarges
    <3>3. h[p] = Below(g, h, p)
      BY <1>3, <3>2 DEF Walked
    <3> QED BY <3>1, <3>3, Zenon DEF Below, Branch
  <2> HIDE DEF c, d
  <2>3. /\ n \in Nat /\ m \in Nat /\ DOMAIN c = 1..n /\ DOMAIN d = 1..m
        /\ \A k \in 1..n : c[k] \in DOMAIN e /\ e[c[k]].predecessor = p
        /\ \A k \in 1..m : d[k] \in DOMAIN g /\ g[d[k]].predecessor = p
    <3>1. c \in Seq({i \in DOMAIN e : e[i].predecessor = p})
      BY <2>1 DEF ListsAll
    <3>2. d \in Seq({i \in DOMAIN g : g[i].predecessor = p})
      BY <2>1 DEF ListsAll
    <3>3. n \in Nat /\ DOMAIN c = 1..n /\ \A k \in 1..n : c[k] \in DOMAIN e /\ e[c[k]].predecessor = p
      BY <3>1
    <3>4. m \in Nat /\ DOMAIN d = 1..m /\ \A k \in 1..m : d[k] \in DOMAIN g /\ g[d[k]].predecessor = p
      BY <3>2
    <3> QED BY <3>3, <3>4
  <2>4. \A k \in 1..n : f[c[k]] \in Seq(DOMAIN e)
    BY <1>2, <2>3 DEF Walked
  <2>5. \A k \in 1..m : h[d[k]] \in Seq(DOMAIN g)
    BY <1>3, <2>3 DEF Walked
  <2>6. s \in [1..n -> Seq(DOMAIN e)]
    <3>1. \A k \in 1..n : Branch(f, c[k]) \in Seq(DOMAIN e)
      BY <2>3, <2>4, BranchIs
    <3> QED BY <3>1
  <2>7. t \in [1..m -> Seq(DOMAIN g)]
    <3>1. \A k \in 1..m : Branch(h, d[k]) \in Seq(DOMAIN g)
      BY <2>3, <2>5, BranchIs
    <3> QED BY <3>1
  <2>8. \A k \in 1..n : put[k] \in 1..m /\ d[put[k]] = c[k]
    <3> TAKE k \in 1..n
    <3>1. c[k] \in DOMAIN g /\ g[c[k]].predecessor = p
      BY <2>3 DEF Enlarges
    <3>2. \E j \in 1..m : d[j] = c[k]
      BY <2>1, <3>1 DEF ListsAll
    <3> QED BY <3>2
  <2>9. put \in [1..n -> 1..m]
    BY <2>8
  <2> HIDE DEF n, m, put
  <2>10. ASSUME NEW i \in 1..n, NEW j \in 1..n, i < j PROVE put[i] < put[j]
    <3>1. Less(c[j], c[i]) /\ Descends(d)
      BY <2>1, <2>3, <2>10 DEF ListsAll, Descends
    <3>2. c[i] \in Nat \X Nat /\ c[j] \in Nat \X Nat
      BY <1>1, <2>3
    <3>3. ~ Less(c[i], c[j]) /\ c[i] # c[j]
      BY <3>1, <3>2, LessIsTotal
    <3> DEFINE x == put[i]
               y == put[j]
    <3>4. x \in 1..m /\ y \in 1..m /\ d[x] = c[i] /\ d[y] = c[j]
      BY <2>8
    <3> HIDE DEF x, y
    <3>5. ~ (y < x)
      BY <2>3, <3>1, <3>3, <3>4 DEF Descends
    <3>6. x # y
      BY <3>3, <3>4
    <3>7. x < y
      BY <2>3, <3>4, <3>5, <3>6
    <3> QED BY <3>7 DEF x, y
  <2>11. ASSUME NEW k \in 1..n PROVE KeepsOrder(s[k], t[put[k]])
    <3> DEFINE i == c[k]
    <3>1. i \in DOMAIN e /\ i \in T
      BY <1>4, <2>3
    <3>2. KeepsOrder(f[i], h[i])
      BY <3>1
    <3>3. s[k] = Branch(f, i) /\ t[put[k]] = Branch(h, i)
      BY <2>8
    <3>4. f[i] \in Seq(DOMAIN e) /\ h[i] \in Seq(DOMAIN g)
      <4>1. f[i] \in Seq(DOMAIN e)
        BY <2>4
      <4>2. put[k] \in 1..m /\ d[put[k]] = i
        BY <2>8
      <4>3. h[d[put[k]]] \in Seq(DOMAIN g)
        BY <2>5, <4>2
      <4> QED BY <4>1, <4>2, <4>3
    <3> HIDE DEF i, s, t
    <3>5. Listed(f[i]) /\ Listed(h[i]) /\ Listed(<<i>>)
      <4>1. <<i>> \in Seq({i})
        OBVIOUS
      <4> QED BY <3>4, <4>1, ListedOf
    <3>6. KeepsOrder(<<i>> \o f[i], <<i>> \o h[i])
      BY <3>2, <3>5, OrderOfItself, OrderOfBoth
    <3> QED BY <3>3, <3>6 DEF Branch
  <2> HIDE DEF s, t
  <2>12. KeepsOrder(FlattenSeq(s), FlattenSeq(t))
    BY <2>3, <2>6, <2>7, <2>9, <2>10, <2>11, FlattenKeepsOrder
  <2> QED BY <2>2, <2>12
<1> HIDE DEF T
<1>5. None \in T
  BY <1>4, ByDepth
<1> QED BY <1>2, <1>3, <1>5 DEF T

\* What is found below p is deeper, and is p's child or below what is found.
LEMMA FoundBelow ==
    ASSUME NEW e, Rooted(e), None \notin Nat \X Nat, NEW f, Walked(e, f),
           NEW N \in Nat, NEW lev, Deepens(e, lev, N)
    PROVE  \A p \in DOMAIN e \cup {None} : \A i \in Range(f[p]) :
              /\ i \in DOMAIN e /\ lev[p] < lev[i]
              /\ e[i].predecessor = p \/ e[i].predecessor \in Range(f[p])
<1> DEFINE D == DOMAIN e \cup {None}
           Finds(p, i) == /\ i \in DOMAIN e /\ lev[p] < lev[i]
                          /\ e[i].predecessor = p \/ e[i].predecessor \in Range(f[p])
           T == {p \in D : \A i \in Range(f[p]) : Finds(p, i)}
<1>1. /\ IsFiniteSet(DOMAIN e) /\ DOMAIN e \subseteq Nat \X Nat
      /\ \A p \in D : lev[p] \in 0..N
      /\ \A i \in DOMAIN e : lev[e[i].predecessor] < lev[i]
  BY DEF Rooted, Deepens
<1>2. ASSUME NEW p \in D, \A i \in DOMAIN e : e[i].predecessor = p => i \in T
      PROVE  p \in T
  <2> DEFINE c == Children(e, p)
             n == Len(c)
             s == [k \in 1..n |-> Branch(f, c[k])]
  <2>1. ListsAll(e, p, c)
    BY <1>1, ChildrenAreAll
  <2>2. f[p] = FlattenSeq(s)
    BY Zenon DEF Walked, Below, Branch
  <2> HIDE DEF c
  <2>3. /\ n \in Nat
        /\ \A k \in 1..n : c[k] \in DOMAIN e /\ e[c[k]].predecessor = p
    BY <2>1 DEF ListsAll
  <2>4. \A k \in 1..n : f[c[k]] \in Seq(DOMAIN e)
    BY <2>3 DEF Walked
  <2>5. \A k \in 1..n : /\ Branch(f, c[k]) \in Seq(DOMAIN e)
                        /\ \A x : x \in Range(Branch(f, c[k])) <=> x = c[k] \/ x \in Range(f[c[k]])
    BY <2>3, <2>4, BranchIs
  <2>6. s \in [1..n -> Seq(DOMAIN e)] /\ \A k \in 1..n : s[k] = Branch(f, c[k])
    BY <2>5
  <2> HIDE DEF n, s
  <2>7. \A x : x \in Range(f[p]) <=> \E k \in 1..n : x \in Range(s[k])
    BY <2>2, <2>3, <2>6, FlattenHas
  <2>8. \A x : x \in Range(f[p]) <=> \E k \in 1..n : x = c[k] \/ x \in Range(f[c[k]])
    BY <2>5, <2>6, <2>7
  <2>9. ASSUME NEW i \in Range(f[p]) PROVE Finds(p, i)
    <3>1. PICK k \in 1..n : i = c[k] \/ i \in Range(f[c[k]])
      BY <2>8
    <3> DEFINE j == c[k]
    <3>2. j \in DOMAIN e /\ e[j].predecessor = p /\ lev[p] < lev[j] /\ j \in T
      BY <1>1, <1>2, <2>3
    <3>3. j \in Range(f[p]) /\ \A x \in Range(f[j]) : x \in Range(f[p])
      BY <2>8
    <3>4. i = j \/ i \in Range(f[j])
      BY <3>1
    <3> HIDE DEF j
    <3>5. CASE i = j
      BY <3>2, <3>5
    <3>6. CASE i \in Range(f[j])
      <4>1. Finds(j, i)
        BY <3>2, <3>6
      <4>2. lev[p] \in 0..N /\ lev[j] \in 0..N /\ lev[i] \in 0..N
        BY <1>1, <3>2, <4>1
      <4>3. lev[p] < lev[i]
        BY <3>2, <4>1, <4>2
      <4> QED BY <3>3, <4>1, <4>3
    <3> QED BY <3>4, <3>5, <3>6
  <2> QED BY <2>9
<1> HIDE DEF T
<1>3. \A p \in D : p \in T
  BY <1>2, ByDepth
<1> QED BY <1>3 DEF T

\* What is below two siblings.
LEMMA SiblingsApart ==
    ASSUME NEW e, Rooted(e), None \notin Nat \X Nat, NEW f, Walked(e, f),
           NEW a \in DOMAIN e, NEW b \in DOMAIN e, a # b,
           e[a].predecessor = e[b].predecessor
    PROVE  ({a} \cup Range(f[a])) \cap ({b} \cup Range(f[b])) = {}
<1>1. PICK N \in Nat : \E lev : Deepens(e, lev, N)
  BY RootedDeepens
<1>2. PICK lev : Deepens(e, lev, N)
  BY <1>1
<1> DEFINE p == e[a].predecessor
           A == {a} \cup Range(f[a])
           B == {b} \cup Range(f[b])
           X == {lev[i] : i \in A \cap B}
<1>3. /\ \A i \in DOMAIN e : /\ lev[i] \in 0..N /\ e[i].predecessor \in DOMAIN e \cup {None}
                             /\ lev[e[i].predecessor] < lev[i]
      /\ \A i \in DOMAIN e \cup {None} : lev[i] \in 0..N
  BY <1>2 DEF Deepens
<1>4. \A i \in Range(f[a]) : /\ i \in DOMAIN e /\ lev[a] < lev[i]
                             /\ e[i].predecessor = a \/ e[i].predecessor \in Range(f[a])
  BY <1>2, FoundBelow
<1>5. \A i \in Range(f[b]) : /\ i \in DOMAIN e /\ lev[b] < lev[i]
                             /\ e[i].predecessor = b \/ e[i].predecessor \in Range(f[b])
  BY <1>2, FoundBelow
\* Neither is below the other: the parent of both would be below it too.
<1>6. a \notin Range(f[b])
  <2> SUFFICES ASSUME a \in Range(f[b]) PROVE FALSE
    OBVIOUS
  <2>1. p \in B /\ lev[p] < lev[b] /\ p \in DOMAIN e \cup {None}
    BY <1>3, <1>5
  <2>2. p = b \/ lev[b] < lev[p]
    BY <1>5, <2>1
  <2>3. lev[p] \in 0..N /\ lev[b] \in 0..N
    BY <1>3, <2>1
  <2> HIDE DEF p
  <2> QED BY <2>1, <2>2, <2>3
<1>7. b \notin Range(f[a])
  <2> SUFFICES ASSUME b \in Range(f[a]) PROVE FALSE
    OBVIOUS
  <2>1. p \in A /\ lev[p] < lev[a] /\ p \in DOMAIN e \cup {None}
    BY <1>3, <1>4
  <2>2. p = a \/ lev[a] < lev[p]
    BY <1>4, <2>1
  <2>3. lev[p] \in 0..N /\ lev[a] \in 0..N
    BY <1>3, <2>1
  <2> HIDE DEF p
  <2> QED BY <2>1, <2>2, <2>3
<1> SUFFICES ASSUME A \cap B # {} PROVE FALSE
  OBVIOUS
<1>8. A \cap B \subseteq DOMAIN e
  BY <1>4
<1>9. X \in SUBSET Nat /\ X # {}
  BY <1>3, <1>8
<1>10. PICK l \in X : \A h \in X : l <= h
  BY <1>9, LeastNat
<1>11. PICK i \in A \cap B : l = lev[i]
  BY <1>10
<1>12. i \in Range(f[a]) /\ i \in Range(f[b])
  BY <1>6, <1>7, <1>11
<1> DEFINE j == e[i].predecessor
<1>13. j \in A /\ j \in B
  BY <1>4, <1>5, <1>12
<1>14. lev[j] < lev[i] /\ lev[j] \in 0..N /\ lev[i] \in 0..N
  BY <1>3, <1>8, <1>11, <1>13
<1>15. lev[i] <= lev[j]
  BY <1>10, <1>11, <1>13
<1> HIDE DEF j
<1> QED BY <1>14, <1>15

\* No element is found twice.
LEMMA WalkIsInjective ==
    ASSUME NEW e, Rooted(e), None \notin Nat \X Nat
    PROVE  IsInjective(Walk(e))
<1> DEFINE D == DOMAIN e \cup {None}
<1>1. PICK f : Walked(e, f) /\ Walk(e) = f[None]
  BY WalkUnder
<1>2. PICK N \in Nat : \E lev : Deepens(e, lev, N)
  BY RootedDeepens
<1>3. PICK lev : Deepens(e, lev, N)
  BY <1>2
<1>4. IsFiniteSet(DOMAIN e) /\ DOMAIN e \subseteq Nat \X Nat /\ \A i \in DOMAIN e : lev[i] \in 0..N
  BY <1>3 DEF Rooted, Deepens
<1> DEFINE T == {p \in D : IsInjective(f[p])}
<1>5. ASSUME NEW p \in D, \A i \in DOMAIN e : e[i].predecessor = p => i \in T
      PROVE  p \in T
  <2> DEFINE c == Children(e, p)
             n == Len(c)
             s == [k \in 1..n |-> Branch(f, c[k])]
  <2>1. ListsAll(e, p, c)
    BY <1>4, ChildrenAreAll
  <2>2. f[p] = FlattenSeq(s)
    BY <1>1, Zenon DEF Walked, Below, Branch
  <2> HIDE DEF c
  <2>3. /\ n \in Nat /\ DOMAIN c = 1..n
        /\ \A k \in 1..n : c[k] \in DOMAIN e /\ e[c[k]].predecessor = p
    BY <2>1 DEF ListsAll
  <2>4. \A k \in 1..n : f[c[k]] \in Seq(DOMAIN e) /\ IsInjective(f[c[k]])
    BY <1>1, <1>5, <2>3 DEF Walked
  <2>5. \A k \in 1..n : c[k] \notin Range(f[c[k]])
    <3> TAKE k \in 1..n
    <3> DEFINE j == c[k]
    <3>1. j \in DOMAIN e /\ lev[j] \in 0..N
      BY <1>4, <2>3
    <3> HIDE DEF j
    <3>2. ~ (lev[j] < lev[j])
      BY <3>1
    <3>3. j \notin Range(f[j])
      BY <1>1, <1>3, <3>1, <3>2, FoundBelow
    <3> QED BY <3>3 DEF j
  <2>6. \A k \in 1..n : /\ Branch(f, c[k]) \in Seq(DOMAIN e) /\ IsInjective(Branch(f, c[k]))
                        /\ Range(Branch(f, c[k])) = {c[k]} \cup Range(f[c[k]])
    <3> TAKE k \in 1..n
    <3>1. c[k] \in DOMAIN e
      BY <2>3
    <3>2. /\ Branch(f, c[k]) \in Seq(DOMAIN e)
          /\ \A x : x \in Range(Branch(f, c[k])) <=> x = c[k] \/ x \in Range(f[c[k]])
          /\ IsInjective(Branch(f, c[k]))
      BY <2>4, <2>5, <3>1, BranchIs
    <3> QED BY <3>2
  <2>7. \A k, j \in 1..n : k # j => c[k] # c[j]
    <3> TAKE k, j \in 1..n
    <3> HAVE k # j
    <3>1. c[k] \in Nat \X Nat
      BY <1>4, <2>3
    <3>2. ~ Less(c[k], c[k])
      BY <3>1, LessIsTotal
    <3>3. (k < j => Less(c[j], c[k])) /\ (j < k => Less(c[k], c[j]))
      BY <2>1, <2>3 DEF ListsAll, Descends
    <3>4. k < j \/ j < k
      OBVIOUS
    <3> QED BY <3>2, <3>3, <3>4
  <2>8. s \in [1..n -> Seq(DOMAIN e)] /\ \A k \in 1..n : s[k] = Branch(f, c[k])
    BY <2>6
  <2> HIDE DEF s, n
  <2>9. ASSUME NEW k \in 1..n, NEW j \in 1..n, k # j PROVE Range(s[k]) \cap Range(s[j]) = {}
    <3> DEFINE a == c[k]
               b == c[j]
    <3>1. a \in DOMAIN e /\ b \in DOMAIN e /\ a # b /\ e[a].predecessor = e[b].predecessor
      BY <2>3, <2>7, <2>9
    <3>2. Range(s[k]) = {a} \cup Range(f[a]) /\ Range(s[j]) = {b} \cup Range(f[b])
      BY <2>6, <2>8
    <3> HIDE DEF a, b
    <3> QED BY <1>1, <3>1, <3>2, SiblingsApart
  <2>10. \A k \in 1..n : IsInjective(s[k])
    BY <2>6, <2>8
  <2>11. \A k, j \in 1..n : k # j => Range(s[k]) \cap Range(s[j]) = {}
    BY <2>9
  <2>12. s \in [1..n -> Seq(DOMAIN e)]
    BY <2>8
  <2>13. IsInjective(FlattenSeq(s))
    BY <2>3, <2>10, <2>11, <2>12, FlattenIsInjective
  <2> QED BY <2>2, <2>13
<1> HIDE DEF T
<1>6. \A p \in D : p \in T
  BY <1>5, ByDepth
<1> QED BY <1>1, <1>6 DEF T

\* A new element, or a deletion, enlarges.
LEMMA PutEnlarges ==
    ASSUME NEW e, NEW delta, NEW ctx,
           delta.type = "SequenceInsert" => ctx.id \notin DOMAIN e
    PROVE  Enlarges(e, SequenceApply(e, delta, ctx))
<1> DEFINE g == SequenceApply(e, delta, ctx)
<1>1. CASE delta.type = "SequenceInsert"
  <2>1. DOMAIN g = DOMAIN e \cup {ctx.id} /\ \A j \in DOMAIN e : j # ctx.id => g[j] = e[j]
    BY <1>1 DEF SequenceApply, Put
  <2> HIDE DEF g
  <2>2. Enlarges(e, g)
    BY <1>1, <2>1 DEF Enlarges
  <2> QED BY <2>2 DEF g
<1>2. CASE delta.type # "SequenceInsert"
  <2>1. DOMAIN g = DOMAIN e
    BY <1>2 DEF SequenceApply
  <2>2. \A j \in DOMAIN e : g[j].predecessor = e[j].predecessor
    <3> TAKE j \in DOMAIN e
    <3>1. g[j] = [e[j] EXCEPT !.tombstoned = @ \/ j \in delta.targets]
      BY <1>2 DEF SequenceApply
    <3> QED BY <3>1
  <2> HIDE DEF g
  <2>3. Enlarges(e, g)
    BY <2>1, <2>2 DEF Enlarges
  <2> QED BY <2>3 DEF g
<1> QED BY <1>1, <1>2

LEMMA EnlargesOn ==
    ASSUME NEW e, NEW f, NEW g, Enlarges(e, f), Enlarges(f, g)
    PROVE  Enlarges(e, g)
  BY DEF Enlarges

\* Of two documents of a log, the later has grown from the earlier.
LEMMA ReplaysEnlarge ==
    ASSUME NEW l, Listed(l), NEW nx, Logged("sequence", l, nx),
           NEW a \in 0..Len(l), NEW b \in a..Len(l)
    PROVE  Enlarges(Replay("sequence", l, a), Replay("sequence", l, b))
<1> DEFINE R(n) == Replay("sequence", l, n)
           T == {d \in 0..(b - a) : Enlarges(R(a), R(a + d))}
<1>0. Len(l) \in Nat /\ a \in Nat /\ b \in Nat /\ b - a \in Nat
  BY DEF Listed
<1>1. 0 \in T
  <2>1. a + 0 = a /\ 0 \in 0..(b - a)
    BY <1>0
  <2> QED BY <2>1 DEF Enlarges
<1>2. ASSUME NEW d \in 0..(b - a) - 1, d \in T PROVE d + 1 \in T
  <2> DEFINE n == a + d
  <2>1. n \in Nat /\ n + 1 \in 1..Len(l) /\ n \in 0..Len(l) /\ a + (d + 1) = n + 1 /\ d + 1 \in 0..(b - a)
    BY <1>0
  <2>2. Enlarges(R(a), R(n))
    BY <1>2
  <2> DEFINE op == l[n + 1]
             e == R(n)
             ctx == [id |-> op.id, seq |-> n + 1]
             delta == op.delta
  <2>3. R(n + 1) = SequenceApply(e, delta, ctx)
    <3>1. R(n + 1) = apply_property("sequence", e, op, n + 1)
      <4> HIDE DEF n
      <4> QED BY <2>1, ReplaySteps
    <3> QED BY <3>1 DEF apply_property, LeafApply
  <2> HIDE DEF n
  <2>4. \A m \in 1..(n + 1) - 1 : l[m].id # op.id
    BY <2>1 DEF Logged, LogOp
  <2>5. DOMAIN e = Inserted(l, n)
    <3>1. "sequence" \in AllKinds
      BY DEF AllKinds
    <3>2. ReplayedAt("sequence", l, n)
      BY <2>1, <3>1, LogReplays
    <3> QED BY <3>2 DEF ReplayedAt
  <2>6. op.id \notin DOMAIN e
    <3>1. \A m \in 1..n : m \in 1..(n + 1) - 1
      BY <2>1
    <3> QED BY <2>4, <2>5, <3>1 DEF Inserted
  <2>7. ctx.id = op.id
    OBVIOUS
  <2> HIDE DEF e, ctx, delta, op, R
  <2>8. Enlarges(e, R(n + 1))
    BY <2>3, <2>6, <2>7, PutEnlarges
  <2>9. Enlarges(R(a), R(n + 1))
    BY <2>2, <2>8, EnlargesOn DEF e
  <2> QED BY <2>1, <2>9
<1> HIDE DEF T
<1>3. \A d \in 0..(b - a) : d \in T
  BY <1>0, <1>1, <1>2, UpTo
<1>4. b - a \in 0..(b - a) /\ a + (b - a) = b
  BY <1>0
<1> QED BY <1>3, <1>4 DEF T

\* What a client has does not become less.
LEMMA AppliedGrows ==
    ASSUME Core, [Next]_vars, NEW c \in joined
    PROVE  /\ applied'[c] \in applied[c]..Len(log') /\ kind' = kind
           /\ \A n \in 0..Len(log) : Replay(kind, log', n) = Replay(kind, log, n)
<1>1. /\ Listed(log) /\ Len(log) \in Nat /\ c \in Client /\ applied[c] \in 0..Len(log)
      /\ \A e \in Client : applied[e] \in 0..Len(log)
  <2>1. Listed(log) /\ c \in Client
    BY DEF Core, Kin, Typed
  <2> QED BY <2>1, DocsAreDocs
<1>2. CASE UNCHANGED <<kind, log>> /\ applied'[c] \in applied[c]..Len(log)
  BY <1>2
<1>3. ASSUME NEW e \in Client, Log(e)
      PROVE  /\ kind' = kind /\ applied' = applied /\ Longer(log', log, Head(wire[e]))
  BY <1>1, <1>3, AppendIsLonger DEF Log
<1>4. CASE \E e \in Client : Log(e)
  <2>1. PICK e \in Client : Log(e)
    BY <1>4
  <2>2. kind' = kind /\ applied' = applied /\ Longer(log', log, Head(wire[e]))
    BY <1>3, <2>1
  <2> DEFINE op == Head(wire[e])
             h == log'
             k == kind
  <2>3. Longer(h, log, op)
    BY <2>2
  <2> HIDE DEF op, h, k
  <2>4. Len(h) = Len(log) + 1 /\ \A n \in 0..Len(log) : Replay(k, h, n) = Replay(k, log, n)
    BY <1>1, <2>3, ReplayGrows
  <2> QED BY <1>1, <2>2, <2>4 DEF h, k
<1>5. ASSUME NEW e \in Holder, UserEdit(e) \/ detect_local_changes(e)
      PROVE  UNCHANGED <<kind, log, applied>>
  BY <1>5 DEF UserEdit, detect_local_changes
<1>6. ASSUME NEW e \in Holder, Integrate(e)
      PROVE  UNCHANGED <<kind, log>> /\ applied'[c] \in applied[c]..Len(log)
  BY <1>1, <1>6, ClientAssumption DEF Integrate, Core, Kin, Typed
<1>7. ASSUME NEW e \in Client, mutate_node(e)
      PROVE  UNCHANGED <<kind, log, applied>>
  BY <1>7 DEF mutate_node
<1>8. ASSUME NEW e \in Client, Receive(e)
      PROVE  UNCHANGED <<kind, log>> /\ applied'[c] \in applied[c]..Len(log)
  BY <1>1, <1>8 DEF Receive, Core, Kin, Typed
<1>9. ASSUME NEW e \in Client, Join(e)
      PROVE  UNCHANGED <<kind, log>> /\ applied'[c] = applied[c]
  BY <1>1, <1>9 DEF Join, Core, Kin, Typed
<1>10. CASE UNCHANGED vars
  BY <1>1, <1>2, <1>10 DEF vars
<1> QED BY <1>1, <1>2, <1>4, <1>5, <1>6, <1>7, <1>8, <1>9, <1>10 DEF Next

\* The elements of a sequence keep their order, on every client, whoever
\* inserts and deletes what meanwhile; none is lost and none is doubled.
THEOREM OrderDoesStay == Spec => OrderIsKept
<1>1. ASSUME Core, Core', [Next]_vars, kind = "sequence", NEW c \in joined
      PROVE  IsInjective(Walk(doc'[c])) /\ KeepsOrder(Walk(doc[c]), Walk(doc'[c]))
  <2> DEFINE l == log'
             a == applied[c]
             b == applied'[c]
             d == doc[c]
             e == doc'[c]
  <2>1. c \in Client /\ a \in 0..Len(log) /\ Len(log) \in Nat /\ d = Replay("sequence", log, a)
    BY <1>1, DocsAreDocs DEF Core, Kin, Typed
  <2>2. b \in a..Len(l) /\ kind' = kind /\ d = Replay("sequence", l, a)
    BY <1>1, <2>1, AppliedGrows
  <2>3. /\ kind' = "sequence" /\ Listed(l) /\ Logged("sequence", l, next')
        /\ Kept(c)'
    BY <1>1, <2>1, <2>2 DEF Core, Kin, Typed, AllKept
  <2>4. e = Replay("sequence", l, b)
    BY <2>3 DEF Kept, Held
  <2> HIDE DEF l, a, b, d, e
  <2>5. Len(l) \in Nat /\ a \in 0..Len(l) /\ b \in 0..Len(l)
    BY <2>1, <2>2, <2>3 DEF Listed
  <2>6. Enlarges(d, e)
    BY <2>2, <2>3, <2>4, <2>5, ReplaysEnlarge
  <2>7. Rooted(d) /\ Rooted(e)
    <3>1. "sequence" \in AllKinds
      BY DEF AllKinds
    <3>2. ReplayedAt("sequence", l, a) /\ ReplayedAt("sequence", l, b)
      BY <2>3, <2>5, <3>1, LogReplays
    <3> QED BY <2>2, <2>4, <3>2 DEF ReplayedAt, IsDoc
  <2>8. KeepsOrder(Walk(d), Walk(e)) /\ IsInjective(Walk(e))
    BY <2>6, <2>7, NoneAssumption, WalkKeepsOrder, WalkIsInjective
  <2> QED BY <2>8 DEF d, e
<1>2. Core /\ Core' /\ [Next]_vars
      => [kind = "sequence" => \A c \in joined :
            \A before \in {Walk(doc[c])}, after \in {Walk(doc'[c])} :
               IsInjective(after) /\ KeepsOrder(before, after)]_vars
  BY <1>1
<1> QED BY <1>2, CoreAlways, PTL DEF Spec, OrderIsKept

-----------------------------------------------------------------------------
(* What a diff makes of the document it was taken of.                      *)

\* A list that keeps the order of another of its length is that list.
LEMMA OrderIsUnique ==
    ASSUME NEW s, NEW t, Listed(s), Listed(t), Len(s) = Len(t), IsInjective(t), KeepsOrder(s, t)
    PROVE  s = t
<1> DEFINE N == Len(s)
           f == [n \in 1..N |-> CHOOSE p \in 1..N : t[p] = s[n]]
<1>1. N \in Nat /\ DOMAIN s = 1..N /\ DOMAIN t = 1..N
  BY DEF Listed
<1> HIDE DEF N
<1>2. ASSUME NEW n \in 1..N PROVE f[n] \in 1..N /\ t[f[n]] = s[n]
  <2>1. n \in DOMAIN s /\ s[n] \in Range(s)
    BY <1>1 DEF Range
  <2>2. s[n] \in Range(t)
    BY <2>1, Zenon DEF KeepsOrder
  <2>3. \E p \in 1..N : t[p] = s[n]
    BY <1>1, <2>2 DEF Range
  <2> QED BY <2>3
<1> HIDE DEF f
<1>3. ASSUME NEW n \in 1..N, NEW m \in 1..N, n < m PROVE f[n] < f[m]
  <2>0. \A i, j \in DOMAIN s : i < j => \E p, q \in DOMAIN t : p < q /\ t[p] = s[i] /\ t[q] = s[j]
    BY DEF KeepsOrder
  <2>1. n \in DOMAIN s /\ m \in DOMAIN s
    BY <1>1
  <2>2. \E p, q \in DOMAIN t : p < q /\ t[p] = s[n] /\ t[q] = s[m]
    BY <1>3, <2>0, <2>1, Zenon
  <2>3. PICK p \in 1..N, q \in 1..N : p < q /\ t[p] = s[n] /\ t[q] = s[m]
    BY <1>1, <2>2, Zenon
  <2>4. f[n] \in 1..N /\ t[f[n]] = s[n] /\ f[m] \in 1..N /\ t[f[m]] = s[m]
    BY <1>2
  <2>5. \A i, j \in 1..N : t[i] = t[j] => i = j
    BY <1>1 DEF IsInjective
  <2>6. p = f[n] /\ q = f[m]
    BY <2>3, <2>4, <2>5, Zenon
  <2> QED BY <2>3, <2>6
<1> DEFINE T == {k \in 0..N : k # 0 => f[k] >= k}
           U == {k \in 0..N : k # N => f[N - k] <= N - k \/ N - k = 0}
<1>4. ASSUME NEW k \in 0..N-1, k \in T PROVE k + 1 \in T
  <2>1. k + 1 \in 1..N /\ f[k + 1] \in 1..N
    BY <1>1, <1>2
  <2>2. k # 0 => f[k] < f[k + 1] /\ f[k] \in 1..N
    <3> SUFFICES ASSUME k # 0 PROVE f[k] < f[k + 1] /\ f[k] \in 1..N
      OBVIOUS
    <3>1. k \in 1..N /\ k < k + 1
      BY <1>1
    <3> QED BY <1>2, <1>3, <2>1, <3>1
  <2> QED BY <1>1, <1>4, <2>1, <2>2
<1>5. \A k \in 0..N : k \in T
  <2>1. 0 \in T
    BY <1>1
  <2> HIDE DEF T
  <2> QED BY <1>1, <1>4, <2>1, UpTo
<1>6. ASSUME NEW k \in 0..N-1, k \in U PROVE k + 1 \in U
  <2> DEFINE n == N - (k + 1)
  <2>1. n \in 0..N /\ N - k = n + 1 /\ k + 1 \in 0..N /\ (k = 0 <=> n + 1 = N)
    BY <1>1
  <2>2. n # 0 => n \in 1..N /\ n + 1 \in 1..N /\ n < n + 1
    BY <1>1, <2>1
  <2>3. f[n + 1] <= n + 1 \/ n = 0
    BY <1>2, <1>6, <2>1, <2>2
  <2> HIDE DEF n
  <2>4. n # 0 => f[n] <= n
    BY <1>2, <1>3, <2>1, <2>2, <2>3
  <2> QED BY <2>1, <2>4 DEF n
<1>7. \A k \in 0..N : k \in U
  <2>1. 0 \in U
    BY <1>1, <1>2
  <2> HIDE DEF U
  <2> QED BY <1>1, <1>6, <2>1, UpTo
<1>8. ASSUME NEW n \in 1..N PROVE f[n] = n
  <2>1. n \in 0..N /\ N - n \in 0..N /\ N - (N - n) = n /\ n # 0 /\ N - n # N /\ f[n] \in 1..N
    BY <1>1, <1>2
  <2>2. f[n] >= n
    BY <1>5, <2>1
  <2>3. f[n] <= n
    <3> DEFINE m == N - n
    <3>1. m \in U
      BY <1>7, <2>1
    <3>2. m # N /\ N - m = n /\ n # 0
      BY <2>1
    <3> HIDE DEF m
    <3> QED BY <3>1, <3>2
  <2> QED BY <2>1, <2>2, <2>3
<1>9. \A n \in 1..N : s[n] = t[n]
  BY <1>2, <1>8
<1> QED BY <1>1, <1>9 DEF Listed, N

\* Two lists of the same elements, in the order they have in a third.
LEMMA SameOrder ==
    ASSUME NEW s, NEW t, NEW w, Listed(s), Listed(t), IsInjective(s), IsInjective(t), IsInjective(w),
           Range(s) = Range(t), KeepsOrder(s, w), KeepsOrder(t, w), w \in Seq(Range(w))
    PROVE  s = t
<1>1. /\ DOMAIN s = 1..Len(s) /\ DOMAIN t = 1..Len(t) /\ DOMAIN w = 1..Len(w)
      /\ Len(s) \in Nat /\ Len(t) \in Nat /\ Len(w) \in Nat
  BY DEF Listed
<1>2. ASSUME NEW n \in DOMAIN s, NEW m \in DOMAIN s, n < m
      PROVE  \E p, q \in DOMAIN t : p < q /\ t[p] = s[n] /\ t[q] = s[m]
  <2>0. \A x : x \in DOMAIN s => \E p \in DOMAIN t : t[p] = s[x]
    BY DEF Range
  <2>1. PICK p \in DOMAIN t, q \in DOMAIN t : t[p] = s[n] /\ t[q] = s[m]
    BY <2>0
  <2>2. p # q
    BY <1>1, <1>2, <2>1 DEF IsInjective
  <2>3. PICK a, b \in DOMAIN w : a < b /\ w[a] = s[n] /\ w[b] = s[m]
    BY <1>2 DEF KeepsOrder
  <2>4. ASSUME q < p PROVE FALSE
    <3>1. PICK c, d \in DOMAIN w : c < d /\ w[c] = s[m] /\ w[d] = s[n]
      BY <2>1, <2>4 DEF KeepsOrder
    <3>2. c = b /\ d = a
      BY <2>3, <3>1 DEF IsInjective
    <3> QED BY <1>1, <2>3, <3>1, <3>2
  <2> QED BY <1>1, <2>1, <2>2, <2>4
<1>3. KeepsOrder(s, t)
  BY <1>2 DEF KeepsOrder
<1>4. Len(s) = Len(t)
  <2>1. Cardinality(Range(s)) = Len(s)
    <3>1. s \in Bijection(1..Len(s), Range(s))
      BY <1>1 DEF Bijection, Injection, Surjection, Range, IsInjective, Listed
    <3> QED BY <1>1, <3>1, FS_CountingElements DEF ExistsBijection
  <2>2. Cardinality(Range(t)) = Len(t)
    <3>1. t \in Bijection(1..Len(t), Range(t))
      BY <1>1 DEF Bijection, Injection, Surjection, Range, IsInjective, Listed
    <3> QED BY <1>1, <3>1, FS_CountingElements DEF ExistsBijection
  <2> QED BY <2>1, <2>2
<1> QED BY <1>3, <1>4, OrderIsUnique

\* Below an element are its children, and what is below them.
LEMMA BelowHas ==
    ASSUME NEW e, Rooted(e), None \notin Nat \X Nat, NEW f, Walked(e, f),
           NEW p \in DOMAIN e \cup {None}, NEW j \in DOMAIN e, e[j].predecessor = p
    PROVE  j \in Range(f[p]) /\ Range(f[j]) \subseteq Range(f[p])
<1> DEFINE c == Children(e, p)
           n == Len(c)
           s == [k \in 1..n |-> Branch(f, c[k])]
<1>1. ListsAll(e, p, c)
  BY ChildrenAreAll DEF Rooted
<1>2. f[p] = FlattenSeq(s)
  BY Zenon DEF Walked, Below, Branch
<1> HIDE DEF c
<1>3. n \in Nat /\ \A k \in 1..n : c[k] \in DOMAIN e
  BY <1>1 DEF ListsAll
<1>4. \A k \in 1..n : f[c[k]] \in Seq(DOMAIN e)
  BY <1>3 DEF Walked
<1>5. \A k \in 1..n : /\ Branch(f, c[k]) \in Seq(DOMAIN e)
                      /\ \A x : x \in Range(Branch(f, c[k])) <=> x = c[k] \/ x \in Range(f[c[k]])
  BY <1>3, <1>4, BranchIs
<1>6. s \in [1..n -> Seq(DOMAIN e)] /\ \A k \in 1..n : s[k] = Branch(f, c[k])
  BY <1>5
<1>7. PICK k \in 1..n : c[k] = j
  BY <1>1 DEF ListsAll
<1> HIDE DEF n, s
<1>8. \A x : x \in Range(f[p]) <=> \E i \in 1..n : x \in Range(s[i])
  BY <1>2, <1>3, <1>6, FlattenHas
<1> QED BY <1>5, <1>6, <1>7, <1>8

\* The walk misses nothing.
LEMMA WalkHasAll ==
    ASSUME NEW e, Rooted(e), None \notin Nat \X Nat
    PROVE  Range(Walk(e)) = DOMAIN e
<1> DEFINE D == DOMAIN e \cup {None}
<1>1. PICK f : Walked(e, f) /\ Walk(e) = f[None]
  BY WalkUnder
<1>2. PICK N \in Nat : \E lev : Deepens(e, lev, N)
  BY RootedDeepens
<1>3. PICK lev : Deepens(e, lev, N)
  BY <1>2
<1>4. /\ \A p \in D : lev[p] \in 0..N
      /\ \A i \in DOMAIN e : e[i].predecessor \in D /\ lev[e[i].predecessor] < lev[i]
  BY <1>3 DEF Deepens
<1>5. ASSUME NEW i \in DOMAIN e PROVE i \in Range(f[None])
  <2> DEFINE Holds == {p \in D : i \in Range(f[p])}
             X == {lev[p] : p \in Holds}
  <2>1. e[i].predecessor \in Holds
    BY <1>1, <1>4, BelowHas
  <2>2. X \in SUBSET Nat /\ X # {}
    BY <1>4, <2>1
  <2>3. PICK l \in X : \A h \in X : l <= h
    BY <2>2, LeastNat
  <2>4. PICK p \in Holds : l = lev[p]
    BY <2>3
  <2>5. CASE p \in DOMAIN e
    <3> DEFINE q == e[p].predecessor
    <3>1. q \in D /\ lev[q] < lev[p] /\ lev[q] \in 0..N /\ lev[p] \in 0..N
      BY <1>4, <2>5
    <3>2. Range(f[p]) \subseteq Range(f[q])
      BY <1>1, <2>5, <3>1, BelowHas
    <3> HIDE DEF q
    <3>3. q \in Holds
      BY <2>4, <3>1, <3>2
    <3>4. lev[p] <= lev[q]
      BY <2>3, <2>4, <3>3
    <3> QED BY <3>1, <3>4
  <2> QED BY <2>4, <2>5
<1>6. \A i \in Range(f[None]) : i \in DOMAIN e
  <2>1. f[None] \in Seq(DOMAIN e)
    BY <1>1 DEF Walked
  <2> QED BY <2>1 DEF Range
<1> QED BY <1>1, <1>5, <1>6

\* The list of the live elements, in the order of the walk.
LivesIn(e, s) ==
    /\ Listed(s) /\ IsInjective(s)
    /\ \A i : i \in Range(s) <=> i \in DOMAIN e /\ ~ e[i].tombstoned
    /\ KeepsOrder(s, Walk(e))

LEMMA LiveIdsAre ==
    ASSUME NEW e, Rooted(e), None \notin Nat \X Nat
    PROVE  LivesIn(e, LiveIds(e))
<1> DEFINE w == Walk(e)
           n == Len(w)
<1>1. PICK g : Lives(e, g, w) /\ LiveIds(e) = g[n]
  BY LiveSteps
<1>2. w \in Seq(DOMAIN e) /\ IsInjective(w) /\ Range(w) = DOMAIN e
  BY WalkIsSeq, WalkIsInjective, WalkHasAll
<1> HIDE DEF w
<1>3. n \in Nat /\ DOMAIN w = 1..n /\ \A k \in 1..n : w[k] \in DOMAIN e
  BY <1>2
<1> DEFINE Good(k) == /\ IsInjective(g[k])
                      /\ \A i : i \in Range(g[k]) <=> \E j \in 1..k : i = w[j] /\ ~ e[i].tombstoned
                      /\ KeepsOrder(g[k], w)
           T == {k \in 0..n : Good(k)}
<1>4. 0 \in T
  <2>1. g[0] = << >> /\ 0 \in 0..n
    BY <1>1, <1>3 DEF Lives
  <2>2. DOMAIN g[0] = {} /\ Range(g[0]) = {}
    BY <2>1 DEF Range
  <2> QED BY <2>1, <2>2 DEF IsInjective, KeepsOrder
<1>5. ASSUME NEW k \in 0..n-1, k \in T PROVE k + 1 \in T
  <2> DEFINE m == k + 1
             s == g[k]
             t == g[m]
             x == w[m]
  <2>1. m \in 1..n /\ m \in 0..n /\ m - 1 = k /\ k \in 0..n /\ \A j : j \in 1..m <=> j \in 1..k \/ j = m
    BY <1>3
  <2>2. Good(k)
    BY <1>5
  <2>3. t = (IF e[x].tombstoned THEN s ELSE Append(s, x)) /\ s \in Seq(DOMAIN e)
    <3>1. g[m] = IF e[w[m]].tombstoned THEN g[m-1] ELSE Append(g[m-1], w[m])
      <4> HIDE DEF m
      <4> QED BY <1>1, <2>1 DEF Lives
    <3>2. s \in Seq(DOMAIN e)
      BY <1>1, <2>1 DEF Lives
    <3> QED BY <2>1, <3>1, <3>2
  <2>4. x \in DOMAIN e
    BY <1>3, <2>1
  <2> HIDE DEF m, s, t, x, Good
  <2>5. /\ IsInjective(s) /\ KeepsOrder(s, w)
        /\ \A i : i \in Range(s) <=> \E j \in 1..k : i = w[j] /\ ~ e[i].tombstoned
    BY <2>2 DEF Good, s
  <2>6. CASE e[x].tombstoned
    <3>1. \A i : i \in Range(t) <=> \E j \in 1..m : i = w[j] /\ ~ e[i].tombstoned
      BY <2>1, <2>3, <2>5, <2>6 DEF x
    <3> QED BY <2>1, <2>3, <2>5, <2>6, <3>1 DEF Good, t, m
  <2>7. CASE ~ e[x].tombstoned
    <3> DEFINE l == Len(s)
    <3>1. t = Append(s, x) /\ l \in Nat /\ DOMAIN s = 1..l
      BY <2>3, <2>7
    <3>2. DOMAIN t = 1..l + 1 /\ t[l + 1] = x /\ \A i \in 1..l : t[i] = s[i]
      BY <2>3, <2>4, <3>1
    <3> HIDE DEF l
    <3>3. \A i \in 1..l + 1 : i \in 1..l \/ i = l + 1
      BY <3>1
    <3>4. \A i : i \in Range(t) <=> i \in Range(s) \/ i = x
      <4>1. l + 1 \in 1..l + 1 /\ \A i \in 1..l : i \in 1..l + 1
        BY <3>1
      <4> QED BY <3>1, <3>2, <3>3, <4>1 DEF Range
    <3>5. \A i : i \in Range(t) <=> \E j \in 1..m : i = w[j] /\ ~ e[i].tombstoned
      BY <2>1, <2>5, <2>7, <3>4 DEF x
    <3>6. \A i \in 1..l : \E j \in 1..k : s[i] = w[j]
      BY <2>5, <3>1 DEF Range
    <3>7. \A i \in 1..l : s[i] # x
      <4> TAKE i \in 1..l
      <4>1. PICK j \in 1..k : s[i] = w[j]
        BY <3>6
      <4>2. j \in 1..n /\ j # m
        BY <1>3, <2>1 DEF m
      <4> QED BY <1>2, <1>3, <2>1, <4>1, <4>2 DEF IsInjective, x
    <3>8. IsInjective(t)
      <4> SUFFICES ASSUME NEW i \in 1..l + 1, NEW j \in 1..l + 1, t[i] = t[j] PROVE i = j
        BY <3>2 DEF IsInjective
      <4>1. \A a, b \in 1..l : s[a] = s[b] => a = b
        BY <2>5, <3>1 DEF IsInjective
      <4> QED BY <3>2, <3>3, <3>7, <4>1
    <3>9. ASSUME NEW i \in DOMAIN t, NEW j \in DOMAIN t, i < j
          PROVE  \E p, q \in DOMAIN w : p < q /\ w[p] = t[i] /\ w[q] = t[j]
      <4>1. i \in 1..l /\ t[i] = s[i]
        BY <3>1, <3>2, <3>3, <3>9
      <4>2. CASE j \in 1..l
        BY <2>5, <3>1, <3>2, <3>9, <4>1, <4>2 DEF KeepsOrder
      <4>3. CASE j = l + 1
        <5>1. PICK p \in 1..k : s[i] = w[p]
          BY <3>6, <4>1
        <5>2. p \in 1..n /\ p < m
          BY <1>3, <2>1 DEF m
        <5> QED BY <1>3, <2>1, <3>2, <4>1, <4>3, <5>1, <5>2 DEF x
      <4> QED BY <3>2, <3>3, <4>2, <4>3
    <3>10. KeepsOrder(t, w)
      <4>1. Range(t) \subseteq Range(w)
        BY <2>4, <2>5, <3>4, <1>2 DEF KeepsOrder
      <4> QED BY <3>9, <4>1 DEF KeepsOrder
    <3> QED BY <2>1, <3>5, <3>8, <3>10 DEF Good, t, m
  <2> QED BY <2>6, <2>7
<1> HIDE DEF T
<1>6. \A k \in 0..n : k \in T
  BY <1>3, <1>4, <1>5, UpTo
<1>7. n \in 0..n
  BY <1>3
<1>8. Good(n)
  BY <1>6, <1>7 DEF T
<1>9. Listed(LiveIds(e))
  <2>1. LiveIds(e) \in Seq(DOMAIN e)
    BY <1>1, <1>7 DEF Lives
  <2> QED BY <2>1, ListedOf
<1>10. \A i : (\E j \in 1..n : i = w[j] /\ ~ e[i].tombstoned) <=> i \in DOMAIN e /\ ~ e[i].tombstoned
  BY <1>2, <1>3 DEF Range
<1> QED BY <1>1, <1>8, <1>9, <1>10 DEF LivesIn, w

\* In s, b comes right after a, if a is there.
Follows(s, a, b) == \A i \in DOMAIN s : s[i] = a => i + 1 \in DOMAIN s /\ s[i + 1] = b

\* b is the first of s.
Leads(s, b) == 1 \in DOMAIN s /\ s[1] = b

LEMMA ConcatFollows ==
    ASSUME NEW s, NEW t, Listed(s), Listed(t), NEW a, NEW b, Follows(s, a, b), Follows(t, a, b)
    PROVE  Follows(s \o t, a, b)
<1> DEFINE u == s \o t
<1>1. /\ \A n \in DOMAIN s : n \in DOMAIN u /\ u[n] = s[n]
      /\ \A n \in DOMAIN t : Len(s) + n \in DOMAIN u /\ u[Len(s) + n] = t[n]
      /\ \A n \in DOMAIN u : n \in DOMAIN s \/ \E m \in DOMAIN t : n = Len(s) + m
  BY ConcatAt
<1> HIDE DEF u
<1>2. DOMAIN t = 1..Len(t) /\ Len(t) \in Nat /\ Len(s) \in Nat
  BY DEF Listed
<1>3. ASSUME NEW n \in DOMAIN u, u[n] = a PROVE n + 1 \in DOMAIN u /\ u[n + 1] = b
  <2>1. CASE n \in DOMAIN s
    BY <1>1, <1>3, <2>1 DEF Follows
  <2>2. CASE \E m \in DOMAIN t : n = Len(s) + m
    <3>1. PICK m \in DOMAIN t : n = Len(s) + m
      BY <2>2
    <3>2. m + 1 \in DOMAIN t /\ t[m + 1] = b
      BY <1>1, <1>3, <3>1 DEF Follows
    <3>3. n + 1 = Len(s) + (m + 1)
      BY <1>2, <3>1
    <3> QED BY <1>1, <3>2, <3>3
  <2> QED BY <1>1, <2>1, <2>2
<1> QED BY <1>3 DEF Follows, u

LEMMA FlattenFollows ==
    ASSUME NEW S, NEW n \in Nat, NEW s \in [1..n -> Seq(S)], NEW a, NEW b,
           \A k \in 1..n : Follows(s[k], a, b)
    PROVE  Follows(FlattenSeq(s), a, b)
<1>1. PICK f \in [0..n -> Seq(S)] :
         f[0] = << >> /\ (\A k \in 1..n : f[k] = f[k-1] \o s[k]) /\ FlattenSeq(s) = f[n]
  BY FlattenSteps
<1> DEFINE U == {k \in 0..n : Follows(f[k], a, b)}
<1>2. 0 \in U
  BY <1>1 DEF Follows
<1>3. ASSUME NEW k \in 0..n-1, k \in U PROVE k + 1 \in U
  <2> DEFINE j == k + 1
  <2>1. j \in 1..n /\ j \in 0..n /\ j - 1 = k /\ k \in 0..n
    OBVIOUS
  <2> HIDE DEF j
  <2>2. f[j] = f[k] \o s[j] /\ f[k] \in Seq(S) /\ s[j] \in Seq(S)
    BY <1>1, <2>1
  <2>3. Follows(f[j], a, b)
    BY <1>3, <2>1, <2>2, ListedOf, ConcatFollows
  <2> QED BY <2>1, <2>3 DEF j
<1> HIDE DEF U
<1>4. \A k \in 0..n : k \in U
  BY <1>2, <1>3, UpTo
<1>5. n \in 0..n
  OBVIOUS
<1> QED BY <1>1, <1>4, <1>5 DEF U

LEMMA ConcatLeads ==
    ASSUME NEW s, NEW t, Listed(s), Listed(t), NEW b, Leads(s, b) \/ (Len(s) = 0 /\ Leads(t, b))
    PROVE  Leads(s \o t, b)
<1> DEFINE u == s \o t
<1>1. /\ \A n \in DOMAIN s : n \in DOMAIN u /\ u[n] = s[n]
      /\ \A n \in DOMAIN t : Len(s) + n \in DOMAIN u /\ u[Len(s) + n] = t[n]
  BY ConcatAt
<1> HIDE DEF u
<1>2. Len(s) = 0 => Len(s) + 1 = 1
  OBVIOUS
<1> QED BY <1>1, <1>2 DEF Leads, u

\* The first list begins the whole.
LEMMA FlattenLeads ==
    ASSUME NEW S, NEW n \in Nat, n # 0, NEW s \in [1..n -> Seq(S)], NEW b, Leads(s[1], b)
    PROVE  Leads(FlattenSeq(s), b)
<1>1. PICK f \in [0..n -> Seq(S)] :
         f[0] = << >> /\ (\A k \in 1..n : f[k] = f[k-1] \o s[k]) /\ FlattenSeq(s) = f[n]
  BY FlattenSteps
<1> DEFINE U == {k \in 0..n : k # 0 => Leads(f[k], b)}
<1>2. 0 \in U
  OBVIOUS
<1>3. ASSUME NEW k \in 0..n-1, k \in U PROVE k + 1 \in U
  <2> DEFINE j == k + 1
  <2>1. j \in 1..n /\ j \in 0..n /\ j - 1 = k /\ k \in 0..n /\ (k = 0 => j = 1)
    OBVIOUS
  <2> HIDE DEF j
  <2>2. f[j] = f[k] \o s[j] /\ f[k] \in Seq(S) /\ s[j] \in Seq(S)
    BY <1>1, <2>1
  <2>3. Listed(f[k]) /\ Listed(s[j])
    BY <2>2, ListedOf
  <2>4. k = 0 => Len(f[k]) = 0 /\ Leads(s[j], b)
    BY <1>1, <2>1
  <2>5. k # 0 => Leads(f[k], b)
    BY <1>3
  <2>6. Leads(f[k], b) \/ (Len(f[k]) = 0 /\ Leads(s[j], b))
    BY <2>4, <2>5
  <2>7. Leads(f[k] \o s[j], b)
    BY <2>3, <2>6, ConcatLeads
  <2> QED BY <2>1, <2>2, <2>7 DEF j
<1> HIDE DEF U
<1>4. \A k \in 0..n : k \in U
  BY <1>2, <1>3, UpTo
<1>5. n \in 0..n
  OBVIOUS
<1> QED BY <1>1, <1>4, <1>5 DEF U

\* b is the newest element of e.
Newest(e, b) == b \in DOMAIN e /\ \A i \in DOMAIN e : i # b => Less(i, b)

\* The newest element is found first below what it hangs on,
LEMMA NewestLeads ==
    ASSUME NEW e, Rooted(e), None \notin Nat \X Nat, NEW f, Walked(e, f), NEW b, Newest(e, b),
           NEW p \in DOMAIN e \cup {None}, e[b].predecessor = p
    PROVE  Leads(f[p], b)
<1> DEFINE c == Children(e, p)
           n == Len(c)
           s == [k \in 1..n |-> Branch(f, c[k])]
<1>0. IsFiniteSet(DOMAIN e) /\ DOMAIN e \subseteq Nat \X Nat
  BY DEF Rooted
<1>1. ListsAll(e, p, c)
  BY <1>0, ChildrenAreAll
<1>2. f[p] = FlattenSeq(s)
  BY Zenon DEF Walked, Below, Branch
<1> HIDE DEF c
<1>3. n \in Nat /\ DOMAIN c = 1..n /\ \A k \in 1..n : c[k] \in DOMAIN e
  BY <1>1 DEF ListsAll
<1>4. PICK k \in 1..n : c[k] = b
  BY <1>1 DEF ListsAll, Newest
<1>5. n # 0 /\ 1 \in 1..n
  BY <1>3
<1>6. c[1] = b
  <2> SUFFICES ASSUME c[1] # b PROVE FALSE
    OBVIOUS
  <2>1. 1 < k /\ c[1] \in DOMAIN e
    BY <1>3, <1>4, <1>5
  <2>2. Less(c[k], c[1])
    BY <1>1, <1>3, <1>5, <2>1 DEF ListsAll, Descends
  <2>3. Less(c[1], b)
    BY <2>1 DEF Newest
  <2>4. c[1] \in Nat \X Nat /\ b \in Nat \X Nat
    BY <1>0, <2>1 DEF Newest
  <2>5. ~ (Less(b, c[1]) /\ Less(c[1], b))
    BY <2>4, LessIsTotal
  <2> QED BY <1>4, <2>2, <2>3, <2>5
<1>7. \A i \in 1..n : f[c[i]] \in Seq(DOMAIN e)
  BY <1>3 DEF Walked
<1>8. \A i \in 1..n : Branch(f, c[i]) \in Seq(DOMAIN e)
  BY <1>3, <1>7, BranchIs
<1>9. s \in [1..n -> Seq(DOMAIN e)] /\ s[1] = Branch(f, b)
  BY <1>5, <1>6, <1>8
<1>10. Leads(Branch(f, b), b)
  <2>1. f[b] \in Seq(DOMAIN e) /\ b \in DOMAIN e
    BY <1>5, <1>6, <1>7 DEF Newest
  <2> DEFINE t == f[b]
  <2> HIDE DEF t
  <2>2. DOMAIN (<<b>> \o t) = 1..(1 + Len(t)) /\ (<<b>> \o t)[1] = b /\ Len(t) \in Nat
    BY <2>1 DEF t
  <2>3. 1 \in 1..(1 + Len(t))
    BY <2>2
  <2> QED BY <2>2, <2>3 DEF Leads, Branch, t
<1> HIDE DEF s, n
<1> QED BY <1>2, <1>3, <1>5, <1>9, <1>10, FlattenLeads

\* and in the walk right after that.
LEMMA NewestFollows ==
    ASSUME NEW e, Rooted(e), None \notin Nat \X Nat, NEW b, Newest(e, b)
    PROVE  IF e[b].predecessor = None THEN Leads(Walk(e), b)
           ELSE Follows(Walk(e), e[b].predecessor, b)
<1> DEFINE a == e[b].predecessor
           D == DOMAIN e \cup {None}
<1>1. PICK f : Walked(e, f) /\ Walk(e) = f[None]
  BY WalkUnder
<1>2. a \in D
  BY DEF Rooted, Ranked, Newest
<1>3. IsFiniteSet(DOMAIN e) /\ DOMAIN e \subseteq Nat \X Nat
  BY DEF Rooted
<1>4. Leads(f[a], b)
  <2> HIDE DEF a
  <2>1. e[b].predecessor = a
    BY DEF a
  <2> QED BY <1>1, <1>2, <2>1, NewestLeads
<1> HIDE DEF a
<1>5. CASE a = None
  BY <1>1, <1>4, <1>5 DEF a
<1>6. CASE a # None
  <2> DEFINE T == {p \in D : Follows(f[p], a, b)}
  <2>1. ASSUME NEW p \in D, \A i \in DOMAIN e : e[i].predecessor = p => i \in T
        PROVE  p \in T
    <3> DEFINE c == Children(e, p)
               n == Len(c)
               s == [k \in 1..n |-> Branch(f, c[k])]
    <3>1. ListsAll(e, p, c)
      BY <1>3, ChildrenAreAll
    <3>2. f[p] = FlattenSeq(s)
      BY <1>1, Zenon DEF Walked, Below, Branch
    <3> HIDE DEF c
    <3>3. n \in Nat /\ \A k \in 1..n : c[k] \in DOMAIN e /\ e[c[k]].predecessor = p
      BY <3>1 DEF ListsAll
    <3>4. ASSUME NEW k \in 1..n PROVE Branch(f, c[k]) \in Seq(DOMAIN e) /\ Follows(Branch(f, c[k]), a, b)
      <4> DEFINE j == c[k]
                 t == f[j]
                 u == <<j>> \o t
      <4>1. j \in DOMAIN e /\ j \in T
        BY <2>1, <3>3
      <4>2. t \in Seq(DOMAIN e) /\ Follows(t, a, b)
        BY <1>1, <4>1 DEF Walked
      <4> HIDE DEF j, T
      <4>3. j = a => Leads(t, b)
        BY <1>4
      <4> HIDE DEF t
      <4>4. /\ DOMAIN u = 1..(1 + Len(t)) /\ u[1] = j /\ Len(t) \in Nat /\ DOMAIN t = 1..Len(t)
            /\ \A i \in 1..Len(t) : u[1 + i] = t[i]
        BY <4>1, <4>2
      <4> HIDE DEF u
      <4>5. ASSUME NEW i \in DOMAIN u, u[i] = a PROVE i + 1 \in DOMAIN u /\ u[i + 1] = b
        <5>1. CASE i = 1
          <6>1. 1 \in DOMAIN t /\ t[1] = b
            BY <4>3, <4>4, <4>5, <5>1 DEF Leads
          <6> QED BY <4>4, <5>1, <6>1
        <5>2. CASE i # 1
          <6> DEFINE h == i - 1
          <6>1. h \in DOMAIN t /\ i = 1 + h
            BY <4>4, <5>2
          <6> HIDE DEF h
          <6>2. t[h] = a
            BY <4>4, <4>5, <6>1
          <6>3. h + 1 \in DOMAIN t /\ t[h + 1] = b
            BY <4>2, <6>1, <6>2 DEF Follows
          <6>4. i + 1 = 1 + (h + 1) /\ i + 1 \in 1..(1 + Len(t))
            BY <4>4, <6>1, <6>3
          <6> QED BY <4>4, <6>3, <6>4
        <5> QED BY <5>1, <5>2
      <4>6. Branch(f, c[k]) = u
        BY DEF Branch, u, t, j
      <4>7. Follows(u, a, b)
        BY <4>5 DEF Follows
      <4>8. Branch(f, c[k]) \in Seq(DOMAIN e)
        BY <4>1, <4>2, BranchIs DEF j, t
      <4> QED BY <4>6, <4>7, <4>8
    <3>5. s \in [1..n -> Seq(DOMAIN e)] /\ \A k \in 1..n : Follows(s[k], a, b)
      BY <3>4
    <3> HIDE DEF s, n
    <3>6. Follows(FlattenSeq(s), a, b)
      BY <3>3, <3>5, FlattenFollows
    <3> QED BY <3>2, <3>6
  <2> HIDE DEF T
  <2>2. \A p \in D : p \in T
    BY <2>1, ByDepth
  <2>3. None \in T
    BY <2>2
  <2> QED BY <1>1, <1>6, <2>3 DEF T, a
<1> QED BY <1>5, <1>6

\* The live elements of g are those of e, and b.
OneMore(e, g, b) ==
    /\ Rooted(e) /\ Rooted(g) /\ Enlarges(e, g)
    /\ b \notin DOMAIN e /\ DOMAIN g = DOMAIN e \cup {b}
    /\ \A i \in DOMAIN e : g[i].tombstoned <=> e[i].tombstoned
    /\ ~ g[b].tombstoned

\* A new element below the p-th live one comes right after that.
LEMMA InsertIsThere ==
    ASSUME NEW e, NEW g, NEW b, OneMore(e, g, b), Newest(g, b), None \notin Nat \X Nat,
           NEW s, s = LiveIds(e), NEW p \in 0..Len(s),
           g[b].predecessor = IF p = 0 THEN None ELSE s[p]
    PROVE  LiveIds(g) = Squeezed(s, p, b)
<1> DEFINE t == Squeezed(s, p, b)
           v == Walk(e)
           w == Walk(g)
           n == Len(s)
           a == g[b].predecessor
<1>1. LivesIn(e, s) /\ LivesIn(g, LiveIds(g))
  BY LiveIdsAre DEF OneMore
<1>2. /\ w \in Seq(DOMAIN g) /\ IsInjective(w) /\ Range(w) = DOMAIN g
  BY WalkIsSeq, WalkIsInjective, WalkHasAll DEF OneMore
<1>3. KeepsOrder(v, w)
  BY WalkKeepsOrder DEF OneMore
<1>4. KeepsOrder(s, w) /\ Listed(s) /\ IsInjective(s)
      /\ \A i : i \in Range(s) <=> i \in DOMAIN e /\ ~ e[i].tombstoned
  BY <1>1, <1>3, OrderOnward DEF LivesIn
<1>5. IF a = None THEN Leads(w, b) ELSE Follows(w, a, b)
  BY NewestFollows DEF OneMore
<1>6. n \in Nat /\ p \in 0..n /\ DOMAIN s = 1..n
  BY <1>4 DEF Listed
<1>7. /\ Listed(t) /\ Len(t) = n + 1 /\ DOMAIN t = 1..n + 1
      /\ \A i \in 1..p : i \in 1..n /\ t[i] = s[i]
      /\ t[p + 1] = b
      /\ \A i \in p + 1..n : i \in 1..n /\ t[i + 1] = s[i]
      /\ \A i \in 1..n + 1 : i \in 1..p \/ i = p + 1 \/ \E j \in p + 1..n : i = j + 1
  <2> HIDE DEF t
  <2>1. t = Squeezed(s, p, b)
    BY DEF t
  <2>2. IsSqueezed(t, s, p, b)
    BY <1>4, <2>1, SqueezedIs
  <2> QED BY <2>2 DEF IsSqueezed
<1>8. b \notin Range(s) /\ b \in DOMAIN g
  BY <1>4 DEF OneMore
<1>9. DOMAIN w = 1..Len(w) /\ Len(w) \in Nat
  BY <1>2
<1> HIDE DEF t, w, v
<1>10. IsInjective(t) /\ \A i : i \in Range(t) <=> i \in Range(s) \/ i = b
  BY <1>4, <1>6, <1>8, SqueezedHas DEF t
<1>11. \A i : i \in Range(t) <=> i \in DOMAIN g /\ ~ g[i].tombstoned
  BY <1>4, <1>10 DEF OneMore
\* Where the elements are in the walk.
<1>12. PICK pos : \A x \in DOMAIN g : pos[x] \in DOMAIN w /\ w[pos[x]] = x
  <2> DEFINE f == [x \in DOMAIN g |-> CHOOSE i \in DOMAIN w : w[i] = x]
  <2>1. \A x \in DOMAIN g : \E i \in DOMAIN w : w[i] = x
    BY <1>2 DEF Range
  <2>2. \A x \in DOMAIN g : f[x] \in DOMAIN w /\ w[f[x]] = x
    BY <2>1
  <2> HIDE DEF f
  <2> QED BY <2>2
<1>13. ASSUME NEW i \in 1..n, NEW j \in 1..n, i < j
       PROVE  pos[s[i]] < pos[s[j]]
  <2>0. i \in DOMAIN s /\ j \in DOMAIN s /\ i < j
    BY <1>6, <1>13
  <2>0a. \A h, k \in DOMAIN s : h < k => \E x, y \in DOMAIN w : x < y /\ w[x] = s[h] /\ w[y] = s[k]
    BY <1>4 DEF KeepsOrder
  <2>0b. \E x, y \in DOMAIN w : x < y /\ w[x] = s[i] /\ w[y] = s[j]
    BY <2>0, <2>0a, Zenon
  <2>1. PICK x, y \in DOMAIN w : x < y /\ w[x] = s[i] /\ w[y] = s[j]
    BY <2>0b, Zenon
  <2>2. s[i] \in DOMAIN g /\ s[j] \in DOMAIN g
    BY <1>4, <1>6 DEF Range, OneMore
  <2>3. /\ pos[s[i]] \in DOMAIN w /\ w[pos[s[i]]] = w[x]
        /\ pos[s[j]] \in DOMAIN w /\ w[pos[s[j]]] = w[y]
    BY <1>12, <2>1, <2>2
  <2>4. \A h, k \in DOMAIN w : w[h] = w[k] => h = k
    BY <1>2 DEF IsInjective
  <2>5. x = pos[s[i]] /\ y = pos[s[j]]
    BY <2>1, <2>3, <2>4
  <2> QED BY <2>1, <2>5
<1>14. \A i \in 1..n : s[i] \in DOMAIN g /\ s[i] # b /\ pos[s[i]] \in Nat /\ s[i] # None
  <2> TAKE i \in 1..n
  <2>1. s[i] \in DOMAIN e
    BY <1>4, <1>6 DEF Range
  <2>2. s[i] \in DOMAIN g /\ s[i] # b /\ s[i] # None
    BY <2>1 DEF OneMore, Rooted
  <2> QED BY <1>9, <1>12, <2>2
<1>15. pos[b] \in Nat /\ \A x \in DOMAIN g : x # b => pos[x] # pos[b]
  BY <1>8, <1>9, <1>12
<1>16. ASSUME NEW i \in 1..p PROVE pos[s[i]] < pos[b]
  <2>1. p # 0 /\ p \in 1..n /\ i \in 1..n /\ i <= p
    BY <1>6
  <2>2. a = s[p] /\ a # None
    BY <1>14, <2>1
  <2>3. Follows(w, a, b)
    BY <1>5, <2>2
  <2>4. pos[a] + 1 \in DOMAIN w /\ w[pos[a] + 1] = b
    <3>1. pos[a] \in DOMAIN w /\ w[pos[a]] = a
      BY <1>12, <1>14, <2>1, <2>2
    <3> QED BY <2>3, <3>1 DEF Follows
  <2>5. pos[b] = pos[a] + 1
    BY <1>2, <1>8, <1>12, <2>4 DEF IsInjective
  <2>6. i # p => pos[s[i]] < pos[s[p]]
    BY <1>6, <1>13, <2>1
  <2> QED BY <1>14, <2>1, <2>2, <2>5, <2>6
<1>17. ASSUME NEW i \in p + 1..n PROVE pos[b] < pos[s[i]]
  <2>0. i \in 1..n /\ p < i
    BY <1>6
  <2>1. CASE p = 0
    <3>1. Leads(w, b)
      BY <1>5, <2>1
    <3>2. pos[b] = 1
      BY <1>2, <1>8, <1>12, <3>1 DEF IsInjective, Leads
    <3>3. pos[s[i]] \in 1..Len(w) /\ pos[s[i]] # pos[b]
      BY <1>9, <1>12, <1>14, <1>15, <2>0
    <3> QED BY <3>2, <3>3
  <2>2. CASE p # 0
    <3>1. p \in 1..n
      BY <1>6, <2>2
    <3>2. a = s[p] /\ a # None
      BY <1>14, <2>2, <3>1
    <3>3. pos[a] + 1 \in DOMAIN w /\ w[pos[a] + 1] = b
      <4>1. pos[a] \in DOMAIN w /\ w[pos[a]] = a
        BY <1>12, <1>14, <3>1, <3>2
      <4> QED BY <1>5, <3>2, <4>1 DEF Follows
    <3>4. pos[b] = pos[a] + 1
      BY <1>2, <1>8, <1>12, <3>3 DEF IsInjective
    <3>5. pos[a] < pos[s[i]]
      BY <1>13, <2>0, <3>1, <3>2
    <3>6. pos[s[i]] \in Nat /\ pos[a] \in Nat /\ pos[s[i]] # pos[b]
      BY <1>14, <1>15, <2>0, <3>1, <3>2
    <3> QED BY <3>4, <3>5, <3>6
  <2> QED BY <2>1, <2>2
<1>18. ASSUME NEW i \in DOMAIN t, NEW j \in DOMAIN t, i < j
       PROVE  t[i] \in DOMAIN g /\ t[j] \in DOMAIN g /\ pos[t[i]] < pos[t[j]]
  <2>0. \A k \in 1..n + 1 : k \in 1..p \/ k = p + 1 \/ \E h \in p + 1..n : k = h + 1
    BY <1>7
  <2>1. CASE i \in 1..p /\ j \in 1..p
    BY <1>7, <1>13, <1>14, <1>18, <2>1
  <2>2. CASE i \in 1..p /\ j = p + 1
    BY <1>7, <1>8, <1>14, <1>16, <2>2
  <2>3. CASE i \in 1..p /\ \E h \in p + 1..n : j = h + 1
    <3>1. PICK h \in p + 1..n : j = h + 1
      BY <2>3
    <3>2. i < h
      BY <1>6, <2>3
    <3>3. i \in 1..n /\ h \in 1..n /\ t[i] = s[i] /\ t[j] = s[h]
      BY <1>7, <2>3, <3>1
    <3> QED BY <1>13, <1>14, <3>2, <3>3
  <2>4. CASE i = p + 1 /\ \E h \in p + 1..n : j = h + 1
    <3>1. PICK h \in p + 1..n : j = h + 1
      BY <2>4
    <3> QED BY <1>7, <1>8, <1>14, <1>17, <2>4, <3>1
  <2>5. CASE (\E h \in p + 1..n : i = h + 1) /\ \E h \in p + 1..n : j = h + 1
    <3>1. PICK h \in p + 1..n : i = h + 1
      BY <2>5
    <3>2. PICK k \in p + 1..n : j = k + 1
      BY <2>5
    <3>3. h < k
      BY <1>6, <1>18, <3>1, <3>2
    <3>4. h \in 1..n /\ k \in 1..n /\ t[i] = s[h] /\ t[j] = s[k]
      BY <1>7, <3>1, <3>2
    <3> QED BY <1>13, <1>14, <3>3, <3>4
  <2>6. ~ (i = p + 1 /\ j = p + 1) /\ ~ (i = p + 1 /\ j \in 1..p)
        /\ ~ ((\E h \in p + 1..n : i = h + 1) /\ (j \in 1..p \/ j = p + 1))
    BY <1>6, <1>18
  <2> QED BY <1>7, <2>0, <2>1, <2>2, <2>3, <2>4, <2>5, <2>6
<1>19. KeepsOrder(t, w)
  <2>1. Range(t) \subseteq Range(w)
    BY <1>2, <1>11
  <2> QED BY <1>12, <1>18, <2>1 DEF KeepsOrder
<1>21. Range(t) = Range(LiveIds(g))
  BY <1>1, <1>11 DEF LivesIn
<1>22. w \in Seq(Range(w))
  BY <1>2
<1>23. t = LiveIds(g)
  BY <1>1, <1>2, <1>7, <1>10, <1>19, <1>21, <1>22, SameOrder DEF LivesIn, w
<1> QED BY <1>23 DEF t

\* A list of different elements shows each value as often as they have it.
LEMMA OftenIs ==
    ASSUME NEW s, Listed(s), IsInjective(s), NEW e, NEW u, Listed(u), Len(u) = Len(s),
           \A n \in 1..Len(s) : u[n] = e[s[n]].value, NEW x
    PROVE  Often(x, u) = Cardinality({i \in Range(s) : e[i].value = x})
<1> DEFINE N == Len(s)
           A == {n \in DOMAIN u : u[n] = x}
           B == {i \in Range(s) : e[i].value = x}
           f == [n \in A |-> s[n]]
<1>1. N \in Nat /\ DOMAIN s = 1..N /\ DOMAIN u = 1..N
  BY DEF Listed
<1>2. \A n \in 1..N : u[n] = e[s[n]].value
  OBVIOUS
<1> HIDE DEF N
<1>3. IsFiniteSet(A)
  <2>1. IsFiniteSet(1..N)
    BY <1>1, FS_Interval
  <2>2. A \in SUBSET (1..N)
    BY <1>1
  <2> QED BY <2>1, <2>2, FS_Subset
<1>4. ASSUME NEW n \in A PROVE s[n] \in B
  <2>1. n \in DOMAIN s /\ e[s[n]].value = x
    BY <1>1, <1>2
  <2> QED BY <2>1 DEF Range
<1>5. \A i \in B : \E n \in A : s[n] = i
  <2> TAKE i \in B
  <2>1. PICK n \in DOMAIN s : s[n] = i
    BY DEF Range
  <2>2. u[n] = x
    BY <1>1, <1>2, <2>1
  <2> QED BY <1>1, <2>1, <2>2
<1>6. \A n, m \in A : s[n] = s[m] => n = m
  BY <1>1 DEF IsInjective
<1> HIDE DEF A, B
<1>7. f \in [A -> B] /\ \A n \in A : f[n] = s[n]
  BY <1>4
<1> HIDE DEF f
<1>8. f \in Bijection(A, B)
  BY <1>5, <1>6, <1>7 DEF Bijection, Injection, Surjection, IsInjective
<1>9. ExistsBijection(A, B)
  BY <1>8 DEF ExistsBijection
<1>10. Cardinality(A) = Cardinality(B)
  BY <1>3, <1>9, FS_Bijection
<1> QED BY <1>10 DEF Often, A, B

\* On the way from a document to the list `new': t has the live elements of e,
\* p of which show the begin of new and the r others its end; c mints m next.
\* While c is `ahead', its new elements are the newest, and t is in order.
Stage(ahead, c, e, t, new, p, r, m) ==
    /\ Rooted(e) /\ IsSequence(e)
    /\ Listed(t) /\ IsInjective(t) /\ p \in Nat /\ r \in Nat /\ m \in Nat /\ Len(t) = p + r
    /\ \A i : i \in Range(t) <=> i \in DOMAIN e /\ ~ e[i].tombstoned
    /\ \A i \in 1..p : e[t[i]].value = new[i]
    /\ \A i \in 1..r : e[t[p + i]].value = new[Len(new) - r + i]
    /\ \A i \in Nat : i >= m => <<c, i>> \notin DOMAIN e
    /\ ahead => t = LiveIds(e) /\ \A i \in DOMAIN e : Less(i, <<c, m>>)

\* At its end, what the document shows is new.
LEMMA StageShows ==
    ASSUME NEW ahead \in BOOLEAN, NEW c, NEW e, NEW t, NEW new, Listed(new), NEW p, NEW r, NEW m,
           Stage(ahead, c, e, t, new, p, r, m), Len(new) = p + r, None \notin Nat \X Nat
    PROVE  /\ ahead => Visible(e) = new
           /\ \A x : Often(x, Visible(e)) = Often(x, new)
<1> DEFINE s == LiveIds(e)
           u == Visible(e)
<1>1. /\ Rooted(e) /\ Listed(t) /\ IsInjective(t) /\ p \in Nat /\ r \in Nat /\ Len(t) = p + r
      /\ \A i : i \in Range(t) <=> i \in DOMAIN e /\ ~ e[i].tombstoned
      /\ \A i \in 1..p : e[t[i]].value = new[i]
      /\ \A i \in 1..r : e[t[p + i]].value = new[Len(new) - r + i]
      /\ ahead => t = s
  BY DEF Stage
<1>2. LivesIn(e, s)
  BY <1>1, LiveIdsAre
<1>3. u = [n \in 1..Len(s) |-> e[s[n]].value]
  BY DEF Visible
<1> HIDE DEF s, u
<1>4. Listed(s) /\ Len(s) \in Nat /\ IsInjective(s)
      /\ \A i : i \in Range(s) <=> i \in DOMAIN e /\ ~ e[i].tombstoned
  BY <1>2 DEF LivesIn, Listed
<1>5. ASSUME NEW n \in 1..Len(t) PROVE new[n] = e[t[n]].value
  <2>1. CASE n \in 1..p
    BY <1>1, <2>1
  <2>2. CASE n \notin 1..p
    <3> DEFINE j == n - p
    <3>1. j \in 1..r /\ p + j = n /\ Len(new) - r + j = n
      BY <1>1, <2>2
    <3> HIDE DEF j
    <3>2. e[t[p + j]].value = new[Len(new) - r + j]
      BY <1>1, <3>1
    <3> QED BY <3>1, <3>2
  <2> QED BY <2>1, <2>2
<1>6. Listed(u) /\ Len(u) = Len(s) /\ \A n \in 1..Len(s) : u[n] = e[s[n]].value
  BY <1>3, <1>4 DEF Listed
<1>7. ahead => u = new
  <2> SUFFICES ASSUME ahead PROVE u = new
    OBVIOUS
  <2>1. s = t /\ Len(u) = Len(new)
    BY <1>1, <1>6
  <2>2. \A n \in 1..Len(new) : u[n] = new[n]
    BY <1>1, <1>5, <1>6, <2>1
  <2> QED BY <1>6, <2>1, <2>2 DEF Listed
<1>8. ASSUME NEW x PROVE Often(x, u) = Often(x, new)
  <2>1. Often(x, u) = Cardinality({i \in Range(s) : e[i].value = x})
    BY <1>4, <1>6, OftenIs
  <2>2. Often(x, new) = Cardinality({i \in Range(t) : e[i].value = x})
    <3>1. Len(new) = Len(t)
      BY <1>1
    <3>2. Listed(t) /\ IsInjective(t)
      BY <1>1
    <3>3. \A n \in 1..Len(t) : new[n] = e[t[n]].value
      BY <1>5
    <3> QED BY <3>1, <3>2, <3>3, OftenIs
  <2>3. Range(s) = Range(t)
    BY <1>1, <1>4
  <2> QED BY <2>1, <2>2, <2>3
<1> QED BY <1>7, <1>8 DEF u

\* An insertion takes a stage to the next.
LEMMA InsertStages ==
    ASSUME NEW ahead \in BOOLEAN, NEW c \in Nat, NEW e, NEW t, NEW new, Listed(new), NEW p, NEW r, NEW m,
           Stage(ahead, c, e, t, new, p, r, m), None \notin Nat \X Nat,
           NEW ctx, ctx.id = <<c, m>>, NEW g,
           g = SequenceApply(e, InsertAtOf(e, p, new[p + 1]), ctx)
    PROVE  Stage(ahead, c, g, Squeezed(t, p, <<c, m>>), new, p + 1, r, m + 1)
<1> DEFINE b == <<c, m>>
           live == LiveIds(e)
           pred == IF p \in 1..Len(live) THEN live[p] ELSE None
           delta == InsertAtOf(e, p, new[p + 1])
           el == [value |-> new[p + 1], tombstoned |-> FALSE, predecessor |-> pred]
           u == Squeezed(t, p, b)
<1>1. /\ Rooted(e) /\ IsSequence(e) /\ Listed(t) /\ IsInjective(t) /\ p \in Nat /\ r \in Nat /\ m \in Nat
      /\ Len(t) = p + r
      /\ \A i : i \in Range(t) <=> i \in DOMAIN e /\ ~ e[i].tombstoned
      /\ \A i \in 1..p : e[t[i]].value = new[i]
      /\ \A i \in 1..r : e[t[p + i]].value = new[Len(new) - r + i]
      /\ \A i \in Nat : i >= m => <<c, i>> \notin DOMAIN e
      /\ ahead => t = live /\ \A i \in DOMAIN e : Less(i, b)
  BY DEF Stage
<1>2. live \in Seq(DOMAIN e)
  BY <1>1, LiveIdsAreSeq
<1>3. b \in Nat \X Nat /\ b \notin DOMAIN e /\ b[1] = c /\ b[2] = m
  BY <1>1
<1>4. delta.type = "SequenceInsert" /\ delta.value = new[p + 1] /\ delta.predecessor = pred
  BY DEF InsertAtOf
<1> HIDE DEF live
<1>5. pred \in DOMAIN e \cup {None}
  BY <1>2
<1>6. DOMAIN e \subseteq Nat \X Nat
  BY <1>1 DEF Rooted
<1> HIDE DEF delta, pred, b, u
<1>7. Rooted(g) /\ Enlarges(e, g)
  <2>1. ctx.id = b
    BY DEF b
  <2>2. g = SequenceApply(e, delta, ctx)
    BY DEF delta
  <2>3. Rooted(SequenceApply(e, delta, ctx))
    BY <1>1, <1>3, <1>4, <1>5, <2>1, RootedPut
  <2>4. Enlarges(e, SequenceApply(e, delta, ctx))
    BY <1>3, <2>1, PutEnlarges
  <2> QED BY <2>2, <2>3, <2>4
<1>8. IsPut(g, e, b, el)
  <2>1. g = Put(e, b, el)
    BY <1>4 DEF SequenceApply, b, delta
  <2> HIDE DEF el
  <2> QED BY <2>1, PutIs
<1>9. DOMAIN g = DOMAIN e \cup {b} /\ g = [i \in DOMAIN g |-> g[i]] /\ g[b] = el
      /\ \A i \in DOMAIN e : g[i] = e[i]
  BY <1>3, <1>8 DEF IsPut
<1>10. el.value = new[p + 1] /\ el.predecessor = pred /\ el.tombstoned = FALSE /\ IsElement(el)
  BY DEF IsElement
<1> HIDE DEF el
<1>11. IsSequence(g)
  BY <1>1, <1>9, <1>10 DEF IsSequence
<1>12. OneMore(e, g, b)
  BY <1>1, <1>3, <1>7, <1>9, <1>10 DEF OneMore
<1>13. Len(t) \in Nat /\ p \in 0..Len(t) /\ b \notin Range(t) /\ DOMAIN t = 1..Len(t)
  BY <1>1, <1>3 DEF Listed
<1>14. /\ Listed(u) /\ Len(u) = Len(t) + 1
       /\ \A i \in 1..p : i \in 1..Len(t) /\ u[i] = t[i]
       /\ u[p + 1] = b
       /\ \A i \in p + 1..Len(t) : i \in 1..Len(t) /\ u[i + 1] = t[i]
  <2>1. Listed(t) /\ u = Squeezed(t, p, b)
    BY <1>1 DEF u
  <2>2. IsSqueezed(u, t, p, b)
    BY <1>13, <2>1, SqueezedIs
  <2> QED BY <2>2 DEF IsSqueezed
<1>15. IsInjective(u) /\ \A i : i \in Range(u) <=> i \in Range(t) \/ i = b
  BY <1>1, <1>13, SqueezedHas DEF u
<1>16. \A i : i \in Range(u) <=> i \in DOMAIN g /\ ~ g[i].tombstoned
  BY <1>1, <1>3, <1>9, <1>10, <1>15
<1>17. \A i \in 1..Len(t) : t[i] \in DOMAIN e
  BY <1>1, <1>13 DEF Range
<1>18. ASSUME NEW i \in 1..p + 1 PROVE g[u[i]].value = new[i]
  <2>1. CASE i = p + 1
    BY <1>9, <1>10, <1>14, <2>1
  <2>2. CASE i # p + 1
    <3>1. i \in 1..p
      BY <1>1, <2>2
    <3>2. u[i] = t[i] /\ t[i] \in DOMAIN e
      BY <1>14, <1>17, <3>1
    <3> QED BY <1>1, <1>9, <3>1, <3>2
  <2> QED BY <2>1, <2>2
<1>19. ASSUME NEW i \in 1..r PROVE g[u[(p + 1) + i]].value = new[Len(new) - r + i]
  <2> DEFINE h == p + i
  <2>1. h \in p + 1..Len(t) /\ (p + 1) + i = h + 1
    BY <1>1
  <2>2. e[t[h]].value = new[Len(new) - r + i]
    BY <1>1
  <2> HIDE DEF h
  <2>3. u[h + 1] = t[h] /\ t[h] \in DOMAIN e
    BY <1>14, <1>17, <2>1
  <2> QED BY <1>9, <2>1, <2>2, <2>3
<1>20. \A i \in Nat : i >= m + 1 => <<c, i>> \notin DOMAIN g
  <2> SUFFICES ASSUME NEW i \in Nat, i >= m + 1 PROVE <<c, i>> \notin DOMAIN g
    OBVIOUS
  <2>1. i >= m /\ i # m
    BY <1>1
  <2> QED BY <1>1, <1>9, <2>1 DEF b
<1>21. ASSUME ahead PROVE u = LiveIds(g) /\ \A i \in DOMAIN g : Less(i, <<c, m + 1>>)
  <2>1. t = live /\ \A i \in DOMAIN e : Less(i, b)
    BY <1>1, <1>21
  <2>2. Newest(g, b)
    BY <1>9, <2>1 DEF Newest
  <2>3. g[b].predecessor = IF p = 0 THEN None ELSE t[p]
    BY <1>1, <1>9, <1>10, <1>13, <2>1 DEF pred
  <2>4. LiveIds(g) = Squeezed(t, p, b)
    BY <1>12, <1>13, <2>1, <2>2, <2>3, InsertIsThere DEF live
  <2>5. ASSUME NEW i \in DOMAIN g PROVE Less(i, <<c, m + 1>>)
    <3>1. i[1] \in Nat /\ i[2] \in Nat
      BY <1>3, <1>6, <1>9
    <3>2. i = b \/ Less(i, b)
      BY <1>9, <2>1
    <3>3. m < m + 1
      BY <1>1
    <3> QED BY <1>1, <1>3, <3>1, <3>2, <3>3 DEF Less
  <2> QED BY <2>4, <2>5 DEF u
<1>22. Len(u) = (p + 1) + r /\ p + 1 \in Nat /\ m + 1 \in Nat
  BY <1>1, <1>14
<1>23. Stage(ahead, c, g, u, new, p + 1, r, m + 1)
  BY <1>1, <1>7, <1>11, <1>14, <1>15, <1>16, <1>18, <1>19, <1>20, <1>21, <1>22 DEF Stage
<1> QED BY <1>23 DEF u, b

\* The first p of the elements s show the begin of new, the last r its end.
Halves(e, s, new, p, gone, r) ==
    /\ Len(s) = p + gone + r
    /\ \A i \in 1..p : e[s[i]].value = new[i]
    /\ \A i \in 1..r : e[s[p + gone + i]].value = new[Len(new) - r + i]

\* The ids of c from m on are new ones, and the newest while c is ahead.
Room(ahead, c, e, m) ==
    /\ \A i \in Nat : i >= m => <<c, i>> \notin DOMAIN e
    /\ ahead => \A i \in DOMAIN e : Less(i, <<c, m>>)

\* A document as it is, where nothing is to be deleted.
LEMMA StageBegins ==
    ASSUME NEW ahead \in BOOLEAN, NEW c \in Nat, NEW e, Rooted(e), IsSequence(e),
           NEW new, NEW p \in Nat, NEW r \in Nat, NEW m \in Nat, None \notin Nat \X Nat,
           Halves(e, LiveIds(e), new, p, 0, r), Room(ahead, c, e, m)
    PROVE  Stage(ahead, c, e, LiveIds(e), new, p, r, m)
<1> DEFINE t == LiveIds(e)
<1>1. LivesIn(e, t)
  BY LiveIdsAre
<1> HIDE DEF t
<1>2. Halves(e, t, new, p, 0, r)
  BY DEF t
<1>3. Len(t) = p + r /\ (\A i \in 1..p : e[t[i]].value = new[i])
      /\ \A i \in 1..r : e[t[p + i]].value = new[Len(new) - r + i]
  <2>1. p + 0 = p
    OBVIOUS
  <2> QED BY <1>2, <2>1 DEF Halves
<1>4. t = LiveIds(e)
  BY DEF t
<1>5. Stage(ahead, c, e, t, new, p, r, m)
  BY <1>1, <1>3, <1>4 DEF Stage, LivesIn, Room
<1> QED BY <1>5 DEF t

\* s without what is after its first p elements and before its last r.
Cut(s, p, gone, r) == [i \in 1..p + r |-> IF i <= p THEN s[i] ELSE s[i + gone]]

IsCut(t, s, p, gone, r) ==
    /\ Listed(t) /\ Len(t) = p + r /\ IsInjective(t) /\ KeepsOrder(t, s)
    /\ \A i \in 1..p : t[i] = s[i]
    /\ \A i \in 1..r : t[p + i] = s[p + gone + i]
    /\ \A i : i \in Range(t) <=> i \in Range(s) /\ ~ \E n \in p + 1..p + gone : i = s[n]

LEMMA CutIs ==
    ASSUME NEW s, Listed(s), IsInjective(s), NEW p \in Nat, NEW gone \in Nat, NEW r \in Nat,
           Len(s) = p + gone + r, NEW t, t = Cut(s, p, gone, r)
    PROVE  IsCut(t, s, p, gone, r)
<1> DEFINE n == p + gone + r
           to(i) == IF i <= p THEN i ELSE i + gone
<1>1. DOMAIN s = 1..n /\ n \in Nat
  BY DEF Listed
<1>2. t = [i \in 1..p + r |-> s[to(i)]]
  BY DEF Cut
<1>3. Listed(t) /\ Len(t) = p + r /\ DOMAIN t = 1..p + r /\ \A i \in 1..p + r : t[i] = s[to(i)]
  <2> HIDE DEF to
  <2> QED BY <1>2 DEF Listed
<1>4. \A i \in 1..p + r : to(i) \in 1..n /\ to(i) \notin p + 1..p + gone
  OBVIOUS
<1>5. \A i, j \in 1..p + r : i < j => to(i) < to(j)
  OBVIOUS
<1>6. ASSUME NEW h \in 1..n, h \notin p + 1..p + gone PROVE \E i \in 1..p + r : h = to(i)
  <2>1. CASE h <= p
    <3>1. h \in 1..p + r /\ h = to(h)
      BY <2>1
    <3> QED BY <3>1
  <2>2. CASE ~ (h <= p)
    <3>1. h - gone \in 1..p + r /\ h = to(h - gone)
      BY <1>6, <2>2
    <3> HIDE DEF to
    <3> QED BY <3>1
  <2> QED BY <2>1, <2>2
<1>7. \A i \in 1..p : i \in 1..p + r /\ to(i) = i
  OBVIOUS
<1>8. \A i \in 1..r : p + i \in 1..p + r /\ to(p + i) = p + gone + i
  OBVIOUS
<1> HIDE DEF to, n
<1>9. \A h, k \in 1..n : s[h] = s[k] => h = k
  BY <1>1 DEF IsInjective
<1>10. IsInjective(t)
  <2> SUFFICES ASSUME NEW i \in 1..p + r, NEW j \in 1..p + r, t[i] = t[j] PROVE i = j
    BY <1>3 DEF IsInjective
  <2>0. s[to(i)] = s[to(j)] /\ to(i) \in 1..n /\ to(j) \in 1..n
    BY <1>3, <1>4
  <2>1. to(i) = to(j) /\ to(i) \in Nat
    BY <1>1, <1>9, <2>0
  <2>2. ~ (i < j) /\ ~ (j < i)
    BY <1>5, <2>1
  <2> QED BY <2>2
<1>11. \A i : i \in Range(t) <=> i \in Range(s) /\ ~ \E k \in p + 1..p + gone : i = s[k]
  <2>1. ASSUME NEW i \in 1..p + r
        PROVE  t[i] \in Range(s) /\ ~ \E k \in p + 1..p + gone : t[i] = s[k]
    <3>1. t[i] = s[to(i)] /\ to(i) \in 1..n /\ to(i) \notin p + 1..p + gone
      BY <1>3, <1>4
    <3>2. \A k \in p + 1..p + gone : k \in 1..n
      BY DEF n
    <3> QED BY <1>1, <1>9, <3>1, <3>2 DEF Range
  <2>2. ASSUME NEW h \in 1..n, ~ \E k \in p + 1..p + gone : s[h] = s[k]
        PROVE  s[h] \in Range(t)
    <3>1. h \notin p + 1..p + gone
      BY <2>2
    <3>2. PICK i \in 1..p + r : h = to(i)
      BY <1>6, <3>1
    <3>3. t[i] = s[h]
      BY <1>3, <3>2
    <3> QED BY <1>3, <3>3 DEF Range
  <2>3. ASSUME NEW i, i \in Range(t) PROVE i \in Range(s) /\ ~ \E k \in p + 1..p + gone : i = s[k]
    <3>1. PICK h \in 1..p + r : i = t[h]
      BY <1>3, <2>3 DEF Range
    <3> QED BY <2>1, <3>1
  <2>4. ASSUME NEW i, i \in Range(s), ~ \E k \in p + 1..p + gone : i = s[k] PROVE i \in Range(t)
    <3>1. PICK h \in 1..n : i = s[h]
      BY <1>1, <2>4 DEF Range
    <3> QED BY <2>2, <2>4, <3>1
  <2> QED BY <2>3, <2>4
<1>12. KeepsOrder(t, s)
  <2>1. Range(t) \subseteq Range(s)
    BY <1>11
  <2>2. ASSUME NEW i \in DOMAIN t, NEW j \in DOMAIN t, i < j
        PROVE  \E x, y \in DOMAIN s : x < y /\ s[x] = t[i] /\ s[y] = t[j]
    <3>1. to(i) \in DOMAIN s /\ to(j) \in DOMAIN s /\ to(i) < to(j)
      BY <1>1, <1>3, <1>4, <1>5, <2>2
    <3>2. s[to(i)] = t[i] /\ s[to(j)] = t[j]
      BY <1>3
    <3> QED BY <3>1, <3>2
  <2> QED BY <2>1, <2>2 DEF KeepsOrder
<1>13. \A i \in 1..p : t[i] = s[i]
  BY <1>3, <1>7
<1>14. \A i \in 1..r : t[p + i] = s[p + gone + i]
  BY <1>3, <1>8
<1> QED BY <1>3, <1>10, <1>11, <1>12, <1>13, <1>14 DEF IsCut

\* A deletion leaves the rest, in its order.
LEMMA CutStages ==
    ASSUME NEW ahead \in BOOLEAN, NEW c \in Nat, NEW e, Rooted(e), IsSequence(e),
           NEW new, NEW p \in Nat, NEW gone \in Nat, NEW r \in Nat, NEW m \in Nat,
           None \notin Nat \X Nat, NEW s, s = LiveIds(e), Halves(e, s, new, p, gone, r),
           Room(ahead, c, e, m), NEW ctx, NEW g, g = SequenceApply(e, DeleteAtOf(e, p, gone), ctx)
    PROVE  Stage(ahead, c, g, Cut(s, p, gone, r), new, p, r, m + 1)
<1> DEFINE t == Cut(s, p, gone, r)
           delta == DeleteAtOf(e, p, gone)
           X == {s[n] : n \in p + 1..p + gone}
<1>0. /\ Len(s) = p + gone + r
      /\ \A i \in 1..p : e[s[i]].value = new[i]
      /\ \A i \in 1..r : e[s[p + gone + i]].value = new[Len(new) - r + i]
      /\ \A i \in Nat : i >= m => <<c, i>> \notin DOMAIN e
      /\ ahead => \A i \in DOMAIN e : Less(i, <<c, m>>)
  BY DEF Halves, Room
<1>1. LivesIn(e, s)
  BY LiveIdsAre
<1>2. Listed(s) /\ IsInjective(s) /\ DOMAIN s = 1..Len(s)
      /\ \A i : i \in Range(s) <=> i \in DOMAIN e /\ ~ e[i].tombstoned
  BY <1>1 DEF LivesIn, Listed
<1>3. IsCut(t, s, p, gone, r)
  BY <1>0, <1>2, CutIs
<1> HIDE DEF t
<1>4. delta.type = "SequenceDelete" /\ delta.targets = X
  <2>1. p + gone \in Nat /\ Len(s) \in Nat /\ p + gone <= Len(s)
    BY <1>0
  <2>2. Min({p + gone, Len(s)}) = p + gone
    BY <2>1, MinOfTwo
  <2> QED BY <2>2 DEF DeleteAtOf
<1>5. g = SequenceApply(e, delta, ctx)
  OBVIOUS
<1> HIDE DEF delta, X
<1>6. Rooted(g) /\ Enlarges(e, g)
  <2>1. delta.type # "SequenceInsert"
    BY <1>4
  <2>2. Rooted(SequenceApply(e, delta, ctx)) /\ Enlarges(e, SequenceApply(e, delta, ctx))
    BY <2>1, RootedPut, PutEnlarges
  <2> QED BY <1>5, <2>2
<1>7. g = [i \in DOMAIN e |-> [e[i] EXCEPT !.tombstoned = @ \/ i \in X]]
  <2>1. delta.type # "SequenceInsert"
    BY <1>4
  <2> QED BY <1>4, <1>5, <2>1 DEF SequenceApply
<1>8. ASSUME NEW i \in DOMAIN e
      PROVE  /\ IsElement(g[i]) /\ g[i].value = e[i].value
             /\ g[i].tombstoned <=> e[i].tombstoned \/ i \in X
  <2> DEFINE x == e[i]
             gone1 == i \in X
  <2>1. g[i] = [x EXCEPT !.tombstoned = @ \/ gone1]
    BY <1>7
  <2>2. x = [value |-> x.value, predecessor |-> x.predecessor, tombstoned |-> x.tombstoned]
        /\ x.tombstoned \in BOOLEAN /\ gone1 \in BOOLEAN
    BY DEF IsSequence, IsElement
  <2> DEFINE y == x.tombstoned \/ gone1
  <2>3. g[i] = [value |-> x.value, predecessor |-> x.predecessor, tombstoned |-> y]
    <3> HIDE DEF x, gone1
    <3> QED BY <2>1, <2>2
  <2>4. y \in BOOLEAN
    <3> HIDE DEF x, gone1
    <3> QED BY <2>2
  <2>5. y <=> x.tombstoned \/ i \in X
    OBVIOUS
  <2> HIDE DEF x, y
  <2>6. IsElement(g[i]) /\ g[i].value = x.value /\ g[i].tombstoned = y
    BY <2>3, <2>4 DEF IsElement
  <2>7. g[i].tombstoned <=> x.tombstoned \/ i \in X
    BY <2>4, <2>5, <2>6, Zenon
  <2> QED BY <2>6, <2>7 DEF x
<1>8a. \A i \in DOMAIN e : g[i].value = e[i].value
  BY <1>8
<1>9. DOMAIN g = DOMAIN e /\ IsSequence(g)
  <2>1. DOMAIN g = DOMAIN e /\ g = [i \in DOMAIN g |-> g[i]]
    BY <1>7
  <2> QED BY <1>8, <2>1 DEF IsSequence
<1>10. /\ Listed(t) /\ Len(t) = p + r /\ IsInjective(t) /\ KeepsOrder(t, s) /\ DOMAIN t = 1..p + r
       /\ \A i \in 1..p : t[i] = s[i]
       /\ \A i \in 1..r : t[p + i] = s[p + gone + i]
       /\ \A i : i \in Range(t) <=> i \in Range(s) /\ i \notin X
  BY <1>3 DEF IsCut, X, Listed
<1>11. \A i : i \in Range(t) <=> i \in DOMAIN g /\ ~ g[i].tombstoned
  BY <1>2, <1>8, <1>9, <1>10
<1>12. \A i \in 1..Len(s) : s[i] \in DOMAIN e
  BY <1>2 DEF Range
<1>13. ASSUME NEW i \in 1..p PROVE g[t[i]].value = new[i]
  <2>0. i \in 1..Len(s)
    BY <1>0
  <2>1. s[i] \in DOMAIN e
    BY <1>12, <2>0
  <2>2. t[i] = s[i] /\ e[s[i]].value = new[i]
    BY <1>0, <1>10
  <2> QED BY <1>8a, <2>1, <2>2
<1>14. ASSUME NEW i \in 1..r PROVE g[t[p + i]].value = new[Len(new) - r + i]
  <2> DEFINE h == p + gone + i
  <2>0. t[p + i] = s[p + gone + i] /\ e[s[p + gone + i]].value = new[Len(new) - r + i]
    BY <1>0, <1>10
  <2>1. h \in 1..Len(s) /\ t[p + i] = s[h] /\ e[s[h]].value = new[Len(new) - r + i]
    <3>1. h \in 1..Len(s)
      BY <1>0
    <3> QED BY <2>0, <3>1
  <2> HIDE DEF h
  <2>2. s[h] \in DOMAIN e
    BY <1>12, <2>1
  <2> QED BY <1>8a, <2>1, <2>2
<1>15. t = LiveIds(g)
  <2> DEFINE v == Walk(e)
             w == Walk(g)
             u == LiveIds(g)
  <2>1. w \in Seq(DOMAIN g) /\ IsInjective(w) /\ Range(w) = DOMAIN g
    BY <1>6, WalkIsSeq, WalkIsInjective, WalkHasAll
  <2>2. KeepsOrder(v, w)
    BY <1>6, WalkKeepsOrder
  <2>3. LivesIn(g, u)
    BY <1>6, LiveIdsAre
  <2>4. KeepsOrder(s, v)
    BY <1>1 DEF LivesIn
  <2>5. Listed(u) /\ IsInjective(u) /\ KeepsOrder(u, w) /\ Range(u) = Range(t)
    BY <1>11, <2>3 DEF LivesIn
  <2> HIDE DEF u, v, w
  <2>6. KeepsOrder(t, w)
    <3>1. KeepsOrder(t, v)
      BY <1>10, <2>4, OrderOnward
    <3> QED BY <2>2, <3>1, OrderOnward
  <2>7. w \in Seq(Range(w))
    BY <2>1
  <2>8. t = u
    BY <1>10, <2>1, <2>5, <2>6, <2>7, SameOrder
  <2> QED BY <2>8 DEF u
<1>16. \A i \in Nat : i >= m + 1 => <<c, i>> \notin DOMAIN g
  <2> SUFFICES ASSUME NEW i \in Nat, i >= m + 1 PROVE <<c, i>> \notin DOMAIN g
    OBVIOUS
  <2>1. i >= m
    OBVIOUS
  <2> QED BY <1>0, <1>9, <2>1
<1>17. ahead => \A i \in DOMAIN g : Less(i, <<c, m + 1>>)
  <2> SUFFICES ASSUME ahead, NEW i \in DOMAIN g PROVE Less(i, <<c, m + 1>>)
    OBVIOUS
  <2>1. Less(i, <<c, m>>) /\ i \in Nat \X Nat
    BY <1>0, <1>9 DEF Rooted
  <2>2. Less(<<c, m>>, <<c, m + 1>>)
    BY DEF Less
  <2> QED BY <2>1, <2>2 DEF Less
<1>18. Stage(ahead, c, g, t, new, p, r, m + 1)
  BY <1>6, <1>9, <1>10, <1>11, <1>13, <1>14, <1>15, <1>16, <1>17 DEF Stage
<1> QED BY <1>18 DEF t

\* What a mutation does to a sequence.
LEMMA SequenceMutates ==
    ASSUME NEW d, NEW m, NEW id, NEW s, NEW n, NEW op, op = MadeOp("sequence", d, m, id, s)
    PROVE  \E ctx : /\ ctx.id = id
                    /\ m.type = "InsertAt" =>
                         apply_property("sequence", d, op, n)
                           = SequenceApply(d, InsertAtOf(d, m.pos, m.value), ctx)
                    /\ m.type = "DeleteAt" =>
                         apply_property("sequence", d, op, n)
                           = SequenceApply(d, DeleteAtOf(d, m.pos, m.len), ctx)
<1> DEFINE ctx == [id |-> id, seq |-> n]
<1>1. op.id = id /\ op.delta = mutate("sequence", d, m).delta
  BY DEF MadeOp
<1>2. op.delta = IF m.type = "InsertAt" THEN InsertAtOf(d, m.pos, m.value)
                 ELSE DeleteAtOf(d, m.pos, m.len)
  BY <1>1 DEF mutate
<1>3. apply_property("sequence", d, op, n) = SequenceApply(d, op.delta, ctx)
  BY <1>1 DEF apply_property, LeafApply
<1>4. ctx.id = id
  OBVIOUS
<1> HIDE DEF ctx
<1> QED BY <1>2, <1>3, <1>4

\* The document shows new, or else a rearrangement of it.
SeqReached(c, d, e, new) ==
    \/ Visible(e) = new
    \/ (\E i \in DOMAIN d : i[1] > c) /\ \A x : Often(x, Visible(e)) = Often(x, new)

\* The diff of a sequence, applied, shows the component, or else a list with
\* the same items in it, where the document has an element of a higher peer.
LEMMA SequenceReaches ==
    ASSUME None \notin Nat \X Nat, NEW c \in Nat, NEW q \in Nat, NEW d, Rooted(d), IsSequence(d),
           \A i \in Nat : i >= q => <<c, i>> \notin DOMAIN d,
           NEW new, Listed(new), NEW ms, ms = sequence_diff(Visible(d), new),
           NEW g, NEW ops, NEW s, NEW h, Drafts(g, ops, "sequence", d, ms, c, q, s, h),
           NEW e, e = g[Len(ms)]
    PROVE  SeqReached(c, d, e, new)
<1> DEFINE ahead == ~ \E i \in DOMAIN d : i[1] > c
           live == LiveIds(d)
           old == Visible(d)
<1>1. LivesIn(d, live)
  BY LiveIdsAre
<1>2. Listed(live) /\ Len(live) \in Nat
  BY <1>1 DEF LivesIn, Listed
<1>3. old = [n \in 1..Len(live) |-> d[live[n]].value]
  BY DEF Visible
<1>4. Listed(old) /\ Len(old) = Len(live) /\ \A n \in 1..Len(live) : old[n] = d[live[n]].value
  BY <1>2, <1>3 DEF Listed
<1>5. ms = sequence_diff(old, new)
  OBVIOUS
<1> HIDE DEF old, live
<1>6. PICK p, gone, ins, r : Parts(old, new, ms, p, gone, ins, r)
  BY <1>4, <1>5, DiffHasParts
<1> DEFINE cuts == IF gone = 0 THEN 0 ELSE 1
<1>7. /\ p \in Nat /\ gone \in Nat /\ ins \in Nat /\ r \in Nat /\ cuts \in Nat
      /\ Len(old) = p + gone + r /\ Len(new) = p + ins + r
      /\ Len(ms) = cuts + ins
      /\ gone # 0 => ms[1] = [type |-> "DeleteAt", pos |-> p, len |-> gone]
      /\ \A n \in 1..ins :
           ms[cuts + n] = [type |-> "InsertAt", pos |-> p + n - 1, value |-> new[p + n]]
  BY <1>6 DEF Parts
<1>8. ASSUME NEW i \in 1..p PROVE d[live[i]].value = new[i]
  <2>1. i \in 1..Len(live) /\ old[i] = new[i]
    BY <1>4, <1>6, <1>7 DEF Parts
  <2> QED BY <1>4, <2>1
<1>9. ASSUME NEW i \in 1..r PROVE d[live[p + gone + i]].value = new[Len(new) - r + i]
  <2>1. old[p + gone + i] = new[p + ins + i]
    BY <1>6 DEF Parts
  <2>2. p + gone + i \in 1..Len(live) /\ p + ins + i = Len(new) - r + i
    BY <1>4, <1>7
  <2> QED BY <1>4, <2>1, <2>2
<1>10. ahead => \A i \in DOMAIN d : Less(i, <<c, q>>)
  <2> SUFFICES ASSUME ahead, NEW i \in DOMAIN d PROVE Less(i, <<c, q>>)
    OBVIOUS
  <2>1. i \in Nat \X Nat /\ ~ (i[1] > c)
    BY DEF Rooted
  <2>2. i = <<i[1], i[2]>> /\ i[1] \in Nat /\ i[2] \in Nat
    BY <2>1
  <2>3. i[1] = c => ~ (i[2] >= q)
    BY <2>2
  <2> QED BY <2>1, <2>2, <2>3 DEF Less
<1>10a. ahead \in BOOLEAN
  OBVIOUS
<1> HIDE DEF ahead
<1>11. ahead \in BOOLEAN /\ Room(ahead, c, d, q) /\ live = LiveIds(d) /\ Halves(d, live, new, p, gone, r)
  BY <1>4, <1>7, <1>8, <1>9, <1>10, <1>10a DEF Room, Halves, live
<1> DEFINE T == {n \in 0..ins : \E t : Stage(ahead, c, g[cuts + n], t, new, p + n, r, q + cuts + n)}
<1>12. g[0] = d /\ \A n \in 1..Len(ms) :
         /\ ops[n] = MadeOp("sequence", g[n-1], ms[n], <<c, q + n - 1>>, s)
         /\ g[n] = apply_property("sequence", g[n-1], ops[n], h + n)
  BY DEF Drafts
<1>13. 0 \in T
  <2>1. CASE gone = 0
    <3>1. Stage(ahead, c, d, live, new, p, r, q)
      <4>1. Halves(d, LiveIds(d), new, p, 0, r) /\ Room(ahead, c, d, q) /\ ahead \in BOOLEAN
        BY <1>11, <2>1
      <4> QED BY <1>7, <1>11, <4>1, StageBegins
    <3>2. cuts + 0 = 0 /\ p + 0 = p /\ q + cuts + 0 = q /\ 0 \in 0..ins
      BY <1>7, <2>1
    <3> QED BY <1>12, <3>1, <3>2
  <2>2. CASE gone # 0
    <3>1. /\ cuts = 1 /\ 1 \in 1..Len(ms) /\ 1 - 1 = 0 /\ q + 1 - 1 = q
          /\ p + 0 = p /\ q + cuts + 0 = q + 1 /\ 0 \in 0..ins /\ cuts + 0 = 1
      BY <1>7, <2>2
    <3>2. /\ ops[1] = MadeOp("sequence", d, ms[1], <<c, q + 1 - 1>>, s)
          /\ g[1] = apply_property("sequence", d, ops[1], h + 1)
      BY <1>12, <3>1
    <3>3. ms[1].type = "DeleteAt" /\ ms[1].pos = p /\ ms[1].len = gone
      BY <1>7, <2>2
    <3>4. PICK ctx : g[1] = SequenceApply(d, DeleteAtOf(d, p, gone), ctx)
      <4>1. \E ctx : ms[1].type = "DeleteAt" =>
               g[1] = SequenceApply(d, DeleteAtOf(d, ms[1].pos, ms[1].len), ctx)
        BY <3>2, SequenceMutates
      <4> QED BY <3>3, <4>1
    <3>5. Stage(ahead, c, g[1], Cut(live, p, gone, r), new, p, r, q + 1)
      <4> QED BY <1>7, <1>11, <3>4, CutStages
    <3> QED BY <3>1, <3>5
  <2> QED BY <2>1, <2>2
<1>14. ASSUME NEW n \in 0..ins - 1, n \in T PROVE n + 1 \in T
  <2>1. PICK t : Stage(ahead, c, g[cuts + n], t, new, p + n, r, q + cuts + n)
    BY <1>14
  <2> DEFINE j == cuts + (n + 1)
             b == g[cuts + n]
             k == q + cuts + n
  <2>2. /\ j \in 1..Len(ms) /\ j - 1 = cuts + n /\ q + j - 1 = k /\ n + 1 \in 1..ins /\ n + 1 \in 0..ins
        /\ p + (n + 1) - 1 = p + n /\ p + (n + 1) = (p + n) + 1 /\ q + cuts + (n + 1) = k + 1
    BY <1>7
  <2>3. ms[j] = [type |-> "InsertAt", pos |-> p + n, value |-> new[(p + n) + 1]]
    <3>1. ms[cuts + (n + 1)] = [type |-> "InsertAt", pos |-> p + (n + 1) - 1, value |-> new[p + (n + 1)]]
      BY <1>7, <2>2
    <3> QED BY <2>2, <3>1
  <2> HIDE DEF j
  <2>4. /\ ops[j] = MadeOp("sequence", b, ms[j], <<c, k>>, s)
        /\ g[j] = apply_property("sequence", b, ops[j], h + j)
    <3>1. /\ ops[j] = MadeOp("sequence", g[j-1], ms[j], <<c, q + j - 1>>, s)
          /\ g[j] = apply_property("sequence", g[j-1], ops[j], h + j)
      BY <1>12, <2>2
    <3> QED BY <2>2, <3>1
  <2> HIDE DEF k, b, T, cuts
  <2>5. PICK ctx : ctx.id = <<c, k>> /\ g[j] = SequenceApply(b, InsertAtOf(b, p + n, new[(p + n) + 1]), ctx)
    <3>1. ms[j].type = "InsertAt" /\ ms[j].pos = p + n /\ ms[j].value = new[(p + n) + 1]
      BY <2>3
    <3>2. \E ctx : ctx.id = <<c, k>> /\ (ms[j].type = "InsertAt" =>
             g[j] = SequenceApply(b, InsertAtOf(b, ms[j].pos, ms[j].value), ctx))
      BY <2>4, SequenceMutates
    <3> QED BY <3>1, <3>2
  <2>6. Stage(ahead, c, b, t, new, p + n, r, k)
    BY <2>1 DEF b, k
  <2>7. Stage(ahead, c, g[j], Squeezed(t, p + n, <<c, k>>), new, (p + n) + 1, r, k + 1)
    BY <1>11, <2>5, <2>6, InsertStages
  <2>8. Stage(ahead, c, g[cuts + (n + 1)], Squeezed(t, p + n, <<c, k>>), new, p + (n + 1), r,
              q + cuts + (n + 1))
    BY <2>2, <2>7 DEF j
  <2> QED BY <2>2, <2>8 DEF T
<1> HIDE DEF T
<1>15. ins \in T
  <2>1. \A n \in 0..ins : n \in T
    BY <1>7, <1>13, <1>14, UpTo
  <2> QED BY <1>7, <2>1
<1>16. PICK t : Stage(ahead, c, e, t, new, p + ins, r, q + cuts + ins)
  <2>1. \E t : Stage(ahead, c, g[cuts + ins], t, new, p + ins, r, q + cuts + ins)
    BY <1>15 DEF T
  <2> QED BY <1>7, <2>1
<1>17. Len(new) = (p + ins) + r
  BY <1>7
<1>18. /\ ahead => Visible(e) = new
       /\ \A x : Often(x, Visible(e)) = Often(x, new)
  BY <1>11, <1>16, <1>17, StageShows
<1> QED BY <1>18 DEF ahead, SeqReached

\* An op leaves a sequence's elements elements.
LEMMA SequenceStays ==
    ASSUME NEW d, IsSequence(d), NEW delta, NEW ctx
    PROVE  IsSequence(SequenceApply(d, delta, ctx))
<1> DEFINE e == SequenceApply(d, delta, ctx)
<1>1. CASE delta.type = "SequenceInsert"
  <2> DEFINE v == [value |-> delta.value, tombstoned |-> FALSE, predecessor |-> delta.predecessor]
  <2>1. e = Put(d, ctx.id, v)
    BY <1>1 DEF SequenceApply
  <2>2. IsElement(v)
    BY DEF IsElement
  <2> HIDE DEF v, e
  <2>3. IsPut(e, d, ctx.id, v)
    BY <2>1, PutIs
  <2>4. IsSequence(e)
    BY <2>2, <2>3 DEF IsPut, IsSequence
  <2> QED BY <2>4 DEF e
<1>2. CASE delta.type # "SequenceInsert"
  <2> DEFINE X == delta.targets
  <2>1. e = [i \in DOMAIN d |-> [d[i] EXCEPT !.tombstoned = @ \/ i \in X]]
    BY <1>2 DEF SequenceApply
  <2> HIDE DEF e, X
  <2>2. ASSUME NEW i \in DOMAIN d PROVE IsElement(e[i])
    <3> DEFINE x == d[i]
               y == x.tombstoned \/ i \in X
    <3>1. x = [value |-> x.value, predecessor |-> x.predecessor, tombstoned |-> x.tombstoned]
      BY DEF IsSequence, IsElement
    <3>2. e[i] = [x EXCEPT !.tombstoned = y]
      BY <2>1
    <3>3. y \in BOOLEAN
      OBVIOUS
    <3> HIDE DEF x, y
    <3>4. e[i] = [value |-> x.value, predecessor |-> x.predecessor, tombstoned |-> y]
      BY <3>1, <3>2
    <3> QED BY <3>3, <3>4 DEF IsElement
  <2>3. DOMAIN e = DOMAIN d /\ e = [i \in DOMAIN e |-> e[i]]
    BY <2>1
  <2>4. IsSequence(e)
    BY <2>2, <2>3 DEF IsSequence
  <2> QED BY <2>4 DEF e
<1> QED BY <1>1, <1>2

LEMMA ReplayIsSequence ==
    ASSUME NEW l, Listed(l)
    PROVE  \A n \in 0..Len(l) : IsSequence(Replay("sequence", l, n))
<1> DEFINE T == {n \in 0..Len(l) : IsSequence(Replay("sequence", l, n))}
<1>0. Len(l) \in Nat
  BY DEF Listed
<1>1. 0 \in T
  <2>1. Replay("sequence", l, 0) = EmptyMap
    BY ReplaySteps DEF Bottom
  <2>2. IsSequence(EmptyMap)
    BY EmptyMapIs DEF IsSequence
  <2> QED BY <1>0, <2>1, <2>2
<1>2. ASSUME NEW n \in 0..Len(l)-1, n \in T PROVE n + 1 \in T
  <2> DEFINE j == n + 1
             op == l[j]
             d == Replay("sequence", l, n)
             e == Replay("sequence", l, j)
             ctx == [id |-> op.id, seq |-> j]
  <2>0. n \in Nat /\ j \in 1..Len(l) /\ j \in 0..Len(l)
    BY <1>0
  <2>1. e = apply_property("sequence", d, op, j)
    BY <2>0, ReplaySteps
  <2>2. e = SequenceApply(d, op.delta, ctx)
    <3> HIDE DEF d, e
    <3> QED BY <2>1 DEF apply_property, LeafApply
  <2>3. IsSequence(d)
    BY <1>2
  <2> HIDE DEF d, ctx, op
  <2>4. IsSequence(e)
    <3> HIDE DEF e
    <3> QED BY <2>2, <2>3, SequenceStays
  <2> HIDE DEF j
  <2> QED BY <2>0, <2>4 DEF j
<1> HIDE DEF T
<1>3. \A n \in 0..Len(l) : n \in T
  BY <1>0, <1>1, <1>2, UpTo
<1> QED BY <1>3 DEF T

\* A register's diff, applied, shows the component: its stamp is above every
\* stamp of the log.
LEMMA RegisterReaches ==
    ASSUME NEW d, NEW v, NEW c, NEW q, NEW s, NEW h \in Nat,
           d = None \/ (d.stamp[1] \in Nat /\ d.stamp[1] <= h),
           None \notin Registers, c \in Nat, v \in Values,
           NEW ms, ms = diff("lww", d, v), NEW g, NEW ops,
           Drafts(g, ops, "lww", d, ms, c, q, s, h), NEW e, e = g[Len(ms)]
    PROVE  project_to("lww", e, v) = v
<1> DEFINE shown == IF d = None THEN Default ELSE d.value
           m == [type |-> "Set", value |-> v]
<1>1. ms = IF shown = v THEN << >> ELSE <<m>>
  BY DEF diff
<1>2. CASE shown = v
  <2>1. Len(ms) = 0
    BY <1>1, <1>2
  <2>2. e = d
    BY <2>1 DEF Drafts
  <2> QED BY <1>2, <2>2 DEF project_to
<1>3. CASE shown # v
  <2>0. Len(ms) = 1 /\ ms[1] = m
    BY <1>1, <1>3
  <2>1. /\ ops[1] = MadeOp("lww", g[1-1], ms[1], <<c, q + 1 - 1>>, s)
        /\ g[1] = apply_property("lww", g[1-1], ops[1], h + 1)
        /\ g[0] = d
    BY <2>0 DEF Drafts
  <2> DEFINE op == ops[1]
             stamp == <<h + 1, c>>
             ctx == [id |-> op.id, seq |-> h + 1]
  <2>2. op.delta.value = v /\ op.id[1] = c
    BY <2>0, <2>1 DEF MadeOp, mutate
  <2>2a. e = apply_property("lww", d, op, h + 1)
    <3>1. e = g[1]
      BY <2>0
    <3>2. 1 - 1 = 0
      OBVIOUS
    <3>3. g[1] = apply_property("lww", d, ops[1], h + 1)
      BY <2>1, <3>2
    <3> QED BY <3>1, <3>3
  <2>3. e = LwwApply(d, op.delta, ctx)
    <3> HIDE DEF op
    <3> QED BY <2>2a DEF apply_property, LeafApply
  <2>4. d = None \/ Less(d.stamp, stamp)
    BY DEF Less
  <2> HIDE DEF op
  <2>5. e = [stamp |-> stamp, value |-> v]
    BY <2>2, <2>3, <2>4 DEF LwwApply
  <2>6. e \in Registers
    BY <2>5 DEF Registers
  <2> HIDE DEF stamp
  <2>7. e # None /\ e.value = v
    BY <2>5, <2>6
  <2> QED BY <2>7 DEF project_to
<1> QED BY <1>2, <1>3

\* A counter's diff, applied, shows the component.
LEMMA CounterReaches ==
    ASSUME NEW k \in {"counter", "narrow"}, NEW d, IsSummedCounter(d), NEW v, Shown(k, v),
           NEW c, NEW q, NEW s, NEW h,
           NEW ms, ms = diff(k, d, v), NEW g, NEW ops,
           Drafts(g, ops, k, d, ms, c, q, s, h), NEW e, e = g[Len(ms)]
    PROVE  project_to(k, e, v) = v
<1> DEFINE x == CounterValue(d)
           m == [type |-> "Inc", by |-> v - x]
<1>1. ms = IF v = x THEN << >> ELSE <<m>>
  BY DEF diff
<1>2. x \in Int
  <2> DEFINE delta == [by |-> 0]
  <2>1. delta.by \in Int
    OBVIOUS
  <2> HIDE DEF delta
  <2> QED BY <2>1, DeltaCounts
<1>3. v \in Int
  BY SchemaAssumption DEF Shown
<1> HIDE DEF x
<1>4. CounterValue(e) = v
  <2>1. CASE v = x
    <3>1. Len(ms) = 0
      BY <1>1, <2>1
    <3>2. e = d
      BY <3>1 DEF Drafts
    <3> QED BY <2>1, <3>2 DEF x
  <2>2. CASE v # x
    <3>0. Len(ms) = 1 /\ ms[1] = m
      BY <1>1, <2>2
    <3>1. /\ ops[1] = MadeOp(k, g[1-1], ms[1], <<c, q + 1 - 1>>, s)
          /\ g[1] = apply_property(k, g[1-1], ops[1], h + 1)
          /\ g[0] = d
      BY <3>0 DEF Drafts
    <3> DEFINE op == ops[1]
               ctx == [id |-> op.id, seq |-> h + 1]
               delta == op.delta
    <3>2. delta.by = v - x
      BY <3>0, <3>1 DEF MadeOp, mutate
    <3>3. e = CounterApply(d, delta, ctx)
      BY <3>0, <3>1 DEF apply_property, LeafApply
    <3> HIDE DEF ctx, delta
    <3>4. delta.by \in Int
      BY <1>2, <1>3, <3>2
    <3>5. CounterValue(e) = x + delta.by
      BY <3>3, <3>4, DeltaCounts DEF x
    <3> QED BY <1>2, <1>3, <3>2, <3>5
  <2> QED BY <2>1, <2>2
<1>5. CASE k = "counter"
  BY <1>4, <1>5 DEF project_to
<1>6. CASE k = "narrow"
  <2>1. v \in 0..Wrap - 1
    BY <1>6 DEF Shown
  <2>2. v % Wrap = v
    BY <2>1, SchemaAssumption
  <2> QED BY <1>4, <1>6, <2>2 DEF project_to
<1> QED BY <1>5, <1>6

\* What the diff of a set asks for, of an item: that it be in the component or
\* not, and it names all that differ.
SetAsked(ms, d, v) ==
    /\ \A n \in 1..Len(ms) : ms[n].type = "Add" <=> ms[n].value \in v
    /\ \A x : (x \in Members(d) <=> x \in v) \/ \E n \in 1..Len(ms) : ms[n].value = x

LEMMA SetIsAsked ==
    ASSUME NEW d, IsDoc("or_set", d), NEW v, v \subseteq Items, NEW ms, ms = diff("or_set", d, v)
    PROVE  SetAsked(ms, d, v)
<1> DEFINE M == Members(d)
           A == v \ M
           B == M \ v
           s == SetToSeq(A)
           t == SetToSeq(B)
           f == [n \in 1..Len(s) |-> [type |-> "Add", value |-> s[n]]]
           g == [n \in 1..Len(t) |-> [type |-> "Remove", value |-> t[n]]]
<1>1. ms = f \o g
  BY DEF diff, Each
<1>2. M \subseteq Items
  BY DEF IsDoc, Members
<1> HIDE DEF M
<1>3. IsFiniteSet(A) /\ IsFiniteSet(B)
  BY <1>2, ItemAssumption, FS_Subset
<1> HIDE DEF A, B
<1>4. Lists(s, A) /\ Lists(t, B)
  BY <1>3, SetToSeqLists
<1>5. /\ \A x \in A : \E n \in 1..Len(s) : s[n] = x
      /\ \A x \in B : \E n \in 1..Len(t) : t[n] = x
  BY <1>3, SetToSeqHas
<1> HIDE DEF s, t
<1>6. f = [n \in 1..Len(s) |-> f[n]] /\ g = [n \in 1..Len(t) |-> g[n]]
  OBVIOUS
<1>7. /\ \A j \in 1..Len(s) : f[j].type = "Add" /\ f[j].value = s[j] /\ s[j] \in A
      /\ \A j \in 1..Len(t) : g[j].type = "Remove" /\ g[j].value = t[j] /\ t[j] \in B
  BY <1>4 DEF Lists
<1> HIDE DEF f, g
<1>8. IsBoth(ms, s, t, f, g)
  BY <1>1, <1>4, <1>6, BothAre
<1>9. ASSUME NEW n \in 1..Len(ms) PROVE ms[n].type = "Add" <=> ms[n].value \in v
  <2>1. CASE \E j \in 1..Len(s) : ms[n] = f[j]
    BY <1>7, <2>1 DEF A
  <2>2. CASE \E j \in 1..Len(t) : ms[n] = g[j]
    BY <1>7, <2>2 DEF B
  <2> QED BY <1>8, <2>1, <2>2 DEF IsBoth
<1>10. ASSUME NEW x \in A \cup B PROVE \E n \in 1..Len(ms) : ms[n].value = x
  <2>1. CASE x \in A
    <3>1. PICK j \in 1..Len(s) : s[j] = x
      BY <1>5, <2>1
    <3>2. PICK n \in 1..Len(ms) : ms[n] = f[j]
      BY <1>8 DEF IsBoth
    <3> QED BY <1>7, <3>1, <3>2
  <2>2. CASE x \in B
    <3>1. PICK j \in 1..Len(t) : t[j] = x
      BY <1>5, <2>2
    <3>2. PICK n \in 1..Len(ms) : ms[n] = g[j]
      BY <1>8 DEF IsBoth
    <3> QED BY <1>7, <3>1, <3>2
  <2> QED BY <2>1, <2>2
<1>11. ASSUME NEW x
       PROVE  (x \in Members(d) <=> x \in v) \/ \E n \in 1..Len(ms) : ms[n].value = x
  <2>1. x \in A \cup B \/ (x \in M <=> x \in v)
    BY DEF A, B
  <2> QED BY <1>10, <2>1 DEF M
<1> QED BY <1>9, <1>11 DEF SetAsked

\* What the diff of a map asks for, of a key.
ShowsAt(d, v, x) == (x \in DOMAIN d <=> x \in DOMAIN v) /\ (x \in DOMAIN v => d[x].value = v[x])

\* It says what the component has there, and names all that differ.
MapAsked(ms, d, v) ==
    /\ \A n \in 1..Len(ms) : /\ ms[n].type = "Apply" <=> ms[n].key \in DOMAIN v
                             /\ ms[n].type = "Apply" => ms[n].value = v[ms[n].key]
    /\ \A x : ShowsAt(d, v, x) \/ \E n \in 1..Len(ms) : ms[n].key = x

LEMMA MapIsAsked ==
    ASSUME NEW d, IsDoc("map", d), NEW v, Shown("map", v), NEW ms, ms = diff("map", d, v)
    PROVE  MapAsked(ms, d, v)
<1> DEFINE A == {x \in DOMAIN v : IF At(d, x) = None THEN TRUE ELSE d[x].value # v[x]}
           B == DOMAIN d \ DOMAIN v
           s == SetToSeq(A)
           t == SetToSeq(B)
           f == [n \in 1..Len(s) |-> [type |-> "Apply", key |-> s[n], value |-> v[s[n]]]]
           g == [n \in 1..Len(t) |-> [type |-> "Remove", key |-> t[n]]]
<1>1. ms = f \o g
  BY DEF diff, Each
<1>2. DOMAIN d \subseteq Items /\ DOMAIN v \subseteq Items
  BY DEF IsDoc, Shown
<1>3. A \subseteq DOMAIN v /\ B \cap DOMAIN v = {}
  OBVIOUS
<1>3a. \A x : x \notin A \cup B => ShowsAt(d, v, x)
  <2> SUFFICES ASSUME NEW x, x \notin A, x \notin B PROVE ShowsAt(d, v, x)
    OBVIOUS
  <2>1. x \in DOMAIN v => ~ (At(d, x) = None) /\ d[x].value = v[x]
    OBVIOUS
  <2>2. x \in DOMAIN v => x \in DOMAIN d
    BY <2>1 DEF At
  <2> QED BY <2>1, <2>2 DEF ShowsAt
<1>3b. A \subseteq Items /\ B \subseteq Items
  BY <1>2
<1> HIDE DEF A, B
<1>3c. IsFiniteSet(A) /\ IsFiniteSet(B)
  BY <1>3b, ItemAssumption, FS_Subset
<1>4. Lists(s, A) /\ Lists(t, B)
  BY <1>3c, SetToSeqLists
<1>5. /\ \A x \in A : \E n \in 1..Len(s) : s[n] = x
      /\ \A x \in B : \E n \in 1..Len(t) : t[n] = x
  BY <1>3c, SetToSeqHas
<1> HIDE DEF s, t
<1>6. f = [n \in 1..Len(s) |-> f[n]] /\ g = [n \in 1..Len(t) |-> g[n]]
  OBVIOUS
<1>7. /\ \A j \in 1..Len(s) : f[j].type = "Apply" /\ f[j].key = s[j] /\ s[j] \in A
                              /\ f[j].value = v[s[j]]
      /\ \A j \in 1..Len(t) : g[j].type = "Remove" /\ g[j].key = t[j] /\ t[j] \in B
  BY <1>4 DEF Lists
<1> HIDE DEF f, g
<1>8. IsBoth(ms, s, t, f, g)
  BY <1>1, <1>4, <1>6, BothAre
<1>9. ASSUME NEW n \in 1..Len(ms)
      PROVE  /\ ms[n].type = "Apply" <=> ms[n].key \in DOMAIN v
             /\ ms[n].type = "Apply" => ms[n].value = v[ms[n].key]
  <2>1. CASE \E j \in 1..Len(s) : ms[n] = f[j]
    BY <1>3, <1>7, <2>1
  <2>2. CASE \E j \in 1..Len(t) : ms[n] = g[j]
    BY <1>3, <1>7, <2>2
  <2> QED BY <1>8, <2>1, <2>2 DEF IsBoth
<1>10. ASSUME NEW x \in A \cup B PROVE \E n \in 1..Len(ms) : ms[n].key = x
  <2>1. CASE x \in A
    <3>1. PICK j \in 1..Len(s) : s[j] = x
      BY <1>5, <2>1
    <3>2. PICK n \in 1..Len(ms) : ms[n] = f[j]
      BY <1>8 DEF IsBoth
    <3> QED BY <1>7, <3>1, <3>2
  <2>2. CASE x \in B
    <3>1. PICK j \in 1..Len(t) : t[j] = x
      BY <1>5, <2>2
    <3>2. PICK n \in 1..Len(ms) : ms[n] = g[j]
      BY <1>8 DEF IsBoth
    <3> QED BY <1>7, <3>1, <3>2
  <2> QED BY <2>1, <2>2
<1> QED BY <1>3a, <1>9, <1>10 DEF MapAsked

\* No two items share a tag, and the ids from <<c, n>> on are not used.
Untaken(b, c, n) ==
    /\ \A x, y : x # y => Tags(b, x) \cap Tags(b, y) = {}
    /\ \A i \in Nat : i >= n => <<c, i>> \notin b.removes /\ \A x : <<c, i>> \notin Tags(b, x)

\* Some tag of x is not removed.
Holds(b, x) == Tags(b, x) \ b.removes # {}

LEMMA HoldsIsMember ==
    ASSUME NEW b, NEW x
    PROVE  x \in Members(b) <=> Holds(b, x)
  BY DEF Members, Holds, Tags

\* A new id's addition puts its item in, a removal takes its item out, and
\* neither touches another.
LEMMA SetTurns ==
    ASSUME NEW b, IsDoc("or_set", b), NEW c, NEW n \in Nat, Untaken(b, c, n),
           NEW op, Fits("or_set", op), op.id = <<c, n>>,
           op.of.type = "Remove" => op.delta.observed = Tags(b, op.of.value) \ b.removes,
           NEW j, NEW e, e = apply_property("or_set", b, op, j)
    PROVE  /\ Untaken(e, c, n + 1)
           /\ \A x : x # op.of.value => (Holds(e, x) <=> Holds(b, x))
           /\ Holds(e, op.of.value) <=> op.of.type = "Add"
<1> DEFINE y == op.of.value
           id == <<c, n>>
<1>1. /\ op.of.type \in {"Add", "Remove"}
      /\ op.of.type = "Add" =>
           /\ \A x : Tags(e, x) = Tags(b, x) \cup (IF x = op.of.value THEN {op.id} ELSE {})
           /\ e.removes = b.removes
      /\ op.of.type = "Remove" =>
           /\ \A x : Tags(e, x) = Tags(b, x)
           /\ e.removes = b.removes \cup op.delta.observed
  BY TagsStep
<1>2. /\ \A x, z : x # z => Tags(b, x) \cap Tags(b, z) = {}
      /\ id \notin b.removes /\ \A x : id \notin Tags(b, x)
  BY DEF Untaken
<1>3. ASSUME NEW i \in Nat, i >= n + 1
      PROVE  /\ <<c, i>> # id /\ <<c, i>> \notin b.removes
             /\ \A x : <<c, i>> \notin Tags(b, x)
  <2>1. i >= n /\ i # n
    BY <1>3
  <2> QED BY <2>1 DEF Untaken
<1> HIDE DEF y, id
<1>4. CASE op.of.type = "Add"
  <2>1. /\ \A x : x # y => Tags(e, x) = Tags(b, x)
        /\ Tags(e, y) = Tags(b, y) \cup {id}
        /\ e.removes = b.removes
    BY <1>1, <1>4 DEF y, id
  <2>2. Holds(e, y) /\ \A x : x # y => (Holds(e, x) <=> Holds(b, x))
    BY <1>2, <2>1 DEF Holds
  <2>3. \A x, z : x # z => Tags(e, x) \cap Tags(e, z) = {}
    <3> SUFFICES ASSUME NEW x, NEW z, x # z PROVE Tags(e, x) \cap Tags(e, z) = {}
      OBVIOUS
    <3>1. Tags(b, x) \cap Tags(b, z) = {} /\ id \notin Tags(b, x) /\ id \notin Tags(b, z)
      BY <1>2
    <3>2. CASE x = y
      BY <2>1, <3>1, <3>2
    <3>3. CASE x # y
      <4>1. Tags(e, x) = Tags(b, x)
        BY <2>1, <3>3
      <4>2. Tags(e, z) = Tags(b, z) \/ Tags(e, z) = Tags(b, z) \cup {id}
        BY <2>1
      <4> QED BY <3>1, <4>1, <4>2
    <3> QED BY <3>2, <3>3
  <2>4. ASSUME NEW i \in Nat, i >= n + 1
        PROVE  <<c, i>> \notin e.removes /\ \A x : <<c, i>> \notin Tags(e, x)
    <3> DEFINE o == <<c, i>>
    <3>1. o # id /\ o \notin b.removes /\ \A x : o \notin Tags(b, x)
      BY <1>3, <2>4
    <3> HIDE DEF o
    <3>2. o \notin e.removes /\ \A x : o \notin Tags(e, x)
      <4>1. ASSUME NEW x PROVE o \notin Tags(e, x)
        <5>1. Tags(e, x) = Tags(b, x) \/ Tags(e, x) = Tags(b, x) \cup {id}
          BY <2>1
        <5> QED BY <3>1, <5>1
      <4> QED BY <2>1, <3>1, <4>1
    <3> QED BY <3>2 DEF o
  <2>5. Untaken(e, c, n + 1)
    BY <2>3, <2>4 DEF Untaken
  <2> QED BY <1>4, <2>2, <2>5 DEF y
<1>5. CASE op.of.type = "Remove"
  <2>1. /\ \A x : Tags(e, x) = Tags(b, x)
        /\ e.removes = b.removes \cup (Tags(b, y) \ b.removes)
    BY <1>1, <1>5 DEF y
  <2>2. ~ Holds(e, y)
    BY <2>1 DEF Holds
  <2>3. ASSUME NEW x, x # y PROVE Holds(e, x) <=> Holds(b, x)
    <3>1. Tags(b, x) \cap Tags(b, y) = {} /\ Tags(e, x) = Tags(b, x)
      BY <1>2, <2>1, <2>3
    <3> QED BY <2>1, <3>1 DEF Holds
  <2>4. \A x, z : x # z => Tags(e, x) \cap Tags(e, z) = {}
    BY <1>2, <2>1
  <2>5. ASSUME NEW i \in Nat, i >= n + 1
        PROVE  <<c, i>> \notin e.removes /\ \A x : <<c, i>> \notin Tags(e, x)
    BY <1>3, <2>1, <2>5
  <2>6. Untaken(e, c, n + 1)
    BY <2>4, <2>5 DEF Untaken
  <2> QED BY <1>5, <2>2, <2>3, <2>6 DEF y
<1> QED BY <1>1, <1>4, <1>5

\* After n mutations what they named is as the component has it, and the rest
\* as it was.
SetStage(b, d, v, ms, c, m, n) ==
    /\ Untaken(b, c, m)
    /\ \A x : \/ (\E j \in 1..n : ms[j].value = x) /\ (Holds(b, x) <=> x \in v)
              \/ (\A j \in 1..n : ms[j].value # x) /\ (Holds(b, x) <=> Holds(d, x))

\* The diff of a set, applied, shows the component.
LEMMA SetReaches ==
    ASSUME NEW d, IsDoc("or_set", d), NEW c \in Nat, NEW q \in Nat, Untaken(d, c, q),
           NEW v, v \subseteq Items, NEW ms, ms = diff("or_set", d, v), NEW g, NEW ops, NEW s,
           NEW h \in Nat, Drafts(g, ops, "or_set", d, ms, c, q, s, h), NEW e, e = g[Len(ms)]
    PROVE  Members(e) = v
<1> DEFINE N == Len(ms)
           k == "or_set"
           T == {n \in 0..N : SetStage(g[n], d, v, ms, c, q + n, n)}
<1>0. k \in AllKinds /\ Listed(ms) /\ N \in Nat /\ \A n \in 1..N : Means(k, ms[n])
  <2>1. k \in AllKinds
    BY DEF AllKinds
  <2>2. Shown(k, v)
    BY DEF Shown
  <2> HIDE DEF k
  <2>3. IsDiff(k, d, v, ms)
    BY <2>1, <2>2, DiffIs DEF k
  <2> QED BY <2>1, <2>3 DEF IsDiff, Listed
<1>1. SetAsked(ms, d, v)
  BY SetIsAsked
<1>2. \A n \in 0..N : DraftedAt(g, ops, k, d, n)
  BY <1>0, DraftsAreDocs
<1>3. ASSUME NEW n \in 1..N PROVE DraftOp(g, ops, k, d, ms, c, q, s, n)
  <2>1. n - 1 \in 0..N
    BY <1>0
  <2>2. DraftedAt(g, ops, k, d, n - 1)
    BY <1>2, <2>1
  <2> HIDE DEF k
  <2> QED BY <1>0, <2>2, DraftOpIs DEF k
<1> HIDE DEF N
<1>4. 0 \in T
  <2>1. g[0] = d /\ 0 \in 0..N /\ q + 0 = q
    BY <1>0 DEF Drafts
  <2>2. SetStage(d, d, v, ms, c, q, 0)
    BY DEF SetStage
  <2> QED BY <2>1, <2>2
<1>5. ASSUME NEW n \in 0..N-1, n \in T PROVE n + 1 \in T
  <2> DEFINE m == n + 1
             b == g[n]
             a == g[m]
             op == ops[m]
             y == ms[m].value
             t == h + m
             z == q + n
  <2>0. /\ n \in Nat /\ m \in Nat /\ m \in 1..N /\ m \in 0..N /\ m - 1 = n /\ n \in 0..N
        /\ z \in Nat /\ q + m - 1 = z /\ q + m = z + 1
    BY <1>0
  <2>1. DraftOp(g, ops, k, d, ms, c, q, s, m)
    BY <1>3, <2>0
  <2>2. a = apply_property(k, b, op, t)
    <3>1. g[m] = apply_property(k, g[m - 1], ops[m], t)
      BY <2>0, Zenon DEF Drafts, N
    <3> QED BY <2>0, <3>1
  <2>3. IsDoc(k, b)
    BY <1>2, <2>0 DEF DraftedAt
  <2>4. /\ Fits(k, op) /\ op.id = <<c, z>> /\ op.of = ms[m]
        /\ op.of.type = "Remove" => op.delta.observed = Tags(b, y) \ b.removes
    <3>1. /\ Fits(k, op) /\ op.id = <<c, q + m - 1>> /\ op.of = ms[m]
          /\ ms[m].type = "Remove" => op.delta.observed = Tags(g[m - 1], y) \ g[m - 1].removes
      BY <2>1 DEF DraftOp
    <3> QED BY <2>0, <3>1
  <2>5. SetStage(b, d, v, ms, c, z, n)
    BY <1>5
  <2>6. \A j : j \in 1..m <=> j \in 1..n \/ j = m
    BY <2>0
  <2>7. op.of.value = y /\ (op.of.type = "Add" <=> y \in v)
    <3>1. ms[m].type = "Add" <=> y \in v
      BY <1>1, <2>0 DEF SetAsked, N
    <3> QED BY <2>4, <3>1
  <2> HIDE DEF m, b, a, op, y, t, z, T
  <2>8. Untaken(b, c, z)
    BY <2>5 DEF SetStage
  <2>9. /\ Untaken(a, c, z + 1)
        /\ \A x : x # op.of.value => (Holds(a, x) <=> Holds(b, x))
        /\ Holds(a, op.of.value) <=> op.of.type = "Add"
    <3>1. op.of.type = "Remove" => op.delta.observed = Tags(b, op.of.value) \ b.removes
      BY <2>4, <2>7
    <3> QED BY <2>0, <2>2, <2>3, <2>4, <2>8, <3>1, SetTurns
  <2>10. ASSUME NEW x
         PROVE  \/ (\E j \in 1..m : ms[j].value = x) /\ (Holds(a, x) <=> x \in v)
                \/ (\A j \in 1..m : ms[j].value # x) /\ (Holds(a, x) <=> Holds(d, x))
    <3>1. CASE x = y
      <4>1. m \in 1..m /\ ms[m].value = x
        BY <2>6, <3>1 DEF y
      <4>2. Holds(a, x) <=> x \in v
        BY <2>7, <2>9, <3>1
      <4> QED BY <4>1, <4>2
    <3>2. CASE x # y
      <4>1. Holds(a, x) <=> Holds(b, x)
        BY <2>7, <2>9, <3>2
      <4>2. \/ (\E j \in 1..n : ms[j].value = x) /\ (Holds(b, x) <=> x \in v)
            \/ (\A j \in 1..n : ms[j].value # x) /\ (Holds(b, x) <=> Holds(d, x))
        BY <2>5 DEF SetStage
      <4>3. ms[m].value # x
        BY <3>2 DEF y
      <4> QED BY <2>6, <4>1, <4>2, <4>3
    <3> QED BY <3>1, <3>2
  <2>11. SetStage(a, d, v, ms, c, z + 1, m)
    BY <2>9, <2>10 DEF SetStage
  <2>12. SetStage(g[m], d, v, ms, c, q + m, m)
    BY <2>0, <2>11 DEF a
  <2> QED BY <2>0, <2>12 DEF T, m
<1> HIDE DEF T
<1>6. N \in T
  <2>1. \A n \in 0..N : n \in T
    BY <1>0, <1>4, <1>5, UpTo
  <2> QED BY <1>0, <2>1
<1>7. SetStage(e, d, v, ms, c, q + N, N)
  BY <1>6 DEF T, N
<1>8. ASSUME NEW x PROVE x \in Members(e) <=> x \in v
  <2>1. x \in Members(e) <=> Holds(e, x)
    BY HoldsIsMember
  <2>2. x \in Members(d) <=> Holds(d, x)
    BY HoldsIsMember
  <2>3. (x \in Members(d) <=> x \in v) \/ \E n \in 1..N : ms[n].value = x
    BY <1>1 DEF SetAsked, N
  <2>4. \/ (\E j \in 1..N : ms[j].value = x) /\ (Holds(e, x) <=> x \in v)
        \/ (\A j \in 1..N : ms[j].value # x) /\ (Holds(e, x) <=> Holds(d, x))
    BY <1>7 DEF SetStage
  <2> QED BY <2>1, <2>2, <2>3, <2>4
<1> QED BY <1>8

\* No entry of a map was written after n.
Aged(b, n) == \A x \in DOMAIN b : b[x].stamp[1] \in Nat /\ b[x].stamp[1] <= n

SameAt(a, b, x) == (x \in DOMAIN a <=> x \in DOMAIN b) /\ (x \in DOMAIN b => a[x] = b[x])

\* What a map's op turns b into.
MapTurned(a, b, op) ==
    /\ \A x : x # op.of.key => SameAt(a, b, x)
    /\ op.of.key \in DOMAIN a <=> op.of.type = "Apply"
    /\ op.of.type = "Apply" => a[op.of.key].value = op.of.value

\* A write above all stamps is taken, a removal takes the entry away, and
\* neither touches another key.
LEMMA MapTurns ==
    ASSUME NEW b, NEW n \in Nat, Aged(b, n), NEW op, Fits("map", op), op.id[1] \in Nat,
           NEW a, a = apply_property("map", b, op, n + 1)
    PROVE  Aged(a, n + 1) /\ MapTurned(a, b, op)
<1> DEFINE y == op.of.key
           j == n + 1
           ctx == [id |-> op.id, seq |-> j]
           r == LwwApply(At(b, y), op.delta, ctx)
<1>0. j \in Nat /\ n < j
  OBVIOUS
<1>1. op.of.type \in {"Apply", "Remove"} /\ op.path[1] = y
  BY DEF Fits
<1>2. \A x \in DOMAIN b : b[x].stamp[1] \in Nat /\ b[x].stamp[1] < j /\ b[x].stamp[1] <= j
  <2> SUFFICES ASSUME NEW x \in DOMAIN b
               PROVE  b[x].stamp[1] \in Nat /\ b[x].stamp[1] < j /\ b[x].stamp[1] <= j
    OBVIOUS
  <2>1. b[x].stamp[1] \in Nat /\ b[x].stamp[1] <= n
    BY DEF Aged
  <2> QED BY <2>1
<1>3. CASE op.of.type = "Apply"
  <2>1. op.delta = [type |-> "LwwReplace", value |-> op.of.value]
    BY <1>3 DEF Fits
  <2>2. a = Put(b, y, r)
    BY <1>1, <2>1 DEF apply_property, MapApply
  <2>3. IsPut(a, b, y, r)
    <3> HIDE DEF y, r
    <3> QED BY <2>2, PutIs
  <2>4. At(b, y) = None \/ Less(At(b, y).stamp, <<j, op.id[1]>>)
    <3>1. CASE y \in DOMAIN b
      <4>1. At(b, y) = b[y]
        BY <3>1 DEF At
      <4>2. b[y].stamp[1] < j
        BY <1>2, <3>1
      <4> HIDE DEF j, y
      <4> QED BY <4>1, <4>2 DEF Less
    <3>2. CASE y \notin DOMAIN b
      BY <3>2 DEF At
    <3> QED BY <3>1, <3>2
  <2> HIDE DEF j
  <2>5. r = [stamp |-> <<j, op.id[1]>>, value |-> op.of.value]
    BY <2>1, <2>4 DEF LwwApply
  <2>6. r.stamp[1] = j /\ r.value = op.of.value
    BY <2>5
  <2> HIDE DEF r, y
  <2>7. /\ DOMAIN a = DOMAIN b \cup {y} /\ a[y] = r
        /\ \A x \in DOMAIN b : x # y => a[x] = b[x]
    BY <2>3 DEF IsPut
  <2>8. Aged(a, j)
    <3> SUFFICES ASSUME NEW x \in DOMAIN a
                 PROVE  a[x].stamp[1] \in Nat /\ a[x].stamp[1] <= j
      BY DEF Aged
    <3>1. CASE x = y
      BY <1>0, <2>6, <2>7, <3>1
    <3>2. CASE x # y
      <4>1. x \in DOMAIN b /\ a[x] = b[x]
        BY <2>7, <3>2
      <4> QED BY <1>2, <4>1
    <3> QED BY <3>1, <3>2
  <2>9. \A x : x # y => SameAt(a, b, x)
    BY <2>7 DEF SameAt
  <2> QED BY <1>3, <2>6, <2>7, <2>8, <2>9 DEF y, j, MapTurned
<1>4. CASE op.of.type = "Remove"
  <2>1. op.delta = [type |-> "MapRemove"]
    BY <1>4 DEF Fits
  <2>2. a = Without(b, y)
    BY <1>1, <2>1 DEF apply_property, MapApply
  <2> HIDE DEF y, j
  <2>3. DOMAIN a = DOMAIN b \ {y} /\ \A x \in DOMAIN b : x # y => a[x] = b[x]
    BY <2>2 DEF Without, Restrict
  <2>4. Aged(a, j)
    <3> SUFFICES ASSUME NEW x \in DOMAIN a
                 PROVE  a[x].stamp[1] \in Nat /\ a[x].stamp[1] <= j
      BY DEF Aged
    <3>1. x \in DOMAIN b /\ a[x] = b[x]
      BY <2>3
    <3> QED BY <1>2, <3>1
  <2>5. \A x : x # y => SameAt(a, b, x)
    BY <2>3 DEF SameAt
  <2>6. y \notin DOMAIN a
    BY <2>3
  <2> QED BY <1>4, <2>4, <2>5, <2>6 DEF y, j, MapTurned
<1> QED BY <1>1, <1>3, <1>4

\* As SetStage, of a map and its keys.
MapStage(b, d, v, ms, m, n) ==
    /\ Aged(b, m)
    /\ \A x : \/ (\E j \in 1..n : ms[j].key = x) /\ ShowsAt(b, v, x)
              \/ (\A j \in 1..n : ms[j].key # x) /\ SameAt(b, d, x)

\* The diff of a map, applied, shows the component.
LEMMA MapReaches ==
    ASSUME NEW d, IsDoc("map", d), NEW c \in Nat, NEW q \in Nat,
           NEW v, Shown("map", v), NEW ms, ms = diff("map", d, v), NEW g, NEW ops, NEW s,
           NEW h \in Nat, Aged(d, h), Drafts(g, ops, "map", d, ms, c, q, s, h),
           NEW e, e = g[Len(ms)]
    PROVE  project_to("map", e, v) = v
<1> DEFINE N == Len(ms)
           k == "map"
           T == {n \in 0..N : MapStage(g[n], d, v, ms, h + n, n)}
<1>0. k \in AllKinds /\ Listed(ms) /\ N \in Nat /\ \A n \in 1..N : Means(k, ms[n])
  <2>1. k \in AllKinds
    BY DEF AllKinds
  <2> HIDE DEF k
  <2>3. IsDiff(k, d, v, ms)
    BY <2>1, DiffIs DEF k
  <2> QED BY <2>1, <2>3 DEF IsDiff, Listed
<1>1. MapAsked(ms, d, v)
  BY MapIsAsked
<1>2. \A n \in 0..N : DraftedAt(g, ops, k, d, n)
  BY <1>0, DraftsAreDocs
<1>3. ASSUME NEW n \in 1..N PROVE DraftOp(g, ops, k, d, ms, c, q, s, n)
  <2>1. n - 1 \in 0..N
    BY <1>0
  <2>2. DraftedAt(g, ops, k, d, n - 1)
    BY <1>2, <2>1
  <2> HIDE DEF k
  <2> QED BY <1>0, <2>2, DraftOpIs DEF k
<1> HIDE DEF N
<1>4. 0 \in T
  <2>1. g[0] = d /\ 0 \in 0..N /\ h + 0 = h
    BY <1>0 DEF Drafts
  <2>2. MapStage(d, d, v, ms, h, 0)
    BY DEF MapStage, SameAt
  <2> QED BY <2>1, <2>2
<1>5. ASSUME NEW n \in 0..N-1, n \in T PROVE n + 1 \in T
  <2> DEFINE m == n + 1
             b == g[n]
             a == g[m]
             op == ops[m]
             y == ms[m].key
             z == h + n
  <2>0. /\ n \in Nat /\ m \in Nat /\ m \in 1..N /\ m \in 0..N /\ m - 1 = n /\ n \in 0..N
        /\ z \in Nat /\ h + m = z + 1
    BY <1>0
  <2>1. DraftOp(g, ops, k, d, ms, c, q, s, m)
    BY <1>3, <2>0
  <2>2. a = apply_property(k, b, op, z + 1)
    <3>1. g[m] = apply_property(k, g[m - 1], ops[m], h + m)
      BY <2>0, Zenon DEF Drafts, N
    <3> QED BY <2>0, <3>1
  <2>4. Fits(k, op) /\ op.id[1] \in Nat /\ op.of = ms[m]
    BY <2>1 DEF DraftOp
  <2>5. MapStage(b, d, v, ms, z, n)
    BY <1>5
  <2>6. \A j : j \in 1..m <=> j \in 1..n \/ j = m
    BY <2>0
  <2>7. /\ op.of.key = y /\ (op.of.type = "Apply" <=> y \in DOMAIN v)
        /\ op.of.type = "Apply" => op.of.value = v[y]
    <3>1. (ms[m].type = "Apply" <=> y \in DOMAIN v) /\ (ms[m].type = "Apply" => ms[m].value = v[y])
      BY <1>1, <2>0 DEF MapAsked, N
    <3> QED BY <2>4, <3>1
  <2> HIDE DEF m, b, a, op, y, z, T
  <2>8. Aged(b, z)
    BY <2>5 DEF MapStage
  <2>9. /\ Aged(a, z + 1)
        /\ \A x : x # op.of.key => SameAt(a, b, x)
        /\ op.of.key \in DOMAIN a <=> op.of.type = "Apply"
        /\ op.of.type = "Apply" => a[op.of.key].value = op.of.value
    <3>1. Aged(a, z + 1) /\ MapTurned(a, b, op)
      BY <2>0, <2>2, <2>4, <2>8, MapTurns
    <3> QED BY <3>1 DEF MapTurned
  <2>10. ASSUME NEW x
         PROVE  \/ (\E j \in 1..m : ms[j].key = x) /\ ShowsAt(a, v, x)
                \/ (\A j \in 1..m : ms[j].key # x) /\ SameAt(a, d, x)
    <3>1. CASE x = y
      <4>1. m \in 1..m /\ ms[m].key = x
        BY <2>6, <3>1 DEF y
      <4>2. ShowsAt(a, v, x)
        BY <2>7, <2>9, <3>1 DEF ShowsAt
      <4> QED BY <4>1, <4>2
    <3>2. CASE x # y
      <4>1. SameAt(a, b, x)
        BY <2>7, <2>9, <3>2
      <4>2. \/ (\E j \in 1..n : ms[j].key = x) /\ ShowsAt(b, v, x)
            \/ (\A j \in 1..n : ms[j].key # x) /\ SameAt(b, d, x)
        BY <2>5 DEF MapStage
      <4>3. ms[m].key # x
        BY <3>2 DEF y
      <4>4. (ShowsAt(b, v, x) => ShowsAt(a, v, x)) /\ (SameAt(b, d, x) => SameAt(a, d, x))
        BY <4>1 DEF ShowsAt, SameAt
      <4> QED BY <2>6, <4>2, <4>3, <4>4
    <3> QED BY <3>1, <3>2
  <2>11. MapStage(a, d, v, ms, z + 1, m)
    BY <2>9, <2>10 DEF MapStage
  <2>12. MapStage(g[m], d, v, ms, h + m, m)
    BY <2>0, <2>11 DEF a
  <2> QED BY <2>0, <2>12 DEF T, m
<1> HIDE DEF T
<1>6. N \in T
  <2>1. \A n \in 0..N : n \in T
    BY <1>0, <1>4, <1>5, UpTo
  <2> QED BY <1>0, <2>1
<1>7. MapStage(e, d, v, ms, h + N, N)
  BY <1>6 DEF T, N
<1>8. ASSUME NEW x PROVE ShowsAt(e, v, x)
  <2>3. ShowsAt(d, v, x) \/ \E n \in 1..N : ms[n].key = x
    BY <1>1 DEF MapAsked, N
  <2>4. \/ (\E j \in 1..N : ms[j].key = x) /\ ShowsAt(e, v, x)
        \/ (\A j \in 1..N : ms[j].key # x) /\ SameAt(e, d, x)
    BY <1>7 DEF MapStage
  <2> QED BY <2>3, <2>4 DEF ShowsAt, SameAt
<1>9. IsDoc(k, e)
  <2>1. N \in 0..N
    BY <1>0
  <2> QED BY <1>2, <2>1 DEF DraftedAt, N
<1>10. \A x \in DOMAIN e : e[x] # None
  <2>1. \A x \in DOMAIN e : e[x] \in Registers
    BY <1>9 DEF IsDoc
  <2> QED BY <2>1, NoneAssumption DEF Registers, Values
<1>11. project_to("map", e, v) = [x \in DOMAIN e |-> e[x].value]
  <2>1. project_to("map", e, v) = [x \in {y \in DOMAIN e : e[y] # None} |-> e[x].value]
    BY DEF project_to
  <2>2. {y \in DOMAIN e : e[y] # None} = DOMAIN e
    BY <1>10
  <2> QED BY <2>1, <2>2
<1>12. DOMAIN e = DOMAIN v /\ \A x \in DOMAIN v : e[x].value = v[x]
  BY <1>8 DEF ShowsAt
<1>13. v = [x \in DOMAIN v |-> v[x]]
  BY DEF Shown
<1> QED BY <1>11, <1>12, <1>13

\* The ids a client has not minted are not in its document.
LEMMA SequenceHasOld ==
    ASSUME NEW l, Listed(l), NEW nx, Logged("sequence", l, nx), NEW c, NEW q, q = nx[c], q \in Nat,
           NEW n \in 0..Len(l), NEW i \in Nat, i >= q
    PROVE  <<c, i>> \notin DOMAIN Replay("sequence", l, n)
<1>0. Len(l) \in Nat /\ "sequence" \in AllKinds
  BY DEF Listed, AllKinds
<1>1. ReplayedAt("sequence", l, n)
  BY <1>0, LogReplays
<1>2. SUFFICES ASSUME <<c, i>> \in Inserted(l, n) PROVE FALSE
  BY <1>1 DEF ReplayedAt
<1>3. PICK m \in 1..n : <<c, i>> = l[m].id
  BY <1>2 DEF Inserted
<1>4. m \in 1..Len(l) /\ l[m].id = <<c, i>>
  BY <1>0, <1>3
<1>5. i < q
  BY <1>4, IdsAreOld
<1> QED BY <1>5

LEMMA SetIsUntaken ==
    ASSUME NEW l, Listed(l), NEW nx, Logged("or_set", l, nx), NEW c, NEW q, q = nx[c], q \in Nat,
           NEW n \in 0..Len(l)
    PROVE  Untaken(Replay("or_set", l, n), c, q)
<1> DEFINE d == Replay("or_set", l, n)
           k == "or_set"
<1>0. Len(l) \in Nat /\ k \in AllKinds /\ n \in Nat
  BY DEF Listed, AllKinds
<1>1. \A m \in 0..Len(l) : ReplayedAt(k, l, m)
  BY <1>0, LogReplays
<1>2. \A x, y : x # y => Tags(d, x) \cap Tags(d, y) = {}
  <2> HIDE DEF d
  <2> QED BY TagsAreApart DEF d
<1>3. ASSUME NEW i \in Nat, i >= q, NEW a \in 0..Len(l), NEW x PROVE <<c, i>> \notin Tagged(l, a, x)
  <2> SUFFICES ASSUME <<c, i>> \in Tagged(l, a, x) PROVE FALSE
    OBVIOUS
  <2>1. PICK m \in 1..a : <<c, i>> = l[m].id
    BY DEF Tagged
  <2>2. m \in 1..Len(l) /\ l[m].id = <<c, i>>
    BY <1>0, <2>1
  <2>3. i < q
    BY <2>2, IdsAreOld
  <2> QED BY <1>3, <2>3
<1>4. ASSUME NEW i \in Nat, i >= q PROVE <<c, i>> \notin Untagged(l, n)
  <2> SUFFICES ASSUME <<c, i>> \in Untagged(l, n) PROVE FALSE
    OBVIOUS
  <2>1. PICK m \in 1..n : l[m].of.type = "Remove" /\ <<c, i>> \in l[m].delta.observed
    BY DEF Untagged
  <2>2. m \in 1..Len(l)
    BY <1>0
  <2>3. LogOp(k, l, nx, m)
    BY <2>2 DEF Logged
  <2>4. l[m].seen \in 0..Len(l)
    <3>1. l[m].seen \in 0..m - 1
      BY <2>3 DEF LogOp
    <3> QED BY <1>0, <2>2, <3>1
  <2>5. <<c, i>> \in Tags(Replay(k, l, l[m].seen), l[m].of.value)
    BY <2>1, <2>3 DEF LogOp, Observes
  <2>6. <<c, i>> \in Tagged(l, l[m].seen, l[m].of.value)
    BY <1>1, <2>4, <2>5 DEF ReplayedAt
  <2> QED BY <1>3, <1>4, <2>4, <2>6
<1>5. (\A x : Tags(d, x) = Tagged(l, n, x)) /\ d.removes = Untagged(l, n)
  BY <1>1 DEF ReplayedAt
<1> HIDE DEF d
<1> QED BY <1>2, <1>3, <1>4, <1>5 DEF Untaken, d

LEMMA MapIsAged ==
    ASSUME NEW l, Listed(l), NEW nx, Logged("map", l, nx), NEW n \in 0..Len(l)
    PROVE  Aged(Replay("map", l, n), Len(l))
<1> DEFINE d == Replay("map", l, n)
<1>0. Len(l) \in Nat /\ n \in Nat
  BY DEF Listed
<1>1. SUFFICES ASSUME NEW x \in DOMAIN d
               PROVE  d[x].stamp[1] \in Nat /\ d[x].stamp[1] <= Len(l)
  BY DEF Aged
<1> DEFINE m == LastOn(l, n, x)
<1>2. EntryOf(l, d, x, m)
  BY MapSays
<1>3. m \in 0..n
  BY <1>0, LastOnSteps
<1> HIDE DEF d, m
<1>4. d[x].stamp[1] = m
  BY <1>1, <1>2 DEF EntryOf
<1> QED BY <1>0, <1>3, <1>4

\* What the diff of a client's component makes of its document.
LEMMA DiffedIs ==
    ASSUME Core, NEW c \in Holder, NEW k, k = kind, NEW l, l = log, NEW d, d = doc[c],
           NEW v, v = comp[c], NEW ms, ms = diff(k, d, v)
    PROVE  \E g, ops : /\ Drafts(g, ops, k, d, ms, c, next[c], applied[c], Len(l))
                       /\ Diffed(c) = project_to(k, g[Len(ms)], v)
<1>1. c \in Client /\ k \in AllKinds /\ Shown(k, v)
  BY ClientAssumption DEF Core, Kin, Typed, AllShown
<1>2. IsDoc(k, d)
  BY <1>1, DocsAreDocs DEF ReplayedAt
<1>3. Listed(ms)
  <2>1. IsDiff(k, d, v, ms)
    BY <1>1, <1>2, DiffIs
  <2> QED BY <2>1 DEF IsDiff
<1>4. PICK g : /\ Drafts(g, Ops(c, ms), kind, doc[c], ms, c, next[c], applied[c], Len(log))
               /\ g[Len(ms)] = Emit(kind, doc[c], ms, c, next[c], Len(log)).doc
  BY <1>3, OpsAreDrafted
<1>5. Diffed(c) = project_to(k, Emit(k, d, ms, c, next[c], Len(l)).doc, v)
  BY DEF Diffed
<1>6. Diffed(c) = project_to(k, g[Len(ms)], v)
  BY <1>4, <1>5
<1> QED BY <1>4, <1>6

\* The same of one holder, kind by kind.
LEMMA DiffReachesHere ==
    ASSUME Core, NEW c \in Holder, kind # "tree"
    PROVE  \/ Diffed(c) = comp[c]
           \/ /\ kind = "sequence" /\ \E i \in DOMAIN doc[c] : i[1] > c
              /\ \A x : Often(x, Diffed(c)) = Often(x, comp[c])
<1> DEFINE k == kind
           l == log
           d == doc[c]
           v == comp[c]
           a == applied[c]
           q == next[c]
           ms == diff(k, d, v)
           u == Diffed(c)
<1>1. /\ c \in Client /\ c \in Nat /\ k \in AllKinds /\ Shown(k, v) /\ Listed(l)
      /\ Logged(k, l, next) /\ q \in Nat
  BY ClientAssumption DEF Core, Kin, Typed, AllShown, AllKept, Kept, Held
<1>2. a \in 0..Len(l) /\ Len(l) \in Nat /\ d = Replay(k, l, a) /\ IsDoc(k, d)
  BY <1>1, DocsAreDocs DEF ReplayedAt
<1> HIDE DEF ms, u
<1>3. PICK g, ops : /\ Drafts(g, ops, k, d, ms, c, q, a, Len(l))
                    /\ u = project_to(k, g[Len(ms)], v)
  BY DiffedIs DEF ms, u
<1> DEFINE e == g[Len(ms)]
<1>4. k # "tree"
  OBVIOUS
<1> HIDE DEF k, l, d, v, a, q, e
<1> SUFFICES \/ u = v
             \/ /\ k = "sequence" /\ \E i \in DOMAIN d : i[1] > c
                /\ \A x : Often(x, u) = Often(x, v)
  BY DEF u, v, k, d
<1>5. Drafts(g, ops, k, d, ms, c, q, a, Len(l)) /\ e = g[Len(ms)] /\ u = project_to(k, e, v)
      /\ ms = diff(k, d, v)
  BY <1>3 DEF e, ms, k, d, v
<1>6. CASE k = "lww"
  <2>1. d = None \/ (d.stamp[1] \in Nat /\ d.stamp[1] <= Len(l))
    <3>1. /\ a = 0 => d = None
          /\ a > 0 => d.stamp = <<a, l[a].id[1]>>
      BY <1>1, <1>2, <1>6, RegisterSays
    <3> QED BY <1>2, <3>1
  <2>2. None \notin Registers
    BY NoneAssumption DEF Registers, Values
  <2>3. v \in Values
    BY <1>1, <1>6 DEF Shown
  <2>4. Drafts(g, ops, "lww", d, ms, c, q, a, Len(l)) /\ ms = diff("lww", d, v)
    BY <1>5, <1>6
  <2>5. project_to("lww", e, v) = v
    BY <1>1, <1>2, <1>5, <2>1, <2>2, <2>3, <2>4, RegisterReaches
  <2> QED BY <1>5, <1>6, <2>5
<1>7. CASE k \in {"counter", "narrow"}
  <2>1. IsSummedCounter(d)
    BY <1>2, <1>7 DEF IsDoc
  <2>2. project_to(k, e, v) = v
    BY <1>1, <1>5, <1>7, <2>1, CounterReaches
  <2> QED BY <1>5, <2>2
<1>8. CASE k = "or_set"
  <2>1. Drafts(g, ops, "or_set", d, ms, c, q, a, Len(l)) /\ ms = diff("or_set", d, v)
        /\ IsDoc("or_set", d) /\ v \subseteq Items
    BY <1>1, <1>2, <1>5, <1>8 DEF Shown
  <2>2. Untaken(d, c, q)
    <3>1. Logged("or_set", l, next) /\ q = next[c] /\ d = Replay("or_set", l, a)
      BY <1>1, <1>2, <1>8 DEF q
    <3> QED BY <1>1, <1>2, <3>1, SetIsUntaken
  <2>3. Members(e) = v
    BY <1>1, <1>2, <1>5, <2>1, <2>2, SetReaches
  <2> QED BY <1>5, <1>8, <2>3 DEF project_to
<1>9. CASE k = "sequence"
  <2>1. Rooted(d) /\ Listed(v)
    BY <1>1, <1>2, <1>9 DEF IsDoc, Shown
  <2>2. IsSequence(d) /\ \A i \in Nat : i >= q => <<c, i>> \notin DOMAIN d
    <3>1. Logged("sequence", l, next) /\ q = next[c] /\ d = Replay("sequence", l, a)
      BY <1>1, <1>2, <1>9 DEF q
    <3>2. IsSequence(d)
      BY <1>1, <1>2, <3>1, ReplayIsSequence
    <3> QED BY <1>1, <1>2, <3>1, <3>2, SequenceHasOld
  <2>3. ms = sequence_diff(Visible(d), v)
    BY <1>5, <1>9 DEF diff
  <2>4. Drafts(g, ops, "sequence", d, ms, c, q, a, Len(l))
    BY <1>5, <1>9
  <2>5. \/ Visible(e) = v
        \/ (\E i \in DOMAIN d : i[1] > c) /\ \A x : Often(x, Visible(e)) = Often(x, v)
    <3>1. None \notin Nat \X Nat
      BY NoneAssumption
    <3>2. e = g[Len(ms)] /\ c \in Nat /\ q \in Nat
      BY <1>1, <1>5
    <3>3. SeqReached(c, d, e, v)
      BY <2>1, <2>2, <2>3, <2>4, <3>1, <3>2, SequenceReaches
    <3> QED BY <3>3 DEF SeqReached
  <2>6. u = Visible(e)
    BY <1>5, <1>9 DEF project_to
  <2> QED BY <1>9, <2>5, <2>6
<1>10. CASE k = "map"
  <2>1. Drafts(g, ops, "map", d, ms, c, q, a, Len(l)) /\ ms = diff("map", d, v)
        /\ IsDoc("map", d) /\ Shown("map", v)
    BY <1>1, <1>2, <1>5, <1>10
  <2>2. Aged(d, Len(l))
    <3>1. Logged("map", l, next) /\ d = Replay("map", l, a)
      BY <1>1, <1>2, <1>10
    <3> QED BY <1>1, <1>2, <3>1, MapIsAged
  <2>3. project_to("map", e, v) = v
    BY <1>1, <1>2, <1>5, <2>1, <2>2, MapReaches
  <2> QED BY <1>5, <1>10, <2>3
<1> QED BY <1>1, <1>4, <1>6, <1>7, <1>8, <1>9, <1>10 DEF AllKinds

\* The ops a component's diff mints, applied to the document it was taken of,
\* show the component, whatever the document holds: of a sequence with an
\* element of a higher peer, they show at least the same items as often
\* (SchemaField::diff, sequence_diff, detect_local_changes).
THEOREM DiffsDoReach == Spec => []DiffReaches
<1>1. Core => DiffReaches
  <2> SUFFICES ASSUME Core, kind # "tree", NEW c \in Holder
               PROVE  \/ Diffed(c) = comp[c]
                      \/ /\ kind = "sequence" /\ \E i \in DOMAIN doc[c] : i[1] > c
                         /\ \A x \in Items : Often(x, Diffed(c)) = Often(x, comp[c])
    BY DEF DiffReaches
  <2> QED BY DiffReachesHere
<1> QED BY <1>1, CoreAlways, PTL
=============================================================================
