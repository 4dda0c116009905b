-------------------------- MODULE StructuralSyncProofs --------------------------
(***************************************************************************)
(* For any clients, nodes, edges and order of frames, despawns, tombstones *)
(* and echoes: the two halves of a client's index mirror each other and    *)
(* know what lives, a client announces only what its user despawned and    *)
(* only once, and what it has at rest is what of its own is alive in the   *)
(* room, no edge without its ends.                                         *)
(***************************************************************************)
EXTENDS StructuralSync, FoldProofs

-----------------------------------------------------------------------------
(* Maps. *)

MapsOf(S, T) == UNION {[X -> T] : X \in SUBSET S}

LEMMA MapIs ==
  ASSUME NEW S, NEW T, NEW f \in MapsOf(S, T)
  PROVE  /\ f = [x \in DOMAIN f |-> f[x]] /\ DOMAIN f \in SUBSET S
         /\ \A x \in DOMAIN f : f[x] \in T
BY DEF MapsOf

LEMMA MapOf ==
  ASSUME NEW S, NEW T, NEW f, f = [x \in DOMAIN f |-> f[x]], DOMAIN f \in SUBSET S,
         \A x \in DOMAIN f : f[x] \in T
  PROVE  f \in MapsOf(S, T)
<1>1. f \in [DOMAIN f -> T]
  OBVIOUS
<1> QED BY <1>1, Zenon DEF MapsOf

LEMMA PutAllIs ==
  ASSUME NEW f, NEW g
  PROVE  /\ DOMAIN PutAll(f, g) = DOMAIN f \cup DOMAIN g
         /\ \A x \in DOMAIN g : PutAll(f, g)[x] = g[x]
         /\ \A x \in DOMAIN f \ DOMAIN g : PutAll(f, g)[x] = f[x]
BY DEF PutAll

LEMMA PutAllMap ==
  ASSUME NEW S, NEW T, NEW f \in MapsOf(S, T), NEW g \in MapsOf(S, T)
  PROVE  PutAll(f, g) \in MapsOf(S, T)
<1> DEFINE h == PutAll(f, g)
<1>1. h = [x \in DOMAIN h |-> h[x]] /\ DOMAIN h = DOMAIN f \cup DOMAIN g
  BY DEF PutAll
<1>2. (\A x \in DOMAIN g : h[x] = g[x]) /\ \A x \in DOMAIN f \ DOMAIN g : h[x] = f[x]
  BY PutAllIs
<1> HIDE DEF h
<1>3. DOMAIN f \in SUBSET S /\ DOMAIN g \in SUBSET S
  BY MapIs
<1>4. (\A x \in DOMAIN f : f[x] \in T) /\ \A x \in DOMAIN g : g[x] \in T
  BY MapIs
<1>5. DOMAIN h \in SUBSET S /\ \A x \in DOMAIN h : h[x] \in T
  BY <1>1, <1>2, <1>3, <1>4
<1>6. h \in MapsOf(S, T)
  BY <1>1, <1>5, MapOf
<1> QED BY <1>6 DEF h

LEMMA RestrictIs ==
  ASSUME NEW f, NEW X
  PROVE  /\ DOMAIN Restrict(f, X) = X /\ \A x \in X : Restrict(f, X)[x] = f[x]
         /\ Restrict(f, X) = [x \in DOMAIN Restrict(f, X) |-> Restrict(f, X)[x]]
BY DEF Restrict

LEMMA RestrictMap ==
  ASSUME NEW S, NEW T, NEW f \in MapsOf(S, T), NEW X \in SUBSET DOMAIN f
  PROVE  Restrict(f, X) \in MapsOf(S, T)
<1>1. /\ DOMAIN Restrict(f, X) = X /\ \A x \in X : Restrict(f, X)[x] = f[x]
      /\ Restrict(f, X) = [x \in DOMAIN Restrict(f, X) |-> Restrict(f, X)[x]]
  BY RestrictIs
<1>2. DOMAIN f \in SUBSET S /\ \A x \in DOMAIN f : f[x] \in T
  BY MapIs
<1> QED BY <1>1, <1>2, MapOf

\* The two halves of an index mirror each other.
Mirrored(f, g) ==
    /\ \A e \in DOMAIN f : f[e] \in DOMAIN g /\ g[f[e]] = e
    /\ \A id \in DOMAIN g : g[id] \in DOMAIN f /\ f[g[id]] = id

Injective(f) == \A x, y \in DOMAIN f : f[x] = f[y] => x = y

LEMMA AntiFunctionIs ==
  ASSUME NEW f, Injective(f)
  PROVE  /\ DOMAIN AntiFunction(f) = Range(f)
         /\ \A x \in DOMAIN f : f[x] \in Range(f) /\ AntiFunction(f)[f[x]] = x
         /\ AntiFunction(f) = [t \in DOMAIN AntiFunction(f) |-> AntiFunction(f)[t]]
<1>1. AntiFunction(f) = [t \in Range(f) |-> CHOOSE s \in DOMAIN f : t \in Range(f) => f[s] = t]
  BY Zenon DEF AntiFunction, Inverse
<1>2. ASSUME NEW x \in DOMAIN f PROVE f[x] \in Range(f) /\ AntiFunction(f)[f[x]] = x
  <2>1. f[x] \in Range(f)
    BY DEF Range
  <2> DEFINE y == CHOOSE s \in DOMAIN f : f[x] \in Range(f) => f[s] = f[x]
  <2>2. y \in DOMAIN f /\ f[y] = f[x]
    BY <2>1
  <2>3. AntiFunction(f)[f[x]] = y
    BY <1>1, <2>1
  <2> HIDE DEF y
  <2> QED BY <2>1, <2>2, <2>3 DEF Injective
<1>3. DOMAIN AntiFunction(f) = Range(f)
  BY <1>1
<1>4. AntiFunction(f) = [t \in DOMAIN AntiFunction(f) |-> AntiFunction(f)[t]]
  BY <1>1
<1> QED BY <1>2, <1>3, <1>4

\* Binding new entities to new ids keeps the mirror.
Extends(f, g, ids, F, G) ==
    /\ Mirrored(F, G)
    /\ DOMAIN F = DOMAIN f \cup DOMAIN ids
    /\ \A x \in DOMAIN ids : F[x] = ids[x]
    /\ \A x \in DOMAIN f : F[x] = f[x]
    /\ DOMAIN G = DOMAIN g \cup Range(ids)
    /\ \A x \in DOMAIN g : G[x] = g[x]

LEMMA BindMirrors ==
  ASSUME NEW f, NEW g, Mirrored(f, g), NEW ids, Injective(ids),
         DOMAIN ids \cap DOMAIN f = {}, Range(ids) \cap DOMAIN g = {},
         NEW F, F = PutAll(f, ids), NEW G, G = PutAll(g, AntiFunction(ids))
  PROVE  Extends(f, g, ids, F, G)
<1> DEFINE b == AntiFunction(ids)
<1>1. DOMAIN b = Range(ids) /\ \A x \in DOMAIN ids : ids[x] \in Range(ids) /\ b[ids[x]] = x
  BY AntiFunctionIs
<1> HIDE DEF b
<1>2. /\ DOMAIN F = DOMAIN f \cup DOMAIN ids
      /\ \A x \in DOMAIN ids : F[x] = ids[x]
      /\ \A x \in DOMAIN f : F[x] = f[x]
  <2>1. /\ DOMAIN F = DOMAIN f \cup DOMAIN ids
        /\ \A x \in DOMAIN ids : F[x] = ids[x]
        /\ \A x \in DOMAIN f \ DOMAIN ids : F[x] = f[x]
    BY DEF PutAll
  <2> QED BY <2>1
<1>3. /\ DOMAIN G = DOMAIN g \cup Range(ids)
      /\ \A x \in Range(ids) : G[x] = b[x]
      /\ \A x \in DOMAIN g : G[x] = g[x]
  <2>1. /\ DOMAIN G = DOMAIN g \cup DOMAIN b
        /\ \A x \in DOMAIN b : G[x] = b[x]
        /\ \A x \in DOMAIN g \ DOMAIN b : G[x] = g[x]
    BY PutAllIs DEF b
  <2> QED BY <1>1, <2>1
<1>4. \A id \in Range(ids) : \E x \in DOMAIN ids : id = ids[x]
  BY DEF Range
<1>5. \A e \in DOMAIN F : F[e] \in DOMAIN G /\ G[F[e]] = e
  BY <1>1, <1>2, <1>3 DEF Mirrored
<1>6. \A id \in DOMAIN G : G[id] \in DOMAIN F /\ F[G[id]] = id
  BY <1>1, <1>2, <1>3, <1>4 DEF Mirrored
<1>7. Mirrored(F, G)
  BY <1>5, <1>6 DEF Mirrored
<1> QED BY <1>2, <1>3, <1>7 DEF Extends

\* So does unbinding.
Retracts(f, g, es, F, G) ==
    /\ Mirrored(F, G)
    /\ DOMAIN F = DOMAIN f \ es /\ \A e \in DOMAIN F : F[e] = f[e]
    /\ DOMAIN G \subseteq DOMAIN g /\ \A id \in DOMAIN G : G[id] = g[id]
    /\ \A id \in DOMAIN g : id \in DOMAIN G <=> g[id] \notin es

LEMMA UnbindMirrors ==
  ASSUME NEW f, NEW g, Mirrored(f, g), NEW es
  PROVE  Retracts(f, g, es, Restrict(f, DOMAIN f \ es),
                  Restrict(g, DOMAIN g \ Range(Restrict(f, es \cap DOMAIN f))))
<1> DEFINE cut == Range(Restrict(f, es \cap DOMAIN f))
           F == Restrict(f, DOMAIN f \ es)
           G == Restrict(g, DOMAIN g \ cut)
<1>1. \A id : id \in cut <=> \E e \in es \cap DOMAIN f : f[e] = id
  BY RestrictIs DEF Range
<1> HIDE DEF cut
<1>2. DOMAIN F = DOMAIN f \ es /\ \A e \in DOMAIN F : F[e] = f[e]
  BY RestrictIs
<1>3. DOMAIN G = DOMAIN g \ cut /\ \A id \in DOMAIN G : G[id] = g[id]
  BY RestrictIs
<1> HIDE DEF F, G
<1>4. \A id \in DOMAIN g : id \in cut <=> g[id] \in es
  BY <1>1 DEF Mirrored
<1>5. Mirrored(F, G)
  BY <1>2, <1>3, <1>4 DEF Mirrored
<1>6. Retracts(f, g, es, F, G)
  BY <1>2, <1>3, <1>4, <1>5 DEF Retracts
<1> QED BY <1>6 DEF F, G, cut

\* What mirrors says which ids are bound.
LEMMA MirrorIds ==
  ASSUME NEW f, NEW g, Mirrored(f, g)
  PROVE  Injective(f) /\ Injective(g) /\ Range(f) = DOMAIN g /\ Range(g) = DOMAIN f
<1>1. Injective(f) /\ Injective(g)
  BY DEF Mirrored, Injective
<1>2. Range(f) = DOMAIN g /\ Range(g) = DOMAIN f
  BY DEF Mirrored, Range
<1> QED BY <1>1, <1>2

-----------------------------------------------------------------------------
(* Orders and lists. *)

LEMMA InOrderIs ==
  ASSUME NEW S, IsFiniteSet(S)
  PROVE  /\ InOrder(S) \in Seq(S) /\ Len(InOrder(S)) = Cardinality(S)
         /\ Cardinality(S) \in Nat
         /\ Injective(InOrder(S)) /\ Range(InOrder(S)) = S
<1> DEFINE n == Cardinality(S)
           f == InOrder(S)
<1>1. n \in Nat /\ ExistsBijection(1..n, S)
  BY FS_CardinalityType
<1>2. PICK g \in Bijection(1..n, S) : TRUE
  BY <1>1 DEF ExistsBijection
<1>3. g \in [1..n -> S] /\ IsInjective(g)
  BY <1>2 DEF Bijection, Injection
<1>4. f = CHOOSE h \in [1..n -> S] : IsInjective(h)
  BY Zenon DEF InOrder, SetToSeq
<1>5. f \in [1..n -> S] /\ IsInjective(f)
  <2> HIDE DEF f
  <2> QED BY <1>3, <1>4, Zenon
<1>6. IsFiniteSet(1..n) /\ Cardinality(1..n) = n
  BY <1>1, FS_Interval
<1> HIDE DEF n, f
<1>7. f \in Injection(1..n, S)
  BY <1>5 DEF Injection
<1>8. f \in Surjection(1..n, S)
  BY <1>6, <1>7, FS_Injection DEF n
<1>9. Range(f) = S
  BY <1>5, <1>8 DEF Surjection, Range
<1>10. f \in Seq(S) /\ Len(f) = n
  BY <1>1, <1>5
<1>11. Injective(f)
  BY <1>5 DEF IsInjective, Injective
<1> QED BY <1>1, <1>9, <1>10, <1>11 DEF f, n

\* What two lists hold.
LEMMA RangeOfBoth ==
  ASSUME NEW S, NEW a \in Seq(S), NEW b \in Seq(S)
  PROVE  \A x : x \in Range(a \o b) <=> x \in Range(a) \/ x \in Range(b)
<1>1. DOMAIN (a \o b) = 1..(Len(a) + Len(b)) /\ Len(a) \in Nat /\ Len(b) \in Nat
      /\ DOMAIN a = 1..Len(a) /\ DOMAIN b = 1..Len(b)
  OBVIOUS
<1>2. \A i \in 1..Len(a) : (a \o b)[i] = a[i] /\ i \in DOMAIN (a \o b)
  BY <1>1
<1>3. \A i \in 1..Len(b) : (a \o b)[Len(a) + i] = b[i] /\ Len(a) + i \in DOMAIN (a \o b)
  BY <1>1
<1>4. \A i \in DOMAIN (a \o b) : i \in 1..Len(a) \/ (i - Len(a) \in 1..Len(b) /\ i = Len(a) + (i - Len(a)))
  BY <1>1
<1>5. \A x : x \in Range(a) => x \in Range(a \o b)
  BY <1>1, <1>2 DEF Range
<1>6. \A x : x \in Range(b) => x \in Range(a \o b)
  BY <1>1, <1>3 DEF Range
<1>7. \A i \in DOMAIN (a \o b) : (a \o b)[i] \in Range(a) \/ (a \o b)[i] \in Range(b)
  <2> TAKE i \in DOMAIN (a \o b)
  <2>1. CASE i \in 1..Len(a)
    BY <1>1, <1>2, <2>1 DEF Range
  <2>2. CASE i - Len(a) \in 1..Len(b) /\ i = Len(a) + (i - Len(a))
    <3>1. (a \o b)[i] = b[i - Len(a)]
      BY <1>3, <2>2
    <3> QED BY <1>1, <2>2, <3>1 DEF Range
  <2> QED BY <1>4, <2>1, <2>2
<1>8. \A x : x \in Range(a \o b) => x \in Range(a) \/ x \in Range(b)
  BY <1>7 DEF Range
<1> QED BY <1>5, <1>6, <1>8

\* A list of lists in one.
LEMMA FlattenIs ==
  ASSUME NEW S, NEW seqs \in Seq(Seq(S))
  PROVE  /\ FlattenSeq(seqs) \in Seq(S)
         /\ \A x : x \in Range(FlattenSeq(seqs)) <=> \E k \in DOMAIN seqs : x \in Range(seqs[k])
<1> DEFINE n == Len(seqs)
           step == [p \in Seq(S) \X (1..n) |-> p[1] \o seqs[p[2]]]
<1>1. n \in Nat /\ DOMAIN seqs = 1..n /\ \A k \in 1..n : seqs[k] \in Seq(S)
  OBVIOUS
<1>2. CASE n = 0
  <2>1. FlattenSeq(seqs) = seqs
    BY <1>2 DEF FlattenSeq
  <2>2. DOMAIN seqs = {} /\ seqs = << >> /\ << >> \in Seq(S)
    BY <1>1, <1>2
  <2> QED BY <2>1, <2>2 DEF Range
<1>3. CASE n # 0
  <2>1. step \in [Seq(S) \X (1..n) -> Seq(S)]
    BY <1>1
  <2>2. PICK f : Recursion(f, Seq(S), << >>, n, step)
    <3>1. << >> \in Seq(S)
      OBVIOUS
    <3> HIDE DEF step, n
    <3> QED BY <1>1, <2>1, <3>1, Recurs
  <2>3. f \in [0..n -> Seq(S)] /\ f[0] = << >>
    BY <2>2 DEF Recursion
  <2>4. ASSUME NEW k \in 1..n, NEW j \in 0..n, j = k - 1 PROVE f[k] = f[j] \o seqs[k]
    <3>1. f[k] = step[<<f[j], k>>]
      BY <2>2, <2>4 DEF Recursion
    <3>2. <<f[j], k>> \in Seq(S) \X (1..n)
      BY <1>1, <2>3
    <3> QED BY <3>1, <3>2
  <2> HIDE DEF step, n
  <2>41. ASSUME NEW k \in 0..n-1
         PROVE  /\ k + 1 \in 1..n /\ k \in 0..n /\ k + 1 \in 0..n
                /\ 1..k+1 = (1..k) \cup {k+1}
                /\ f[k+1] = f[k] \o seqs[k+1]
    <3>1. /\ k + 1 \in 1..n /\ k = (k + 1) - 1 /\ k \in 0..n /\ k + 1 \in 0..n
          /\ 1..k+1 = (1..k) \cup {k+1}
      BY <1>1
    <3>2. f[k+1] = f[k] \o seqs[k+1]
      BY <2>4, <3>1
    <3> QED BY <3>1, <3>2
  <2> DEFINE T == {k \in 0..n : \A x : x \in Range(f[k]) <=> \E j \in 1..k : x \in Range(seqs[j])}
  <2>5. 0 \in T
    BY <1>1, <2>3 DEF Range
  <2>6. ASSUME NEW k \in 0..n-1, k \in T PROVE k + 1 \in T
    <3>1. k + 1 \in 1..n /\ k \in 0..n /\ k + 1 \in 0..n /\ 1..k+1 = (1..k) \cup {k+1}
      BY <2>41
    <3> DEFINE a == f[k]
               b == seqs[k+1]
    <3>2. f[k+1] = a \o b /\ a \in Seq(S) /\ b \in Seq(S)
      BY <1>1, <2>3, <2>41, <3>1
    <3> HIDE DEF a, b
    <3>3. \A x : x \in Range(a \o b) <=> x \in Range(a) \/ x \in Range(b)
      BY <3>2, RangeOfBoth
    <3>4. \A x : x \in Range(a) <=> \E j \in 1..k : x \in Range(seqs[j])
      BY <2>6 DEF a
    <3>5. \A x : x \in Range(f[k+1]) <=> \E j \in 1..k+1 : x \in Range(seqs[j])
      BY <3>1, <3>2, <3>3, <3>4 DEF b
    <3> QED BY <3>1, <3>5
  <2> HIDE DEF T
  <2>7. n \in T
    <3>1. n \in Nat
      BY <1>1
    <3>2. \A k \in 0..n : k \in T
      BY <2>5, <2>6, <3>1, UpTo
    <3> QED BY <3>1, <3>2
  <2> DEFINE g == [k \in 1..n |-> f[k]]
             h == CHOOSE h : h = [i \in 1..n |-> IF i = 1 THEN seqs[i] ELSE h[i-1] \o seqs[i]]
  <2>71. \A i \in 1..n : i # 1 => i - 1 \in 1..n /\ i - 1 \in 0..n
    BY <1>1
  <2>8. g = [i \in 1..n |-> IF i = 1 THEN seqs[i] ELSE g[i-1] \o seqs[i]]
    <3>1. ASSUME NEW i \in 1..n PROVE f[i] = IF i = 1 THEN seqs[i] ELSE g[i-1] \o seqs[i]
      <4>1. CASE i = 1
        <5>1. f[i] = f[0] \o seqs[i] /\ f[0] = << >> /\ seqs[i] \in Seq(S)
          <6>1. 0 \in 0..n /\ 0 = i - 1
            BY <1>1, <4>1
          <6>2. f[i] = f[0] \o seqs[i]
            BY <2>4, <6>1
          <6> QED BY <1>1, <2>3, <6>2
        <5> QED BY <4>1, <5>1
      <4>2. CASE i # 1
        <5>1. i - 1 \in 1..n /\ i - 1 \in 0..n
          BY <2>71, <4>2
        <5>2. f[i] = f[i-1] \o seqs[i]
          BY <2>4, <5>1
        <5> QED BY <4>2, <5>1, <5>2
      <4> QED BY <4>1, <4>2
    <3> QED BY <3>1
  <2>9. h = [i \in 1..n |-> IF i = 1 THEN seqs[i] ELSE h[i-1] \o seqs[i]]
    <3> HIDE DEF g
    <3> QED BY <2>8, Zenon
  <2>10. \A k \in 1..n : h[k] = f[k]
    <3> HIDE DEF h, g
    <3> DEFINE U == {k \in 0..n : k # 0 => h[k] = f[k]}
    <3>1. 0 \in U
      BY <1>1
    <3>2. ASSUME NEW k \in 0..n-1, k \in U PROVE k + 1 \in U
      <4>1. k + 1 \in 1..n /\ k + 1 - 1 = k /\ k + 1 \in 0..n
        BY <1>1
      <4>2. h[k+1] = IF k + 1 = 1 THEN seqs[k+1] ELSE h[k] \o seqs[k+1]
        <5>1. ASSUME NEW i \in 1..n, i - 1 = k
              PROVE  h[i] = IF i = 1 THEN seqs[i] ELSE h[k] \o seqs[i]
          BY <2>9, <5>1
        <5> QED BY <4>1, <5>1
      <4>3. f[k+1] = f[k] \o seqs[k+1]
        BY <2>41
      <4>4. CASE k = 0
        <5>1. seqs[k+1] \in Seq(S) /\ f[k] = << >>
          BY <1>1, <2>3, <4>1, <4>4
        <5> QED BY <4>1, <4>2, <4>3, <4>4, <5>1
      <4>5. CASE k # 0
        <5>1. h[k] = f[k] /\ k + 1 # 1
          BY <3>2, <4>5
        <5> QED BY <4>1, <4>2, <4>3, <5>1
      <4> QED BY <4>4, <4>5
    <3> HIDE DEF U
    <3>3. \A k \in 0..n : k \in U
      BY <1>1, <3>1, <3>2, UpTo
    <3> QED BY <1>1, <3>3 DEF U
  <2>11. FlattenSeq(seqs) = h[n]
    BY <1>3, Zenon DEF FlattenSeq, n
  <2> HIDE DEF h
  <2>12. FlattenSeq(seqs) = f[n] /\ f[n] \in Seq(S)
    BY <1>1, <1>3, <2>3, <2>10, <2>11
  <2> QED BY <1>1, <2>7, <2>12 DEF T
<1> QED BY <1>2, <1>3

-----------------------------------------------------------------------------
(* The log. *)

Id == Client \X Nat
Endpoints == [ends : {None} \cup SUBSET Id, alive : BOOLEAN]
Ops == [target : Id, node : BOOLEAN, field : {"ends", "alive"},
        value : BOOLEAN \cup {None} \cup SUBSET Id]

\* b was said of id among the first n of s.
Said(s, n, id, b) == \E k \in 1..n : s[k].target = id /\ s[k].field = "alive" /\ s[k].value = b

Announced(l, s, id, b) == Said(l, Len(l), id, b) \/ Said(s, Len(s), id, b)

\* Register of a log l.
Reg(l, n, id, field) ==
    LET ops == {k \in 1..n : l[k].target = id /\ l[k].field = field}
    IN IF ops = {} THEN None ELSE l[CHOOSE k \in ops : \A j \in ops : j <= k].value

LEMMA RegIs ==
  ASSUME NEW l, NEW n \in Nat, NEW id, NEW field
  PROVE  \/ /\ \A k \in 1..n : ~(l[k].target = id /\ l[k].field = field)
            /\ Reg(l, n, id, field) = None
         \/ \E k \in 1..n : /\ l[k].target = id /\ l[k].field = field
                            /\ \A j \in 1..n : l[j].target = id /\ l[j].field = field => j <= k
                            /\ Reg(l, n, id, field) = l[k].value
<1> DEFINE ops == {k \in 1..n : l[k].target = id /\ l[k].field = field}
<1>1. Reg(l, n, id, field) = IF ops = {} THEN None ELSE l[CHOOSE k \in ops : \A j \in ops : j <= k].value
  BY Zenon DEF Reg
<1>2. \A k : k \in ops <=> k \in 1..n /\ l[k].target = id /\ l[k].field = field
  OBVIOUS
<1> HIDE DEF ops
<1>3. CASE ops = {}
  BY <1>1, <1>2, <1>3
<1>4. CASE ops # {}
  <2>1. ops \in SUBSET Nat /\ \A x \in ops : x <= n
    BY <1>2
  <2>2. Max(ops) \in ops /\ \A x \in ops : x <= Max(ops)
    BY <1>4, <2>1, MaxOfBounded
  <2> DEFINE m == CHOOSE k \in ops : \A j \in ops : j <= k
  <2>3. m \in ops /\ \A j \in ops : j <= m
    BY <2>2, Zenon
  <2>4. Reg(l, n, id, field) = l[m].value
    BY <1>1, <1>4
  <2> HIDE DEF m
  <2> QED BY <1>2, <2>3, <2>4
<1> QED BY <1>3, <1>4

\* Only what was said counts.
LEMMA RegSame ==
  ASSUME NEW l, NEW s, NEW n \in Nat, \A k \in 1..n : s[k] = l[k], NEW id, NEW field
  PROVE  Reg(s, n, id, field) = Reg(l, n, id, field)
<1>1. {k \in 1..n : s[k].target = id /\ s[k].field = field}
        = {k \in 1..n : l[k].target = id /\ l[k].field = field}
  OBVIOUS
<1> DEFINE ops == {k \in 1..n : l[k].target = id /\ l[k].field = field}
           m == CHOOSE k \in ops : \A j \in ops : j <= k
<1>2. Reg(l, n, id, field) = IF ops = {} THEN None ELSE l[m].value
  BY Zenon DEF Reg
<1>3. Reg(s, n, id, field) = IF ops = {} THEN None ELSE s[m].value
  <2> DEFINE opt == {k \in 1..n : s[k].target = id /\ s[k].field = field}
  <2>1. Reg(s, n, id, field)
          = IF opt = {} THEN None ELSE s[CHOOSE k \in opt : \A j \in opt : j <= k].value
    BY Zenon DEF Reg
  <2>2. opt = ops
    BY <1>1
  <2> HIDE DEF opt, ops
  <2> QED BY <2>1, <2>2, Zenon
<1>4. ops # {} => m \in ops
  <2>1. ops \in SUBSET Nat /\ \A x \in ops : x <= n
    OBVIOUS
  <2> HIDE DEF ops
  <2>2. ops # {} => Max(ops) \in ops /\ \A x \in ops : x <= Max(ops)
    BY <2>1, MaxOfBounded
  <2> QED BY <2>2, Zenon
<1>5. ops # {} => s[m] = l[m]
  <2>1. ops \subseteq 1..n
    OBVIOUS
  <2> HIDE DEF m, ops
  <2> QED BY <1>4, <2>1
<1> HIDE DEF m, ops
<1> QED BY <1>2, <1>3, <1>5

LEMMA RegisterIs ==
  ASSUME NEW n, NEW id, NEW field
  PROVE  Register(n, id, field) = Reg(log, n, id, field)
BY Zenon DEF Register, Reg

\* A log of booleans whose last word on id is not FALSE, and that has a word,
\* says TRUE.
LEMMA RegTrue ==
  ASSUME NEW l, NEW n \in Nat, NEW id,
         \A k \in 1..n : l[k].field = "alive" => l[k].value \in BOOLEAN,
         NEW b, Said(l, n, id, b), Reg(l, n, id, "alive") # FALSE
  PROVE  Reg(l, n, id, "alive") = TRUE
<1>1. PICK k \in 1..n : l[k].target = id /\ l[k].field = "alive"
  BY DEF Said
<1>2. PICK j \in 1..n : l[j].field = "alive" /\ Reg(l, n, id, "alive") = l[j].value
  BY <1>1, RegIs
<1> QED BY <1>2

\* The last word of a longer log is a later one, or the same.
LEMMA RegLater ==
  ASSUME NEW l, NEW m \in Nat, NEW n \in Nat, m <= n, NEW id, NEW field
  PROVE  \/ Reg(l, n, id, field) = Reg(l, m, id, field)
         \/ \E k \in m+1..n : /\ l[k].target = id /\ l[k].field = field
                              /\ Reg(l, n, id, field) = l[k].value
<1>1. CASE \A k \in 1..n : ~(l[k].target = id /\ l[k].field = field)
  <2>1. \A k \in 1..m : ~(l[k].target = id /\ l[k].field = field)
    BY <1>1
  <2>2. Reg(l, n, id, field) = None
    BY <1>1, RegIs
  <2>3. Reg(l, m, id, field) = None
    BY <2>1, RegIs
  <2> QED BY <2>2, <2>3
<1>2. CASE \E k \in 1..n : l[k].target = id /\ l[k].field = field
  <2>1. PICK k \in 1..n : /\ l[k].target = id /\ l[k].field = field
                          /\ \A j \in 1..n : l[j].target = id /\ l[j].field = field => j <= k
                          /\ Reg(l, n, id, field) = l[k].value
    BY <1>2, RegIs
  <2>2. CASE k > m
    <3>1. k \in m+1..n
      BY <2>2
    <3> QED BY <2>1, <3>1
  <2>3. CASE k <= m
    <3>1. k \in 1..m
      BY <2>3
    <3>2. PICK i \in 1..m : /\ l[i].target = id /\ l[i].field = field
                            /\ \A j \in 1..m : l[j].target = id /\ l[j].field = field => j <= i
                            /\ Reg(l, m, id, field) = l[i].value
      BY <2>1, <3>1, RegIs
    <3>3. k <= i /\ i <= k
      BY <2>1, <3>1, <3>2
    <3>4. i = k
      BY <3>3
    <3> QED BY <2>1, <3>2, <3>4
  <2> QED BY <2>2, <2>3
<1> QED BY <1>1, <1>2

-----------------------------------------------------------------------------
(* Tombstones. *)

LEMMA TombstonesFinite ==
  ASSUME NEW S, NEW s \in Seq(S), NEW id
  PROVE  IsFiniteSet(Tombstones(s, id)) /\ Cardinality(Tombstones(s, id)) \in Nat
<1>1. Len(s) \in Nat /\ Tombstones(s, id) \in SUBSET (1..Len(s))
  BY DEF Tombstones
<1>2. IsFiniteSet(1..Len(s))
  BY <1>1, FS_Interval
<1>3. IsFiniteSet(Tombstones(s, id))
  BY <1>1, <1>2, FS_Subset
<1> QED BY <1>3, FS_CardinalityType

IsTombstone(op, id) == op.target = id /\ op.field = "alive" /\ op.value = FALSE

\* What is put behind a list adds as many as it has.
LEMMA TombstonesAppend ==
  ASSUME NEW S, NEW s \in Seq(S), NEW op \in S, NEW id
  PROVE  Cardinality(Tombstones(Append(s, op), id))
           = Cardinality(Tombstones(s, id)) + IF IsTombstone(op, id) THEN 1 ELSE 0
<1> DEFINE t == Append(s, op)
<1>1. Len(s) \in Nat /\ Len(t) = Len(s) + 1 /\ t[Len(s) + 1] = op
      /\ \A k \in 1..Len(s) : t[k] = s[k]
  OBVIOUS
<1> HIDE DEF t
<1>2. Tombstones(t, id) = Tombstones(s, id) \cup IF IsTombstone(op, id) THEN {Len(s) + 1} ELSE {}
  BY <1>1 DEF Tombstones, IsTombstone
<1>3. Len(s) + 1 \notin Tombstones(s, id)
  BY <1>1 DEF Tombstones
<1>4. IsFiniteSet(Tombstones(s, id)) /\ Cardinality(Tombstones(s, id)) \in Nat
  BY TombstonesFinite
<1>5. Cardinality(Tombstones(s, id) \cup {Len(s) + 1}) = Cardinality(Tombstones(s, id)) + 1
  BY <1>3, <1>4, FS_AddElement
<1>6. Tombstones(s, id) \cup {} = Tombstones(s, id)
  OBVIOUS
<1>7. Cardinality(Tombstones(t, id))
        = Cardinality(Tombstones(s, id)) + IF IsTombstone(op, id) THEN 1 ELSE 0
  <2>1. CASE IsTombstone(op, id)
    <3>1. Tombstones(t, id) = Tombstones(s, id) \cup {Len(s) + 1}
      BY <1>2, <2>1
    <3> QED BY <1>4, <1>5, <2>1, <3>1
  <2>2. CASE ~IsTombstone(op, id)
    <3>1. Tombstones(t, id) = Tombstones(s, id)
      BY <1>2, <1>6, <2>2
    <3> QED BY <1>4, <2>2, <3>1
  <2> QED BY <2>1, <2>2
<1> QED BY <1>7 DEF t

\* A list that begins with a tombstone has one more than its tail.
LEMMA TombstonesTail ==
  ASSUME NEW S, NEW s \in Seq(S), s # << >>, NEW id
  PROVE  Cardinality(Tombstones(Tail(s), id)) + (IF IsTombstone(Head(s), id) THEN 1 ELSE 0)
           <= Cardinality(Tombstones(s, id))
<1> DEFINE t == Tail(s)
           A == Tombstones(t, id)
           B == Tombstones(s, id) \ {1}
           f == [k \in A |-> k + 1]
<1>1. /\ Len(s) \in Nat \ {0} /\ Len(t) = Len(s) - 1 /\ t \in Seq(S) /\ Head(s) = s[1]
      /\ \A k \in 1..Len(s) - 1 : t[k] = s[k + 1]
  OBVIOUS
<1> HIDE DEF t
<1>2. IsFiniteSet(Tombstones(s, id)) /\ Cardinality(Tombstones(s, id)) \in Nat
  BY TombstonesFinite
<1>3. IsFiniteSet(A) /\ Cardinality(A) \in Nat
  BY <1>1, TombstonesFinite
<1>4. /\ IsFiniteSet(B)
      /\ Cardinality(B) = IF 1 \in Tombstones(s, id) THEN Cardinality(Tombstones(s, id)) - 1
                          ELSE Cardinality(Tombstones(s, id))
  BY <1>2, FS_RemoveElement
<1>5. \A k \in A : k \in Nat /\ k + 1 \in B
  BY <1>1 DEF Tombstones
<1>6. f \in Injection(A, B)
  <2>1. f \in [A -> B]
    BY <1>5
  <2>2. \A x, y \in A : f[x] = f[y] => x = y
    BY <1>5
  <2> QED BY <2>1, <2>2 DEF Injection, IsInjective
<1>7. Cardinality(A) <= Cardinality(B)
  <2> HIDE DEF A, B, f
  <2> QED BY <1>4, <1>6, FS_Injection
<1>8. 1 \in Tombstones(s, id) <=> IsTombstone(Head(s), id)
  BY <1>1 DEF Tombstones, IsTombstone
<1> HIDE DEF A, B
<1>9. Cardinality(A) + (IF IsTombstone(Head(s), id) THEN 1 ELSE 0) <= Cardinality(Tombstones(s, id))
  BY <1>2, <1>3, <1>4, <1>7, <1>8
<1> QED BY <1>9 DEF A, t

\* What is put behind a list.
LEMMA TombstonesConcat ==
  ASSUME NEW S, NEW s \in Seq(S), NEW t \in Seq(S), NEW id,
         \A j, k \in 1..Len(t) : IsTombstone(t[j], id) /\ IsTombstone(t[k], id) => j = k
  PROVE  Cardinality(Tombstones(s \o t, id))
           <= Cardinality(Tombstones(s, id)) +
              IF \E k \in 1..Len(t) : IsTombstone(t[k], id) THEN 1 ELSE 0
<1> DEFINE u == s \o t
<1>1. /\ Len(s) \in Nat /\ Len(t) \in Nat /\ Len(u) = Len(s) + Len(t)
      /\ \A k \in 1..Len(s) : u[k] = s[k]
      /\ \A k \in 1..Len(t) : u[Len(s) + k] = t[k]
  OBVIOUS
<1> HIDE DEF u
<1>2. IsFiniteSet(Tombstones(s, id)) /\ Cardinality(Tombstones(s, id)) \in Nat
  BY TombstonesFinite
<1>3. ASSUME NEW k \in Tombstones(u, id)
      PROVE  k \in Tombstones(s, id) \/ \E j \in 1..Len(t) : k = Len(s) + j /\ IsTombstone(t[j], id)
  <2>1. k \in 1..Len(s) + Len(t) /\ IsTombstone(u[k], id)
    BY <1>1 DEF Tombstones, IsTombstone
  <2>2. CASE k <= Len(s)
    <3>1. k \in 1..Len(s)
      BY <1>1, <2>1, <2>2
    <3>2. u[k] = s[k]
      BY <1>1, <3>1
    <3> QED BY <2>1, <3>1, <3>2 DEF Tombstones, IsTombstone
  <2>3. CASE k > Len(s)
    <3>1. k - Len(s) \in 1..Len(t) /\ k = Len(s) + (k - Len(s))
      BY <1>1, <2>1, <2>3
    <3>2. u[k] = t[k - Len(s)]
      BY <1>1, <3>1
    <3> QED BY <2>1, <3>1, <3>2
  <2> QED BY <1>1, <2>1, <2>2, <2>3
<1>4. CASE \E j \in 1..Len(t) : IsTombstone(t[j], id)
  <2>1. PICK j \in 1..Len(t) : IsTombstone(t[j], id)
    BY <1>4
  <2>2. Tombstones(u, id) \in SUBSET (Tombstones(s, id) \cup {Len(s) + j})
    BY <1>3, <2>1
  <2> DEFINE V == Tombstones(s, id) \cup {Len(s) + j}
  <2>3. /\ IsFiniteSet(V)
        /\ Cardinality(V) = IF Len(s) + j \in Tombstones(s, id) THEN Cardinality(Tombstones(s, id))
                            ELSE Cardinality(Tombstones(s, id)) + 1
    BY <1>2, FS_AddElement
  <2> HIDE DEF V
  <2>4. IsFiniteSet(Tombstones(u, id)) /\ Cardinality(Tombstones(u, id)) <= Cardinality(V)
    BY <2>2, <2>3, FS_Subset DEF V
  <2>5. Cardinality(Tombstones(u, id)) \in Nat
    BY <2>4, FS_CardinalityType
  <2>6. Cardinality(Tombstones(u, id)) <= Cardinality(Tombstones(s, id)) + 1
    BY <1>2, <2>3, <2>4, <2>5
  <2> QED BY <1>4, <2>6 DEF u
<1>5. CASE ~\E j \in 1..Len(t) : IsTombstone(t[j], id)
  <2>1. Tombstones(u, id) \in SUBSET Tombstones(s, id)
    BY <1>3, <1>5
  <2>2. IsFiniteSet(Tombstones(u, id)) /\ Cardinality(Tombstones(u, id)) <= Cardinality(Tombstones(s, id))
    BY <1>2, <2>1, FS_Subset
  <2>3. Cardinality(Tombstones(u, id)) \in Nat
    BY <2>2, FS_CardinalityType
  <2> QED BY <1>2, <1>5, <2>2, <2>3 DEF u
<1> QED BY <1>4, <1>5

-----------------------------------------------------------------------------
(* Worlds. *)

World ==
    [presence : MapsOf(Nat, BOOLEAN), endpoints : MapsOf(Nat, Endpoints),
     links : MapsOf(Nat, SUBSET Nat), pending : SUBSET Nat,
     added : SUBSET Nat, changed : SUBSET Nat, removed : SUBSET Nat,
     node_of_entity : MapsOf(Nat, Id), entity_of_node : MapsOf(Id, Nat),
     edge_of_entity : MapsOf(Nat, Id), entity_of_edge : MapsOf(Id, Nat),
     queue : Seq(Ops), applied : Nat, next : Nat]

LEMMA EmptyMapIs ==
  ASSUME NEW S, NEW T
  PROVE  EmptyMap \in MapsOf(S, T) /\ DOMAIN EmptyMap = {}
<1>1. DOMAIN EmptyMap = {} /\ EmptyMap = [x \in DOMAIN EmptyMap |-> EmptyMap[x]]
  BY DEF EmptyMap
<1> QED BY <1>1, MapOf

LEMMA EmptyIsWorld == Empty \in World
<1>1. EmptyMap \in MapsOf(Nat, BOOLEAN) /\ EmptyMap \in MapsOf(Nat, Endpoints)
      /\ EmptyMap \in MapsOf(Nat, SUBSET Nat) /\ EmptyMap \in MapsOf(Nat, Id)
      /\ EmptyMap \in MapsOf(Id, Nat)
  BY EmptyMapIs
<1>2. << >> \in Seq(Ops)
  OBVIOUS
<1> QED BY <1>1, <1>2 DEF Empty, World

\* What the fields of a world are.
LEMMA WorldIs ==
  ASSUME NEW w \in World
  PROVE  /\ w.presence = [e \in DOMAIN w.presence |-> w.presence[e]]
         /\ DOMAIN w.presence \in SUBSET Nat
         /\ \A e \in DOMAIN w.presence : w.presence[e] \in BOOLEAN
         /\ w.endpoints = [e \in DOMAIN w.endpoints |-> w.endpoints[e]]
         /\ DOMAIN w.endpoints \in SUBSET Nat
         /\ \A e \in DOMAIN w.endpoints : w.endpoints[e] \in Endpoints
         /\ w.links = [e \in DOMAIN w.links |-> w.links[e]]
         /\ DOMAIN w.links \in SUBSET Nat
         /\ \A e \in DOMAIN w.links : w.links[e] \in SUBSET Nat
<1>1. w.presence \in MapsOf(Nat, BOOLEAN) /\ w.endpoints \in MapsOf(Nat, Endpoints)
      /\ w.links \in MapsOf(Nat, SUBSET Nat)
  BY DEF World
<1>2. /\ w.presence = [e \in DOMAIN w.presence |-> w.presence[e]]
      /\ DOMAIN w.presence \in SUBSET Nat
      /\ \A e \in DOMAIN w.presence : w.presence[e] \in BOOLEAN
  BY <1>1, MapIs
<1>3. /\ w.endpoints = [e \in DOMAIN w.endpoints |-> w.endpoints[e]]
      /\ DOMAIN w.endpoints \in SUBSET Nat
      /\ \A e \in DOMAIN w.endpoints : w.endpoints[e] \in Endpoints
  BY <1>1, MapIs
<1>4. /\ w.links = [e \in DOMAIN w.links |-> w.links[e]]
      /\ DOMAIN w.links \in SUBSET Nat
      /\ \A e \in DOMAIN w.links : w.links[e] \in SUBSET Nat
  BY <1>1, MapIs
<1> QED BY <1>2, <1>3, <1>4

LEMMA IndexIs ==
  ASSUME NEW w \in World
  PROVE  /\ w.node_of_entity \in MapsOf(Nat, Id) /\ w.edge_of_entity \in MapsOf(Nat, Id)
         /\ w.entity_of_node \in MapsOf(Id, Nat) /\ w.entity_of_edge \in MapsOf(Id, Nat)
         /\ DOMAIN w.node_of_entity \in SUBSET Nat /\ DOMAIN w.edge_of_entity \in SUBSET Nat
         /\ \A e \in DOMAIN w.node_of_entity : w.node_of_entity[e] \in Id
         /\ \A e \in DOMAIN w.edge_of_entity : w.edge_of_entity[e] \in Id
         /\ DOMAIN w.entity_of_node \in SUBSET Id /\ DOMAIN w.entity_of_edge \in SUBSET Id
<1>1. /\ w.node_of_entity \in MapsOf(Nat, Id) /\ w.edge_of_entity \in MapsOf(Nat, Id)
      /\ w.entity_of_node \in MapsOf(Id, Nat) /\ w.entity_of_edge \in MapsOf(Id, Nat)
  BY DEF World
<1>2. DOMAIN w.node_of_entity \in SUBSET Nat /\ \A e \in DOMAIN w.node_of_entity : w.node_of_entity[e] \in Id
  BY <1>1, MapIs
<1>3. DOMAIN w.edge_of_entity \in SUBSET Nat /\ \A e \in DOMAIN w.edge_of_entity : w.edge_of_entity[e] \in Id
  BY <1>1, MapIs
<1>4. DOMAIN w.entity_of_node \in SUBSET Id
  BY <1>1, MapIs
<1>5. DOMAIN w.entity_of_edge \in SUBSET Id
  BY <1>1, MapIs
<1> QED BY <1>1, <1>2, <1>3, <1>4, <1>5

\* A number for a new entity.
LEMMA UnusedIs ==
  ASSUME NEW w, IsFiniteSet(Named(w))
  PROVE  Unused(w) \in Nat /\ Unused(w) \notin Named(w)
<1> DEFINE n == Cardinality(Named(w))
<1>1. n \in Nat
  BY FS_CardinalityType
<1>2. \E e \in 0..n : e \notin Named(w)
  <2>1. SUFFICES ASSUME 0..n \in SUBSET Named(w) PROVE FALSE
    OBVIOUS
  <2>2. Cardinality(0..n) <= n
    BY <2>1, FS_Subset
  <2>3. Cardinality(0..n) = n + 1
    BY <1>1, FS_Interval
  <2> HIDE DEF n
  <2> QED BY <1>1, <2>2, <2>3
<1>3. Unused(w) \in 0..n /\ Unused(w) \notin Named(w)
  <2> HIDE DEF n
  <2>1. Unused(w) = CHOOSE e \in 0..n : e \notin Named(w)
    BY Zenon DEF Unused, n
  <2> QED BY <1>2, <2>1, Zenon
<1> HIDE DEF n
<1> QED BY <1>1, <1>3

LEMMA PutIs ==
  ASSUME NEW f, NEW k, NEW v
  PROVE  /\ DOMAIN Put(f, k, v) = DOMAIN f \cup {k}
         /\ Put(f, k, v)[k] = v /\ \A x \in DOMAIN f \ {k} : Put(f, k, v)[x] = f[x]
BY DEF Put

LEMMA PutMap ==
  ASSUME NEW S, NEW T, NEW f \in MapsOf(S, T), NEW k \in S, NEW v \in T
  PROVE  /\ Put(f, k, v) \in MapsOf(S, T)
         /\ DOMAIN Put(f, k, v) = DOMAIN f \cup {k}
         /\ Put(f, k, v)[k] = v /\ \A x \in DOMAIN f \ {k} : Put(f, k, v)[x] = f[x]
<1> DEFINE h == Put(f, k, v)
<1>1. h = [x \in DOMAIN h |-> h[x]] /\ DOMAIN h = DOMAIN f \cup {k}
      /\ h[k] = v /\ \A x \in DOMAIN f \ {k} : h[x] = f[x]
  BY DEF Put
<1> HIDE DEF h
<1>2. DOMAIN f \in SUBSET S /\ \A x \in DOMAIN f : f[x] \in T
  BY MapIs
<1>3. DOMAIN h \in SUBSET S /\ \A x \in DOMAIN h : h[x] \in T
  BY <1>1, <1>2
<1>4. h \in MapsOf(S, T)
  BY <1>1, <1>3, MapOf
<1> QED BY <1>1, <1>4 DEF h

\* An entity of its own for one id.
LEMMA One ==
  ASSUME NEW S, NEW T, NEW e \in S, NEW id \in T, NEW ids, ids = [x \in {e} |-> id]
  PROVE  /\ ids \in MapsOf(S, T) /\ AntiFunction(ids) \in MapsOf(T, S)
         /\ Injective(ids) /\ DOMAIN ids = {e} /\ Range(ids) = {id} /\ ids[e] = id
<1> DEFINE b == AntiFunction(ids)
<1>1. Injective(ids) /\ DOMAIN ids = {e} /\ Range(ids) = {id} /\ ids[e] = id
  BY DEF Injective, Range
<1>2. ids = [x \in DOMAIN ids |-> ids[x]]
  OBVIOUS
<1>3. DOMAIN ids \in SUBSET S /\ \A x \in DOMAIN ids : ids[x] \in T
  BY <1>1
<1>4. ids \in MapsOf(S, T)
  BY <1>2, <1>3, MapOf
<1>5. DOMAIN b = {id} /\ b[id] = e /\ b = [x \in DOMAIN b |-> b[x]]
  BY <1>1, AntiFunctionIs
<1> HIDE DEF b
<1>6. DOMAIN b \in SUBSET T /\ \A x \in DOMAIN b : b[x] \in S
  BY <1>5
<1>7. b \in MapsOf(T, S)
  BY <1>5, <1>6, MapOf
<1> QED BY <1>1, <1>4, <1>7 DEF b

-----------------------------------------------------------------------------
(* The shape of a world. *)

\* Nodes are not edges, and an index knows what lives or was removed.
Apart(w) ==
    /\ DOMAIN w.presence \cap DOMAIN w.endpoints = {}
    /\ DOMAIN w.links = DOMAIN w.endpoints
    /\ w.added \subseteq w.changed /\ w.changed \subseteq Entities(w)
    /\ w.removed \cap Entities(w) = {}
    /\ DOMAIN w.node_of_entity \subseteq DOMAIN w.presence \cup w.removed
    /\ DOMAIN w.edge_of_entity \subseteq DOMAIN w.endpoints \cup w.removed
    /\ DOMAIN w.node_of_entity \cap DOMAIN w.edge_of_entity = {}
    /\ DOMAIN w.entity_of_node \cap DOMAIN w.entity_of_edge = {}

Linked(w) ==
    \A e \in DOMAIN w.links :
      /\ IsFiniteSet(w.links[e]) /\ Cardinality(w.links[e]) <= 2
      /\ w.links[e] \subseteq DOMAIN w.presence

\* What lives is bound, or new, or an edge that lost an end.
Known(w) ==
    /\ \A e \in DOMAIN w.presence : e \in DOMAIN w.node_of_entity \/ e \in w.added
    /\ \A e \in DOMAIN w.endpoints : \/ e \in DOMAIN w.edge_of_entity \/ e \in w.added
                                     \/ Cardinality(w.links[e]) < 2

\* Between frames a client has none but its own entities.
Own(c, w) ==
    /\ \A id \in DOMAIN w.entity_of_node \cup DOMAIN w.entity_of_edge :
         id[1] = c /\ id[2] < w.next
    /\ w.pending = {} /\ w.queue = << >>

Sane(c, w) ==
    /\ w \in World /\ IsFiniteSet(Named(w))
    /\ Mirrored(w.node_of_entity, w.entity_of_node)
    /\ Mirrored(w.edge_of_entity, w.entity_of_edge)
    /\ Apart(w) /\ Linked(w) /\ Known(w) /\ Own(c, w)

-----------------------------------------------------------------------------
(* graph_inbound_system: x is w with placeholders. *)

NewNodes(w, x) == DOMAIN x.presence \ DOMAIN w.presence
NewEdges(w, x) == DOMAIN x.endpoints \ DOMAIN w.endpoints

GrewEntities(w, x) ==
    /\ x.removed = w.removed /\ x.queue = w.queue /\ x.next = w.next
    /\ \A e \in DOMAIN w.presence : e \in DOMAIN x.presence /\ x.presence[e] = w.presence[e]
    /\ \A e \in DOMAIN w.endpoints : /\ e \in DOMAIN x.endpoints /\ x.endpoints[e] = w.endpoints[e]
                                     /\ x.links[e] = w.links[e]
    /\ \A e \in NewNodes(w, x) : ~x.presence[e] /\ e \notin Named(w)
    /\ \A e \in NewEdges(w, x) : ~x.endpoints[e].alive /\ x.links[e] = {} /\ e \notin Named(w)
    /\ DOMAIN x.links = DOMAIN x.endpoints
    /\ DOMAIN x.presence \cap DOMAIN x.endpoints = {}
    /\ x.added = w.added \cup NewNodes(w, x) \cup NewEdges(w, x)
    /\ x.changed = w.changed \cup NewNodes(w, x) \cup NewEdges(w, x)
    /\ x.pending \subseteq NewEdges(w, x)

GrewIndex(c, w, x) ==
    /\ DOMAIN x.node_of_entity = DOMAIN w.node_of_entity \cup NewNodes(w, x)
    /\ \A e \in DOMAIN w.node_of_entity : x.node_of_entity[e] = w.node_of_entity[e]
    /\ DOMAIN x.edge_of_entity = DOMAIN w.edge_of_entity \cup NewEdges(w, x)
    /\ \A e \in DOMAIN w.edge_of_entity : x.edge_of_entity[e] = w.edge_of_entity[e]
    /\ Mirrored(x.node_of_entity, x.entity_of_node)
    /\ Mirrored(x.edge_of_entity, x.entity_of_edge)
    /\ \A id \in DOMAIN x.entity_of_node \cup DOMAIN x.entity_of_edge : id[1] = c => id[2] < w.next

Grew(c, w, x) ==
    /\ x \in World /\ IsFiniteSet(Named(x)) /\ x.applied = w.applied
    /\ GrewEntities(w, x) /\ GrewIndex(c, w, x)

LEMMA GrewNone ==
  ASSUME NEW c, NEW w, Sane(c, w)
  PROVE  Grew(c, w, w)
BY DEF Grew, GrewEntities, GrewIndex, NewNodes, NewEdges, Sane, Apart, Own

\* y is x with a placeholder node, or edge.
NodePlaced(x, e, ids, y) ==
    /\ y \in World
    /\ y.presence = Put(x.presence, e, FALSE)
    /\ y.added = x.added \cup {e} /\ y.changed = x.changed \cup {e}
    /\ y.node_of_entity = PutAll(x.node_of_entity, ids)
    /\ y.entity_of_node = PutAll(x.entity_of_node, AntiFunction(ids))
    /\ y.endpoints = x.endpoints /\ y.links = x.links /\ y.pending = x.pending
    /\ y.removed = x.removed /\ y.edge_of_entity = x.edge_of_entity
    /\ y.entity_of_edge = x.entity_of_edge /\ y.queue = x.queue
    /\ y.applied = x.applied /\ y.next = x.next

EdgePlaced(x, e, ids, y) ==
    /\ y \in World
    /\ y.endpoints = Put(x.endpoints, e, NoEndpoints) /\ y.links = Put(x.links, e, {})
    /\ y.added = x.added \cup {e} /\ y.changed = x.changed \cup {e}
    /\ y.pending = x.pending \cup {e}
    /\ y.edge_of_entity = PutAll(x.edge_of_entity, ids)
    /\ y.entity_of_edge = PutAll(x.entity_of_edge, AntiFunction(ids))
    /\ y.presence = x.presence
    /\ y.removed = x.removed /\ y.node_of_entity = x.node_of_entity
    /\ y.entity_of_node = x.entity_of_node /\ y.queue = x.queue
    /\ y.applied = x.applied /\ y.next = x.next

LEMMA NodePlaceholder ==
  ASSUME NEW x \in World, NEW e \in Nat, e = Unused(x), NEW id \in Id
  PROVE  NodePlaced(x, e, [z \in {e} |-> id], Placeholder(x, id, TRUE))
<1> DEFINE y == Placeholder(x, id, TRUE)
           ids == [z \in {e} |-> id]
           p == Put(x.presence, e, FALSE)
           f == PutAll(x.node_of_entity, ids)
           g == PutAll(x.entity_of_node, AntiFunction(ids))
           s == Spawn(x, e, TRUE)
<1>1. x.presence \in MapsOf(Nat, BOOLEAN)
  BY DEF World
<1>2. p \in MapsOf(Nat, BOOLEAN)
  BY <1>1, PutMap
<1>4. s = [x EXCEPT !.presence = p, !.added = x.added \cup {e}, !.changed = x.changed \cup {e}]
  BY DEF Spawn
<1>5. y = [s EXCEPT !.node_of_entity = PutAll(s.node_of_entity, ids),
                    !.entity_of_node = PutAll(s.entity_of_node, AntiFunction(ids))]
  BY Zenon DEF Placeholder, Bind
<1>0. ids = [z \in {e} |-> id]
  OBVIOUS
<1> HIDE DEF ids, y
<1>3. f \in MapsOf(Nat, Id) /\ g \in MapsOf(Id, Nat)
  <2>1. ids \in MapsOf(Nat, Id) /\ AntiFunction(ids) \in MapsOf(Id, Nat)
    BY <1>0, One
  <2>2. /\ x.node_of_entity \in MapsOf(Nat, Id) /\ x.edge_of_entity \in MapsOf(Nat, Id)
        /\ x.entity_of_node \in MapsOf(Id, Nat) /\ x.entity_of_edge \in MapsOf(Id, Nat)
    BY IndexIs
  <2>3. f \in MapsOf(Nat, Id)
    BY <2>1, <2>2, PutAllMap
  <2>4. g \in MapsOf(Id, Nat)
    BY <2>1, <2>2, PutAllMap
  <2> QED BY <2>3, <2>4
<1> HIDE DEF s, p
<1>6. s.node_of_entity = x.node_of_entity /\ s.entity_of_node = x.entity_of_node
  BY <1>4 DEF World
<1>7. y = [s EXCEPT !.node_of_entity = f, !.entity_of_node = g]
  BY <1>5, <1>6
<1> HIDE DEF f, g
<1>8. /\ y \in World
      /\ y.presence = p
      /\ y.added = x.added \cup {e} /\ y.changed = x.changed \cup {e}
      /\ y.node_of_entity = f
      /\ y.entity_of_node = g
      /\ y.endpoints = x.endpoints /\ y.links = x.links /\ y.pending = x.pending
      /\ y.removed = x.removed /\ y.edge_of_entity = x.edge_of_entity
      /\ y.entity_of_edge = x.entity_of_edge /\ y.queue = x.queue
      /\ y.applied = x.applied /\ y.next = x.next
  BY <1>2, <1>3, <1>4, <1>7 DEF World
<1>9. NodePlaced(x, e, ids, y)
  BY <1>8 DEF NodePlaced, f, g, p
<1> QED BY <1>9 DEF y, ids

LEMMA EdgePlaceholder ==
  ASSUME NEW x \in World, NEW e \in Nat, e = Unused(x), NEW id \in Id
  PROVE  EdgePlaced(x, e, [z \in {e} |-> id], Placeholder(x, id, FALSE))
<1> DEFINE y == Placeholder(x, id, FALSE)
           ids == [z \in {e} |-> id]
           p == Put(x.endpoints, e, NoEndpoints)
           q == Put(x.links, e, {})
           f == PutAll(x.edge_of_entity, ids)
           g == PutAll(x.entity_of_edge, AntiFunction(ids))
           s == Spawn(x, e, FALSE)
           u == Bind(s, ids, FALSE)
<1>1. x.endpoints \in MapsOf(Nat, Endpoints) /\ x.links \in MapsOf(Nat, SUBSET Nat)
      /\ NoEndpoints \in Endpoints
  BY DEF World, NoEndpoints, Endpoints
<1>2. p \in MapsOf(Nat, Endpoints) /\ q \in MapsOf(Nat, SUBSET Nat)
  BY <1>1, PutMap
<1>4. s = [x EXCEPT !.endpoints = p, !.links = q, !.added = x.added \cup {e},
                    !.changed = x.changed \cup {e}]
  BY DEF Spawn
<1>5. u = [s EXCEPT !.edge_of_entity = PutAll(s.edge_of_entity, ids),
                    !.entity_of_edge = PutAll(s.entity_of_edge, AntiFunction(ids))]
  BY DEF Bind
<1>6. y = [u EXCEPT !.pending = u.pending \cup {e}]
  BY DEF Placeholder
<1>0. ids = [z \in {e} |-> id]
  OBVIOUS
<1> HIDE DEF ids, u, y
<1>3. f \in MapsOf(Nat, Id) /\ g \in MapsOf(Id, Nat)
  <2>1. ids \in MapsOf(Nat, Id) /\ AntiFunction(ids) \in MapsOf(Id, Nat)
    BY <1>0, One
  <2>2. /\ x.node_of_entity \in MapsOf(Nat, Id) /\ x.edge_of_entity \in MapsOf(Nat, Id)
        /\ x.entity_of_node \in MapsOf(Id, Nat) /\ x.entity_of_edge \in MapsOf(Id, Nat)
    BY IndexIs
  <2>3. f \in MapsOf(Nat, Id)
    BY <2>1, <2>2, PutAllMap
  <2>4. g \in MapsOf(Id, Nat)
    BY <2>1, <2>2, PutAllMap
  <2> QED BY <2>3, <2>4
<1> HIDE DEF s, p, q
<1>7. s.edge_of_entity = x.edge_of_entity /\ s.entity_of_edge = x.entity_of_edge
  BY <1>4 DEF World
<1>8. u = [s EXCEPT !.edge_of_entity = f, !.entity_of_edge = g]
  BY <1>5, <1>7
<1> HIDE DEF f, g
<1>80. /\ s \in World /\ s.endpoints = p /\ s.links = q
       /\ s.added = x.added \cup {e} /\ s.changed = x.changed \cup {e}
       /\ s.pending = x.pending /\ s.presence = x.presence
       /\ s.removed = x.removed /\ s.node_of_entity = x.node_of_entity
       /\ s.entity_of_node = x.entity_of_node /\ s.queue = x.queue
       /\ s.applied = x.applied /\ s.next = x.next
  BY <1>2, <1>4 DEF World
<1>81. /\ u \in World /\ u.edge_of_entity = f /\ u.entity_of_edge = g
       /\ u.endpoints = s.endpoints /\ u.links = s.links
       /\ u.added = s.added /\ u.changed = s.changed
       /\ u.pending = s.pending /\ u.presence = s.presence
       /\ u.removed = s.removed /\ u.node_of_entity = s.node_of_entity
       /\ u.entity_of_node = s.entity_of_node /\ u.queue = s.queue
       /\ u.applied = s.applied /\ u.next = s.next
  BY <1>3, <1>8, <1>80 DEF World
<1>82. /\ y \in World /\ y.pending = u.pending \cup {e}
       /\ y.edge_of_entity = u.edge_of_entity /\ y.entity_of_edge = u.entity_of_edge
       /\ y.endpoints = u.endpoints /\ y.links = u.links
       /\ y.added = u.added /\ y.changed = u.changed /\ y.presence = u.presence
       /\ y.removed = u.removed /\ y.node_of_entity = u.node_of_entity
       /\ y.entity_of_node = u.entity_of_node /\ y.queue = u.queue
       /\ y.applied = u.applied /\ y.next = u.next
  BY <1>6, <1>81 DEF World
<1>9. /\ y \in World
      /\ y.endpoints = p /\ y.links = q
      /\ y.added = x.added \cup {e} /\ y.changed = x.changed \cup {e}
      /\ y.pending = x.pending \cup {e}
      /\ y.edge_of_entity = f
      /\ y.entity_of_edge = g
      /\ y.presence = x.presence
      /\ y.removed = x.removed /\ y.node_of_entity = x.node_of_entity
      /\ y.entity_of_node = x.entity_of_node /\ y.queue = x.queue
      /\ y.applied = x.applied /\ y.next = x.next
  BY <1>80, <1>81, <1>82
<1>10. EdgePlaced(x, e, ids, y)
  BY <1>9 DEF EdgePlaced, f, g, p, q
<1> QED BY <1>10 DEF y, ids

LEMMA NamedIs ==
  ASSUME NEW x, NEW y, NEW e, IsFiniteSet(Named(x)), Named(y) \subseteq Named(x) \cup {e}
  PROVE  IsFiniteSet(Named(y))
<1>1. IsFiniteSet(Named(x) \cup {e})
  BY FS_AddElement
<1> QED BY <1>1, FS_Subset

LEMMA GrowsByNode ==
  ASSUME NEW c, NEW w, Sane(c, w), NEW x, Grew(c, w, x), NEW id \in Id,
         id[1] = c => id[2] < w.next, id \notin DOMAIN x.entity_of_node
  PROVE  Grew(c, w, Placeholder(x, id, TRUE))
<1> DEFINE e == Unused(x)
           y == Placeholder(x, id, TRUE)
           ids == [z \in {e} |-> id]
<1>1. x \in World /\ IsFiniteSet(Named(x)) /\ GrewEntities(w, x) /\ GrewIndex(c, w, x)
  BY DEF Grew
<1>2. e \in Nat /\ e \notin Named(x)
  BY <1>1, UnusedIs
<1>20. ids = [z \in {e} |-> id] /\ e = Unused(x)
  OBVIOUS
<1>21. y = Placeholder(x, id, TRUE)
  OBVIOUS
<1> HIDE DEF e, ids, y
<1>3. x.presence \in MapsOf(Nat, BOOLEAN)
  BY <1>1 DEF World
<1>4. /\ DOMAIN Put(x.presence, e, FALSE) = DOMAIN x.presence \cup {e}
      /\ Put(x.presence, e, FALSE)[e] = FALSE
      /\ \A z \in DOMAIN x.presence \ {e} : Put(x.presence, e, FALSE)[z] = x.presence[z]
  BY DEF Put
<1>5. Injective(ids) /\ DOMAIN ids = {e} /\ Range(ids) = {id} /\ ids[e] = id
  BY <1>2, <1>20, One
<1>60. NodePlaced(x, e, ids, y)
  BY <1>1, <1>2, <1>20, <1>21, NodePlaceholder, Zenon
<1>6. /\ y \in World
      /\ y.presence = Put(x.presence, e, FALSE)
      /\ y.added = x.added \cup {e} /\ y.changed = x.changed \cup {e}
      /\ y.node_of_entity = PutAll(x.node_of_entity, ids)
      /\ y.entity_of_node = PutAll(x.entity_of_node, AntiFunction(ids))
      /\ y.endpoints = x.endpoints /\ y.links = x.links /\ y.pending = x.pending
      /\ y.removed = x.removed /\ y.edge_of_entity = x.edge_of_entity
      /\ y.entity_of_edge = x.entity_of_edge /\ y.queue = x.queue
      /\ y.applied = x.applied /\ y.next = x.next
  BY <1>60 DEF NodePlaced
<1>7. /\ DOMAIN y.presence = DOMAIN x.presence \cup {e} /\ ~y.presence[e]
      /\ \A z \in DOMAIN x.presence : y.presence[z] = x.presence[z]
  BY <1>2, <1>4, <1>6 DEF Named, Entities
<1>8. /\ DOMAIN y.node_of_entity = DOMAIN x.node_of_entity \cup {e}
      /\ \A z \in DOMAIN x.node_of_entity : y.node_of_entity[z] = x.node_of_entity[z]
      /\ DOMAIN y.entity_of_node = DOMAIN x.entity_of_node \cup {id}
      /\ Mirrored(y.node_of_entity, y.entity_of_node)
  <2>1. DOMAIN ids \cap DOMAIN x.node_of_entity = {} /\ Range(ids) \cap DOMAIN x.entity_of_node = {}
    BY <1>2, <1>5 DEF Named
  <2>2. Mirrored(x.node_of_entity, x.entity_of_node)
    BY <1>1 DEF GrewIndex
  <2>3. /\ y.node_of_entity = PutAll(x.node_of_entity, ids)
        /\ y.entity_of_node = PutAll(x.entity_of_node, AntiFunction(ids))
    BY <1>6
  <2>4. Extends(x.node_of_entity, x.entity_of_node, ids, y.node_of_entity, y.entity_of_node)
    BY <1>5, <2>1, <2>2, <2>3, BindMirrors, Zenon
  <2> QED BY <1>5, <2>4 DEF Extends
<1>11. e \notin Named(w) /\ e \notin DOMAIN x.endpoints /\ e \notin DOMAIN x.presence
  BY <1>1, <1>2 DEF Named, Entities, GrewEntities, GrewIndex
<1>12. NewNodes(w, y) = NewNodes(w, x) \cup {e} /\ NewEdges(w, y) = NewEdges(w, x)
  BY <1>6, <1>7, <1>11 DEF NewNodes, NewEdges, Named, Entities
<1>13. IsFiniteSet(Named(y))
  <2>1. Named(y) \subseteq Named(x) \cup {e}
    BY <1>6, <1>7, <1>8 DEF Named, Entities
  <2> QED BY <1>1, <2>1, NamedIs
<1>14. GrewEntities(w, y)
  <2>1. \A z \in DOMAIN w.presence : z \in DOMAIN y.presence /\ y.presence[z] = w.presence[z]
    BY <1>1, <1>7 DEF GrewEntities
  <2>2. \A z \in NewNodes(w, y) : ~y.presence[z] /\ z \notin Named(w)
    BY <1>1, <1>7, <1>11, <1>12 DEF GrewEntities, NewNodes
  <2>3. DOMAIN y.presence \cap DOMAIN y.endpoints = {}
    BY <1>1, <1>6, <1>7, <1>11 DEF GrewEntities
  <2>4. /\ y.added = w.added \cup NewNodes(w, y) \cup NewEdges(w, y)
        /\ y.changed = w.changed \cup NewNodes(w, y) \cup NewEdges(w, y)
    BY <1>1, <1>6, <1>12 DEF GrewEntities
  <2> QED BY <1>1, <1>6, <1>12, <2>1, <2>2, <2>3, <2>4, ZenonT(40) DEF GrewEntities
<1>15. GrewIndex(c, w, y)
  BY <1>1, <1>6, <1>8, <1>12 DEF GrewIndex
<1>16. Grew(c, w, y)
  BY <1>6, <1>13, <1>14, <1>15 DEF Grew
<1> QED BY <1>16 DEF y

LEMMA GrowsByEdge ==
  ASSUME NEW c, NEW w, Sane(c, w), NEW x, Grew(c, w, x), NEW id \in Id,
         id[1] = c => id[2] < w.next, id \notin DOMAIN x.entity_of_edge
  PROVE  Grew(c, w, Placeholder(x, id, FALSE))
<1> DEFINE e == Unused(x)
           y == Placeholder(x, id, FALSE)
           ids == [z \in {e} |-> id]
<1>1. x \in World /\ IsFiniteSet(Named(x)) /\ GrewEntities(w, x) /\ GrewIndex(c, w, x)
  BY DEF Grew
<1>2. e \in Nat /\ e \notin Named(x)
  BY <1>1, UnusedIs
<1>20. ids = [z \in {e} |-> id] /\ e = Unused(x)
  OBVIOUS
<1>21. y = Placeholder(x, id, FALSE)
  OBVIOUS
<1> HIDE DEF e, ids, y
<1>3. x.endpoints \in MapsOf(Nat, Endpoints) /\ x.links \in MapsOf(Nat, SUBSET Nat)
      /\ NoEndpoints \in Endpoints /\ NoEndpoints.alive = FALSE
  BY <1>1 DEF World, NoEndpoints, Endpoints
<1>4. /\ DOMAIN Put(x.endpoints, e, NoEndpoints) = DOMAIN x.endpoints \cup {e}
      /\ Put(x.endpoints, e, NoEndpoints)[e] = NoEndpoints
      /\ \A z \in DOMAIN x.endpoints \ {e} : Put(x.endpoints, e, NoEndpoints)[z] = x.endpoints[z]
  BY DEF Put
<1>41. /\ DOMAIN Put(x.links, e, {}) = DOMAIN x.links \cup {e}
       /\ Put(x.links, e, {})[e] = {}
       /\ \A z \in DOMAIN x.links \ {e} : Put(x.links, e, {})[z] = x.links[z]
  BY DEF Put
<1>5. Injective(ids) /\ DOMAIN ids = {e} /\ Range(ids) = {id} /\ ids[e] = id
  BY <1>2, <1>20, One
<1>60. EdgePlaced(x, e, ids, y)
  BY <1>1, <1>2, <1>20, <1>21, EdgePlaceholder, Zenon
<1>6. /\ y \in World
      /\ y.endpoints = Put(x.endpoints, e, NoEndpoints) /\ y.links = Put(x.links, e, {})
      /\ y.added = x.added \cup {e} /\ y.changed = x.changed \cup {e}
      /\ y.pending = x.pending \cup {e}
      /\ y.edge_of_entity = PutAll(x.edge_of_entity, ids)
      /\ y.entity_of_edge = PutAll(x.entity_of_edge, AntiFunction(ids))
      /\ y.presence = x.presence
      /\ y.removed = x.removed /\ y.node_of_entity = x.node_of_entity
      /\ y.entity_of_node = x.entity_of_node /\ y.queue = x.queue
      /\ y.applied = x.applied /\ y.next = x.next
  BY <1>60 DEF EdgePlaced
<1>7. /\ DOMAIN y.endpoints = DOMAIN x.endpoints \cup {e} /\ ~y.endpoints[e].alive
      /\ \A z \in DOMAIN x.endpoints : y.endpoints[z] = x.endpoints[z]
  BY <1>2, <1>3, <1>4, <1>6 DEF Named, Entities
<1>71. /\ DOMAIN y.links = DOMAIN x.links \cup {e} /\ y.links[e] = {}
       /\ \A z \in DOMAIN x.endpoints : y.links[z] = x.links[z]
  BY <1>1, <1>2, <1>41, <1>6 DEF Named, Entities, GrewEntities
<1>8. /\ DOMAIN y.edge_of_entity = DOMAIN x.edge_of_entity \cup {e}
      /\ \A z \in DOMAIN x.edge_of_entity : y.edge_of_entity[z] = x.edge_of_entity[z]
      /\ DOMAIN y.entity_of_edge = DOMAIN x.entity_of_edge \cup {id}
      /\ Mirrored(y.edge_of_entity, y.entity_of_edge)
  <2>1. DOMAIN ids \cap DOMAIN x.edge_of_entity = {} /\ Range(ids) \cap DOMAIN x.entity_of_edge = {}
    BY <1>2, <1>5 DEF Named
  <2>2. Mirrored(x.edge_of_entity, x.entity_of_edge)
    BY <1>1 DEF GrewIndex
  <2>3. /\ y.edge_of_entity = PutAll(x.edge_of_entity, ids)
        /\ y.entity_of_edge = PutAll(x.entity_of_edge, AntiFunction(ids))
    BY <1>6
  <2>4. Extends(x.edge_of_entity, x.entity_of_edge, ids, y.edge_of_entity, y.entity_of_edge)
    BY <1>5, <2>1, <2>2, <2>3, BindMirrors, Zenon
  <2> QED BY <1>5, <2>4 DEF Extends
<1>11. e \notin Named(w) /\ e \notin DOMAIN x.endpoints /\ e \notin DOMAIN x.presence
  BY <1>1, <1>2 DEF Named, Entities, GrewEntities, GrewIndex
<1>12. NewNodes(w, y) = NewNodes(w, x) /\ NewEdges(w, y) = NewEdges(w, x) \cup {e}
  BY <1>6, <1>7, <1>11 DEF NewNodes, NewEdges, Named, Entities
<1>13. IsFiniteSet(Named(y))
  <2>1. Named(y) \subseteq Named(x) \cup {e}
    BY <1>6, <1>7, <1>8 DEF Named, Entities
  <2> QED BY <1>1, <2>1, NamedIs
<1>14. GrewEntities(w, y)
  <2>1. \A z \in DOMAIN w.endpoints : /\ z \in DOMAIN y.endpoints /\ y.endpoints[z] = w.endpoints[z]
                                      /\ y.links[z] = w.links[z]
    BY <1>1, <1>7, <1>71 DEF GrewEntities
  <2>2. \A z \in NewEdges(w, y) : ~y.endpoints[z].alive /\ y.links[z] = {} /\ z \notin Named(w)
    BY <1>1, <1>7, <1>71, <1>11, <1>12 DEF GrewEntities, NewEdges
  <2>3. DOMAIN y.links = DOMAIN y.endpoints /\ DOMAIN y.presence \cap DOMAIN y.endpoints = {}
    BY <1>1, <1>6, <1>7, <1>71, <1>11 DEF GrewEntities
  <2> QED BY <1>1, <1>6, <1>12, <2>1, <2>2, <2>3 DEF GrewEntities
<1>15. GrewIndex(c, w, y)
  BY <1>1, <1>6, <1>8, <1>12 DEF GrewIndex
<1>16. Grew(c, w, y)
  BY <1>6, <1>13, <1>14, <1>15 DEF Grew
<1> QED BY <1>16 DEF y

\* An op of an id that was given, if it is c's.
Given(c, w, op) == op \in Ops /\ (op.target[1] = c => op.target[2] < w.next)

LEMMA EnsureGrows ==
  ASSUME NEW c, NEW w, Sane(c, w), NEW x, Grew(c, w, x), NEW op, Given(c, w, op)
  PROVE  Grew(c, w, ensure_inbound_entity(x, op))
<1>1. op.target \in Id /\ op.node \in BOOLEAN /\ (op.target[1] = c => op.target[2] < w.next)
  BY DEF Given, Ops
<1>2. CASE op.node
  <2>1. op.node = TRUE
    BY <1>1, <1>2
  <2>2. CASE op.target \in DOMAIN x.entity_of_node
    BY <2>1, <2>2 DEF ensure_inbound_entity
  <2>3. CASE op.target \notin DOMAIN x.entity_of_node
    <3>1. Grew(c, w, Placeholder(x, op.target, TRUE))
      BY <1>1, <2>3, GrowsByNode
    <3>2. ensure_inbound_entity(x, op) = Placeholder(x, op.target, TRUE)
      BY <2>1, <2>3, Zenon DEF ensure_inbound_entity
    <3> QED BY <3>1, <3>2
  <2> QED BY <2>2, <2>3
<1>3. CASE ~op.node
  <2>1. op.node = FALSE
    BY <1>1, <1>3
  <2>2. CASE op.target \in DOMAIN x.entity_of_edge
    BY <2>1, <2>2 DEF ensure_inbound_entity
  <2>3. CASE op.target \notin DOMAIN x.entity_of_edge
    <3>1. Grew(c, w, Placeholder(x, op.target, FALSE))
      BY <1>1, <2>3, GrowsByEdge
    <3>2. ensure_inbound_entity(x, op) = Placeholder(x, op.target, FALSE)
      BY <2>1, <2>3, Zenon DEF ensure_inbound_entity
    <3> QED BY <3>1, <3>2
  <2> QED BY <2>2, <2>3
<1> QED BY <1>2, <1>3

\* graph_inbound_system before it moves the cursor.
LEMMA InboundGrows ==
  ASSUME NEW c, NEW w, Sane(c, w), NEW n \in Nat, w.applied <= n,
         \A k \in w.applied + 1..n : Given(c, w, log[k])
  PROVE  \E x : Grew(c, w, x) /\ graph_inbound_system(w, n) = [x EXCEPT !.applied = n]
<1> DEFINE a == w.applied
           m == n - a
           s == [k \in 1..m |-> a + k]
           D == {x \in World : Grew(c, w, x)}
           Folds(f) == f = [S \in SUBSET (1..m) |->
                              IF S = {} THEN w
                              ELSE ensure_inbound_entity(f[S \ {Max(S)}], log[s[Max(S)]])]
           iter == CHOOSE f : Folds(f)
           step == [x \in D \X (1..m) |-> ensure_inbound_entity(x[1], log[s[x[2]]])]
<1>1. a \in Nat /\ m \in Nat /\ DOMAIN s = 1..m /\ \A k \in 1..m : s[k] \in a + 1..n
  BY DEF Sane, World
<1>2. graph_inbound_system(w, n) = [iter[1..m] EXCEPT !.applied = n]
  BY <1>1 DEF graph_inbound_system, FoldLeft, MapThenFoldSet, Max
<1>3. \A x : x \in D <=> Grew(c, w, x)
  BY DEF Grew
<1>4. \A k \in 1..m : Given(c, w, log[s[k]])
  BY <1>1
<1> HIDE DEF a, m, s
<1>5. step \in [D \X (1..m) -> D]
  BY <1>3, <1>4, EnsureGrows
<1>6. w \in D
  BY <1>3, GrewNone
<1> HIDE DEF D
<1>7. PICK f \in [SUBSET (1..m) -> D] : Iterated(f, step, w, m)
  BY <1>1, <1>5, <1>6, Iterates
<1>8. ASSUME NEW S \in SUBSET (1..m), S # {}
      PROVE  step[<<f[S \ {Max(S)}], Max(S)>>] = ensure_inbound_entity(f[S \ {Max(S)}], log[s[Max(S)]])
  <2>1. S \in SUBSET Nat /\ \A x \in S : x <= m
    BY <1>1
  <2>2. Max(S) \in S
    BY <1>1, <1>8, <2>1, MaxOfBounded
  <2>3. <<f[S \ {Max(S)}], Max(S)>> \in D \X (1..m)
    BY <2>2
  <2> QED BY <2>3
<1> HIDE DEF step
<1>9. Folds(f)
  BY <1>7, <1>8 DEF Iterated
<1>10. Folds(iter)
  <2> HIDE DEF Folds
  <2> QED BY <1>9
<1> HIDE DEF iter
<1>11. iter[1..0] = w
  <2>1. 1..0 = {} /\ {} \in SUBSET (1..m)
    OBVIOUS
  <2> QED BY <1>10, <2>1
<1>12. ASSUME NEW k \in 1..m PROVE iter[1..k] = ensure_inbound_entity(iter[1..(k-1)], log[s[k]])
  <2>1. 1..k # {} /\ 1..k \in SUBSET (1..m) /\ Max(1..k) = k /\ (1..k) \ {k} = 1..(k-1)
    BY <1>1, Prefix
  <2> QED BY <1>10, <2>1
<1> HIDE DEF Folds
<1> DEFINE T == {k \in 0..m : Grew(c, w, iter[1..k])}
<1>13. 0 \in T
  BY <1>1, <1>11, GrewNone
<1>14. ASSUME NEW k \in 0..m-1, k \in T PROVE k + 1 \in T
  <2>1. k + 1 \in 1..m /\ (k + 1) - 1 = k /\ k + 1 \in 0..m
    BY <1>1
  <2>2. iter[1..(k+1)] = ensure_inbound_entity(iter[1..k], log[s[k+1]])
    BY <1>12, <2>1
  <2>3. Given(c, w, log[s[k+1]]) /\ Grew(c, w, iter[1..k])
    BY <1>4, <1>14, <2>1
  <2>4. Grew(c, w, ensure_inbound_entity(iter[1..k], log[s[k+1]]))
    BY <2>3, EnsureGrows
  <2> QED BY <2>1, <2>2, <2>4
<1> HIDE DEF T
<1>15. \A k \in 0..m : k \in T
  BY <1>1, <1>13, <1>14, UpTo
<1>16. Grew(c, w, iter[1..m])
  BY <1>1, <1>15 DEF T
<1> QED BY <1>2, <1>16

-----------------------------------------------------------------------------
(* resolve_pending_edges and the ids for what is new. *)

\* A placeholder is not alive, so it is not resolved.
LEMMA NoneResolved ==
  ASSUME NEW w \in World, \A e \in w.pending : ~w.endpoints[e].alive
  PROVE  resolve_pending_edges(w) = w
<1> DEFINE found == {e \in w.pending :
                       /\ w.endpoints[e].alive
                       /\ w.endpoints[e].ends # None
                       /\ w.endpoints[e].ends \subseteq DOMAIN w.entity_of_node}
<1>1. found = {}
  OBVIOUS
<1>2. w.links = [e \in DOMAIN w.links |-> w.links[e]]
  BY WorldIs
<1>3. resolve_pending_edges(w) =
        [w EXCEPT !.pending = w.pending \ found,
                  !.links = [e \in DOMAIN w.links |->
                               IF e \in found
                               THEN {w.entity_of_node[id] : id \in w.endpoints[e].ends} ELSE w.links[e]]]
  BY Zenon DEF resolve_pending_edges
<1> HIDE DEF found
<1>4. resolve_pending_edges(w) = [w EXCEPT !.pending = w.pending, !.links = w.links]
  BY <1>1, <1>2, <1>3
<1> QED BY <1>4 DEF World

Fresh(c, from, to) == {<<c, k>> : k \in from..to - 1}

\* ids gives all of new an id of its own.
Numbered(c, w, new, ids) ==
    /\ ids \in MapsOf(Nat, Id) /\ AntiFunction(ids) \in MapsOf(Id, Nat)
    /\ Injective(ids) /\ DOMAIN ids = new
    /\ Range(ids) = Fresh(c, w.next, w.next + Cardinality(new))

LEMMA NewIdsAre ==
  ASSUME NEW c \in Client, NEW w \in World, NEW new \in SUBSET Nat, IsFiniteSet(new)
  PROVE  Numbered(c, w, new, NewIds(w, c, new))
<1> DEFINE s == InOrder(new)
           n == Cardinality(new)
           place == AntiFunction(s)
           ids == NewIds(w, c, new)
           b == AntiFunction(ids)
<1>1. s \in Seq(new) /\ Len(s) = n /\ n \in Nat /\ Injective(s) /\ Range(s) = new
  BY InOrderIs
<1>2. ids = [e \in new |-> <<c, w.next + place[e] - 1>>]
  BY Zenon DEF NewIds
<1>3. DOMAIN place = new /\ \A k \in 1..n : s[k] \in new /\ place[s[k]] = k
  <2>1. DOMAIN s = 1..n
    BY <1>1
  <2> HIDE DEF s, n
  <2> QED BY <1>1, <2>1, AntiFunctionIs
<1> HIDE DEF s, n, place, ids
<1>4. \A e \in new : \E k \in 1..n : e = s[k] /\ place[e] = k
  BY <1>1, <1>3 DEF Range
<1>5. \A e \in new : place[e] \in 1..n /\ s[place[e]] = e
  BY <1>4
<1>6. w.next \in Nat
  BY DEF World
<1>7. DOMAIN ids = new /\ \A e \in new : ids[e] = <<c, w.next + place[e] - 1>>
  BY <1>2
<1>8. Injective(ids)
  <2> SUFFICES ASSUME NEW x \in new, NEW y \in new, ids[x] = ids[y] PROVE x = y
    BY <1>7 DEF Injective
  <2>1. place[x] = place[y]
    BY <1>5, <1>6, <1>7
  <2> QED BY <1>5, <2>1
<1>9. \A e \in new : ids[e] \in Fresh(c, w.next, w.next + n)
  <2> TAKE e \in new
  <2>1. w.next + place[e] - 1 \in w.next..(w.next + n) - 1
    BY <1>1, <1>5, <1>6
  <2> QED BY <1>7, <2>1 DEF Fresh
<1>10. \A id \in Fresh(c, w.next, w.next + n) : \E e \in new : ids[e] = id
  <2> SUFFICES ASSUME NEW k \in w.next..(w.next + n) - 1 PROVE \E e \in new : ids[e] = <<c, k>>
    BY DEF Fresh
  <2>1. k - w.next + 1 \in 1..n /\ w.next + (k - w.next + 1) - 1 = k
    BY <1>1, <1>6
  <2>2. s[k - w.next + 1] \in new /\ place[s[k - w.next + 1]] = k - w.next + 1
    BY <1>3, <2>1
  <2> QED BY <1>7, <2>1, <2>2
<1>11. Range(ids) = Fresh(c, w.next, w.next + n)
  BY <1>7, <1>9, <1>10 DEF Range
<1>12. ids \in MapsOf(Nat, Id)
  <2>1. ids = [e \in DOMAIN ids |-> ids[e]] /\ DOMAIN ids \in SUBSET Nat
    BY <1>2
  <2>2. \A e \in DOMAIN ids : ids[e] \in Id
    <3> TAKE e \in DOMAIN ids
    <3> DEFINE k == place[e]
    <3>0. k \in Nat \ {0}
      BY <1>1, <1>5, <1>7
    <3> HIDE DEF k
    <3>10. w.next + k - 1 \in Nat
      BY <1>6, <3>0
    <3>1. w.next + place[e] - 1 \in Nat
      BY <3>10 DEF k
    <3>2. ids[e] = <<c, w.next + place[e] - 1>>
      BY <1>7
    <3> QED BY <3>1, <3>2 DEF Id
  <2> QED BY <2>1, <2>2, MapOf
<1>13. b \in MapsOf(Id, Nat)
  <2>1. DOMAIN b = Range(ids) /\ b = [id \in DOMAIN b |-> b[id]]
        /\ \A x \in DOMAIN ids : ids[x] \in Range(ids) /\ b[ids[x]] = x
    BY <1>8, AntiFunctionIs
  <2> HIDE DEF b
  <2>2. \A id \in Range(ids) : \E x \in new : id = ids[x] /\ id \in Id
    BY <1>7, <1>12, MapIs DEF Range
  <2>3. DOMAIN b \in SUBSET Id /\ \A id \in DOMAIN b : b[id] \in Nat
    BY <1>7, <2>1, <2>2
  <2> QED BY <2>1, <2>3, MapOf
<1> QED BY <1>7, <1>8, <1>11, <1>12, <1>13 DEF Numbered, n, ids

NodesBorn(w) == {e \in w.added \cap DOMAIN w.presence : e \notin DOMAIN w.node_of_entity}

EdgesBorn(w) ==
    {e \in w.added \cap DOMAIN w.links : e \notin DOMAIN w.edge_of_entity /\ Cardinality(w.links[e]) = 2}

\* y is w with placeholders P and Q, and with ids for its new nodes N and edges E.
GrownEntities(w, y, P, Q, N, E) ==
    /\ y.removed = w.removed /\ y.queue = << >> /\ y.pending \subseteq Q
    /\ y.added = w.added \cup P \cup Q /\ y.changed = w.changed \cup P \cup Q
    /\ (P \cup Q) \cap Named(w) = {}
    /\ DOMAIN y.presence = DOMAIN w.presence \cup P
    /\ \A e \in DOMAIN w.presence : y.presence[e] <=> w.presence[e] \/ e \in N
    /\ \A e \in P : ~y.presence[e]
    /\ DOMAIN y.links = DOMAIN w.links \cup Q /\ DOMAIN y.endpoints = DOMAIN w.endpoints \cup Q
    /\ DOMAIN y.presence \cap DOMAIN y.endpoints = {}
    /\ \A e \in DOMAIN w.endpoints :
         /\ y.links[e] = w.links[e]
         /\ e \notin E => y.endpoints[e] = w.endpoints[e]
         /\ e \in E => /\ y.endpoints[e].alive
                       /\ y.endpoints[e].ends = {y.node_of_entity[z] : z \in w.links[e]}
    /\ \A e \in Q : ~y.endpoints[e].alive /\ y.links[e] = {}

GrownIndex(c, w, y, P, Q, N, E) ==
    /\ DOMAIN y.node_of_entity = DOMAIN w.node_of_entity \cup P \cup N
    /\ \A e \in DOMAIN w.node_of_entity : y.node_of_entity[e] = w.node_of_entity[e]
    /\ DOMAIN y.edge_of_entity = DOMAIN w.edge_of_entity \cup Q \cup E
    /\ \A e \in DOMAIN w.edge_of_entity : y.edge_of_entity[e] = w.edge_of_entity[e]
    /\ Mirrored(y.node_of_entity, y.entity_of_node)
    /\ Mirrored(y.edge_of_entity, y.entity_of_edge)
    /\ y.next = w.next + Cardinality(N) + Cardinality(E)
    /\ \A e \in N : y.node_of_entity[e] \in Fresh(c, w.next, w.next + Cardinality(N))
    /\ \A e \in E : y.edge_of_entity[e] \in Fresh(c, w.next + Cardinality(N), y.next)
    /\ \A id \in Fresh(c, w.next, w.next + Cardinality(N)) : \E e \in N : y.node_of_entity[e] = id
    /\ \A id \in Fresh(c, w.next + Cardinality(N), y.next) : \E e \in E : y.edge_of_entity[e] = id
    /\ \A id \in DOMAIN y.entity_of_node \cup DOMAIN y.entity_of_edge : id[1] = c => id[2] < y.next

Grown(c, w, y, P, Q, N, E) ==
    /\ y \in World /\ IsFiniteSet(Named(y))
    /\ GrownEntities(w, y, P, Q, N, E) /\ GrownIndex(c, w, y, P, Q, N, E)

LEMMA NoFresh ==
  ASSUME NEW c, NEW k \in Nat
  PROVE  Fresh(c, k, k) = {}
BY DEF Fresh

\* What graph_inbound_system leaves.
LEMMA GrownInbound ==
  ASSUME NEW c, NEW w, Sane(c, w), NEW x, Grew(c, w, x), NEW n \in Nat, NEW y,
         y = [x EXCEPT !.applied = n]
  PROVE  Grown(c, w, y, NewNodes(w, x), NewEdges(w, x), {}, {}) /\ y.applied = n
<1> DEFINE P == NewNodes(w, x)
           Q == NewEdges(w, x)
<1>1. x \in World /\ w \in World /\ IsFiniteSet(Named(x)) /\ w.queue = << >> /\ w.pending = {}
      /\ DOMAIN w.links = DOMAIN w.endpoints /\ w.next \in Nat
  BY DEF Grew, Sane, Own, Apart, World
<1>2. /\ y \in World /\ y.presence = x.presence /\ y.endpoints = x.endpoints /\ y.links = x.links
      /\ y.pending = x.pending /\ y.added = x.added /\ y.changed = x.changed
      /\ y.removed = x.removed /\ y.node_of_entity = x.node_of_entity
      /\ y.entity_of_node = x.entity_of_node /\ y.edge_of_entity = x.edge_of_entity
      /\ y.entity_of_edge = x.entity_of_edge /\ y.queue = x.queue /\ y.next = x.next
      /\ y.applied = n
  BY <1>1 DEF World
<1>3. DOMAIN x.presence = DOMAIN w.presence \cup P /\ DOMAIN x.endpoints = DOMAIN w.endpoints \cup Q
  BY DEF Grew, GrewEntities, NewNodes, NewEdges
<1>4. \A e \in P \cup Q : e \notin Named(w)
  BY DEF Grew, GrewEntities
<1>5. IsFiniteSet(Named(y))
  BY <1>1, <1>2 DEF Named, Entities
<1> HIDE DEF P, Q
<1>6. GrownEntities(w, y, P, Q, {}, {})
  BY <1>1, <1>2, <1>3, <1>4 DEF Grew, GrewEntities, GrownEntities, P, Q
<1>7. Cardinality({}) = 0 /\ w.next + 0 + 0 = w.next /\ w.next + 0 = w.next
  BY <1>1, FS_EmptySet
<1>8. Fresh(c, w.next, w.next) = {} /\ y.next = w.next
  BY <1>1, <1>2, NoFresh DEF Grew, GrewEntities
<1>9. GrownIndex(c, w, y, P, Q, {}, {})
  BY <1>2, <1>7, <1>8 DEF Grew, GrewIndex, GrownIndex, P, Q
<1> QED BY <1>2, <1>5, <1>6, <1>9 DEF Grown, P, Q

NodesGiven(x, ids, new) ==
    [Bind(x, ids, TRUE) EXCEPT !.next = @ + Cardinality(new),
                               !.presence = [e \in DOMAIN @ |-> e \in new \/ @[e]]]

EdgesGiven(x, ids, new) ==
    [Bind(x, ids, FALSE) EXCEPT
       !.next = @ + Cardinality(new),
       !.endpoints = [e \in DOMAIN @ |->
                        IF e \in new
                        THEN [ends |-> {x.node_of_entity[n] : n \in x.links[e]}, alive |-> TRUE]
                        ELSE @[e]]]

\* y is x with its entities of new bound to ids.
NodesNamed(x, new, ids, y) ==
    /\ y \in World
    /\ DOMAIN y.presence = DOMAIN x.presence
    /\ \A e \in DOMAIN x.presence : y.presence[e] <=> e \in new \/ x.presence[e]
    /\ y.node_of_entity = PutAll(x.node_of_entity, ids)
    /\ y.entity_of_node = PutAll(x.entity_of_node, AntiFunction(ids))
    /\ y.endpoints = x.endpoints /\ y.links = x.links /\ y.pending = x.pending
    /\ y.added = x.added /\ y.changed = x.changed
    /\ y.removed = x.removed /\ y.edge_of_entity = x.edge_of_entity
    /\ y.entity_of_edge = x.entity_of_edge /\ y.queue = x.queue
    /\ y.applied = x.applied /\ y.next = x.next + Cardinality(new)

EdgesNamed(x, new, ids, y) ==
    /\ y \in World
    /\ DOMAIN y.endpoints = DOMAIN x.endpoints
    /\ \A e \in DOMAIN x.endpoints :
         y.endpoints[e] = IF e \in new
                          THEN [ends |-> {x.node_of_entity[z] : z \in x.links[e]}, alive |-> TRUE]
                          ELSE x.endpoints[e]
    /\ y.edge_of_entity = PutAll(x.edge_of_entity, ids)
    /\ y.entity_of_edge = PutAll(x.entity_of_edge, AntiFunction(ids))
    /\ y.presence = x.presence /\ y.links = x.links /\ y.pending = x.pending
    /\ y.added = x.added /\ y.changed = x.changed
    /\ y.removed = x.removed /\ y.node_of_entity = x.node_of_entity
    /\ y.entity_of_node = x.entity_of_node /\ y.queue = x.queue
    /\ y.applied = x.applied /\ y.next = x.next + Cardinality(new)

LEMMA NodesAreNamed ==
  ASSUME NEW c, NEW x \in World, NEW new, IsFiniteSet(new), NEW ids, Numbered(c, x, new, ids)
  PROVE  NodesNamed(x, new, ids, NodesGiven(x, ids, new))
<1> DEFINE k == x.next + Cardinality(new)
           p == [e \in DOMAIN x.presence |-> e \in new \/ x.presence[e]]
           f == PutAll(x.node_of_entity, ids)
           g == PutAll(x.entity_of_node, AntiFunction(ids))
           y == NodesGiven(x, ids, new)
           u == [x EXCEPT !.node_of_entity = f, !.entity_of_node = g]
<1>1. Bind(x, ids, TRUE) = u
  BY Zenon DEF Bind
<1>2. u.next = x.next /\ u.presence = x.presence
  BY DEF World
<1>3. y = [u EXCEPT !.next = k, !.presence = p]
  BY <1>1, <1>2 DEF NodesGiven
<1>4. k \in Nat
  BY FS_CardinalityType DEF World
<1>5. /\ p \in MapsOf(Nat, BOOLEAN) /\ DOMAIN p = DOMAIN x.presence
      /\ \A e \in DOMAIN x.presence : p[e] <=> e \in new \/ x.presence[e]
  <2>1. p = [e \in DOMAIN p |-> p[e]] /\ DOMAIN p = DOMAIN x.presence
        /\ \A e \in DOMAIN p : p[e] \in BOOLEAN /\ (p[e] <=> e \in new \/ x.presence[e])
    OBVIOUS
  <2> HIDE DEF p
  <2>2. DOMAIN p \in SUBSET Nat
    BY <2>1, WorldIs
  <2> QED BY <2>1, <2>2, MapOf
<1>6. f \in MapsOf(Nat, Id)
  BY IndexIs, PutAllMap DEF Numbered
<1>7. g \in MapsOf(Id, Nat)
  BY IndexIs, PutAllMap DEF Numbered
<1> HIDE DEF k, p, f, g, y
<1>8. /\ y \in World /\ y.presence = p /\ y.node_of_entity = f /\ y.entity_of_node = g
      /\ y.endpoints = x.endpoints /\ y.links = x.links /\ y.pending = x.pending
      /\ y.added = x.added /\ y.changed = x.changed
      /\ y.removed = x.removed /\ y.edge_of_entity = x.edge_of_entity
      /\ y.entity_of_edge = x.entity_of_edge /\ y.queue = x.queue
      /\ y.applied = x.applied /\ y.next = k
  BY <1>3, <1>4, <1>5, <1>6, <1>7 DEF World
<1>9. NodesNamed(x, new, ids, y)
  BY <1>5, <1>8 DEF NodesNamed, f, g, k
<1> QED BY <1>9 DEF y

LEMMA EdgesAreNamed ==
  ASSUME NEW c, NEW x \in World, NEW new, IsFiniteSet(new), NEW ids, Numbered(c, x, new, ids),
         \A e \in new : x.links[e] \subseteq DOMAIN x.node_of_entity
  PROVE  EdgesNamed(x, new, ids, EdgesGiven(x, ids, new))
<1> DEFINE k == x.next + Cardinality(new)
           at(e) == IF e \in new
                    THEN [ends |-> {x.node_of_entity[n] : n \in x.links[e]}, alive |-> TRUE]
                    ELSE x.endpoints[e]
           p == [e \in DOMAIN x.endpoints |-> at(e)]
           f == PutAll(x.edge_of_entity, ids)
           g == PutAll(x.entity_of_edge, AntiFunction(ids))
           y == EdgesGiven(x, ids, new)
           u == [x EXCEPT !.edge_of_entity = f, !.entity_of_edge = g]
<1>1. Bind(x, ids, FALSE) = u
  BY DEF Bind
<1>2. u.next = x.next /\ u.endpoints = x.endpoints
  BY DEF World
<1>3. y = [u EXCEPT !.next = k, !.endpoints = p]
  BY <1>1, <1>2 DEF EdgesGiven
<1>4. k \in Nat
  BY FS_CardinalityType DEF World
<1>40. \A e \in DOMAIN x.endpoints : at(e) \in Endpoints
  <2> TAKE e \in DOMAIN x.endpoints
  <2>1. CASE e \in new
    <3>1. {x.node_of_entity[n] : n \in x.links[e]} \in SUBSET Id
      BY <2>1, IndexIs
    <3> QED BY <2>1, <3>1 DEF Endpoints
  <2>2. CASE e \notin new
    BY <2>2, WorldIs
  <2> QED BY <2>1, <2>2
<1>50. p = [e \in DOMAIN x.endpoints |-> at(e)]
  OBVIOUS
<1> HIDE DEF at, p
<1>5. /\ p \in MapsOf(Nat, Endpoints) /\ DOMAIN p = DOMAIN x.endpoints
      /\ \A e \in DOMAIN x.endpoints : p[e] = at(e)
  <2>1. p = [e \in DOMAIN p |-> p[e]] /\ DOMAIN p = DOMAIN x.endpoints
        /\ \A e \in DOMAIN x.endpoints : p[e] = at(e)
    BY <1>50
  <2>2. DOMAIN p \in SUBSET Nat
    BY <2>1, WorldIs
  <2> QED BY <1>40, <2>1, <2>2, MapOf
<1>6. f \in MapsOf(Nat, Id)
  BY IndexIs, PutAllMap DEF Numbered
<1>7. g \in MapsOf(Id, Nat)
  BY IndexIs, PutAllMap DEF Numbered
<1> HIDE DEF k, f, g, y
<1>8. /\ y \in World /\ y.endpoints = p /\ y.edge_of_entity = f /\ y.entity_of_edge = g
      /\ y.presence = x.presence /\ y.links = x.links /\ y.pending = x.pending
      /\ y.added = x.added /\ y.changed = x.changed
      /\ y.removed = x.removed /\ y.node_of_entity = x.node_of_entity
      /\ y.entity_of_node = x.entity_of_node /\ y.queue = x.queue
      /\ y.applied = x.applied /\ y.next = k
  BY <1>3, <1>4, <1>5, <1>6, <1>7 DEF World
<1>9. EdgesNamed(x, new, ids, y)
  BY <1>5, <1>8 DEF EdgesNamed, f, g, k, at
<1> QED BY <1>9 DEF y

\* assign_local_node_ids
LEMMA GrownByNodes ==
  ASSUME NEW c \in Client, NEW w, Sane(c, w), NEW x, NEW P, NEW Q, Grown(c, w, x, P, Q, {}, {})
  PROVE  /\ Grown(c, w, assign_local_node_ids(x, c), P, Q, NodesBorn(w), {})
         /\ assign_local_node_ids(x, c).applied = x.applied
<1> DEFINE new == {e \in x.added \cap DOMAIN x.presence : e \notin DOMAIN x.node_of_entity}
           N == NodesBorn(w)
           ids == NewIds(x, c, new)
           y == assign_local_node_ids(x, c)
<1>1. /\ x \in World /\ IsFiniteSet(Named(x)) /\ w \in World /\ w.next \in Nat
      /\ GrownEntities(w, x, P, Q, {}, {}) /\ GrownIndex(c, w, x, P, Q, {}, {})
  BY DEF Grown, Sane, World
<1>2. new = N
  BY <1>1 DEF NodesBorn, GrownEntities, GrownIndex, Sane, Apart, Named, Entities
<1>3. y = NodesGiven(x, ids, new)
  BY Zenon DEF assign_local_node_ids, NodesGiven
<1>4. N \in SUBSET Nat /\ N \in SUBSET Named(w) /\ N \in SUBSET Named(x)
      /\ N \cap DOMAIN w.node_of_entity = {} /\ N \subseteq DOMAIN w.presence
  <2>1. N \subseteq DOMAIN w.presence /\ N \cap DOMAIN w.node_of_entity = {}
    BY DEF NodesBorn
  <2>2. DOMAIN w.presence \in SUBSET Nat /\ DOMAIN w.presence \subseteq DOMAIN x.presence
    BY <1>1, WorldIs DEF GrownEntities
  <2> QED BY <2>1, <2>2 DEF Named, Entities
<1>5. IsFiniteSet(N) /\ Cardinality(N) \in Nat
  BY <1>1, <1>4, FS_Subset, FS_CardinalityType
<1>60. ids = NewIds(x, c, N)
  BY <1>2
<1> HIDE DEF new, N, ids, y
<1>6. Numbered(c, x, N, ids)
  BY <1>1, <1>4, <1>5, <1>60, NewIdsAre
<1>7. NodesNamed(x, N, ids, y)
  <2>1. y = NodesGiven(x, ids, N)
    BY <1>2, <1>3
  <2>2. NodesNamed(x, N, ids, NodesGiven(x, ids, N))
    BY <1>1, <1>5, <1>6, NodesAreNamed
  <2> QED BY <2>1, <2>2
<1>8. x.next = w.next
  BY <1>1, FS_EmptySet DEF GrownIndex
<1>9. /\ Injective(ids) /\ DOMAIN ids = N
      /\ Range(ids) = Fresh(c, w.next, w.next + Cardinality(N))
  BY <1>6, <1>8 DEF Numbered
<1>10. \A e \in N : e \notin P /\ e \notin DOMAIN x.node_of_entity /\ ids[e] \in Range(ids)
  BY <1>1, <1>4, <1>9 DEF GrownEntities, GrownIndex, Range
<1>11. \A id \in Fresh(c, w.next, w.next + Cardinality(N)) :
          id[1] = c /\ w.next <= id[2] /\ id[2] < w.next + Cardinality(N)
  BY <1>1, <1>5 DEF Fresh
<1>12. Extends(x.node_of_entity, x.entity_of_node, ids, y.node_of_entity, y.entity_of_node)
  <2>1. DOMAIN ids \cap DOMAIN x.node_of_entity = {}
    BY <1>9, <1>10
  <2>2. \A id \in DOMAIN x.entity_of_node : id[1] = c => id[2] < w.next
    BY <1>1, <1>8 DEF GrownIndex
  <2>3. Range(ids) \cap DOMAIN x.entity_of_node = {}
    <3> SUFFICES ASSUME NEW id \in Range(ids), id \in DOMAIN x.entity_of_node PROVE FALSE
      OBVIOUS
    <3>1. id[1] = c /\ w.next <= id[2] /\ id[2] < w.next
      BY <1>9, <1>11, <2>2
    <3>2. id \in Id
      BY <1>1, IndexIs
    <3> QED BY <1>1, <3>1, <3>2 DEF Id
  <2>4. Mirrored(x.node_of_entity, x.entity_of_node)
    BY <1>1 DEF GrownIndex
  <2>5. /\ y.node_of_entity = PutAll(x.node_of_entity, ids)
        /\ y.entity_of_node = PutAll(x.entity_of_node, AntiFunction(ids))
    BY <1>7 DEF NodesNamed
  <2> QED BY <1>9, <2>1, <2>3, <2>4, <2>5, BindMirrors, Zenon
<1>13. /\ Mirrored(y.node_of_entity, y.entity_of_node)
       /\ DOMAIN y.node_of_entity = DOMAIN x.node_of_entity \cup N
       /\ \A e \in N : y.node_of_entity[e] = ids[e]
       /\ \A e \in DOMAIN x.node_of_entity : y.node_of_entity[e] = x.node_of_entity[e]
       /\ DOMAIN y.entity_of_node
            = DOMAIN x.entity_of_node \cup Fresh(c, w.next, w.next + Cardinality(N))
  BY <1>9, <1>12 DEF Extends
<1>14. y.next = w.next + Cardinality(N) /\ y.next \in Nat
  BY <1>1, <1>5, <1>7, <1>8 DEF NodesNamed
<1>15. GrownIndex(c, w, y, P, Q, N, {})
  <2>1. Cardinality({}) = 0 /\ y.next = w.next + Cardinality(N) + 0
    BY <1>5, <1>14, FS_EmptySet, <1>1
  <2>2. Fresh(c, w.next + Cardinality(N), y.next) = {}
    BY <1>14, NoFresh
  <2>3. \A e \in N : y.node_of_entity[e] \in Fresh(c, w.next, w.next + Cardinality(N))
    BY <1>9, <1>10, <1>13
  <2>4. y.edge_of_entity = x.edge_of_entity /\ y.entity_of_edge = x.entity_of_edge
    BY <1>7 DEF NodesNamed
  <2>5. \A id \in DOMAIN y.entity_of_node \cup DOMAIN y.entity_of_edge : id[1] = c => id[2] < y.next
    <3> TAKE id \in DOMAIN y.entity_of_node \cup DOMAIN y.entity_of_edge
    <3>1. CASE id \in Fresh(c, w.next, w.next + Cardinality(N))
      BY <1>11, <1>14, <3>1
    <3>2. CASE id \in DOMAIN x.entity_of_node \cup DOMAIN x.entity_of_edge
      <4>1. id[1] = c => id[2] < w.next
        BY <1>1, <1>8, <3>2 DEF GrownIndex
      <4>2. id \in Id
        BY <1>1, <3>2, IndexIs
      <4> QED BY <1>1, <1>5, <1>14, <4>1, <4>2 DEF Id
    <3> QED BY <1>13, <2>4, <3>1, <3>2
  <2>6. DOMAIN y.node_of_entity = DOMAIN w.node_of_entity \cup P \cup N
        /\ \A e \in DOMAIN w.node_of_entity : y.node_of_entity[e] = w.node_of_entity[e]
    BY <1>1, <1>13 DEF GrownIndex
  <2>7. /\ DOMAIN x.edge_of_entity = DOMAIN w.edge_of_entity \cup Q \cup {}
        /\ \A e \in DOMAIN w.edge_of_entity : x.edge_of_entity[e] = w.edge_of_entity[e]
        /\ Mirrored(x.edge_of_entity, x.entity_of_edge)
    BY <1>1 DEF GrownIndex
  <2>8. \A id \in Fresh(c, w.next, w.next + Cardinality(N)) : \E e \in N : y.node_of_entity[e] = id
    BY <1>9, <1>13 DEF Range
  <2> QED BY <1>13, <2>1, <2>2, <2>3, <2>4, <2>5, <2>6, <2>7, <2>8 DEF GrownIndex
<1>16. GrownEntities(w, y, P, Q, N, {})
  <2>1. /\ DOMAIN y.presence = DOMAIN x.presence
        /\ \A e \in DOMAIN x.presence : y.presence[e] <=> e \in N \/ x.presence[e]
        /\ y.endpoints = x.endpoints /\ y.links = x.links /\ y.pending = x.pending
        /\ y.added = x.added /\ y.changed = x.changed
        /\ y.removed = x.removed /\ y.queue = x.queue
    BY <1>7 DEF NodesNamed
  <2>2. \A e \in DOMAIN w.presence : y.presence[e] <=> w.presence[e] \/ e \in N
    BY <1>1, <2>1 DEF GrownEntities
  <2>3. \A e \in P : ~y.presence[e]
    BY <1>1, <1>10, <2>1 DEF GrownEntities
  <2>4. \A e \in DOMAIN w.endpoints : y.links[e] = w.links[e] /\ y.endpoints[e] = w.endpoints[e]
    BY <1>1, <2>1 DEF GrownEntities
  <2>5. \A e : e \notin {}
    OBVIOUS
  <2> QED BY <1>1, <2>1, <2>2, <2>3, <2>4, <2>5 DEF GrownEntities
<1>17. y \in World /\ IsFiniteSet(Named(y)) /\ y.applied = x.applied
  <2>1. Named(y) = Named(x)
    BY <1>4, <1>7, <1>13, <1>1 DEF NodesNamed, Named, Entities, GrownEntities
  <2> QED BY <1>1, <1>7, <2>1 DEF NodesNamed
<1> QED BY <1>15, <1>16, <1>17 DEF Grown, N, y

\* assign_local_edge_ids
LEMMA GrownByEdges ==
  ASSUME NEW c \in Client, NEW w, Sane(c, w), NEW x, NEW P, NEW Q,
         Grown(c, w, x, P, Q, NodesBorn(w), {})
  PROVE  /\ Grown(c, w, assign_local_edge_ids(x, c), P, Q, NodesBorn(w), EdgesBorn(w))
         /\ assign_local_edge_ids(x, c).applied = x.applied
<1> DEFINE new == {e \in x.added \cap DOMAIN x.links :
                     /\ e \notin DOMAIN x.edge_of_entity
                     /\ Cardinality(x.links[e]) = 2
                     /\ x.links[e] \subseteq DOMAIN x.node_of_entity}
           N == NodesBorn(w)
           E == EdgesBorn(w)
           ids == NewIds(x, c, new)
           y == assign_local_edge_ids(x, c)
           k == w.next + Cardinality(N)
<1>1. /\ x \in World /\ IsFiniteSet(Named(x)) /\ w \in World /\ w.next \in Nat
      /\ GrownEntities(w, x, P, Q, N, {}) /\ GrownIndex(c, w, x, P, Q, N, {})
  BY DEF Grown, Sane, World
<1>20. \A e \in DOMAIN w.links : w.links[e] \subseteq DOMAIN x.node_of_entity
  <2>1. \A e \in DOMAIN w.links : w.links[e] \subseteq DOMAIN w.presence
    BY DEF Sane, Linked
  <2>2. DOMAIN w.presence \subseteq DOMAIN w.node_of_entity \cup N
    BY DEF Sane, Known, NodesBorn
  <2> QED BY <1>1, <2>1, <2>2 DEF GrownIndex
<1>2. new = E
  <2>1. /\ DOMAIN w.links = DOMAIN w.endpoints
        /\ DOMAIN x.links = DOMAIN w.links \cup Q
        /\ x.added = w.added \cup P \cup Q
        /\ DOMAIN x.edge_of_entity = DOMAIN w.edge_of_entity \cup Q
        /\ (P \cup Q) \cap DOMAIN w.links = {}
        /\ \A e \in DOMAIN w.links : x.links[e] = w.links[e]
    BY <1>1 DEF GrownEntities, GrownIndex, Sane, Apart, Named, Entities
  <2> QED BY <1>20, <2>1 DEF EdgesBorn
<1>3. y = EdgesGiven(x, ids, new)
  BY Zenon DEF assign_local_edge_ids, EdgesGiven
<1>30. \A e \in new : x.links[e] \subseteq DOMAIN x.node_of_entity
  OBVIOUS
<1>4. E \in SUBSET Nat /\ E \in SUBSET Named(w) /\ E \in SUBSET Named(x)
      /\ E \cap DOMAIN w.edge_of_entity = {} /\ E \subseteq DOMAIN w.endpoints
  <2>1. E \subseteq DOMAIN w.endpoints /\ E \cap DOMAIN w.edge_of_entity = {}
    BY DEF EdgesBorn, Sane, Apart
  <2>2. DOMAIN w.endpoints \in SUBSET Nat /\ DOMAIN w.endpoints \subseteq DOMAIN x.endpoints
    BY <1>1, WorldIs DEF GrownEntities
  <2> QED BY <2>1, <2>2 DEF Named, Entities
<1>5. IsFiniteSet(E) /\ Cardinality(E) \in Nat
  BY <1>1, <1>4, FS_Subset, FS_CardinalityType
<1>50. Cardinality(N) \in Nat
  <2>1. N \subseteq Named(w) /\ IsFiniteSet(Named(w))
    BY DEF NodesBorn, Sane, Named, Entities
  <2> QED BY <2>1, FS_Subset, FS_CardinalityType
<1>60. ids = NewIds(x, c, E)
  BY <1>2
<1> HIDE DEF new, N, E, ids, y
<1>6. Numbered(c, x, E, ids)
  BY <1>1, <1>4, <1>5, <1>60, NewIdsAre
<1>7. EdgesNamed(x, E, ids, y)
  <2>1. y = EdgesGiven(x, ids, E)
    BY <1>2, <1>3
  <2>2. \A e \in E : x.links[e] \subseteq DOMAIN x.node_of_entity
    BY <1>2, <1>30
  <2>3. EdgesNamed(x, E, ids, EdgesGiven(x, ids, E))
    BY <1>1, <1>5, <1>6, <2>2, EdgesAreNamed
  <2> QED BY <2>1, <2>3
<1>8. x.next = k /\ k \in Nat
  BY <1>1, <1>50, FS_EmptySet DEF GrownIndex
<1> HIDE DEF k
<1>14. y.next = k + Cardinality(E) /\ y.next \in Nat
  BY <1>1, <1>5, <1>7, <1>8 DEF EdgesNamed
<1>9. /\ Injective(ids) /\ DOMAIN ids = E
      /\ Range(ids) = Fresh(c, k, y.next)
  BY <1>6, <1>8, <1>14 DEF Numbered
<1>10. \A e \in E : e \notin Q /\ e \notin DOMAIN x.edge_of_entity /\ ids[e] \in Range(ids)
  BY <1>1, <1>4, <1>9 DEF GrownEntities, GrownIndex, Range
<1>11. \A id \in Fresh(c, k, y.next) : id[1] = c /\ k <= id[2] /\ id[2] < y.next
  BY <1>8, <1>14 DEF Fresh
<1>12. Extends(x.edge_of_entity, x.entity_of_edge, ids, y.edge_of_entity, y.entity_of_edge)
  <2>1. DOMAIN ids \cap DOMAIN x.edge_of_entity = {}
    BY <1>9, <1>10
  <2>2. \A id \in DOMAIN x.entity_of_edge : id[1] = c => id[2] < k
    BY <1>1, <1>8 DEF GrownIndex
  <2>3. Range(ids) \cap DOMAIN x.entity_of_edge = {}
    <3> SUFFICES ASSUME NEW id \in Range(ids), id \in DOMAIN x.entity_of_edge PROVE FALSE
      OBVIOUS
    <3>1. id[1] = c /\ k <= id[2] /\ id[2] < k
      BY <1>9, <1>11, <2>2
    <3>2. id \in Id
      BY <1>1, IndexIs
    <3> QED BY <1>8, <3>1, <3>2 DEF Id
  <2>4. Mirrored(x.edge_of_entity, x.entity_of_edge)
    BY <1>1 DEF GrownIndex
  <2>5. /\ y.edge_of_entity = PutAll(x.edge_of_entity, ids)
        /\ y.entity_of_edge = PutAll(x.entity_of_edge, AntiFunction(ids))
    BY <1>7 DEF EdgesNamed
  <2> QED BY <1>9, <2>1, <2>3, <2>4, <2>5, BindMirrors, Zenon
<1>13. /\ Mirrored(y.edge_of_entity, y.entity_of_edge)
       /\ DOMAIN y.edge_of_entity = DOMAIN x.edge_of_entity \cup E
       /\ \A e \in E : y.edge_of_entity[e] = ids[e]
       /\ \A e \in DOMAIN x.edge_of_entity : y.edge_of_entity[e] = x.edge_of_entity[e]
       /\ DOMAIN y.entity_of_edge = DOMAIN x.entity_of_edge \cup Fresh(c, k, y.next)
  BY <1>9, <1>12 DEF Extends
<1>15. GrownIndex(c, w, y, P, Q, N, E)
  <2>1. y.next = w.next + Cardinality(N) + Cardinality(E)
    BY <1>14 DEF k
  <2>3. \A e \in E : y.edge_of_entity[e] \in Fresh(c, k, y.next)
    BY <1>9, <1>10, <1>13
  <2>4. y.node_of_entity = x.node_of_entity /\ y.entity_of_node = x.entity_of_node
    BY <1>7 DEF EdgesNamed
  <2>5. \A id \in DOMAIN y.entity_of_node \cup DOMAIN y.entity_of_edge : id[1] = c => id[2] < y.next
    <3> TAKE id \in DOMAIN y.entity_of_node \cup DOMAIN y.entity_of_edge
    <3>1. CASE id \in Fresh(c, k, y.next)
      BY <1>11, <3>1
    <3>2. CASE id \in DOMAIN x.entity_of_node \cup DOMAIN x.entity_of_edge
      <4>1. id[1] = c => id[2] < k
        BY <1>1, <1>8, <3>2 DEF GrownIndex
      <4>2. id \in Id
        BY <1>1, <3>2, IndexIs
      <4> QED BY <1>8, <1>5, <1>14, <4>1, <4>2 DEF Id
    <3> QED BY <1>13, <2>4, <3>1, <3>2
  <2>6. /\ DOMAIN y.edge_of_entity = DOMAIN w.edge_of_entity \cup Q \cup E
        /\ \A e \in DOMAIN w.edge_of_entity : y.edge_of_entity[e] = w.edge_of_entity[e]
    BY <1>1, <1>13 DEF GrownIndex
  <2>7. /\ DOMAIN x.node_of_entity = DOMAIN w.node_of_entity \cup P \cup N
        /\ \A e \in DOMAIN w.node_of_entity : x.node_of_entity[e] = w.node_of_entity[e]
        /\ Mirrored(x.node_of_entity, x.entity_of_node)
        /\ \A e \in N : x.node_of_entity[e] \in Fresh(c, w.next, k)
        /\ \A id \in Fresh(c, w.next, k) : \E e \in N : x.node_of_entity[e] = id
    BY <1>1 DEF GrownIndex, k
  <2>8. \A id \in Fresh(c, k, y.next) : \E e \in E : y.edge_of_entity[e] = id
    BY <1>9, <1>13 DEF Range
  <2> QED BY <1>13, <2>1, <2>3, <2>4, <2>5, <2>6, <2>7, <2>8 DEF GrownIndex, k
<1>16. GrownEntities(w, y, P, Q, N, E)
  <2>1. \A e \in E : e \notin Q /\ e \in DOMAIN w.endpoints /\ x.links[e] = w.links[e]
    BY <1>1, <1>4, <1>10 DEF GrownEntities
  <2>2. /\ y.node_of_entity = x.node_of_entity
        /\ DOMAIN y.endpoints = DOMAIN x.endpoints
        /\ \A e \in DOMAIN x.endpoints :
             y.endpoints[e] = IF e \in E
                              THEN [ends |-> {x.node_of_entity[z] : z \in x.links[e]}, alive |-> TRUE]
                              ELSE x.endpoints[e]
        /\ y.presence = x.presence /\ y.links = x.links /\ y.pending = x.pending
        /\ y.added = x.added /\ y.changed = x.changed
        /\ y.removed = x.removed /\ y.queue = x.queue
    BY <1>7 DEF EdgesNamed
  <2>3. \A e \in DOMAIN w.endpoints :
         /\ y.links[e] = w.links[e]
         /\ e \notin E => y.endpoints[e] = w.endpoints[e]
         /\ e \in E => /\ y.endpoints[e].alive
                       /\ y.endpoints[e].ends = {y.node_of_entity[z] : z \in w.links[e]}
    <3> TAKE e \in DOMAIN w.endpoints
    <3>1. e \in DOMAIN x.endpoints /\ x.links[e] = w.links[e] /\ x.endpoints[e] = w.endpoints[e]
      BY <1>1 DEF GrownEntities
    <3>2. e \in E => y.endpoints[e] = [ends |-> {y.node_of_entity[z] : z \in w.links[e]}, alive |-> TRUE]
      BY <2>2, <3>1
    <3> QED BY <2>2, <3>1, <3>2
  <2>4. \A e \in Q : ~y.endpoints[e].alive /\ y.links[e] = {}
    BY <1>1, <2>1, <2>2 DEF GrownEntities
  <2> QED BY <1>1, <2>2, <2>3, <2>4 DEF GrownEntities
<1>17. y \in World /\ IsFiniteSet(Named(y)) /\ y.applied = x.applied
  <2>1. Named(y) = Named(x)
    BY <1>4, <1>7, <1>13, <1>1 DEF EdgesNamed, Named, Entities, GrownEntities
  <2> QED BY <1>1, <1>7, <2>1 DEF EdgesNamed
<1> QED BY <1>15, <1>16, <1>17 DEF Grown, N, E, y

-----------------------------------------------------------------------------
(* Unbinding and despawning. *)

\* y is x without the bindings of es.
NodesUnbound(x, es, y) ==
    /\ y \in World
    /\ Retracts(x.node_of_entity, x.entity_of_node, es, y.node_of_entity, y.entity_of_node)
    /\ y.presence = x.presence /\ y.endpoints = x.endpoints /\ y.links = x.links
    /\ y.pending = x.pending /\ y.added = x.added /\ y.changed = x.changed
    /\ y.removed = x.removed /\ y.edge_of_entity = x.edge_of_entity
    /\ y.entity_of_edge = x.entity_of_edge /\ y.queue = x.queue
    /\ y.applied = x.applied /\ y.next = x.next

EdgesUnbound(x, es, y) ==
    /\ y \in World
    /\ Retracts(x.edge_of_entity, x.entity_of_edge, es, y.edge_of_entity, y.entity_of_edge)
    /\ y.presence = x.presence /\ y.endpoints = x.endpoints /\ y.links = x.links
    /\ y.pending = x.pending /\ y.added = x.added /\ y.changed = x.changed
    /\ y.removed = x.removed /\ y.node_of_entity = x.node_of_entity
    /\ y.entity_of_node = x.entity_of_node /\ y.queue = x.queue
    /\ y.applied = x.applied /\ y.next = x.next

LEMMA UnbindNodes ==
  ASSUME NEW x \in World, Mirrored(x.node_of_entity, x.entity_of_node), NEW es
  PROVE  NodesUnbound(x, es, Unbind(x, es, TRUE))
<1> DEFINE F == Restrict(x.node_of_entity, DOMAIN x.node_of_entity \ es)
           cut == Range(Restrict(x.node_of_entity, es \cap DOMAIN x.node_of_entity))
           G == Restrict(x.entity_of_node, DOMAIN x.entity_of_node \ cut)
           y == Unbind(x, es, TRUE)
<1>1. y = [x EXCEPT !.node_of_entity = F, !.entity_of_node = G]
  BY Zenon DEF Unbind
<1>2. F \in MapsOf(Nat, Id)
  BY IndexIs, RestrictMap
<1>3. G \in MapsOf(Id, Nat)
  BY IndexIs, RestrictMap
<1>4. Retracts(x.node_of_entity, x.entity_of_node, es, F, G)
  BY UnbindMirrors
<1> HIDE DEF y, F, G
<1>5. NodesUnbound(x, es, y)
  BY <1>1, <1>2, <1>3, <1>4 DEF NodesUnbound, World
<1> QED BY <1>5 DEF y

LEMMA UnbindEdges ==
  ASSUME NEW x \in World, Mirrored(x.edge_of_entity, x.entity_of_edge), NEW es
  PROVE  EdgesUnbound(x, es, Unbind(x, es, FALSE))
<1> DEFINE F == Restrict(x.edge_of_entity, DOMAIN x.edge_of_entity \ es)
           cut == Range(Restrict(x.edge_of_entity, es \cap DOMAIN x.edge_of_entity))
           G == Restrict(x.entity_of_edge, DOMAIN x.entity_of_edge \ cut)
           y == Unbind(x, es, FALSE)
<1>1. y = [x EXCEPT !.edge_of_entity = F, !.entity_of_edge = G]
  BY DEF Unbind
<1>2. F \in MapsOf(Nat, Id)
  BY IndexIs, RestrictMap
<1>3. G \in MapsOf(Id, Nat)
  BY IndexIs, RestrictMap
<1>4. Retracts(x.edge_of_entity, x.entity_of_edge, es, F, G)
  BY UnbindMirrors
<1> HIDE DEF y, F, G
<1>5. EdgesUnbound(x, es, y)
  BY <1>1, <1>2, <1>3, <1>4 DEF EdgesUnbound, World
<1> QED BY <1>5 DEF y

\* y is x without the entities of live.
Despawned(x, live, y) ==
    /\ y \in World
    /\ DOMAIN y.presence = DOMAIN x.presence \ live
    /\ \A e \in DOMAIN y.presence : y.presence[e] = x.presence[e]
    /\ DOMAIN y.endpoints = DOMAIN x.endpoints \ live
    /\ \A e \in DOMAIN y.endpoints : y.endpoints[e] = x.endpoints[e]
    /\ DOMAIN y.links = DOMAIN x.links \ live
    /\ \A e \in DOMAIN y.links : y.links[e] = x.links[e] \ live
    /\ y.pending = x.pending \ live /\ y.added = x.added \ live /\ y.changed = x.changed \ live
    /\ y.removed = x.removed \cup live
    /\ y.node_of_entity = x.node_of_entity /\ y.entity_of_node = x.entity_of_node
    /\ y.edge_of_entity = x.edge_of_entity /\ y.entity_of_edge = x.entity_of_edge
    /\ y.queue = x.queue /\ y.applied = x.applied /\ y.next = x.next

LEMMA DespawnIs ==
  ASSUME NEW x \in World, NEW gones
  PROVE  Despawned(x, Entities(x) \cap gones, Despawn(x, gones))
<1> DEFINE live == Entities(x) \cap gones
           p == Restrict(x.presence, DOMAIN x.presence \ live)
           q == Restrict(x.endpoints, DOMAIN x.endpoints \ live)
           r == [e \in DOMAIN x.links \ live |-> x.links[e] \ live]
           y == Despawn(x, gones)
<1>1. y = [x EXCEPT !.presence = p, !.endpoints = q, !.links = r,
                    !.pending = x.pending \ live, !.added = x.added \ live,
                    !.changed = x.changed \ live, !.removed = x.removed \cup live]
  BY DEF Despawn
<1>2. x.presence \in MapsOf(Nat, BOOLEAN) /\ x.endpoints \in MapsOf(Nat, Endpoints)
  BY DEF World
<1>3. p \in MapsOf(Nat, BOOLEAN)
  BY <1>2, RestrictMap
<1>4. q \in MapsOf(Nat, Endpoints)
  BY <1>2, RestrictMap
<1>5. /\ DOMAIN p = DOMAIN x.presence \ live /\ \A e \in DOMAIN p : p[e] = x.presence[e]
      /\ DOMAIN q = DOMAIN x.endpoints \ live /\ \A e \in DOMAIN q : q[e] = x.endpoints[e]
  BY RestrictIs
<1>6. r = [e \in DOMAIN r |-> r[e]] /\ DOMAIN r = DOMAIN x.links \ live
      /\ \A e \in DOMAIN r : r[e] = x.links[e] \ live
  OBVIOUS
<1>7. live \in SUBSET Nat
  BY WorldIs DEF Entities
<1> HIDE DEF y, p, q, r, live
<1>8. r \in MapsOf(Nat, SUBSET Nat)
  <2>1. DOMAIN r \in SUBSET Nat /\ \A e \in DOMAIN r : r[e] \in SUBSET Nat
    BY <1>6, WorldIs
  <2> QED BY <1>6, <2>1, MapOf
<1>9. /\ y \in World /\ y.presence = p /\ y.endpoints = q /\ y.links = r
      /\ y.pending = x.pending \ live /\ y.added = x.added \ live /\ y.changed = x.changed \ live
      /\ y.removed = x.removed \cup live
      /\ y.node_of_entity = x.node_of_entity /\ y.entity_of_node = x.entity_of_node
      /\ y.edge_of_entity = x.edge_of_entity /\ y.entity_of_edge = x.entity_of_edge
      /\ y.queue = x.queue /\ y.applied = x.applied /\ y.next = x.next
  BY <1>1, <1>3, <1>4, <1>7, <1>8 DEF World
<1>10. Despawned(x, live, y)
  BY <1>5, <1>6, <1>9 DEF Despawned
<1> QED BY <1>10 DEF y, live

DeadNodes(w) == {e \in w.changed \cap DOMAIN w.presence : ~w.presence[e] /\ e \in DOMAIN w.node_of_entity}
Cut(w) == {e \in DOMAIN w.links : w.links[e] \cap DeadNodes(w) # {}}
DeadEdges(w) ==
    {e \in w.changed \cap DOMAIN w.endpoints : ~w.endpoints[e].alive /\ e \in DOMAIN w.edge_of_entity}
      \ Cut(w)

\* y is x, which has grown from w by P and Q, without what despawn_tombstoned_nodes takes.
NodesCleared(w, x, P, Q, y) ==
    /\ y \in World
    /\ DOMAIN y.presence = DOMAIN w.presence \ DeadNodes(w)
    /\ \A e \in DOMAIN y.presence : y.presence[e] = x.presence[e]
    /\ DOMAIN y.endpoints = (DOMAIN w.endpoints \cup Q) \ Cut(w) /\ DOMAIN y.links = DOMAIN y.endpoints
    /\ \A e \in DOMAIN y.endpoints : y.endpoints[e] = x.endpoints[e] /\ y.links[e] = x.links[e]
    /\ y.pending \subseteq Q
    /\ y.added = (w.added \cup Q) \ (DeadNodes(w) \cup Cut(w))
    /\ y.changed = (w.changed \cup Q) \ (DeadNodes(w) \cup Cut(w))
    /\ y.removed = w.removed \cup P \cup DeadNodes(w) \cup Cut(w)
    /\ Retracts(x.node_of_entity, x.entity_of_node, DeadNodes(w) \cup P, y.node_of_entity, y.entity_of_node)
    /\ y.edge_of_entity = x.edge_of_entity /\ y.entity_of_edge = x.entity_of_edge
    /\ y.queue = x.queue /\ y.applied = x.applied /\ y.next = x.next

LEMMA NodesAreCleared ==
  ASSUME NEW c, NEW w, Sane(c, w), NEW x, NEW P, NEW Q,
         Grown(c, w, x, P, Q, NodesBorn(w), EdgesBorn(w))
  PROVE  NodesCleared(w, x, P, Q, despawn_tombstoned_nodes(x))
<1> DEFINE dead == {e \in x.changed \cap DOMAIN x.presence : ~x.presence[e] /\ e \in DOMAIN x.node_of_entity}
           N == NodesBorn(w)
           E == EdgesBorn(w)
           D == DeadNodes(w)
           C == Cut(w)
           u == Unbind(x, dead, TRUE)
           cut == UNION {Incident(u, e) : e \in dead}
           y == Despawn(u, dead \cup UNION {Incident(x, e) : e \in dead})
<1>1. /\ x \in World /\ w \in World
      /\ GrownEntities(w, x, P, Q, N, E) /\ GrownIndex(c, w, x, P, Q, N, E)
      /\ Apart(w) /\ Linked(w) /\ w.pending = {}
  BY DEF Grown, Sane, Own
<1>2. despawn_tombstoned_nodes(x) = y
  BY Zenon DEF despawn_tombstoned_nodes
<1>3. N \cap DOMAIN w.node_of_entity = {} /\ N \subseteq DOMAIN w.presence
  BY DEF NodesBorn
<1>4. P \cap DOMAIN w.presence = {} /\ Q \cap DOMAIN w.links = {} /\ Q \cap DOMAIN w.presence = {}
      /\ P \cap DOMAIN w.links = {}
  BY <1>1 DEF GrownEntities, Named, Entities, Apart
<1> HIDE DEF N, E
<1>5. dead = D \cup P
  <2>1. \A e \in P : e \in dead
    BY <1>1 DEF GrownEntities, GrownIndex
  <2>2. \A e \in DOMAIN w.presence : e \in dead <=> e \in D
    <3> TAKE e \in DOMAIN w.presence
    <3>1. e \in x.changed <=> e \in w.changed
      BY <1>1, <1>4 DEF GrownEntities
    <3>2. e \in DOMAIN x.node_of_entity <=> e \in DOMAIN w.node_of_entity \/ e \in N
      BY <1>1, <1>4 DEF GrownIndex
    <3>3. e \in DOMAIN x.presence /\ (x.presence[e] <=> w.presence[e] \/ e \in N)
      BY <1>1 DEF GrownEntities
    <3> QED BY <1>3, <3>1, <3>2, <3>3 DEF DeadNodes
  <2>3. \A e \in dead : e \in DOMAIN w.presence \/ e \in P
    BY <1>1 DEF GrownEntities
  <2>4. \A e \in D : e \in DOMAIN w.presence
    BY DEF DeadNodes
  <2> QED BY <2>1, <2>2, <2>3, <2>4
<1>6. UNION {Incident(x, e) : e \in dead} = C
  <2>1. DOMAIN x.links = DOMAIN w.links \cup Q
        /\ (\A e \in DOMAIN w.links : x.links[e] = w.links[e] /\ w.links[e] \subseteq DOMAIN w.presence)
        /\ (\A e \in Q : x.links[e] = {})
    BY <1>1 DEF GrownEntities, Apart, Linked
  <2>2. \A z \in UNION {Incident(x, e) : e \in dead} : z \in C
    <3> TAKE z \in UNION {Incident(x, e) : e \in dead}
    <3>1. PICK e \in dead : z \in DOMAIN x.links /\ e \in x.links[z]
      BY DEF Incident
    <3>2. z \in DOMAIN w.links /\ e \in w.links[z] /\ e \in DOMAIN w.presence
      BY <2>1, <3>1
    <3> QED BY <1>4, <1>5, <3>2, <3>1 DEF Cut
  <2>3. \A z \in C : z \in UNION {Incident(x, e) : e \in dead}
    <3> TAKE z \in C
    <3>1. PICK e \in D : z \in DOMAIN w.links /\ e \in w.links[z]
      BY DEF Cut
    <3>2. z \in Incident(x, e) /\ e \in dead
      BY <1>5, <2>1, <3>1 DEF Incident
    <3> QED BY <3>2
  <2> QED BY <2>2, <2>3
<1>7. NodesUnbound(x, dead, u)
  BY <1>1, UnbindNodes DEF GrownIndex
<1> HIDE DEF dead, u
<1>8. Despawned(u, Entities(u) \cap (dead \cup C), y)
  BY <1>6, <1>7, DespawnIs DEF NodesUnbound
<1>9. Entities(u) \cap (dead \cup C) = D \cup P \cup C
  <2>1. DOMAIN u.presence = DOMAIN w.presence \cup P /\ DOMAIN u.endpoints = DOMAIN w.links \cup Q
    BY <1>1, <1>7 DEF NodesUnbound, GrownEntities, Apart
  <2>2. D \subseteq DOMAIN w.presence /\ C \subseteq DOMAIN w.links
    BY DEF DeadNodes, Cut
  <2> QED BY <1>5, <2>1, <2>2 DEF Entities
<1> DEFINE live == D \cup P \cup C
<1>10. Despawned(u, live, y)
  BY <1>8, <1>9
<1>11. D \subseteq DOMAIN w.presence /\ C \subseteq DOMAIN w.links
       /\ DOMAIN w.presence \cap DOMAIN w.links = {} /\ DOMAIN w.links = DOMAIN w.endpoints
       /\ w.added \subseteq DOMAIN w.presence \cup DOMAIN w.links
       /\ w.changed \subseteq DOMAIN w.presence \cup DOMAIN w.links
  BY <1>1 DEF DeadNodes, Cut, Apart, Entities
<1> HIDE DEF D, C, y
<1>12. \A e \in live : e \in D \/ e \in P \/ e \in C
  OBVIOUS
<1>13. DOMAIN y.presence = DOMAIN w.presence \ D
       /\ \A e \in DOMAIN y.presence : y.presence[e] = x.presence[e]
  BY <1>1, <1>4, <1>7, <1>10, <1>11 DEF NodesUnbound, Despawned, GrownEntities
<1>14. /\ DOMAIN y.endpoints = (DOMAIN w.endpoints \cup Q) \ C
       /\ DOMAIN y.links = DOMAIN y.endpoints
       /\ \A e \in DOMAIN y.endpoints : y.endpoints[e] = x.endpoints[e]
  <2>1. D \cap (DOMAIN w.endpoints \cup Q) = {}
    BY <1>4, <1>11
  <2>2. P \cap (DOMAIN w.endpoints \cup Q) = {}
    BY <1>1 DEF GrownEntities
  <2> QED BY <1>1, <1>7, <1>10, <1>11, <2>1, <2>2 DEF NodesUnbound, Despawned, GrownEntities
<1>15. \A e \in DOMAIN y.links : y.links[e] = x.links[e]
  <2> TAKE e \in DOMAIN y.links
  <2>1. y.links[e] = x.links[e] \ live
    BY <1>7, <1>10 DEF NodesUnbound, Despawned
  <2>2. CASE e \in Q
    BY <1>1, <2>1, <2>2 DEF GrownEntities
  <2>3. CASE e \in DOMAIN w.endpoints /\ e \notin C
    <3>1. x.links[e] = w.links[e] /\ w.links[e] \subseteq DOMAIN w.presence
      BY <1>1, <1>11, <2>3 DEF GrownEntities, Linked
    <3>2. w.links[e] \cap D = {}
      BY <1>11, <2>3 DEF C, D, Cut
    <3> QED BY <1>4, <1>11, <2>1, <3>1, <3>2
  <2> QED BY <1>14, <2>2, <2>3
<1>16. /\ y.pending \subseteq Q /\ y.added = (w.added \cup Q) \ (D \cup C)
       /\ y.changed = (w.changed \cup Q) \ (D \cup C)
  <2>1. y.pending = x.pending \ live /\ y.added = x.added \ live /\ y.changed = x.changed \ live
    BY <1>7, <1>10 DEF NodesUnbound, Despawned
  <2>2. /\ x.pending \subseteq Q /\ x.added = w.added \cup P \cup Q /\ x.changed = w.changed \cup P \cup Q
        /\ P \cap Q = {}
    BY <1>1 DEF GrownEntities
  <2>3. P \cap w.added = {} /\ P \cap w.changed = {}
    BY <1>4, <1>11
  <2> QED BY <2>1, <2>2, <2>3
<1>17. y.removed = w.removed \cup P \cup D \cup C
  BY <1>1, <1>7, <1>10 DEF NodesUnbound, Despawned, GrownEntities
<1>18. /\ Retracts(x.node_of_entity, x.entity_of_node, D \cup P, y.node_of_entity, y.entity_of_node)
       /\ y.edge_of_entity = x.edge_of_entity /\ y.entity_of_edge = x.entity_of_edge
       /\ y.queue = x.queue /\ y.applied = x.applied /\ y.next = x.next /\ y \in World
  BY <1>5, <1>7, <1>10 DEF NodesUnbound, Despawned
<1>19. NodesCleared(w, x, P, Q, y)
  BY <1>13, <1>14, <1>15, <1>16, <1>17, <1>18 DEF NodesCleared, D, C
<1> QED BY <1>2, <1>19

Lost(w) == DeadNodes(w) \cup Cut(w) \cup DeadEdges(w)

\* y is x, which has grown from w by P and Q, without what was tombstoned.
Cleared(w, x, P, Q, y) ==
    /\ y \in World
    /\ DOMAIN y.presence = DOMAIN w.presence \ DeadNodes(w)
    /\ \A e \in DOMAIN y.presence : y.presence[e] = x.presence[e]
    /\ DOMAIN y.endpoints = DOMAIN w.endpoints \ (Cut(w) \cup DeadEdges(w))
    /\ DOMAIN y.links = DOMAIN y.endpoints
    /\ \A e \in DOMAIN y.endpoints : y.endpoints[e] = x.endpoints[e] /\ y.links[e] = x.links[e]
    /\ y.pending = {} /\ y.added = w.added \ Lost(w) /\ y.changed = w.changed \ Lost(w)
    /\ y.removed = w.removed \cup P \cup Q \cup Lost(w)
    /\ Retracts(x.node_of_entity, x.entity_of_node, DeadNodes(w) \cup P, y.node_of_entity, y.entity_of_node)
    /\ Retracts(x.edge_of_entity, x.entity_of_edge, DeadEdges(w) \cup Q, y.edge_of_entity, y.entity_of_edge)
    /\ y.queue = x.queue /\ y.applied = x.applied /\ y.next = x.next

LEMMA EdgesAreCleared ==
  ASSUME NEW c, NEW w, Sane(c, w), NEW x, NEW P, NEW Q,
         Grown(c, w, x, P, Q, NodesBorn(w), EdgesBorn(w)),
         NEW z, NodesCleared(w, x, P, Q, z)
  PROVE  Cleared(w, x, P, Q, despawn_tombstoned_edges(z))
<1> DEFINE dead == {e \in z.changed \cap DOMAIN z.endpoints :
                      ~z.endpoints[e].alive /\ e \in DOMAIN z.edge_of_entity}
           N == NodesBorn(w)
           E == EdgesBorn(w)
           D == DeadNodes(w)
           C == Cut(w)
           B == DeadEdges(w)
           u == Unbind(z, dead, FALSE)
           y == Despawn(u, dead)
<1>1. /\ x \in World /\ w \in World /\ z \in World
      /\ GrownEntities(w, x, P, Q, N, E) /\ GrownIndex(c, w, x, P, Q, N, E)
      /\ Apart(w) /\ Linked(w)
  BY DEF Grown, Sane, NodesCleared
<1>2. despawn_tombstoned_edges(z) = y
  BY Zenon DEF despawn_tombstoned_edges
<1>3. E \cap DOMAIN w.edge_of_entity = {} /\ E \subseteq DOMAIN w.endpoints
  BY <1>1 DEF EdgesBorn, Apart
<1>4. Q \cap DOMAIN w.endpoints = {} /\ Q \cap DOMAIN w.presence = {}
  BY <1>1 DEF GrownEntities, Named, Entities
<1>5. D \subseteq DOMAIN w.presence /\ C \subseteq DOMAIN w.endpoints /\ B \subseteq DOMAIN w.endpoints
      /\ B \cap C = {} /\ DOMAIN w.presence \cap DOMAIN w.endpoints = {}
  BY <1>1 DEF DeadNodes, Cut, DeadEdges, Apart
<1>6. \A e \in DOMAIN w.endpoints \ C :
        e \in B <=> e \in w.changed /\ ~w.endpoints[e].alive /\ e \in DOMAIN w.edge_of_entity
  BY DEF DeadEdges
<1> HIDE DEF N, E, D, C, B
<1>7. dead = B \cup Q
  <2>1. /\ DOMAIN z.endpoints = (DOMAIN w.endpoints \cup Q) \ C
        /\ \A e \in DOMAIN z.endpoints : z.endpoints[e] = x.endpoints[e]
        /\ z.changed = (w.changed \cup Q) \ (D \cup C)
        /\ z.edge_of_entity = x.edge_of_entity
    BY DEF NodesCleared, D, C
  <2>2. \A e \in Q : e \in dead
    <3> TAKE e \in Q
    <3>1. e \notin C /\ e \notin D
      BY <1>4, <1>5
    <3>2. ~x.endpoints[e].alive /\ e \in DOMAIN x.edge_of_entity
      BY <1>1 DEF GrownEntities, GrownIndex
    <3> QED BY <2>1, <3>1, <3>2
  <2>3. \A e \in DOMAIN w.endpoints \ C : e \in dead <=> e \in B
    <3> TAKE e \in DOMAIN w.endpoints \ C
    <3>1. e \in z.changed <=> e \in w.changed
      BY <1>4, <1>5, <2>1
    <3>2. e \in DOMAIN z.edge_of_entity <=> e \in DOMAIN w.edge_of_entity \/ e \in E
      BY <1>1, <1>4, <2>1 DEF GrownIndex
    <3>3. e \in DOMAIN z.endpoints /\ z.endpoints[e] = x.endpoints[e]
      BY <2>1
    <3>4. e \notin E => x.endpoints[e] = w.endpoints[e]
      BY <1>1 DEF GrownEntities
    <3>5. e \in E => x.endpoints[e].alive
      BY <1>1 DEF GrownEntities
    <3> QED BY <1>3, <1>6, <3>1, <3>2, <3>3, <3>4, <3>5
  <2>4. \A e \in dead : e \in Q \/ e \in DOMAIN w.endpoints \ C
    BY <2>1
  <2> QED BY <1>5, <2>2, <2>3, <2>4
<1>8. EdgesUnbound(z, dead, u)
  <2>1. Mirrored(z.edge_of_entity, z.entity_of_edge)
    BY <1>1 DEF GrownIndex, NodesCleared
  <2> QED BY <1>1, <2>1, UnbindEdges
<1> HIDE DEF dead, u
<1>9. Despawned(u, Entities(u) \cap dead, y)
  BY <1>8, DespawnIs DEF EdgesUnbound
<1>10. Entities(u) \cap dead = B \cup Q
  <2>1. DOMAIN u.endpoints = (DOMAIN w.endpoints \cup Q) \ C
    BY <1>8 DEF EdgesUnbound, NodesCleared, C
  <2>2. Q \cap C = {}
    BY <1>4, <1>5
  <2> QED BY <1>5, <1>7, <2>1, <2>2 DEF Entities
<1> DEFINE live == B \cup Q
<1>11. Despawned(u, live, y)
  BY <1>9, <1>10
<1> HIDE DEF y
<1>12. DOMAIN y.presence = DOMAIN w.presence \ D
       /\ \A e \in DOMAIN y.presence : y.presence[e] = x.presence[e]
  <2>1. DOMAIN z.presence = DOMAIN w.presence \ D
        /\ \A e \in DOMAIN z.presence : z.presence[e] = x.presence[e]
    BY DEF NodesCleared, D
  <2>2. DOMAIN z.presence \cap live = {}
    BY <1>4, <1>5, <2>1
  <2> QED BY <1>8, <1>11, <2>1, <2>2 DEF EdgesUnbound, Despawned
<1>13. /\ DOMAIN z.endpoints = (DOMAIN w.endpoints \cup Q) \ C /\ DOMAIN z.links = DOMAIN z.endpoints
       /\ \A e \in DOMAIN z.endpoints : z.endpoints[e] = x.endpoints[e] /\ z.links[e] = x.links[e]
  BY DEF NodesCleared, C
<1>14. /\ DOMAIN y.endpoints = DOMAIN w.endpoints \ (C \cup B)
       /\ DOMAIN y.links = DOMAIN y.endpoints
       /\ \A e \in DOMAIN y.endpoints : y.endpoints[e] = x.endpoints[e]
  BY <1>4, <1>8, <1>11, <1>13 DEF EdgesUnbound, Despawned
<1>15. \A e \in DOMAIN y.links : y.links[e] = x.links[e]
  <2> TAKE e \in DOMAIN y.links
  <2>1. e \in DOMAIN z.links /\ y.links[e] = z.links[e] \ live /\ z.links[e] = x.links[e]
    BY <1>8, <1>11, <1>13 DEF EdgesUnbound, Despawned
  <2>2. e \in DOMAIN w.endpoints
    BY <1>14
  <2>3. x.links[e] = w.links[e] /\ w.links[e] \subseteq DOMAIN w.presence
    BY <1>1, <2>2 DEF GrownEntities, Linked, Apart
  <2>4. DOMAIN w.presence \cap live = {}
    BY <1>4, <1>5
  <2> QED BY <2>1, <2>3, <2>4
<1>16. /\ y.pending = {} /\ y.added = w.added \ (D \cup C \cup B)
       /\ y.changed = w.changed \ (D \cup C \cup B)
  <2>1. y.pending = z.pending \ live /\ y.added = z.added \ live /\ y.changed = z.changed \ live
    BY <1>8, <1>11 DEF EdgesUnbound, Despawned
  <2>2. /\ z.pending \subseteq Q /\ z.added = (w.added \cup Q) \ (D \cup C)
        /\ z.changed = (w.changed \cup Q) \ (D \cup C)
    BY DEF NodesCleared, D, C
  <2>3. Q \cap w.added = {} /\ Q \cap w.changed = {}
    BY <1>1, <1>4 DEF Apart, Entities
  <2> QED BY <2>1, <2>2, <2>3
<1>17. y.removed = w.removed \cup P \cup Q \cup (D \cup C \cup B)
  <2>1. y.removed = z.removed \cup live
    BY <1>8, <1>11 DEF EdgesUnbound, Despawned
  <2>2. z.removed = w.removed \cup P \cup D \cup C
    BY DEF NodesCleared, D, C
  <2> QED BY <2>1, <2>2
<1>18. /\ Retracts(x.edge_of_entity, x.entity_of_edge, B \cup Q, y.edge_of_entity, y.entity_of_edge)
       /\ y.queue = x.queue /\ y.applied = x.applied /\ y.next = x.next /\ y \in World
  BY <1>7, <1>8, <1>11 DEF EdgesUnbound, Despawned, NodesCleared
<1>19. Retracts(x.node_of_entity, x.entity_of_node, D \cup P, y.node_of_entity, y.entity_of_node)
  BY <1>8, <1>11 DEF EdgesUnbound, Despawned, NodesCleared, D
<1>20. Cleared(w, x, P, Q, y)
  BY <1>12, <1>14, <1>15, <1>16, <1>17, <1>18, <1>19, <1>13 DEF Cleared, Lost, D, C, B
<1> QED BY <1>2, <1>20

-----------------------------------------------------------------------------
(* detect_local_despawn. *)

\* q announces the end of those of lost, each once.
Ends(q, lost, f, isNode) ==
    /\ q \in Seq(Ops)
    /\ \A k \in 1..Len(q) : \E e \in lost : q[k] = Op(f[e], isNode, "alive", FALSE)
    /\ \A e \in lost : \E k \in 1..Len(q) : q[k] = Op(f[e], isNode, "alive", FALSE)
    /\ \A j, k \in 1..Len(q) : q[j].target = q[k].target => j = k

LEMMA ListIs ==
  ASSUME NEW S, NEW n \in Nat, NEW q \in [1..n -> S]
  PROVE  q \in Seq(S) /\ Len(q) = n
OBVIOUS

LEMMA EndsOf ==
  ASSUME NEW f \in MapsOf(Nat, Id), Injective(f), NEW lost \in SUBSET DOMAIN f, IsFiniteSet(lost),
         NEW isNode \in BOOLEAN, NEW s, s = InOrder(lost), NEW q,
         q = [k \in 1..Len(s) |-> Op(f[s[k]], isNode, "alive", FALSE)]
  PROVE  Ends(q, lost, f, isNode)
<1>1. s \in Seq(lost) /\ Injective(s) /\ Range(s) = lost
  BY InOrderIs, Zenon
<1>2. Len(s) \in Nat /\ DOMAIN s = 1..Len(s) /\ \A k \in 1..Len(s) : s[k] \in lost
  BY <1>1
<1>3. \A e \in lost : f[e] \in Id
  BY MapIs
<1>4. \A e \in lost : Op(f[e], isNode, "alive", FALSE) \in Ops
  BY <1>3 DEF Op, Ops
<1>5. q \in Seq(Ops) /\ Len(q) = Len(s)
      /\ \A k \in 1..Len(s) : q[k] = Op(f[s[k]], isNode, "alive", FALSE)
  <2>1. q \in [1..Len(s) -> Ops]
    BY <1>2, <1>4
  <2>2. \A k \in 1..Len(s) : q[k] = Op(f[s[k]], isNode, "alive", FALSE)
    OBVIOUS
  <2> DEFINE n == Len(s)
  <2>3. q \in [1..n -> Ops] /\ n \in Nat
    BY <1>2, <2>1
  <2> HIDE DEF n
  <2>4. q \in Seq(Ops) /\ Len(q) = n
    BY <2>3, ListIs, Zenon
  <2> QED BY <2>2, <2>4 DEF n
<1>6. \A k \in 1..Len(q) : \E e \in lost : q[k] = Op(f[e], isNode, "alive", FALSE)
  BY <1>2, <1>5
<1>7. \A e \in lost : \E k \in 1..Len(q) : q[k] = Op(f[e], isNode, "alive", FALSE)
  <2> TAKE e \in lost
  <2>1. PICK k \in 1..Len(s) : s[k] = e
    BY <1>1, <1>2 DEF Range
  <2> QED BY <1>5, <2>1
<1>8. \A j, k \in 1..Len(q) : q[j].target = q[k].target => j = k
  <2> TAKE j, k \in 1..Len(q)
  <2>1. q[j].target = f[s[j]] /\ q[k].target = f[s[k]]
    BY <1>5 DEF Op
  <2>2. s[j] \in DOMAIN f /\ s[k] \in DOMAIN f
    BY <1>2, <1>5
  <2>3. q[j].target = q[k].target => s[j] = s[k]
    BY <2>1, <2>2 DEF Injective
  <2> QED BY <1>1, <1>2, <1>5, <2>3 DEF Injective
<1> QED BY <1>5, <1>6, <1>7, <1>8 DEF Ends

\* y is x without the bindings of what was removed, which is announced.
NodesDetected(x, y) ==
    \E q : /\ Ends(q, x.removed \cap DOMAIN x.node_of_entity, x.node_of_entity, TRUE)
           /\ y \in World
           /\ Retracts(x.node_of_entity, x.entity_of_node, x.removed, y.node_of_entity, y.entity_of_node)
           /\ y.presence = x.presence /\ y.endpoints = x.endpoints /\ y.links = x.links
           /\ y.pending = x.pending /\ y.added = x.added /\ y.changed = x.changed
           /\ y.removed = x.removed /\ y.edge_of_entity = x.edge_of_entity
           /\ y.entity_of_edge = x.entity_of_edge /\ y.queue = x.queue \o q
           /\ y.applied = x.applied /\ y.next = x.next

EdgesDetected(x, y) ==
    \E q : /\ Ends(q, x.removed \cap DOMAIN x.edge_of_entity, x.edge_of_entity, FALSE)
           /\ y \in World
           /\ Retracts(x.edge_of_entity, x.entity_of_edge, x.removed, y.edge_of_entity, y.entity_of_edge)
           /\ y.presence = x.presence /\ y.endpoints = x.endpoints /\ y.links = x.links
           /\ y.pending = x.pending /\ y.added = x.added /\ y.changed = x.changed
           /\ y.removed = x.removed /\ y.node_of_entity = x.node_of_entity
           /\ y.entity_of_node = x.entity_of_node /\ y.queue = x.queue \o q
           /\ y.applied = x.applied /\ y.next = x.next

LEMMA DetectNodes ==
  ASSUME NEW x \in World, Mirrored(x.node_of_entity, x.entity_of_node), IsFiniteSet(DOMAIN x.node_of_entity)
  PROVE  NodesDetected(x, detect_local_despawn(x, TRUE))
<1> DEFINE index == x.node_of_entity
           lost == x.removed \cap DOMAIN index
           s == InOrder(lost)
           q == [k \in 1..Len(s) |-> Op(index[s[k]], TRUE, "alive", FALSE)]
           u == Unbind(x, x.removed, TRUE)
           y == detect_local_despawn(x, TRUE)
<1>1. y = [u EXCEPT !.queue = u.queue \o q]
  BY DEF detect_local_despawn
<1>2. NodesUnbound(x, x.removed, u)
  BY UnbindNodes
<1>3. Ends(q, lost, index, TRUE)
  <2>1. index \in MapsOf(Nat, Id) /\ Injective(index)
    BY IndexIs, MirrorIds
  <2>2. lost \in SUBSET DOMAIN index /\ IsFiniteSet(lost)
    BY FS_Subset
  <2>3. q = [k \in 1..Len(s) |-> Op(index[s[k]], TRUE, "alive", FALSE)] /\ s = InOrder(lost)
    OBVIOUS
  <2> HIDE DEF q, s, index, lost
  <2> QED BY <2>1, <2>2, <2>3, EndsOf, Zenon
<1> HIDE DEF y, q, u
<1>4. q \in Seq(Ops) /\ u \in World /\ u.queue = x.queue /\ x.queue \in Seq(Ops)
  BY <1>2, <1>3 DEF Ends, NodesUnbound, World
<1>5. x.queue \o q \in Seq(Ops)
  BY <1>4
<1>6. NodesDetected(x, y)
  BY <1>1, <1>2, <1>3, <1>4, <1>5 DEF NodesDetected, NodesUnbound, World
<1> QED BY <1>6 DEF y

LEMMA DetectEdges ==
  ASSUME NEW x \in World, Mirrored(x.edge_of_entity, x.entity_of_edge), IsFiniteSet(DOMAIN x.edge_of_entity)
  PROVE  EdgesDetected(x, detect_local_despawn(x, FALSE))
<1> DEFINE index == x.edge_of_entity
           lost == x.removed \cap DOMAIN index
           s == InOrder(lost)
           q == [k \in 1..Len(s) |-> Op(index[s[k]], FALSE, "alive", FALSE)]
           u == Unbind(x, x.removed, FALSE)
           y == detect_local_despawn(x, FALSE)
<1>1. y = [u EXCEPT !.queue = u.queue \o q]
  BY DEF detect_local_despawn
<1>2. EdgesUnbound(x, x.removed, u)
  BY UnbindEdges
<1>3. Ends(q, lost, index, FALSE)
  <2>1. index \in MapsOf(Nat, Id) /\ Injective(index)
    BY IndexIs, MirrorIds
  <2>2. lost \in SUBSET DOMAIN index /\ IsFiniteSet(lost)
    BY FS_Subset
  <2>3. q = [k \in 1..Len(s) |-> Op(index[s[k]], FALSE, "alive", FALSE)] /\ s = InOrder(lost)
    OBVIOUS
  <2> HIDE DEF q, s, index, lost
  <2> QED BY <2>1, <2>2, <2>3, EndsOf, Zenon
<1> HIDE DEF y, q, u
<1>4. q \in Seq(Ops) /\ u \in World /\ u.queue = x.queue /\ x.queue \in Seq(Ops)
  BY <1>2, <1>3 DEF Ends, EdgesUnbound, World
<1>5. x.queue \o q \in Seq(Ops)
  BY <1>4
<1>6. EdgesDetected(x, y)
  BY <1>1, <1>2, <1>3, <1>4, <1>5 DEF EdgesDetected, EdgesUnbound, World
<1> QED BY <1>6 DEF y

-----------------------------------------------------------------------------
(* What the structural systems of a frame make of a world w.  The ids of   *)
(* what was bound or has become so are f, of nodes, and g, of edges.       *)

LostNodes(w) == w.removed \cap DOMAIN w.node_of_entity
LostEdges(w) ==
    (w.removed \cap DOMAIN w.edge_of_entity) \cup (Cut(w) \cap (DOMAIN w.edge_of_entity \cup EdgesBorn(w)))

ResultEntities(w, v, f) ==
    /\ DOMAIN v.presence = DOMAIN w.presence \ DeadNodes(w)
    /\ \A e \in DOMAIN v.presence : v.presence[e] <=> w.presence[e] \/ e \in NodesBorn(w)
    /\ DOMAIN v.endpoints = DOMAIN w.endpoints \ (Cut(w) \cup DeadEdges(w))
    /\ DOMAIN v.links = DOMAIN v.endpoints
    /\ \A e \in DOMAIN v.endpoints :
         /\ v.links[e] = w.links[e]
         /\ e \notin EdgesBorn(w) => v.endpoints[e] = w.endpoints[e]
         /\ e \in EdgesBorn(w) => v.endpoints[e].alive /\ v.endpoints[e].ends = {f[z] : z \in w.links[e]}
    /\ v.pending = {} /\ v.added = w.added \ Lost(w) /\ v.changed = w.changed \ Lost(w)

\* The ids c gives: those of nodes come first.
Numbers(c, w, f, g, m, n) ==
    /\ w.next <= m /\ m <= n /\ m \in Nat /\ n \in Nat
    /\ DOMAIN w.node_of_entity \cup NodesBorn(w) \subseteq DOMAIN f
    /\ DOMAIN w.edge_of_entity \cup EdgesBorn(w) \subseteq DOMAIN g
    /\ Injective(f) /\ Injective(g)
    /\ \A e \in DOMAIN w.node_of_entity : f[e] = w.node_of_entity[e]
    /\ \A e \in DOMAIN w.edge_of_entity : g[e] = w.edge_of_entity[e]
    /\ \A e \in NodesBorn(w) : f[e] \in Fresh(c, w.next, m)
    /\ \A e \in EdgesBorn(w) : g[e] \in Fresh(c, m, n)
    /\ \A id \in Fresh(c, w.next, m) : \E e \in NodesBorn(w) : f[e] = id
    /\ \A id \in Fresh(c, m, n) : \E e \in EdgesBorn(w) : g[e] = id

ResultIndex(w, v, f, g) ==
    /\ DOMAIN v.node_of_entity = (DOMAIN w.node_of_entity \cup NodesBorn(w)) \ (DeadNodes(w) \cup w.removed)
    /\ \A e \in DOMAIN v.node_of_entity : v.node_of_entity[e] = f[e]
    /\ DOMAIN v.edge_of_entity
         = (DOMAIN w.edge_of_entity \cup EdgesBorn(w)) \ (Cut(w) \cup DeadEdges(w) \cup w.removed)
    /\ \A e \in DOMAIN v.edge_of_entity : v.edge_of_entity[e] = g[e]
    /\ Mirrored(v.node_of_entity, v.entity_of_node)
    /\ Mirrored(v.edge_of_entity, v.entity_of_edge)

ResultQueue(w, v, f, g) ==
    \E q, r : Ends(q, LostNodes(w), f, TRUE) /\ Ends(r, LostEdges(w), g, FALSE) /\ v.queue = q \o r

Result(c, w, v, f, g) ==
    /\ v \in World
    /\ ResultEntities(w, v, f) /\ ResultIndex(w, v, f, g) /\ ResultQueue(w, v, f, g)
    /\ \E m : Numbers(c, w, f, g, m, v.next)

LEMMA EndsSame ==
  ASSUME NEW lost, NEW f, NEW h, \A e \in lost : f[e] = h[e], NEW isNode, NEW q, Ends(q, lost, f, isNode)
  PROVE  Ends(q, lost, h, isNode)
<1> DEFINE a(e) == Op(f[e], isNode, "alive", FALSE)
           b(e) == Op(h[e], isNode, "alive", FALSE)
<1>1. \A e \in lost : a(e) = b(e)
  OBVIOUS
<1>2. /\ \A k \in 1..Len(q) : \E e \in lost : q[k] = a(e)
      /\ \A e \in lost : \E k \in 1..Len(q) : q[k] = a(e)
  BY DEF Ends
<1> HIDE DEF a, b
<1>3. /\ \A k \in 1..Len(q) : \E e \in lost : q[k] = b(e)
      /\ \A e \in lost : \E k \in 1..Len(q) : q[k] = b(e)
  BY <1>1, <1>2
<1> QED BY <1>3 DEF Ends, b

LEMMA NumbersAre ==
  ASSUME NEW c, NEW w, Sane(c, w), NEW x, NEW P, NEW Q, Grown(c, w, x, P, Q, NodesBorn(w), EdgesBorn(w))
  PROVE  \E m : Numbers(c, w, x.node_of_entity, x.edge_of_entity, m, x.next)
<1> DEFINE N == NodesBorn(w)
           E == EdgesBorn(w)
           m == w.next + Cardinality(N)
<1>1. GrownIndex(c, w, x, P, Q, N, E) /\ w.next \in Nat
  BY DEF Grown, Sane, World
<1>2. N \subseteq Named(w) /\ E \subseteq Named(w) /\ IsFiniteSet(Named(w))
  BY DEF Sane, Apart, NodesBorn, EdgesBorn, Named, Entities
<1>3. Cardinality(N) \in Nat /\ Cardinality(E) \in Nat
  BY <1>2, FS_Subset, FS_CardinalityType
<1> HIDE DEF N, E
<1>4. x.next = m + Cardinality(E)
  BY <1>1 DEF GrownIndex
<1>5. m \in Nat /\ x.next \in Nat /\ w.next <= m /\ m <= x.next
  BY <1>1, <1>3, <1>4
<1> HIDE DEF m
<1>6. Injective(x.node_of_entity) /\ Injective(x.edge_of_entity)
  BY <1>1, MirrorIds DEF GrownIndex
<1>7. Numbers(c, w, x.node_of_entity, x.edge_of_entity, m, x.next)
  BY <1>1, <1>5, <1>6 DEF Numbers, GrownIndex, N, E, m
<1> QED BY <1>7

LEMMA Results ==
  ASSUME NEW c, NEW w, Sane(c, w), NEW x, NEW P, NEW Q,
         Grown(c, w, x, P, Q, NodesBorn(w), EdgesBorn(w)),
         NEW y, Cleared(w, x, P, Q, y), NEW z, NodesDetected(y, z), NEW v, EdgesDetected(z, v)
  PROVE  Result(c, w, v, x.node_of_entity, x.edge_of_entity) /\ v.applied = x.applied
<1> DEFINE N == NodesBorn(w)
           E == EdgesBorn(w)
           D == DeadNodes(w)
           C == Cut(w)
           B == DeadEdges(w)
           f == x.node_of_entity
           g == x.edge_of_entity
<1>1. /\ x \in World /\ w \in World /\ y \in World
      /\ GrownEntities(w, x, P, Q, N, E) /\ GrownIndex(c, w, x, P, Q, N, E)
      /\ Apart(w) /\ Linked(w)
  BY DEF Grown, Sane, Cleared
<1>2. N \cap DOMAIN w.node_of_entity = {} /\ N \subseteq DOMAIN w.presence
  BY DEF NodesBorn
<1>3. E \cap DOMAIN w.edge_of_entity = {} /\ E \subseteq DOMAIN w.endpoints
  BY <1>1 DEF EdgesBorn, Apart
<1>4. D \subseteq DOMAIN w.presence /\ C \subseteq DOMAIN w.endpoints /\ B \subseteq DOMAIN w.endpoints
  BY <1>1 DEF DeadNodes, Cut, DeadEdges, Apart
<1>5. PICK q : /\ Ends(q, y.removed \cap DOMAIN y.node_of_entity, y.node_of_entity, TRUE)
               /\ z \in World
               /\ Retracts(y.node_of_entity, y.entity_of_node, y.removed, z.node_of_entity, z.entity_of_node)
               /\ z.presence = y.presence /\ z.endpoints = y.endpoints /\ z.links = y.links
               /\ z.pending = y.pending /\ z.added = y.added /\ z.changed = y.changed
               /\ z.removed = y.removed /\ z.edge_of_entity = y.edge_of_entity
               /\ z.entity_of_edge = y.entity_of_edge /\ z.queue = y.queue \o q
               /\ z.applied = y.applied /\ z.next = y.next
  BY DEF NodesDetected
<1>6. PICK r : /\ Ends(r, z.removed \cap DOMAIN z.edge_of_entity, z.edge_of_entity, FALSE)
               /\ v \in World
               /\ Retracts(z.edge_of_entity, z.entity_of_edge, z.removed, v.edge_of_entity, v.entity_of_edge)
               /\ v.presence = z.presence /\ v.endpoints = z.endpoints /\ v.links = z.links
               /\ v.pending = z.pending /\ v.added = z.added /\ v.changed = z.changed
               /\ v.removed = z.removed /\ v.node_of_entity = z.node_of_entity
               /\ v.entity_of_node = z.entity_of_node /\ v.queue = z.queue \o r
               /\ v.applied = z.applied /\ v.next = z.next
  BY DEF EdgesDetected
<1>70. Lost(w) = D \cup C \cup B
  BY DEF Lost
<1> HIDE DEF N, E, D, C, B
<1>7. /\ y.removed = w.removed \cup P \cup Q \cup D \cup C \cup B
      /\ y.queue = << >> /\ y.applied = x.applied /\ y.next = x.next
      /\ Retracts(f, x.entity_of_node, D \cup P, y.node_of_entity, y.entity_of_node)
      /\ Retracts(g, x.entity_of_edge, B \cup Q, y.edge_of_entity, y.entity_of_edge)
  BY <1>1, <1>70 DEF Cleared, GrownEntities, D, B
<1>8. /\ DOMAIN f = DOMAIN w.node_of_entity \cup P \cup N
      /\ DOMAIN g = DOMAIN w.edge_of_entity \cup Q \cup E
      /\ (P \cup Q) \cap (Entities(w) \cup DOMAIN w.node_of_entity \cup DOMAIN w.edge_of_entity \cup w.removed) = {}
      /\ P \cap Q = {}
  BY <1>1 DEF GrownIndex, GrownEntities, Named
<1>9. /\ DOMAIN w.presence \cap DOMAIN w.endpoints = {} /\ Entities(w) = DOMAIN w.presence \cup DOMAIN w.endpoints
      /\ w.removed \cap (DOMAIN w.presence \cup DOMAIN w.endpoints) = {}
      /\ DOMAIN w.node_of_entity \subseteq DOMAIN w.presence \cup w.removed
      /\ DOMAIN w.edge_of_entity \subseteq DOMAIN w.endpoints \cup w.removed
      /\ DOMAIN w.node_of_entity \cap DOMAIN w.edge_of_entity = {}
  BY <1>1 DEF Apart, Entities
<1>10. DOMAIN w.node_of_entity \cap DOMAIN w.endpoints = {}
       /\ DOMAIN w.edge_of_entity \cap DOMAIN w.presence = {}
  BY <1>9
<1>11. DOMAIN y.node_of_entity = DOMAIN f \ (D \cup P) /\ DOMAIN y.edge_of_entity = DOMAIN g \ (B \cup Q)
       /\ (\A e \in DOMAIN y.node_of_entity : y.node_of_entity[e] = f[e])
       /\ (\A e \in DOMAIN y.edge_of_entity : y.edge_of_entity[e] = g[e])
       /\ Mirrored(y.node_of_entity, y.entity_of_node)
       /\ Mirrored(y.edge_of_entity, y.entity_of_edge)
  BY <1>7 DEF Retracts
<1>12. /\ DOMAIN v.node_of_entity = DOMAIN y.node_of_entity \ y.removed
       /\ \A e \in DOMAIN v.node_of_entity : v.node_of_entity[e] = y.node_of_entity[e]
       /\ Mirrored(v.node_of_entity, v.entity_of_node)
  BY <1>5, <1>6 DEF Retracts
<1>13. /\ DOMAIN v.edge_of_entity = DOMAIN y.edge_of_entity \ y.removed
       /\ \A e \in DOMAIN v.edge_of_entity : v.edge_of_entity[e] = y.edge_of_entity[e]
       /\ Mirrored(v.edge_of_entity, v.entity_of_edge)
  BY <1>5, <1>6 DEF Retracts
<1> HIDE DEF f, g
<1>14. DOMAIN y.node_of_entity = (DOMAIN w.node_of_entity \cup N) \ D
       /\ DOMAIN y.edge_of_entity = (DOMAIN w.edge_of_entity \cup E) \ B
  BY <1>2, <1>3, <1>8, <1>9, <1>11
<1>15. DOMAIN v.node_of_entity = (DOMAIN w.node_of_entity \cup N) \ (D \cup w.removed)
  <2>1. (C \cup B \cup P \cup Q) \cap (DOMAIN w.node_of_entity \cup N) = {}
    BY <1>2, <1>4, <1>8, <1>9, <1>10
  <2> QED BY <1>7, <1>12, <1>14, <2>1
<1>16. DOMAIN v.edge_of_entity = (DOMAIN w.edge_of_entity \cup E) \ (C \cup B \cup w.removed)
  <2>1. (D \cup P \cup Q) \cap (DOMAIN w.edge_of_entity \cup E) = {}
    BY <1>3, <1>4, <1>8, <1>9, <1>10
  <2> QED BY <1>7, <1>13, <1>14, <2>1
<1>17. ResultIndex(w, v, f, g)
  BY <1>11, <1>12, <1>13, <1>15, <1>16 DEF ResultIndex, N, E, D, C, B
<1>18. y.removed \cap DOMAIN y.node_of_entity = LostNodes(w)
  <2>1. (C \cup B \cup P \cup Q) \cap (DOMAIN w.node_of_entity \cup N) = {}
    BY <1>2, <1>4, <1>8, <1>9, <1>10
  <2>2. w.removed \cap N = {} /\ w.removed \cap D = {}
    BY <1>2, <1>4, <1>9
  <2> QED BY <1>7, <1>14, <2>1, <2>2 DEF LostNodes
<1>19. y.removed \cap DOMAIN y.edge_of_entity = LostEdges(w)
  <2>1. (D \cup P \cup Q) \cap (DOMAIN w.edge_of_entity \cup E) = {}
    BY <1>3, <1>4, <1>8, <1>9, <1>10
  <2>2. w.removed \cap E = {} /\ w.removed \cap B = {} /\ C \cap B = {}
    BY <1>3, <1>4, <1>9 DEF B, DeadEdges, C
  <2>3. LostEdges(w) = (w.removed \cap DOMAIN w.edge_of_entity) \cup (C \cap (DOMAIN w.edge_of_entity \cup E))
    BY DEF LostEdges, C, E
  <2> QED BY <1>7, <1>14, <2>1, <2>2, <2>3
<1>20. ResultQueue(w, v, f, g)
  <2>1. Ends(q, LostNodes(w), f, TRUE)
    <3>1. \A e \in LostNodes(w) : y.node_of_entity[e] = f[e]
      BY <1>11, <1>18
    <3>2. Ends(q, LostNodes(w), y.node_of_entity, TRUE)
      BY <1>5, <1>18
    <3> QED BY <3>1, <3>2, EndsSame
  <2>2. Ends(r, LostEdges(w), g, FALSE)
    <3>1. \A e \in LostEdges(w) : y.edge_of_entity[e] = g[e]
      BY <1>11, <1>19
    <3>2. Ends(r, LostEdges(w), y.edge_of_entity, FALSE)
      BY <1>5, <1>6, <1>19
    <3> QED BY <3>1, <3>2, EndsSame
  <2>3. v.queue = q \o r
    <3>1. q \in Seq(Ops) /\ r \in Seq(Ops)
      BY <2>1, <2>2 DEF Ends
    <3>2. << >> \o q = q
      BY <3>1
    <3> QED BY <1>5, <1>6, <1>7, <3>2
  <2> QED BY <2>1, <2>2, <2>3 DEF ResultQueue
<1>21. ResultEntities(w, v, f)
  <2>1. /\ v.presence = y.presence /\ v.endpoints = y.endpoints /\ v.links = y.links
        /\ v.pending = y.pending /\ v.added = y.added /\ v.changed = y.changed
    BY <1>5, <1>6
  <2>2. \A e \in DOMAIN v.presence : v.presence[e] <=> w.presence[e] \/ e \in N
    BY <1>1, <2>1 DEF Cleared, GrownEntities
  <2>3. \A e \in DOMAIN v.endpoints :
         /\ v.links[e] = w.links[e]
         /\ e \notin E => v.endpoints[e] = w.endpoints[e]
         /\ e \in E => v.endpoints[e].alive /\ v.endpoints[e].ends = {f[u] : u \in w.links[e]}
    <3> TAKE e \in DOMAIN v.endpoints
    <3>1. e \in DOMAIN w.endpoints /\ v.endpoints[e] = x.endpoints[e] /\ v.links[e] = x.links[e]
      BY <2>1 DEF Cleared
    <3>2. /\ x.links[e] = w.links[e]
          /\ e \notin E => x.endpoints[e] = w.endpoints[e]
          /\ e \in E => x.endpoints[e].alive /\ x.endpoints[e].ends = {f[u] : u \in w.links[e]}
      BY <1>1, <3>1, Zenon DEF GrownEntities, f
    <3> QED BY <3>1, <3>2
  <2> QED BY <2>1, <2>2, <2>3 DEF ResultEntities, Cleared, N, E
<1>22. \E m : Numbers(c, w, f, g, m, v.next)
  BY <1>5, <1>6, <1>7, NumbersAre DEF f, g
<1>23. Result(c, w, v, f, g) /\ v.applied = x.applied
  BY <1>5, <1>6, <1>7, <1>17, <1>20, <1>21, <1>22 DEF Result
<1> QED BY <1>23 DEF f, g

\* SyncSet::Structural
LEMMA StructuralIs ==
  ASSUME NEW c \in Client, NEW w, Sane(c, w), NEW n \in Nat, w.applied <= n,
         \A k \in w.applied + 1..n : Given(c, w, log[k])
  PROVE  \E f, g : /\ Result(c, w, Structural(w, c, n), f, g)
                   /\ Structural(w, c, n).applied = n
<1>1. PICK x0 : Grew(c, w, x0) /\ graph_inbound_system(w, n) = [x0 EXCEPT !.applied = n]
  BY InboundGrows
<1> DEFINE x1 == graph_inbound_system(w, n)
           x2 == resolve_pending_edges(x1)
           x3 == assign_local_node_ids(x2, c)
           x4 == assign_local_edge_ids(x3, c)
           x5 == despawn_tombstoned_nodes(x4)
           x6 == despawn_tombstoned_edges(x5)
           x7 == detect_local_despawn(x6, TRUE)
           x8 == detect_local_despawn(x7, FALSE)
           P == NewNodes(w, x0)
           Q == NewEdges(w, x0)
<1>2. Structural(w, c, n) = x8
  BY Zenon DEF Structural
<1>3. Grown(c, w, x1, P, Q, {}, {}) /\ x1.applied = n
  BY <1>1, GrownInbound
<1> HIDE DEF x1
<1>4. x2 = x1
  <2>1. x1 \in World /\ \A e \in x1.pending : ~x1.endpoints[e].alive
    BY <1>3 DEF Grown, GrownEntities
  <2> QED BY <2>1, NoneResolved
<1> HIDE DEF P, Q, x2
<1>5. Grown(c, w, x3, P, Q, NodesBorn(w), {}) /\ x3.applied = n
  BY <1>3, <1>4, GrownByNodes
<1> HIDE DEF x3
<1>6. Grown(c, w, x4, P, Q, NodesBorn(w), EdgesBorn(w)) /\ x4.applied = n
  BY <1>5, GrownByEdges
<1> HIDE DEF x4
<1>7. NodesCleared(w, x4, P, Q, x5)
  BY <1>6, NodesAreCleared
<1> HIDE DEF x5
<1>8. Cleared(w, x4, P, Q, x6)
  BY <1>6, <1>7, EdgesAreCleared
<1> HIDE DEF x6
<1>9. /\ x6 \in World /\ Mirrored(x6.node_of_entity, x6.entity_of_node)
      /\ Mirrored(x6.edge_of_entity, x6.entity_of_edge)
      /\ DOMAIN x6.node_of_entity \subseteq DOMAIN x4.node_of_entity
      /\ DOMAIN x6.edge_of_entity \subseteq DOMAIN x4.edge_of_entity
  BY <1>8 DEF Cleared, Retracts
<1>10. IsFiniteSet(DOMAIN x6.node_of_entity) /\ IsFiniteSet(DOMAIN x6.edge_of_entity)
  <2>1. IsFiniteSet(Named(x4)) /\ DOMAIN x6.node_of_entity \subseteq Named(x4)
        /\ DOMAIN x6.edge_of_entity \subseteq Named(x4)
    BY <1>6, <1>9 DEF Grown, Named
  <2> QED BY <2>1, FS_Subset
<1>11. NodesDetected(x6, x7)
  BY <1>9, <1>10, DetectNodes
<1> HIDE DEF x7
<1>12. x7 \in World /\ x7.edge_of_entity = x6.edge_of_entity /\ x7.entity_of_edge = x6.entity_of_edge
  BY <1>11 DEF NodesDetected
<1>13. EdgesDetected(x7, x8)
  BY <1>9, <1>10, <1>12, DetectEdges
<1> HIDE DEF x8
<1>14. Result(c, w, x8, x4.node_of_entity, x4.edge_of_entity) /\ x8.applied = n
  BY <1>6, <1>8, <1>11, <1>13, Results
<1> QED BY <1>2, <1>14

-----------------------------------------------------------------------------
(* The invariant. *)

\* An op about an id that was given, of the kind and with the ends it has.
Fit(op, w) ==
    /\ op \in Ops /\ op.target[2] < w.next
    /\ op.field = "alive" => op.value \in BOOLEAN
    /\ op.field = "ends" => ~op.node
    /\ op.target \in DOMAIN w.entity_of_node => op.node
    /\ op.target \in DOMAIN w.entity_of_edge => ~op.node
    /\ op.field = "ends" /\ op.target \in DOMAIN w.entity_of_edge =>
         LET e == w.entity_of_edge[op.target]
         IN e \in DOMAIN w.endpoints => op.value = w.endpoints[e].ends

Meant(op, ws) == Fit(op, ws[op.target[1]])

\* What entity e of id says against what the log has said of it.
Agrees(w, l, s, e, id, alive) ==
    /\ ~alive => Said(l, w.applied, id, FALSE)
    /\ Announced(l, s, id, TRUE)
    /\ Reg(l, w.applied, id, "alive") = FALSE => e \in w.changed /\ ~alive

NodesAgree(w, l, s) ==
    \A e \in DOMAIN w.presence \cap DOMAIN w.node_of_entity :
      Agrees(w, l, s, e, w.node_of_entity[e], w.presence[e])

EdgesAgree(w, l, s) ==
    \A e \in DOMAIN w.endpoints \cap DOMAIN w.edge_of_entity :
      Agrees(w, l, s, e, w.edge_of_entity[e], w.endpoints[e].alive)

IsBound(w, id) == id \in DOMAIN w.entity_of_node \cup DOMAIN w.entity_of_edge

\* An id that is bound no more was announced dead.
Ended(c, w, l, s) ==
    \A k \in 0..w.next - 1 : IsBound(w, <<c, k>>) \/ Announced(l, s, <<c, k>>, FALSE)

\* An id that is bound has no tombstones but of others.
Counted(c, w, l, s, n) ==
    \A k \in Nat :
      Cardinality(Tombstones(l, <<c, k>>)) + Cardinality(Tombstones(s, <<c, k>>))
        <= n + IF IsBound(w, <<c, k>>) THEN 0 ELSE 1

\* Only its user's doing.
Grieved(w, s, g) ==
    /\ \A e \in w.removed \cap DOMAIN w.node_of_entity : w.node_of_entity[e] \in g
    /\ \A k \in 1..Len(s) : s[k].node /\ ~s[k].value => s[k].target \in g

\* A bound edge hangs on the living nodes it names.
Hangs(w, b) ==
    \A e \in DOMAIN w.endpoints \cap DOMAIN w.edge_of_entity :
      /\ w.endpoints[e].ends \in SUBSET Id
      /\ \A id \in w.endpoints[e].ends :
         \/ id \in b
         \/ id \in DOMAIN w.entity_of_node /\ w.entity_of_node[id] \in w.links[e]

\* A client with world w, whose ops s are not in the log l yet.
Ok(c, w, l, s, p, h, b) ==
    /\ Sane(c, w) /\ w.applied <= Len(l)
    /\ s \in Seq(Ops) /\ \A k \in 1..Len(s) : s[k].target[1] = c /\ Fit(s[k], w)
    /\ NodesAgree(w, l, s) /\ EdgesAgree(w, l, s)
    /\ Ended(c, w, l, s) /\ Counted(c, w, l, s, p)
    /\ Grieved(w, s, h) /\ Hangs(w, b)

LogOk(l, ws) == l \in Seq(Ops) /\ \A k \in 1..Len(l) : Meant(l[k], ws)

IInv ==
    /\ LogOk(log, world) /\ joined \subseteq Client /\ peerOps \in Nat
    /\ world = [c \in Client |-> world[c]] /\ wire = [c \in Client |-> wire[c]]
    /\ gone = [c \in Client |-> gone[c]]
    /\ \A c \in Client : /\ Ok(c, world[c], log, wire[c], peerOps, gone[c], bare)
                         /\ c \notin joined => world[c] = Empty /\ wire[c] = << >>

-----------------------------------------------------------------------------
(* The ids after the structural systems. *)

Kinds(c, w, v, f, g) ==
    /\ w.next \in Nat /\ v.next \in Nat /\ w.next <= v.next
    /\ \A a \in DOMAIN w.node_of_entity \cup NodesBorn(w) : f[a] \in Id /\ f[a][1] = c /\ f[a][2] < v.next
    /\ \A b \in DOMAIN w.edge_of_entity \cup EdgesBorn(w) : g[b] \in Id /\ g[b][1] = c /\ g[b][2] < v.next
    /\ \A a \in DOMAIN w.node_of_entity \cup NodesBorn(w) :
         \A b \in DOMAIN w.edge_of_entity \cup EdgesBorn(w) : f[a] # g[b]
    /\ \A a \in NodesBorn(w) : w.next <= f[a][2]
    /\ \A b \in EdgesBorn(w) : w.next <= g[b][2]
    /\ \A a \in DOMAIN w.node_of_entity :
         f[a] = w.node_of_entity[a] /\ f[a] \in DOMAIN w.entity_of_node /\ w.entity_of_node[f[a]] = a
    /\ \A b \in DOMAIN w.edge_of_entity :
         g[b] = w.edge_of_entity[b] /\ g[b] \in DOMAIN w.entity_of_edge /\ w.entity_of_edge[g[b]] = b

LEMMA KindsAre ==
  ASSUME NEW c \in Client, NEW w, Sane(c, w), NEW v, NEW f, NEW g, Result(c, w, v, f, g)
  PROVE  Kinds(c, w, v, f, g)
<1>1. PICK m : Numbers(c, w, f, g, m, v.next)
  BY DEF Result
<1>2. /\ w.next <= m /\ m <= v.next /\ m \in Nat /\ v.next \in Nat /\ w.next \in Nat /\ w \in World
  BY <1>1 DEF Numbers, Sane, World
<1>3. \A id \in Fresh(c, w.next, m) : id \in Id /\ id[1] = c /\ w.next <= id[2] /\ id[2] < m /\ id[2] \in Nat
  BY <1>2 DEF Fresh, Id
<1>4. \A id \in Fresh(c, m, v.next) : id \in Id /\ id[1] = c /\ m <= id[2] /\ id[2] < v.next /\ id[2] \in Nat
  BY <1>2 DEF Fresh, Id
<1>5. \A a \in NodesBorn(w) : f[a] \in Fresh(c, w.next, m)
  BY <1>1 DEF Numbers
<1>6. \A b \in EdgesBorn(w) : g[b] \in Fresh(c, m, v.next)
  BY <1>1 DEF Numbers
<1>7. \A a \in DOMAIN w.node_of_entity :
         /\ f[a] = w.node_of_entity[a] /\ f[a] \in DOMAIN w.entity_of_node /\ w.entity_of_node[f[a]] = a
         /\ f[a] \in Id /\ f[a][1] = c /\ f[a][2] < w.next
  <2>1. \A a \in DOMAIN w.node_of_entity :
         /\ f[a] = w.node_of_entity[a] /\ f[a] \in DOMAIN w.entity_of_node /\ w.entity_of_node[f[a]] = a
    BY <1>1 DEF Numbers, Sane, Mirrored
  <2>2. \A id \in DOMAIN w.entity_of_node : id \in Id /\ id[1] = c /\ id[2] < w.next
    BY <1>2, IndexIs DEF Sane, Own
  <2> QED BY <2>1, <2>2
<1>8. \A b \in DOMAIN w.edge_of_entity :
         /\ g[b] = w.edge_of_entity[b] /\ g[b] \in DOMAIN w.entity_of_edge /\ w.entity_of_edge[g[b]] = b
         /\ g[b] \in Id /\ g[b][1] = c /\ g[b][2] < w.next
  <2>1. \A b \in DOMAIN w.edge_of_entity :
         /\ g[b] = w.edge_of_entity[b] /\ g[b] \in DOMAIN w.entity_of_edge /\ w.entity_of_edge[g[b]] = b
    BY <1>1 DEF Numbers, Sane, Mirrored
  <2>2. \A id \in DOMAIN w.entity_of_edge : id \in Id /\ id[1] = c /\ id[2] < w.next
    BY <1>2, IndexIs DEF Sane, Own
  <2> QED BY <2>1, <2>2
<1>9. \A id \in Id : id[2] \in Nat
  BY DEF Id
<1>10. DOMAIN w.entity_of_node \cap DOMAIN w.entity_of_edge = {}
  BY DEF Sane, Apart
<1>11. \A a \in DOMAIN w.node_of_entity \cup NodesBorn(w) : f[a] \in Id /\ f[a][1] = c /\ f[a][2] < v.next
  <2>1. \A a \in NodesBorn(w) : f[a] \in Id /\ f[a][1] = c /\ f[a][2] < v.next
    BY <1>2, <1>3, <1>5
  <2>2. \A a \in DOMAIN w.node_of_entity : f[a] \in Id /\ f[a][1] = c /\ f[a][2] < v.next
    BY <1>2, <1>7, <1>9
  <2> QED BY <2>1, <2>2
<1>12. \A b \in DOMAIN w.edge_of_entity \cup EdgesBorn(w) : g[b] \in Id /\ g[b][1] = c /\ g[b][2] < v.next
  <2>1. \A b \in EdgesBorn(w) : g[b] \in Id /\ g[b][1] = c /\ g[b][2] < v.next
    BY <1>4, <1>6
  <2>2. \A b \in DOMAIN w.edge_of_entity : g[b] \in Id /\ g[b][1] = c /\ g[b][2] < v.next
    BY <1>2, <1>8, <1>9
  <2> QED BY <2>1, <2>2
<1>13. ASSUME NEW a \in DOMAIN w.node_of_entity \cup NodesBorn(w),
              NEW b \in DOMAIN w.edge_of_entity \cup EdgesBorn(w)
       PROVE  f[a] # g[b]
  <2>1. CASE a \in DOMAIN w.node_of_entity /\ b \in DOMAIN w.edge_of_entity
    BY <1>7, <1>8, <1>10, <2>1
  <2>2. CASE a \in DOMAIN w.node_of_entity /\ b \in EdgesBorn(w)
    <3>1. f[a][2] < w.next /\ m <= g[b][2] /\ f[a][2] \in Nat /\ g[b][2] \in Nat
      BY <1>4, <1>6, <1>7, <1>9, <2>2
    <3> QED BY <1>2, <3>1
  <2>3. CASE a \in NodesBorn(w) /\ b \in DOMAIN w.edge_of_entity
    <3>1. g[b][2] < w.next /\ w.next <= f[a][2] /\ f[a][2] \in Nat /\ g[b][2] \in Nat
      BY <1>3, <1>5, <1>8, <1>9, <2>3
    <3> QED BY <1>2, <3>1
  <2>4. CASE a \in NodesBorn(w) /\ b \in EdgesBorn(w)
    <3>1. f[a][2] < m /\ m <= g[b][2] /\ f[a][2] \in Nat /\ g[b][2] \in Nat
      BY <1>3, <1>4, <1>5, <1>6, <2>4
    <3> QED BY <1>2, <3>1
  <2> QED BY <2>1, <2>2, <2>3, <2>4
<1>14. \A a \in NodesBorn(w) : w.next <= f[a][2]
  BY <1>3, <1>5
<1>15. \A b \in EdgesBorn(w) : w.next <= g[b][2]
  BY <1>2, <1>4, <1>6
<1>16. w.next <= v.next
  BY <1>2
<1> QED BY <1>2, <1>7, <1>8, <1>11, <1>12, <1>13, <1>14, <1>15, <1>16 DEF Kinds

\* What is bound lives.
LEMMA BoundLive ==
  ASSUME NEW c, NEW w, Sane(c, w), NEW v, NEW f, NEW g, Result(c, w, v, f, g)
  PROVE  /\ DOMAIN v.node_of_entity = (DOMAIN w.node_of_entity \cup NodesBorn(w)) \cap DOMAIN v.presence
         /\ DOMAIN v.edge_of_entity = (DOMAIN w.edge_of_entity \cup EdgesBorn(w)) \cap DOMAIN v.endpoints
         /\ DOMAIN v.presence \subseteq DOMAIN v.node_of_entity
         /\ NodesBorn(w) \subseteq DOMAIN v.node_of_entity
<1>1. Apart(w) /\ Known(w) /\ ResultEntities(w, v, f) /\ ResultIndex(w, v, f, g)
  BY DEF Sane, Result
<1>2. /\ DOMAIN v.node_of_entity = (DOMAIN w.node_of_entity \cup NodesBorn(w)) \ (DeadNodes(w) \cup w.removed)
      /\ DOMAIN v.edge_of_entity
         = (DOMAIN w.edge_of_entity \cup EdgesBorn(w)) \ (Cut(w) \cup DeadEdges(w) \cup w.removed)
      /\ DOMAIN v.presence = DOMAIN w.presence \ DeadNodes(w)
      /\ DOMAIN v.endpoints = DOMAIN w.endpoints \ (Cut(w) \cup DeadEdges(w))
  BY <1>1 DEF ResultIndex, ResultEntities
<1>3. /\ NodesBorn(w) \subseteq DOMAIN w.presence /\ EdgesBorn(w) \subseteq DOMAIN w.endpoints
      /\ NodesBorn(w) \cap DeadNodes(w) = {}
  BY <1>1 DEF NodesBorn, EdgesBorn, DeadNodes, Apart
<1>4. /\ w.removed \cap DOMAIN w.presence = {} /\ w.removed \cap DOMAIN w.endpoints = {}
      /\ DOMAIN w.node_of_entity \subseteq DOMAIN w.presence \cup w.removed
      /\ DOMAIN w.edge_of_entity \subseteq DOMAIN w.endpoints \cup w.removed
  BY <1>1 DEF Apart, Entities
<1>5. DOMAIN w.presence \subseteq DOMAIN w.node_of_entity \cup NodesBorn(w)
  BY <1>1 DEF Known, NodesBorn
<1> QED BY <1>2, <1>3, <1>4, <1>5

-----------------------------------------------------------------------------
(* project_to_components. *)

Arrives(l, a, n, isNode) == \E k \in a + 1..n : l[k].node = isNode

\* What the component says once the log has been asked.
Says(l, n, id, was) == IF Reg(l, n, id, "alive") = None THEN was ELSE Reg(l, n, id, "alive")

\* The log of n ops fits what v has.
Fits(l, n, v) ==
    /\ \A k \in 1..n : l[k].field = "alive" => l[k].value \in BOOLEAN
    /\ \A e \in DOMAIN v.edge_of_entity \cap DOMAIN v.endpoints :
         \A k \in 1..n : l[k].target = v.edge_of_entity[e] /\ l[k].field = "ends"
                         => l[k].value = v.endpoints[e].ends

ShownNodes(l, a, v) == IF Arrives(l, a, v.applied, TRUE) THEN DOMAIN v.node_of_entity ELSE {}
ShownEdges(l, a, v) == IF Arrives(l, a, v.applied, FALSE) THEN DOMAIN v.edge_of_entity ELSE {}

\* y is v as the log of v.applied ops has it, shipped.
Projected(l, a, v, y) ==
    /\ y \in World
    /\ DOMAIN y.presence = DOMAIN v.presence /\ DOMAIN y.endpoints = DOMAIN v.endpoints
    /\ \A e \in DOMAIN v.presence :
         y.presence[e] = IF e \in ShownNodes(l, a, v)
                         THEN Says(l, v.applied, v.node_of_entity[e], v.presence[e]) ELSE v.presence[e]
    /\ \A e \in DOMAIN v.endpoints :
         /\ y.endpoints[e].ends = v.endpoints[e].ends
         /\ y.endpoints[e].alive = IF e \in ShownEdges(l, a, v)
                                   THEN Says(l, v.applied, v.edge_of_entity[e], v.endpoints[e].alive)
                                   ELSE v.endpoints[e].alive
    /\ y.added = {} /\ y.removed = {} /\ y.changed = ShownNodes(l, a, v) \cup ShownEdges(l, a, v)
    /\ y.queue = << >>
    /\ y.links = v.links /\ y.pending = v.pending
    /\ y.node_of_entity = v.node_of_entity /\ y.entity_of_node = v.entity_of_node
    /\ y.edge_of_entity = v.edge_of_entity /\ y.entity_of_edge = v.entity_of_edge
    /\ y.applied = v.applied /\ y.next = v.next

LEMMA SaysTruth ==
  ASSUME NEW l, NEW n \in Nat, \A k \in 1..n : l[k].field = "alive" => l[k].value \in BOOLEAN,
         NEW id, NEW was \in BOOLEAN
  PROVE  Says(l, n, id, was) \in BOOLEAN
<1>1. CASE Reg(l, n, id, "alive") = None
  BY <1>1 DEF Says
<1>2. CASE Reg(l, n, id, "alive") # None
  <2>1. PICK k \in 1..n : l[k].field = "alive" /\ Reg(l, n, id, "alive") = l[k].value
    BY <1>2, RegIs
  <2>2. Says(l, n, id, was) = l[k].value
    BY <1>2, <2>1 DEF Says
  <2> QED BY <2>1, <2>2
<1> QED BY <1>1, <1>2

LEMMA EndsStay ==
  ASSUME NEW l, NEW n \in Nat, NEW id, NEW was,
         \A k \in 1..n : l[k].target = id /\ l[k].field = "ends" => l[k].value = was
  PROVE  Reg(l, n, id, "ends") # None => Reg(l, n, id, "ends") = was
BY RegIs

\* The fields of a record of endpoints.
LEMMA EndpointsAre ==
  ASSUME NEW r, NEW a, NEW b, r = [f \in DOMAIN NoEndpoints |-> IF f = "ends" THEN a ELSE b]
  PROVE  r = [ends |-> a, alive |-> b]
BY DEF NoEndpoints

LEMMA WrittenEnds ==
  ASSUME NEW n \in Nat, NEW id, NEW was \in Endpoints,
         \A k \in 1..n : log[k].field = "alive" => log[k].value \in BOOLEAN,
         \A k \in 1..n : log[k].target = id /\ log[k].field = "ends" => log[k].value = was.ends
  PROVE  [f \in DOMAIN NoEndpoints |-> Written(n, id, f, was[f])]
           = [ends |-> was.ends, alive |-> Says(log, n, id, was.alive)]
<1> DEFINE r == [f \in DOMAIN NoEndpoints |-> Written(n, id, f, was[f])]
           b == Says(log, n, id, was.alive)
<1>1. Written(n, id, "ends", was["ends"]) = was.ends
  BY EndsStay, RegisterIs DEF Written
<1>2. Written(n, id, "alive", was["alive"]) = b
  BY RegisterIs DEF Written, Says
<1>3. DOMAIN NoEndpoints = {"ends", "alive"}
  BY DEF NoEndpoints
<1> HIDE DEF b
<1>4. \A f \in DOMAIN NoEndpoints : Written(n, id, f, was[f]) = IF f = "ends" THEN was.ends ELSE b
  BY <1>1, <1>2, <1>3
<1>5. r = [f \in DOMAIN NoEndpoints |-> IF f = "ends" THEN was.ends ELSE b]
  BY <1>4
<1> HIDE DEF r
<1>6. r = [ends |-> was.ends, alive |-> b]
  BY <1>5, EndpointsAre, Zenon
<1> QED BY <1>6 DEF r, b

LEMMA Projects ==
  ASSUME NEW v \in World, NEW a, Fits(log, v.applied, v)
  PROVE  Projected(log, a, v, [project_to_components(v, a) EXCEPT !.queue = << >>])
<1> DEFINE n == v.applied
           nodes == ShownNodes(log, a, v)
           edges == ShownEdges(log, a, v)
           p == [e \in DOMAIN v.presence |->
                   IF e \in nodes THEN Written(n, v.node_of_entity[e], "alive", v.presence[e]) ELSE v.presence[e]]
           q == [e \in DOMAIN v.endpoints |->
                   IF e \in edges
                   THEN [f \in DOMAIN NoEndpoints |-> Written(n, v.edge_of_entity[e], f, v.endpoints[e][f])]
                   ELSE v.endpoints[e]]
           x == project_to_components(v, a)
           y == [x EXCEPT !.queue = << >>]
<1>1. x = [v EXCEPT !.presence = p, !.endpoints = q, !.added = {}, !.removed = {},
                    !.changed = nodes \cup edges]
  BY Zenon DEF project_to_components, ShownNodes, ShownEdges, Arrives
<1>2. n \in Nat /\ \A k \in 1..n : log[k].field = "alive" => log[k].value \in BOOLEAN
  BY DEF Fits, World
<1>3. nodes \subseteq DOMAIN v.node_of_entity /\ edges \subseteq DOMAIN v.edge_of_entity
  BY DEF ShownNodes, ShownEdges
<1>4. DOMAIN p = DOMAIN v.presence /\ p = [e \in DOMAIN p |-> p[e]]
      /\ \A e \in DOMAIN v.presence :
           p[e] = IF e \in nodes THEN Says(log, n, v.node_of_entity[e], v.presence[e]) ELSE v.presence[e]
  BY RegisterIs DEF Written, Says
<1>50. DOMAIN q = DOMAIN v.endpoints /\ q = [e \in DOMAIN q |-> q[e]]
       /\ \A e \in DOMAIN v.endpoints :
           q[e] = IF e \in edges
                  THEN [f \in DOMAIN NoEndpoints |-> Written(n, v.edge_of_entity[e], f, v.endpoints[e][f])]
                  ELSE v.endpoints[e]
  OBVIOUS
<1>60. nodes \in SUBSET Nat /\ edges \in SUBSET Nat
  BY <1>3, IndexIs
<1> HIDE DEF p, q, x, nodes, edges
<1>5. \A e \in DOMAIN v.endpoints :
        q[e] = IF e \in edges
               THEN [ends |-> v.endpoints[e].ends, alive |-> Says(log, n, v.edge_of_entity[e], v.endpoints[e].alive)]
               ELSE v.endpoints[e]
  <2> TAKE e \in DOMAIN v.endpoints
  <2>1. CASE e \in edges
    <3>1. v.endpoints[e] \in Endpoints
      BY WorldIs
    <3>2. \A k \in 1..n : log[k].target = v.edge_of_entity[e] /\ log[k].field = "ends"
                          => log[k].value = v.endpoints[e].ends
      BY <1>3, <2>1 DEF Fits
    <3> HIDE DEF n
    <3>3. [f \in DOMAIN NoEndpoints |-> Written(n, v.edge_of_entity[e], f, v.endpoints[e][f])]
            = [ends |-> v.endpoints[e].ends, alive |-> Says(log, n, v.edge_of_entity[e], v.endpoints[e].alive)]
      BY <1>2, <3>1, <3>2, WrittenEnds
    <3> QED BY <1>50, <2>1, <3>3, Zenon
  <2>2. CASE e \notin edges
    BY <1>50, <2>2
  <2> QED BY <2>1, <2>2
<1>6. p \in MapsOf(Nat, BOOLEAN)
  <2>1. ASSUME NEW e \in DOMAIN v.presence PROVE p[e] \in BOOLEAN
    <3>1. v.presence[e] \in BOOLEAN
      BY WorldIs
    <3> HIDE DEF n
    <3>2. Says(log, n, v.node_of_entity[e], v.presence[e]) \in BOOLEAN
      BY <1>2, <3>1, SaysTruth
    <3> QED BY <1>4, <3>1, <3>2
  <2>2. DOMAIN p \in SUBSET Nat /\ \A e \in DOMAIN p : p[e] \in BOOLEAN
    BY <1>4, <2>1, WorldIs
  <2> QED BY <1>4, <2>2, MapOf
<1>7. q \in MapsOf(Nat, Endpoints)
  <2>1. ASSUME NEW e \in DOMAIN v.endpoints PROVE q[e] \in Endpoints
    <3>1. v.endpoints[e] \in Endpoints
      BY WorldIs
    <3>2. v.endpoints[e].alive \in BOOLEAN /\ v.endpoints[e].ends \in {None} \cup SUBSET Id
      BY <3>1 DEF Endpoints
    <3> DEFINE b == Says(log, n, v.edge_of_entity[e], v.endpoints[e].alive)
    <3> HIDE DEF n
    <3>3. b \in BOOLEAN
      BY <1>2, <3>2, SaysTruth
    <3>4. e \in edges => q[e] = [ends |-> v.endpoints[e].ends, alive |-> b]
      BY <1>5
    <3>5. e \notin edges => q[e] = v.endpoints[e]
      BY <1>5
    <3> HIDE DEF b
    <3>6. [ends |-> v.endpoints[e].ends, alive |-> b] \in Endpoints
      BY <3>2, <3>3 DEF Endpoints
    <3> QED BY <3>1, <3>4, <3>5, <3>6
  <2>2. DOMAIN q \in SUBSET Nat /\ \A e \in DOMAIN q : q[e] \in Endpoints
    BY <1>50, <2>1, WorldIs
  <2> QED BY <1>50, <2>2, MapOf
<1>8. << >> \in Seq(Ops)
  OBVIOUS
<1>9. /\ y \in World /\ y.presence = p /\ y.endpoints = q
      /\ y.added = {} /\ y.removed = {} /\ y.changed = nodes \cup edges
      /\ y.queue = << >>
      /\ y.links = v.links /\ y.pending = v.pending
      /\ y.node_of_entity = v.node_of_entity /\ y.entity_of_node = v.entity_of_node
      /\ y.edge_of_entity = v.edge_of_entity /\ y.entity_of_edge = v.entity_of_edge
      /\ y.applied = v.applied /\ y.next = v.next
  BY <1>1, <1>6, <1>7, <1>8, <1>60 DEF World
<1>10. \A e \in DOMAIN v.endpoints :
         /\ q[e].ends = v.endpoints[e].ends
         /\ q[e].alive = IF e \in edges THEN Says(log, n, v.edge_of_entity[e], v.endpoints[e].alive)
                         ELSE v.endpoints[e].alive
  <2> TAKE e \in DOMAIN v.endpoints
  <2> DEFINE b == Says(log, n, v.edge_of_entity[e], v.endpoints[e].alive)
  <2> HIDE DEF n
  <2>4. e \in edges => q[e] = [ends |-> v.endpoints[e].ends, alive |-> b]
    BY <1>5
  <2>5. e \notin edges => q[e] = v.endpoints[e]
    BY <1>5
  <2> HIDE DEF b
  <2>6. /\ q[e].ends = v.endpoints[e].ends
        /\ q[e].alive = IF e \in edges THEN b ELSE v.endpoints[e].alive
    BY <2>4, <2>5
  <2> QED BY <2>6 DEF b
<1> HIDE DEF y
<1>11. Projected(log, a, v, y)
  BY <1>4, <1>50, <1>9, <1>10 DEF Projected, nodes, edges
<1> QED BY <1>11 DEF y, x

-----------------------------------------------------------------------------
(* detect_local_changes. *)

\* Nothing was said of id.
Quiet(l, n, id) == \A k \in 1..n : l[k].target # id

\* q says no more of the nodes of v than that they live, and says it of the
\* new ones.
NodesTold(l, m, v, q) ==
    /\ q \in Seq(Ops)
    /\ \A x \in Range(q) : \E e \in v.changed \cap DOMAIN v.node_of_entity :
                             x = Op(v.node_of_entity[e], TRUE, "alive", TRUE)
    /\ \A e \in v.changed \cap DOMAIN v.node_of_entity :
         Quiet(l, m, v.node_of_entity[e]) => Op(v.node_of_entity[e], TRUE, "alive", TRUE) \in Range(q)

EdgesTold(l, m, v, q) ==
    /\ q \in Seq(Ops)
    /\ \A x \in Range(q) : \E e \in v.changed \cap DOMAIN v.edge_of_entity :
                             \/ x = Op(v.edge_of_entity[e], FALSE, "alive", TRUE)
                             \/ x = Op(v.edge_of_entity[e], FALSE, "ends", v.endpoints[e].ends)
    /\ \A e \in v.changed \cap DOMAIN v.edge_of_entity :
         Quiet(l, m, v.edge_of_entity[e]) => Op(v.edge_of_entity[e], FALSE, "alive", TRUE) \in Range(q)

LEMMA QuietIs ==
  ASSUME NEW m \in Nat, NEW id, Quiet(log, m, id), NEW field
  PROVE  Register(m, id, field) = None
<1>1. Reg(log, m, id, field) = None
  BY RegIs DEF Quiet
<1> QED BY <1>1, RegisterIs

LEMMA OneIs ==
  ASSUME NEW S, NEW op \in S
  PROVE  /\ <<op>> \in Seq(S) /\ Range(<<op>>) = {op}
         /\ << >> \in Seq(S) /\ Range(<< >>) = {}
BY DEF Range

LEMMA DiffIs ==
  ASSUME NEW m, NEW id, NEW isNode, NEW field, NEW value, Op(id, isNode, field, value) \in Ops
  PROVE  /\ Diff(m, id, isNode, field, value) \in Seq(Ops)
         /\ \A x \in Range(Diff(m, id, isNode, field, value)) : x = Op(id, isNode, field, value)
<1> DEFINE op == Op(id, isNode, field, value)
<1>1. Diff(m, id, isNode, field, value) = << >> \/ Diff(m, id, isNode, field, value) = <<op>>
  BY Zenon DEF Diff
<1> HIDE DEF op
<1>2. /\ <<op>> \in Seq(Ops) /\ Range(<<op>>) = {op} /\ << >> \in Seq(Ops) /\ Range(<< >>) = {}
  BY OneIs DEF op
<1>3. /\ Diff(m, id, isNode, field, value) \in Seq(Ops)
      /\ \A x \in Range(Diff(m, id, isNode, field, value)) : x = op
  BY <1>1, <1>2
<1> QED BY <1>3 DEF op

LEMMA DiffSaid ==
  ASSUME NEW m \in Nat, NEW id, Quiet(log, m, id), NEW isNode, Op(id, isNode, "alive", TRUE) \in Ops
  PROVE  Op(id, isNode, "alive", TRUE) \in Range(Diff(m, id, isNode, "alive", TRUE))
<1> DEFINE op == Op(id, isNode, "alive", TRUE)
<1>1. Written(m, id, "alive", FALSE) = FALSE
  BY QuietIs DEF Written
<1>2. Diff(m, id, isNode, "alive", TRUE) = <<op>>
  BY <1>1 DEF Diff
<1> HIDE DEF op
<1>3. Range(<<op>>) = {op}
  BY OneIs DEF op
<1>4. op \in Range(Diff(m, id, isNode, "alive", TRUE))
  BY <1>2, <1>3
<1> QED BY <1>4 DEF op

LEMMA EditedNode ==
  ASSUME NEW v \in World, NEW m \in Nat, NEW e \in DOMAIN v.node_of_entity, v.presence[e] = TRUE
  PROVE  /\ Edited(v, m, e, TRUE) \in Seq(Ops)
         /\ \A x \in Range(Edited(v, m, e, TRUE)) : x = Op(v.node_of_entity[e], TRUE, "alive", TRUE)
         /\ Quiet(log, m, v.node_of_entity[e])
              => Op(v.node_of_entity[e], TRUE, "alive", TRUE) \in Range(Edited(v, m, e, TRUE))
<1> DEFINE id == v.node_of_entity[e]
           op == Op(id, TRUE, "alive", TRUE)
           d == Diff(m, id, TRUE, "alive", v.presence[e])
           d1 == Diff(m, id, TRUE, "alive", TRUE)
           q == Edited(v, m, e, TRUE)
<1>1. q = IF e \in v.added /\ \E f \in {"ends", "alive"} : Register(m, id, f) # None THEN << >> ELSE d
  BY Zenon DEF Edited
<1>2. d = d1
  OBVIOUS
<1>3. id \in Id
  BY IndexIs
<1> HIDE DEF q, d, id
<1>4. op \in Ops
  BY <1>3 DEF Op, Ops
<1>5. d1 \in Seq(Ops) /\ (\A x \in Range(d1) : x = op) /\ (Quiet(log, m, id) => op \in Range(d1))
  BY <1>4, DiffIs, DiffSaid
<1>6. << >> \in Seq(Ops) /\ Range(<< >>) = {}
  BY DEF Range
<1>7. Quiet(log, m, id) => q = d1
  BY <1>1, <1>2, QuietIs
<1>8. q = << >> \/ q = d1
  BY <1>1, <1>2
<1> HIDE DEF d1, op
<1>9. q \in Seq(Ops) /\ (\A x \in Range(q) : x = op) /\ (Quiet(log, m, id) => op \in Range(q))
  BY <1>5, <1>6, <1>7, <1>8
<1> QED BY <1>9 DEF q, id, op

LEMMA EditedEdge ==
  ASSUME NEW v \in World, NEW m \in Nat, NEW e \in DOMAIN v.edge_of_entity, e \in DOMAIN v.endpoints,
         v.endpoints[e].alive = TRUE
  PROVE  /\ Edited(v, m, e, FALSE) \in Seq(Ops)
         /\ \A x \in Range(Edited(v, m, e, FALSE)) :
              \/ x = Op(v.edge_of_entity[e], FALSE, "alive", TRUE)
              \/ x = Op(v.edge_of_entity[e], FALSE, "ends", v.endpoints[e].ends)
         /\ Quiet(log, m, v.edge_of_entity[e])
              => Op(v.edge_of_entity[e], FALSE, "alive", TRUE) \in Range(Edited(v, m, e, FALSE))
<1> DEFINE id == v.edge_of_entity[e]
           ends == v.endpoints[e].ends
           op == Op(id, FALSE, "alive", TRUE)
           to == Op(id, FALSE, "ends", ends)
           d == Diff(m, id, FALSE, "alive", v.endpoints[e].alive)
           d1 == Diff(m, id, FALSE, "alive", TRUE)
           d0 == Diff(m, id, FALSE, "ends", ends)
           q == Edited(v, m, e, FALSE)
<1>1. q = IF e \in v.added /\ \E f \in {"ends", "alive"} : Register(m, id, f) # None
          THEN << >> ELSE d0 \o d
  BY DEF Edited
<1>2. d = d1
  OBVIOUS
<1>3. id \in Id /\ ends \in {None} \cup SUBSET Id
  BY IndexIs, WorldIs DEF Endpoints
<1> HIDE DEF q, d, id, ends
<1>4. op \in Ops /\ to \in Ops
  BY <1>3 DEF Op, Ops
<1>5. d1 \in Seq(Ops) /\ (\A x \in Range(d1) : x = op) /\ (Quiet(log, m, id) => op \in Range(d1))
  BY <1>4, DiffIs, DiffSaid
<1>50. d0 \in Seq(Ops) /\ (\A x \in Range(d0) : x = to)
  BY <1>4, DiffIs
<1>6. << >> \in Seq(Ops) /\ Range(<< >>) = {}
  BY DEF Range
<1>7. Quiet(log, m, id) => q = d0 \o d1
  BY <1>1, <1>2, QuietIs
<1>8. q = << >> \/ q = d0 \o d1
  BY <1>1, <1>2
<1> HIDE DEF d1, d0, op, to
<1>9. d0 \o d1 \in Seq(Ops) /\ \A x : x \in Range(d0 \o d1) <=> x \in Range(d0) \/ x \in Range(d1)
  BY <1>5, <1>50, RangeOfBoth
<1>10. q \in Seq(Ops) /\ (\A x \in Range(q) : x = op \/ x = to) /\ (Quiet(log, m, id) => op \in Range(q))
  BY <1>5, <1>50, <1>6, <1>7, <1>8, <1>9
<1> QED BY <1>10 DEF q, id, op, to, ends

LEMMA ChangesAre ==
  ASSUME NEW v \in World, NEW m \in Nat, NEW isNode,
         NEW seen, IsFiniteSet(seen),
         seen = v.changed \cap (IF isNode THEN DOMAIN v.node_of_entity ELSE DOMAIN v.edge_of_entity),
         \A e \in seen : Edited(v, m, e, isNode) \in Seq(Ops)
  PROVE  /\ detect_local_changes(v, m, isNode) \in Seq(Ops)
         /\ \A x : x \in Range(detect_local_changes(v, m, isNode))
                     <=> \E e \in seen : x \in Range(Edited(v, m, e, isNode))
<1> DEFINE s == InOrder(seen)
           n == Len(s)
           t == [k \in 1..n |-> Edited(v, m, s[k], isNode)]
           q == detect_local_changes(v, m, isNode)
<1>1. q = FlattenSeq(t)
  BY Zenon DEF detect_local_changes
<1>2. s \in Seq(seen) /\ Range(s) = seen
  BY InOrderIs
<1> HIDE DEF q, s
<1>3. n \in Nat /\ DOMAIN s = 1..n /\ \A k \in 1..n : s[k] \in seen
  BY <1>2
<1> HIDE DEF n
<1>4. t \in [1..n -> Seq(Ops)] /\ DOMAIN t = 1..n /\ \A k \in 1..n : t[k] = Edited(v, m, s[k], isNode)
  BY <1>3
<1> HIDE DEF t
<1>5. t \in Seq(Seq(Ops))
  BY <1>3, <1>4, ListIs, Zenon
<1>6. q \in Seq(Ops) /\ \A x : x \in Range(q) <=> \E k \in 1..n : x \in Range(t[k])
  BY <1>1, <1>4, <1>5, FlattenIs
<1>7. \A e \in seen : \E k \in 1..n : s[k] = e
  BY <1>2, <1>3 DEF Range
<1>8. \A x : x \in Range(q) <=> \E e \in seen : x \in Range(Edited(v, m, e, isNode))
  BY <1>3, <1>4, <1>6, <1>7
<1> QED BY <1>6, <1>8 DEF q

LEMMA NodesAreTold ==
  ASSUME NEW v \in World, NEW m \in Nat, IsFiniteSet(DOMAIN v.node_of_entity),
         \A e \in v.changed \cap DOMAIN v.node_of_entity : v.presence[e] = TRUE
  PROVE  NodesTold(log, m, v, detect_local_changes(v, m, TRUE))
<1> DEFINE seen == v.changed \cap DOMAIN v.node_of_entity
           q == detect_local_changes(v, m, TRUE)
<1>1. IsFiniteSet(seen)
  BY FS_Subset
<1>2. \A e \in seen :
        /\ Edited(v, m, e, TRUE) \in Seq(Ops)
        /\ \A x \in Range(Edited(v, m, e, TRUE)) : x = Op(v.node_of_entity[e], TRUE, "alive", TRUE)
        /\ Quiet(log, m, v.node_of_entity[e])
             => Op(v.node_of_entity[e], TRUE, "alive", TRUE) \in Range(Edited(v, m, e, TRUE))
  BY EditedNode
<1>3. q \in Seq(Ops) /\ \A x : x \in Range(q) <=> \E e \in seen : x \in Range(Edited(v, m, e, TRUE))
  BY <1>1, <1>2, ChangesAre
<1> HIDE DEF q
<1>4. NodesTold(log, m, v, q)
  BY <1>2, <1>3 DEF NodesTold
<1> QED BY <1>4 DEF q

LEMMA EdgesAreTold ==
  ASSUME NEW v \in World, NEW m \in Nat, IsFiniteSet(DOMAIN v.edge_of_entity),
         \A e \in v.changed \cap DOMAIN v.edge_of_entity :
           e \in DOMAIN v.endpoints /\ v.endpoints[e].alive = TRUE
  PROVE  EdgesTold(log, m, v, detect_local_changes(v, m, FALSE))
<1> DEFINE seen == v.changed \cap DOMAIN v.edge_of_entity
           q == detect_local_changes(v, m, FALSE)
<1>1. IsFiniteSet(seen)
  BY FS_Subset
<1>2. \A e \in seen :
        /\ Edited(v, m, e, FALSE) \in Seq(Ops)
        /\ \A x \in Range(Edited(v, m, e, FALSE)) :
             \/ x = Op(v.edge_of_entity[e], FALSE, "alive", TRUE)
             \/ x = Op(v.edge_of_entity[e], FALSE, "ends", v.endpoints[e].ends)
        /\ Quiet(log, m, v.edge_of_entity[e])
             => Op(v.edge_of_entity[e], FALSE, "alive", TRUE) \in Range(Edited(v, m, e, FALSE))
  BY EditedEdge
<1>3. q \in Seq(Ops) /\ \A x : x \in Range(q) <=> \E e \in seen : x \in Range(Edited(v, m, e, FALSE))
  <2>1. seen = v.changed \cap (IF FALSE THEN DOMAIN v.node_of_entity ELSE DOMAIN v.edge_of_entity)
    OBVIOUS
  <2>2. \A e \in seen : Edited(v, m, e, FALSE) \in Seq(Ops)
    BY <1>2
  <2> HIDE DEF seen
  <2> QED BY <1>1, <2>1, <2>2, ChangesAre, Zenon
<1> HIDE DEF q
<1>4. EdgesTold(log, m, v, q)
  BY <1>2, <1>3 DEF EdgesTold
<1> QED BY <1>4 DEF q

-----------------------------------------------------------------------------
(* A frame. *)

\* What the log l says fits a world w of c.
OwnFits(c, w, l) ==
    \A k \in 1..Len(l) : /\ l[k] \in Ops
                         /\ l[k].field = "alive" => l[k].value \in BOOLEAN
                         /\ l[k].target[1] = c => Fit(l[k], w)

\* What c ships: the ends of what it lost, and what it has changed.
Shipped(l, m, w, v, f, g, t) ==
    /\ t \in Seq(Ops)
    /\ \A x \in Range(t) :
         \/ \E e \in LostNodes(w) : x = Op(f[e], TRUE, "alive", FALSE)
         \/ \E e \in LostEdges(w) : x = Op(g[e], FALSE, "alive", FALSE)
         \/ \E e \in v.changed \cap DOMAIN v.node_of_entity : x = Op(f[e], TRUE, "alive", TRUE)
         \/ \E e \in v.changed \cap DOMAIN v.edge_of_entity :
              x = Op(g[e], FALSE, "alive", TRUE) \/ x = Op(g[e], FALSE, "ends", v.endpoints[e].ends)
    /\ \A e \in LostNodes(w) : Op(f[e], TRUE, "alive", FALSE) \in Range(t)
    /\ \A e \in LostEdges(w) : Op(g[e], FALSE, "alive", FALSE) \in Range(t)
    /\ \A e \in v.changed \cap DOMAIN v.node_of_entity :
         Quiet(l, m, f[e]) => Op(f[e], TRUE, "alive", TRUE) \in Range(t)
    /\ \A e \in v.changed \cap DOMAIN v.edge_of_entity :
         Quiet(l, m, g[e]) => Op(g[e], FALSE, "alive", TRUE) \in Range(t)
    /\ \A id : \A j, k \in 1..Len(t) : IsTombstone(t[j], id) /\ IsTombstone(t[k], id) => j = k

Framed(c, w, l, m, v, f, g, y, t) ==
    /\ c \in Client /\ Sane(c, w) /\ l \in Seq(Ops) /\ m \in 0..Len(l)
    /\ OwnFits(c, w, l) /\ w.applied <= v.applied /\ v.applied <= Len(l)
    /\ Result(c, w, v, f, g) /\ Kinds(c, w, v, f, g)
    /\ Projected(l, w.applied, v, y) /\ Shipped(l, m, w, v, f, g, t)

\* What is bound and changed is alive: the dead have gone.
LEMMA ChangedLive ==
  ASSUME NEW c, NEW w, Sane(c, w), NEW v, NEW f, NEW g, Result(c, w, v, f, g)
  PROVE  /\ \A e \in v.changed \cap DOMAIN v.node_of_entity : v.presence[e] = TRUE
         /\ \A e \in v.changed \cap DOMAIN v.edge_of_entity :
              e \in DOMAIN v.endpoints /\ v.endpoints[e].alive = TRUE
<1>1. /\ v \in World /\ ResultEntities(w, v, f) /\ ResultIndex(w, v, f, g) /\ Apart(w)
  BY DEF Sane, Result
<1>2. /\ DOMAIN v.node_of_entity = (DOMAIN w.node_of_entity \cup NodesBorn(w)) \cap DOMAIN v.presence
      /\ DOMAIN v.edge_of_entity = (DOMAIN w.edge_of_entity \cup EdgesBorn(w)) \cap DOMAIN v.endpoints
  BY BoundLive
<1>3. ASSUME NEW e \in v.changed \cap DOMAIN v.node_of_entity PROVE v.presence[e] = TRUE
  <2>1. e \in DOMAIN v.presence /\ v.presence[e] \in BOOLEAN /\ e \in w.changed /\ e \notin DeadNodes(w)
        /\ e \in DOMAIN w.presence /\ (v.presence[e] <=> w.presence[e] \/ e \in NodesBorn(w))
    BY <1>1, <1>2, WorldIs DEF ResultEntities
  <2>2. e \in NodesBorn(w) \/ w.presence[e]
    BY <1>2, <2>1 DEF DeadNodes
  <2> QED BY <2>1, <2>2
<1>4. ASSUME NEW e \in v.changed \cap DOMAIN v.edge_of_entity
      PROVE  e \in DOMAIN v.endpoints /\ v.endpoints[e].alive = TRUE
  <2>1. e \in DOMAIN v.endpoints /\ e \in w.changed /\ e \notin DeadEdges(w) /\ e \notin Cut(w)
        /\ e \in DOMAIN w.endpoints /\ v.endpoints[e] \in Endpoints
    BY <1>1, <1>2, WorldIs DEF ResultEntities
  <2>2. CASE e \in EdgesBorn(w)
    BY <1>1, <2>1, <2>2 DEF ResultEntities, Endpoints
  <2>3. CASE e \notin EdgesBorn(w)
    <3>1. v.endpoints[e] = w.endpoints[e] /\ e \in DOMAIN w.edge_of_entity
      BY <1>1, <1>2, <2>1, <2>3 DEF ResultEntities
    <3>2. w.endpoints[e].alive
      BY <2>1, <3>1 DEF DeadEdges
    <3> QED BY <2>1, <3>1, <3>2 DEF Endpoints
  <2> QED BY <2>2, <2>3
<1> QED BY <1>3, <1>4

\* No op is about an id that is only now given.
LEMMA BornQuiet ==
  ASSUME NEW c, NEW w, NEW v, NEW f, NEW g, Kinds(c, w, v, f, g), NEW l \in Seq(Ops), OwnFits(c, w, l),
         NEW n, n \in 0..Len(l)
  PROVE  /\ \A e \in NodesBorn(w) : Quiet(l, n, f[e])
         /\ \A e \in EdgesBorn(w) : Quiet(l, n, g[e])
<1>1. ASSUME NEW id \in Id, id[1] = c, w.next <= id[2] PROVE Quiet(l, n, id)
  <2> SUFFICES ASSUME NEW k \in 1..n, l[k].target = id PROVE FALSE
    BY DEF Quiet
  <2>1. k \in 1..Len(l)
    OBVIOUS
  <2>2. Fit(l[k], w)
    BY <1>1, <2>1 DEF OwnFits
  <2>3. id[2] < w.next /\ id[2] \in Nat /\ w.next \in Nat
    BY <2>2 DEF Fit, Id, Kinds
  <2> QED BY <1>1, <2>3
<1> QED BY <1>1 DEF Kinds

LEMMA EndsFit ==
  ASSUME NEW c, NEW w, Sane(c, w), NEW v, NEW f, NEW g, Result(c, w, v, f, g), Kinds(c, w, v, f, g),
         NEW l \in Seq(Ops), OwnFits(c, w, l), v.applied \in 0..Len(l)
  PROVE  Fits(l, v.applied, v)
<1>1. /\ ResultEntities(w, v, f) /\ ResultIndex(w, v, f, g)
  BY DEF Result
<1>2. /\ DOMAIN v.edge_of_entity = (DOMAIN w.edge_of_entity \cup EdgesBorn(w)) \cap DOMAIN v.endpoints
  BY BoundLive
<1>3. \A k \in 1..v.applied : k \in 1..Len(l)
  OBVIOUS
<1>4. ASSUME NEW e \in DOMAIN v.edge_of_entity \cap DOMAIN v.endpoints,
             NEW k \in 1..v.applied, l[k].target = v.edge_of_entity[e], l[k].field = "ends"
      PROVE  l[k].value = v.endpoints[e].ends
  <2>1. v.edge_of_entity[e] = g[e]
    BY <1>1, <1>4 DEF ResultIndex
  <2>2. e \notin EdgesBorn(w)
    <3>1. e \in EdgesBorn(w) => Quiet(l, v.applied, g[e])
      BY BornQuiet
    <3> QED BY <1>4, <2>1, <3>1 DEF Quiet
  <2>3. e \in DOMAIN w.edge_of_entity /\ e \in DOMAIN w.endpoints /\ v.endpoints[e] = w.endpoints[e]
    BY <1>1, <1>2, <1>4, <2>2 DEF ResultEntities
  <2>4. g[e] \in DOMAIN w.entity_of_edge /\ w.entity_of_edge[g[e]] = e /\ g[e][1] = c
    BY <2>3 DEF Kinds
  <2>5. Fit(l[k], w)
    BY <1>3, <1>4, <2>1, <2>4 DEF OwnFits
  <2> QED BY <1>4, <2>1, <2>3, <2>4, <2>5 DEF Fit
<1>5. \A k \in 1..v.applied : l[k].field = "alive" => l[k].value \in BOOLEAN
  BY <1>3 DEF OwnFits
<1> QED BY <1>4, <1>5 DEF Fits

Once(s, id) == \A j, k \in 1..Len(s) : IsTombstone(s[j], id) /\ IsTombstone(s[k], id) => j = k
Free(s, id) == \A k \in 1..Len(s) : ~IsTombstone(s[k], id)

LEMMA OnceOfBoth ==
  ASSUME NEW S, NEW s \in Seq(S), NEW t \in Seq(S), NEW id,
         Once(s, id), Once(t, id), Free(s, id) \/ Free(t, id)
  PROVE  Once(s \o t, id) /\ (Free(s, id) /\ Free(t, id) => Free(s \o t, id))
<1> DEFINE u == s \o t
<1>1. /\ Len(s) \in Nat /\ Len(t) \in Nat /\ Len(u) = Len(s) + Len(t)
      /\ \A k \in 1..Len(s) : u[k] = s[k]
      /\ \A k \in 1..Len(t) : u[Len(s) + k] = t[k]
  OBVIOUS
<1> HIDE DEF u
<1>2. ASSUME NEW k \in 1..Len(u)
      PROVE  \/ k \in 1..Len(s) /\ u[k] = s[k]
             \/ \E i \in 1..Len(t) : k = Len(s) + i /\ u[k] = t[i]
  <2>1. CASE k <= Len(s)
    BY <1>1, <2>1
  <2>2. CASE k > Len(s)
    <3>1. k - Len(s) \in 1..Len(t) /\ k = Len(s) + (k - Len(s))
      BY <1>1, <2>2
    <3> QED BY <1>1, <3>1
  <2> QED BY <1>1, <2>1, <2>2
<1>3. Once(u, id)
  <2> SUFFICES ASSUME NEW j \in 1..Len(u), NEW k \in 1..Len(u), IsTombstone(u[j], id), IsTombstone(u[k], id)
               PROVE  j = k
    BY DEF Once
  <2>1. CASE j \in 1..Len(s) /\ u[j] = s[j]
    <3>1. ~Free(s, id)
      BY <2>1 DEF Free
    <3>2. Free(t, id)
      BY <3>1
    <3>3. k \in 1..Len(s) /\ u[k] = s[k]
      BY <1>2, <3>2 DEF Free
    <3> QED BY <2>1, <3>3 DEF Once
  <2>2. CASE \E i \in 1..Len(t) : j = Len(s) + i /\ u[j] = t[i]
    <3>1. PICK i \in 1..Len(t) : j = Len(s) + i /\ u[j] = t[i]
      BY <2>2
    <3>2. Free(s, id)
      BY <3>1 DEF Free
    <3>3. PICK h \in 1..Len(t) : k = Len(s) + h /\ u[k] = t[h]
      BY <1>2, <3>2 DEF Free
    <3>4. i = h
      BY <3>1, <3>3 DEF Once
    <3> QED BY <3>1, <3>3, <3>4
  <2> QED BY <1>2, <2>1, <2>2
<1>4. Free(s, id) /\ Free(t, id) => Free(u, id)
  BY <1>2 DEF Free
<1> QED BY <1>3, <1>4 DEF u

\* What is in a list is at a place of it.
LEMMA PlacesAre ==
  ASSUME NEW S, NEW s \in Seq(S)
  PROVE  /\ \A k \in 1..Len(s) : s[k] \in Range(s)
         /\ \A x \in Range(s) : \E k \in 1..Len(s) : s[k] = x
BY DEF Range

LEMMA FreeOnce ==
  ASSUME NEW s, NEW id, Free(s, id)
  PROVE  Once(s, id)
BY DEF Free, Once

EndsSaid(q, lost, f, isNode) ==
    /\ \A x \in Range(q) : \E e \in lost : x = Op(f[e], isNode, "alive", FALSE)
    /\ \A e \in lost : Op(f[e], isNode, "alive", FALSE) \in Range(q)

Missing(lost, f, id) == \A e \in lost : f[e] # id

LEMMA EndsOnce ==
  ASSUME NEW q, NEW lost, NEW f, NEW isNode, Ends(q, lost, f, isNode), NEW id
  PROVE  /\ Once(q, id) /\ (Missing(lost, f, id) => Free(q, id))
         /\ EndsSaid(q, lost, f, isNode)
<1> DEFINE a(e) == Op(f[e], isNode, "alive", FALSE)
<1>0. /\ q \in Seq(Ops)
      /\ \A k \in 1..Len(q) : \E e \in lost : q[k] = a(e)
      /\ \A e \in lost : \E k \in 1..Len(q) : q[k] = a(e)
      /\ \A j, k \in 1..Len(q) : q[j].target = q[k].target => j = k
  BY Zenon DEF Ends
<1>2. \A e : a(e).target = f[e]
  BY DEF Op
<1> HIDE DEF a
<1>1. /\ Len(q) \in Nat /\ DOMAIN q = 1..Len(q)
      /\ \A k \in 1..Len(q) : \E e \in lost : q[k] = a(e)
      /\ \A e \in lost : \E k \in 1..Len(q) : q[k] = a(e)
      /\ \A j, k \in 1..Len(q) : q[j].target = q[k].target => j = k
  BY <1>0
<1>3. Once(q, id)
  BY <1>1 DEF Once, IsTombstone
<1>4. Missing(lost, f, id) => Free(q, id)
  BY <1>1, <1>2 DEF Free, IsTombstone, Missing
<1>5. \A x \in Range(q) : \E e \in lost : x = a(e)
  BY <1>1 DEF Range
<1>6. \A e \in lost : a(e) \in Range(q)
  BY <1>1 DEF Range
<1> QED BY <1>3, <1>4, <1>5, <1>6 DEF a, EndsSaid

LEMMA ToldFree ==
  ASSUME NEW v, NEW l, NEW m, NEW q, NodesTold(l, m, v, q), NEW r, EdgesTold(l, m, v, r), NEW id
  PROVE  Free(q, id) /\ Free(r, id)
<1>1. q \in Seq(Ops) /\ r \in Seq(Ops)
  BY DEF NodesTold, EdgesTold
<1>2. \A x \in Range(q) : ~IsTombstone(x, id)
  BY DEF NodesTold, IsTombstone, Op
<1>3. \A x \in Range(r) : ~IsTombstone(x, id)
  BY DEF EdgesTold, IsTombstone, Op
<1>4. Free(q, id)
  BY <1>1, <1>2, PlacesAre DEF Free
<1>5. Free(r, id)
  BY <1>1, <1>3, PlacesAre DEF Free
<1> QED BY <1>4, <1>5

LEMMA ShippedIs ==
  ASSUME NEW c, NEW w, NEW v, NEW f, NEW g, Result(c, w, v, f, g), Kinds(c, w, v, f, g),
         NEW l, NEW m, NEW q, NodesTold(l, m, v, q), NEW r, EdgesTold(l, m, v, r),
         NEW ops, ops = q \o r \/ ops = r \o q
  PROVE  Shipped(l, m, w, v, f, g, v.queue \o ops)
<1>1. PICK d, b : Ends(d, LostNodes(w), f, TRUE) /\ Ends(b, LostEdges(w), g, FALSE) /\ v.queue = d \o b
  BY DEF Result, ResultQueue
<1>2. ResultIndex(w, v, f, g)
  BY DEF Result
<1>3. d \in Seq(Ops) /\ b \in Seq(Ops) /\ q \in Seq(Ops) /\ r \in Seq(Ops)
  BY <1>1 DEF Ends, NodesTold, EdgesTold
<1>40. q \o r \in Seq(Ops) /\ r \o q \in Seq(Ops) /\ d \o b \in Seq(Ops)
  BY <1>3
<1>4. ops \in Seq(Ops) /\ v.queue \in Seq(Ops)
  BY <1>1, <1>40
<1>5. \A x : x \in Range(ops) <=> x \in Range(q) \/ x \in Range(r)
  BY <1>3, RangeOfBoth
<1>6. \A x : x \in Range(v.queue) <=> x \in Range(d) \/ x \in Range(b)
  BY <1>1, <1>3, RangeOfBoth
<1> DEFINE t == v.queue \o ops
<1>7. t \in Seq(Ops) /\ \A x : x \in Range(t) <=> \/ x \in Range(d) \/ x \in Range(b)
                                                 \/ x \in Range(q) \/ x \in Range(r)
  BY <1>4, <1>5, <1>6, RangeOfBoth
<1>8. ASSUME NEW id PROVE Once(t, id)
  <2>1. Free(q, id) /\ Free(r, id)
    BY ToldFree
  <2>2. Free(ops, id) /\ Once(ops, id)
    BY <1>3, <2>1, FreeOnce, OnceOfBoth
  <2>3. Once(d, id) /\ Once(b, id)
    BY <1>1, EndsOnce
  <2>4. Free(d, id) \/ Free(b, id)
    <3>1. CASE Missing(LostNodes(w), f, id)
      BY <1>1, <3>1, EndsOnce
    <3>2. CASE Missing(LostEdges(w), g, id)
      BY <1>1, <3>2, EndsOnce
    <3>3. CASE \E a \in LostNodes(w), e \in LostEdges(w) : f[a] = id /\ g[e] = id
      BY <3>3 DEF Kinds, LostNodes, LostEdges
    <3> QED BY <3>1, <3>2, <3>3 DEF Missing
  <2>5. Once(v.queue, id)
    BY <1>1, <1>3, <2>3, <2>4, OnceOfBoth
  <2> QED BY <1>4, <2>2, <2>5, OnceOfBoth
<1> HIDE DEF t
<1>9. \A e \in DOMAIN v.node_of_entity : v.node_of_entity[e] = f[e]
  BY <1>2 DEF ResultIndex
<1>10. \A e \in DOMAIN v.edge_of_entity : v.edge_of_entity[e] = g[e]
  BY <1>2 DEF ResultIndex
<1>11. /\ \A x \in Range(d) : \E e \in LostNodes(w) : x = Op(f[e], TRUE, "alive", FALSE)
       /\ \A e \in LostNodes(w) : Op(f[e], TRUE, "alive", FALSE) \in Range(d)
  <2>1. EndsSaid(d, LostNodes(w), f, TRUE)
    BY <1>1, EndsOnce
  <2> QED BY <2>1, Zenon DEF EndsSaid
<1>12. /\ \A x \in Range(b) : \E e \in LostEdges(w) : x = Op(g[e], FALSE, "alive", FALSE)
       /\ \A e \in LostEdges(w) : Op(g[e], FALSE, "alive", FALSE) \in Range(b)
  <2>1. EndsSaid(b, LostEdges(w), g, FALSE)
    BY <1>1, EndsOnce
  <2> QED BY <2>1, Zenon DEF EndsSaid
<1>13. /\ \A x \in Range(q) : \E e \in v.changed \cap DOMAIN v.node_of_entity : x = Op(f[e], TRUE, "alive", TRUE)
       /\ \A e \in v.changed \cap DOMAIN v.node_of_entity :
            Quiet(l, m, f[e]) => Op(f[e], TRUE, "alive", TRUE) \in Range(q)
  <2>1. \A e \in v.changed \cap DOMAIN v.node_of_entity : v.node_of_entity[e] = f[e]
    BY <1>9
  <2> QED BY <2>1 DEF NodesTold
<1>14. /\ \A x \in Range(r) : \E e \in v.changed \cap DOMAIN v.edge_of_entity :
            x = Op(g[e], FALSE, "alive", TRUE) \/ x = Op(g[e], FALSE, "ends", v.endpoints[e].ends)
       /\ \A e \in v.changed \cap DOMAIN v.edge_of_entity :
            Quiet(l, m, g[e]) => Op(g[e], FALSE, "alive", TRUE) \in Range(r)
  <2>1. \A e \in v.changed \cap DOMAIN v.edge_of_entity : v.edge_of_entity[e] = g[e]
    BY <1>10
  <2> QED BY <2>1 DEF EdgesTold
<1>15. \A x \in Range(t) :
         \/ \E e \in LostNodes(w) : x = Op(f[e], TRUE, "alive", FALSE)
         \/ \E e \in LostEdges(w) : x = Op(g[e], FALSE, "alive", FALSE)
         \/ \E e \in v.changed \cap DOMAIN v.node_of_entity : x = Op(f[e], TRUE, "alive", TRUE)
         \/ \E e \in v.changed \cap DOMAIN v.edge_of_entity :
              x = Op(g[e], FALSE, "alive", TRUE) \/ x = Op(g[e], FALSE, "ends", v.endpoints[e].ends)
  BY <1>7, <1>11, <1>12, <1>13, <1>14, Zenon
<1>16. /\ \A e \in LostNodes(w) : Op(f[e], TRUE, "alive", FALSE) \in Range(t)
       /\ \A e \in LostEdges(w) : Op(g[e], FALSE, "alive", FALSE) \in Range(t)
       /\ \A e \in v.changed \cap DOMAIN v.node_of_entity :
            Quiet(l, m, f[e]) => Op(f[e], TRUE, "alive", TRUE) \in Range(t)
       /\ \A e \in v.changed \cap DOMAIN v.edge_of_entity :
            Quiet(l, m, g[e]) => Op(g[e], FALSE, "alive", TRUE) \in Range(t)
  BY <1>7, <1>11, <1>12, <1>13, <1>14, Zenon
<1>17. Shipped(l, m, w, v, f, g, t)
  BY <1>7, <1>8, <1>15, <1>16, Zenon DEF Shipped, Once
<1> QED BY <1>17 DEF t

LEMMA ConcatTwice ==
  ASSUME NEW S, NEW a \in Seq(S), NEW b \in Seq(S), NEW d \in Seq(S)
  PROVE  a \o b \o d = a \o (b \o d)
OBVIOUS

\* The client whose world was w has framed it up to op n.
Leads(c, w, m, n) ==
  \E v, f, g, y, t :
    /\ Framed(c, w, log, m, v, f, g, y, t) /\ v.applied = n
    /\ world' = [world EXCEPT ![c] = y] /\ wire' = [wire EXCEPT ![c] = wire[c] \o t]

LEMMA UpdateIs ==
  ASSUME NEW c \in Client, NEW w, Sane(c, w), log \in Seq(Ops), OwnFits(c, w, log),
         NEW n \in w.applied..Len(log), NEW m \in 0..Len(log), wire[c] \in Seq(Ops), Update(c, w, m, n)
  PROVE  Leads(c, w, m, n)
<1> DEFINE v == Structural(w, c, n)
           y == [project_to_components(v, w.applied) EXCEPT !.queue = << >>]
           q == detect_local_changes(v, m, TRUE)
           r == detect_local_changes(v, m, FALSE)
<1>1. w.applied \in Nat /\ Len(log) \in Nat /\ n \in Nat /\ w.applied <= n /\ n <= Len(log) /\ m \in Nat
  BY DEF Sane, World
<1>2. \A k \in w.applied + 1..n : Given(c, w, log[k])
  <2> TAKE k \in w.applied + 1..n
  <2>1. k \in 1..Len(log)
    BY <1>1
  <2> QED BY <2>1 DEF OwnFits, Given, Fit
<1>3. PICK f, g : Result(c, w, v, f, g) /\ v.applied = n
  BY <1>1, <1>2, StructuralIs
<1>4. /\ world' = [world EXCEPT ![c] = y]
      /\ \E ops \in {q \o r, r \o q} : wire' = [wire EXCEPT ![c] = wire[c] \o v.queue \o ops]
  BY Zenon DEF Update
<1> HIDE DEF v
<1>5. Kinds(c, w, v, f, g)
  BY <1>3, KindsAre
<1>6. v \in World
  BY <1>3 DEF Result
<1>7. Fits(log, v.applied, v)
  BY <1>1, <1>3, <1>5, EndsFit
<1>8. Projected(log, w.applied, v, y)
  BY <1>6, <1>7, Projects
<1>9. /\ DOMAIN v.node_of_entity \subseteq DOMAIN w.presence
      /\ DOMAIN v.edge_of_entity \subseteq DOMAIN w.endpoints
  <2>1. ResultEntities(w, v, f)
    BY <1>3 DEF Result
  <2> QED BY <1>3, <2>1, BoundLive DEF ResultEntities
<1>10. IsFiniteSet(DOMAIN v.node_of_entity) /\ IsFiniteSet(DOMAIN v.edge_of_entity)
  <2>1. IsFiniteSet(Named(w)) /\ DOMAIN v.node_of_entity \subseteq Named(w)
        /\ DOMAIN v.edge_of_entity \subseteq Named(w)
    BY <1>9 DEF Sane, Named, Entities
  <2> QED BY <2>1, FS_Subset
<1>11. NodesTold(log, m, v, q)
  <2>1. \A e \in v.changed \cap DOMAIN v.node_of_entity : v.presence[e] = TRUE
    BY <1>3, ChangedLive
  <2> QED BY <1>1, <1>6, <1>10, <2>1, NodesAreTold
<1>12. EdgesTold(log, m, v, r)
  <2>1. \A e \in v.changed \cap DOMAIN v.edge_of_entity :
          e \in DOMAIN v.endpoints /\ v.endpoints[e].alive = TRUE
    BY <1>3, ChangedLive
  <2> QED BY <1>1, <1>6, <1>10, <2>1, EdgesAreTold
<1> HIDE DEF y, q, r
<1>13. PICK ops : (ops = q \o r \/ ops = r \o q) /\ wire' = [wire EXCEPT ![c] = wire[c] \o v.queue \o ops]
  BY <1>4
<1> DEFINE t == v.queue \o ops
<1>14. Shipped(log, m, w, v, f, g, t)
  BY <1>3, <1>5, <1>11, <1>12, <1>13, ShippedIs
<1>15. wire[c] \o v.queue \o ops = wire[c] \o t
  <2>1. v.queue \in Seq(Ops)
    BY <1>6 DEF World
  <2>2. q \in Seq(Ops) /\ r \in Seq(Ops)
    BY <1>11, <1>12 DEF NodesTold, EdgesTold
  <2>3. q \o r \in Seq(Ops) /\ r \o q \in Seq(Ops)
    BY <2>2
  <2>4. ops \in Seq(Ops)
    BY <1>13, <2>3
  <2> DEFINE a == wire[c]
             b == v.queue
  <2>5. a \in Seq(Ops) /\ b \in Seq(Ops)
    BY <2>1
  <2> HIDE DEF a, b
  <2>6. a \o b \o ops = a \o (b \o ops)
    BY <2>4, <2>5, ConcatTwice, SMTT(30)
  <2>7. wire[c] \o v.queue \o ops = wire[c] \o (v.queue \o ops)
    BY <2>6, Zenon DEF a, b
  <2> QED BY <2>7, Zenon
<1> HIDE DEF t
<1>16. Framed(c, w, log, m, v, f, g, y, t)
  BY <1>1, <1>3, <1>5, <1>8, <1>14 DEF Framed
<1>17. world' = [world EXCEPT ![c] = y] /\ wire' = [wire EXCEPT ![c] = wire[c] \o t]
  BY <1>4, <1>13, <1>15
<1> QED BY <1>3, <1>16, <1>17 DEF Leads

-----------------------------------------------------------------------------
(* What a frame keeps. *)

\* The fields of the world a frame leaves.
LEMMA FrameIs ==
  ASSUME NEW c, NEW w, NEW l, NEW m, NEW v, NEW f, NEW g, NEW y, NEW t, Framed(c, w, l, m, v, f, g, y, t)
  PROVE  /\ y \in World /\ w \in World /\ Apart(w) /\ Linked(w) /\ Known(w)
         /\ DOMAIN y.presence = DOMAIN w.presence \ DeadNodes(w)
         /\ DOMAIN y.endpoints = DOMAIN w.endpoints \ (Cut(w) \cup DeadEdges(w))
         /\ DOMAIN y.links = DOMAIN y.endpoints
         /\ \A e \in DOMAIN y.endpoints : /\ y.links[e] = w.links[e]
                                          /\ y.endpoints[e].ends = v.endpoints[e].ends
         /\ DOMAIN y.node_of_entity = DOMAIN y.presence
         /\ NodesBorn(w) \subseteq DOMAIN y.node_of_entity
         /\ DOMAIN y.node_of_entity \subseteq DOMAIN w.node_of_entity \cup NodesBorn(w)
         /\ DOMAIN y.edge_of_entity = (DOMAIN w.edge_of_entity \cup EdgesBorn(w)) \cap DOMAIN y.endpoints
         /\ \A e \in DOMAIN y.node_of_entity : y.node_of_entity[e] = f[e]
         /\ \A e \in DOMAIN y.edge_of_entity : y.edge_of_entity[e] = g[e]
         /\ Mirrored(y.node_of_entity, y.entity_of_node)
         /\ Mirrored(y.edge_of_entity, y.entity_of_edge)
<1>1. /\ Result(c, w, v, f, g) /\ Sane(c, w) /\ Projected(l, w.applied, v, y)
      /\ ResultEntities(w, v, f) /\ ResultIndex(w, v, f, g)
  BY DEF Framed, Result
<1>2. /\ DOMAIN v.node_of_entity = (DOMAIN w.node_of_entity \cup NodesBorn(w)) \cap DOMAIN v.presence
      /\ DOMAIN v.edge_of_entity = (DOMAIN w.edge_of_entity \cup EdgesBorn(w)) \cap DOMAIN v.endpoints
      /\ DOMAIN v.presence \subseteq DOMAIN v.node_of_entity
      /\ NodesBorn(w) \subseteq DOMAIN v.node_of_entity
  BY <1>1, BoundLive
<1>3. /\ y.links = v.links
      /\ y.node_of_entity = v.node_of_entity /\ y.entity_of_node = v.entity_of_node
      /\ y.edge_of_entity = v.edge_of_entity /\ y.entity_of_edge = v.entity_of_edge
      /\ DOMAIN y.presence = DOMAIN v.presence /\ DOMAIN y.endpoints = DOMAIN v.endpoints
      /\ y \in World /\ \A e \in DOMAIN v.endpoints : y.endpoints[e].ends = v.endpoints[e].ends
  BY <1>1 DEF Projected
<1>4. /\ DOMAIN v.presence = DOMAIN w.presence \ DeadNodes(w)
      /\ DOMAIN v.endpoints = DOMAIN w.endpoints \ (Cut(w) \cup DeadEdges(w))
      /\ DOMAIN v.links = DOMAIN v.endpoints
      /\ \A e \in DOMAIN v.endpoints : v.links[e] = w.links[e]
  BY <1>1 DEF ResultEntities
<1>5. /\ \A e \in DOMAIN v.node_of_entity : v.node_of_entity[e] = f[e]
      /\ \A e \in DOMAIN v.edge_of_entity : v.edge_of_entity[e] = g[e]
      /\ Mirrored(v.node_of_entity, v.entity_of_node)
      /\ Mirrored(v.edge_of_entity, v.entity_of_edge)
  BY <1>1 DEF ResultIndex
<1>6. w \in World /\ Apart(w) /\ Linked(w) /\ Known(w)
  BY <1>1 DEF Sane
<1> QED BY <1>2, <1>3, <1>4, <1>5, <1>6

\* The ids of c after a frame are those it had, or new.
LEMMA IdsAfter ==
  ASSUME NEW c, NEW w, NEW l, NEW m, NEW v, NEW f, NEW g, NEW y, NEW t, Framed(c, w, l, m, v, f, g, y, t)
  PROVE  /\ \A id \in DOMAIN y.entity_of_node :
              /\ y.entity_of_node[id] \in DOMAIN y.node_of_entity /\ f[y.entity_of_node[id]] = id
              /\ id[1] = c /\ id[2] < y.next
         /\ \A id \in DOMAIN y.entity_of_edge :
              /\ y.entity_of_edge[id] \in DOMAIN y.edge_of_entity /\ g[y.entity_of_edge[id]] = id
              /\ id[1] = c /\ id[2] < y.next
         /\ DOMAIN y.entity_of_node \cap DOMAIN y.entity_of_edge = {}
<1>1. Kinds(c, w, v, f, g) /\ y.next = v.next
  BY DEF Framed, Projected
<1>2. /\ DOMAIN y.node_of_entity \subseteq DOMAIN w.node_of_entity \cup NodesBorn(w)
      /\ DOMAIN y.edge_of_entity \subseteq DOMAIN w.edge_of_entity \cup EdgesBorn(w)
      /\ \A e \in DOMAIN y.node_of_entity : y.node_of_entity[e] = f[e]
      /\ \A e \in DOMAIN y.edge_of_entity : y.edge_of_entity[e] = g[e]
      /\ Mirrored(y.node_of_entity, y.entity_of_node)
      /\ Mirrored(y.edge_of_entity, y.entity_of_edge)
  BY FrameIs
<1>3. ASSUME NEW id \in DOMAIN y.entity_of_node
      PROVE  /\ y.entity_of_node[id] \in DOMAIN y.node_of_entity /\ f[y.entity_of_node[id]] = id
             /\ id[1] = c /\ id[2] < y.next
  <2>1. y.entity_of_node[id] \in DOMAIN y.node_of_entity /\ y.node_of_entity[y.entity_of_node[id]] = id
    BY <1>2 DEF Mirrored
  <2> QED BY <1>1, <1>2, <2>1 DEF Kinds
<1>4. ASSUME NEW id \in DOMAIN y.entity_of_edge
      PROVE  /\ y.entity_of_edge[id] \in DOMAIN y.edge_of_entity /\ g[y.entity_of_edge[id]] = id
             /\ id[1] = c /\ id[2] < y.next
  <2>1. y.entity_of_edge[id] \in DOMAIN y.edge_of_entity /\ y.edge_of_entity[y.entity_of_edge[id]] = id
    BY <1>2 DEF Mirrored
  <2> QED BY <1>1, <1>2, <2>1 DEF Kinds
<1>5. DOMAIN y.entity_of_node \cap DOMAIN y.entity_of_edge = {}
  <2> SUFFICES ASSUME NEW id \in DOMAIN y.entity_of_node, id \in DOMAIN y.entity_of_edge PROVE FALSE
    OBVIOUS
  <2> QED BY <1>1, <1>2, <1>3, <1>4 DEF Kinds
<1> QED BY <1>3, <1>4, <1>5

LEMMA SaneAfter ==
  ASSUME NEW c, NEW w, NEW l, NEW m, NEW v, NEW f, NEW g, NEW y, NEW t, Framed(c, w, l, m, v, f, g, y, t)
  PROVE  Sane(c, y)
<1>1. /\ y \in World /\ w \in World /\ Apart(w) /\ Linked(w) /\ Known(w)
      /\ DOMAIN y.presence = DOMAIN w.presence \ DeadNodes(w)
      /\ DOMAIN y.endpoints = DOMAIN w.endpoints \ (Cut(w) \cup DeadEdges(w))
      /\ DOMAIN y.links = DOMAIN y.endpoints
      /\ \A e \in DOMAIN y.endpoints : y.links[e] = w.links[e]
      /\ DOMAIN y.node_of_entity = DOMAIN y.presence
      /\ DOMAIN y.edge_of_entity = (DOMAIN w.edge_of_entity \cup EdgesBorn(w)) \cap DOMAIN y.endpoints
      /\ Mirrored(y.node_of_entity, y.entity_of_node)
      /\ Mirrored(y.edge_of_entity, y.entity_of_edge)
  BY FrameIs
<1>2. /\ y.added = {} /\ y.removed = {} /\ y.queue = << >> /\ y.pending = {}
      /\ y.changed \subseteq DOMAIN y.node_of_entity \cup DOMAIN y.edge_of_entity
  BY DEF Framed, Projected, Result, ResultEntities, ShownNodes, ShownEdges
<1>3. /\ \A id \in DOMAIN y.entity_of_node \cup DOMAIN y.entity_of_edge : id[1] = c /\ id[2] < y.next
      /\ DOMAIN y.entity_of_node \cap DOMAIN y.entity_of_edge = {}
  BY IdsAfter
<1>4. IsFiniteSet(Named(y))
  <2>1. Named(y) \subseteq Named(w) /\ IsFiniteSet(Named(w))
    BY <1>1, <1>2 DEF Named, Entities, Framed, Sane
  <2> QED BY <2>1, FS_Subset
<1>5. Apart(y)
  BY <1>1, <1>2, <1>3 DEF Apart, Entities
<1>6. Linked(y)
  <2> SUFFICES ASSUME NEW e \in DOMAIN y.links
               PROVE  /\ IsFiniteSet(y.links[e]) /\ Cardinality(y.links[e]) <= 2
                      /\ y.links[e] \subseteq DOMAIN y.presence
    BY DEF Linked
  <2>1. e \in DOMAIN w.links /\ e \notin Cut(w) /\ y.links[e] = w.links[e]
    BY <1>1 DEF Apart
  <2>2. /\ IsFiniteSet(w.links[e]) /\ Cardinality(w.links[e]) <= 2
        /\ w.links[e] \subseteq DOMAIN w.presence
    BY <1>1, <2>1 DEF Linked
  <2>3. w.links[e] \cap DeadNodes(w) = {}
    BY <2>1 DEF Cut
  <2> QED BY <1>1, <2>1, <2>2, <2>3
<1>7. Known(y)
  <2>1. ASSUME NEW e \in DOMAIN y.endpoints, e \notin DOMAIN y.edge_of_entity PROVE Cardinality(y.links[e]) < 2
    <3>1. e \in DOMAIN w.links /\ y.links[e] = w.links[e] /\ e \notin DOMAIN w.edge_of_entity
          /\ e \notin EdgesBorn(w) /\ e \in DOMAIN w.endpoints
      BY <1>1, <2>1 DEF Apart
    <3>2. IsFiniteSet(w.links[e]) /\ Cardinality(w.links[e]) <= 2
      BY <1>1, <3>1 DEF Linked
    <3>3. e \in w.added \/ Cardinality(w.links[e]) < 2
      BY <1>1, <3>1 DEF Known
    <3>4. e \in w.added => Cardinality(w.links[e]) # 2
      BY <3>1 DEF EdgesBorn
    <3>5. Cardinality(w.links[e]) \in Nat
      BY <3>2, FS_CardinalityType
    <3> QED BY <3>1, <3>2, <3>3, <3>4, <3>5
  <2> QED BY <1>1, <2>1 DEF Known
<1>8. Own(c, y)
  BY <1>2, <1>3 DEF Own
<1> QED BY <1>1, <1>4, <1>5, <1>6, <1>7, <1>8 DEF Sane

LEMMA FitAfter ==
  ASSUME NEW c, NEW w, NEW l, NEW m, NEW v, NEW f, NEW g, NEW y, NEW t, Framed(c, w, l, m, v, f, g, y, t),
         NEW op, op.target[1] = c, Fit(op, w)
  PROVE  Fit(op, y)
<1> DEFINE id == op.target
<1>1. Kinds(c, w, v, f, g) /\ y.next = v.next
  BY DEF Framed, Projected
<1>2. /\ DOMAIN y.node_of_entity \subseteq DOMAIN w.node_of_entity \cup NodesBorn(w)
      /\ DOMAIN y.edge_of_entity = (DOMAIN w.edge_of_entity \cup EdgesBorn(w)) \cap DOMAIN y.endpoints
      /\ \A e \in DOMAIN y.endpoints : y.endpoints[e].ends = v.endpoints[e].ends
      /\ DOMAIN y.endpoints = DOMAIN w.endpoints \ (Cut(w) \cup DeadEdges(w))
  BY FrameIs
<1>3. op \in Ops /\ id \in Id /\ id[2] \in Nat /\ id[2] < w.next
  BY DEF Fit, Ops, Id
<1>4. id[2] < y.next
  BY <1>1, <1>3 DEF Kinds
<1>5. ASSUME id \in DOMAIN y.entity_of_node PROVE id \in DOMAIN w.entity_of_node
  <2> DEFINE e == y.entity_of_node[id]
  <2>1. e \in DOMAIN y.node_of_entity /\ f[e] = id
    BY <1>5, IdsAfter
  <2> HIDE DEF e
  <2>2. e \notin NodesBorn(w)
    <3>1. e \in NodesBorn(w) => w.next <= f[e][2]
      BY <1>1 DEF Kinds
    <3> QED BY <1>1, <1>3, <2>1, <3>1 DEF Kinds
  <2>3. e \in DOMAIN w.node_of_entity
    BY <1>2, <2>1, <2>2
  <2> QED BY <1>1, <2>1, <2>3 DEF Kinds
<1>6. ASSUME id \in DOMAIN y.entity_of_edge
      PROVE  /\ id \in DOMAIN w.entity_of_edge /\ w.entity_of_edge[id] = y.entity_of_edge[id]
             /\ y.entity_of_edge[id] \in DOMAIN y.endpoints => y.entity_of_edge[id] \notin EdgesBorn(w)
  <2> DEFINE e == y.entity_of_edge[id]
  <2>1. e \in DOMAIN y.edge_of_entity /\ g[e] = id
    BY <1>6, IdsAfter
  <2> HIDE DEF e
  <2>2. e \notin EdgesBorn(w)
    <3>1. e \in EdgesBorn(w) => w.next <= g[e][2]
      BY <1>1 DEF Kinds
    <3> QED BY <1>1, <1>3, <2>1, <3>1 DEF Kinds
  <2>3. e \in DOMAIN w.edge_of_entity
    BY <1>2, <2>1, <2>2
  <2>4. id \in DOMAIN w.entity_of_edge /\ w.entity_of_edge[id] = e
    BY <1>1, <2>1, <2>3 DEF Kinds
  <2> QED BY <2>2, <2>4 DEF e
<1>7. ASSUME op.field = "ends", id \in DOMAIN y.entity_of_edge, y.entity_of_edge[id] \in DOMAIN y.endpoints
      PROVE  op.value = y.endpoints[y.entity_of_edge[id]].ends
  <2> DEFINE e == y.entity_of_edge[id]
  <2>1. id \in DOMAIN w.entity_of_edge /\ w.entity_of_edge[id] = e /\ e \notin EdgesBorn(w)
    BY <1>6, <1>7
  <2>2. e \in DOMAIN y.endpoints
    BY <1>7
  <2> HIDE DEF e
  <2>3. e \in DOMAIN w.endpoints
    BY <1>2, <2>2
  <2>4. op.value = w.endpoints[e].ends
    BY <1>7, <2>1, <2>3 DEF Fit
  <2>5. v.endpoints[e] = w.endpoints[e]
    <3>1. DOMAIN v.endpoints = DOMAIN y.endpoints /\ ResultEntities(w, v, f)
      BY DEF Framed, Projected, Result
    <3> QED BY <2>1, <2>2, <3>1 DEF ResultEntities
  <2>6. op.value = y.endpoints[e].ends
    BY <1>2, <2>2, <2>4, <2>5
  <2> QED BY <2>6 DEF e
<1>8. /\ op.field = "alive" => op.value \in BOOLEAN
      /\ op.field = "ends" => ~op.node
      /\ op.target \in DOMAIN w.entity_of_node => op.node
      /\ op.target \in DOMAIN w.entity_of_edge => ~op.node
  BY DEF Fit
<1> QED BY <1>3, <1>4, <1>5, <1>6, <1>7, <1>8 DEF Fit

\* What is said of a node, or an edge, of c fits it.
FitsOf(c, x, y) == x.target[1] = c /\ Fit(x, y)

LEMMA NodeFits ==
  ASSUME NEW c, NEW w, NEW l, NEW m, NEW v, NEW f, NEW g, NEW y, NEW t, Framed(c, w, l, m, v, f, g, y, t),
         NEW e \in DOMAIN w.node_of_entity \cup NodesBorn(w)
  PROVE  \A b \in BOOLEAN : FitsOf(c, Op(f[e], TRUE, "alive", b), y)
<1> TAKE b \in BOOLEAN
<1> DEFINE id == f[e]
           x == Op(id, TRUE, "alive", b)
<1>1. Kinds(c, w, v, f, g) /\ y.next = v.next
  BY DEF Framed, Projected
<1>2. id \in Id /\ id[1] = c /\ id[2] < y.next
  BY <1>1 DEF Kinds
<1>3. id \notin DOMAIN y.entity_of_edge
  <2> SUFFICES ASSUME id \in DOMAIN y.entity_of_edge PROVE FALSE
    OBVIOUS
  <2> DEFINE z == y.entity_of_edge[id]
  <2>1. z \in DOMAIN y.edge_of_entity /\ g[z] = id
    BY IdsAfter
  <2> HIDE DEF z
  <2>2. z \in DOMAIN w.edge_of_entity \cup EdgesBorn(w)
    BY <2>1, FrameIs
  <2> QED BY <1>1, <2>1, <2>2 DEF Kinds
<1> HIDE DEF id
<1>4. x.target = id /\ x.node = TRUE /\ x.field = "alive" /\ x.value = b /\ x \in Ops
  BY <1>2 DEF Op, Ops
<1> HIDE DEF x
<1>5. FitsOf(c, x, y)
  BY <1>2, <1>3, <1>4 DEF Fit, FitsOf
<1> QED BY <1>5 DEF x, id

LEMMA EdgeFits ==
  ASSUME NEW c, NEW w, NEW l, NEW m, NEW v, NEW f, NEW g, NEW y, NEW t, Framed(c, w, l, m, v, f, g, y, t),
         NEW e \in DOMAIN w.edge_of_entity \cup EdgesBorn(w)
  PROVE  \A b \in BOOLEAN : FitsOf(c, Op(g[e], FALSE, "alive", b), y)
<1> TAKE b \in BOOLEAN
<1> DEFINE id == g[e]
           x == Op(id, FALSE, "alive", b)
<1>1. Kinds(c, w, v, f, g) /\ y.next = v.next
  BY DEF Framed, Projected
<1>2. id \in Id /\ id[1] = c /\ id[2] < y.next
  BY <1>1 DEF Kinds
<1>3. id \notin DOMAIN y.entity_of_node
  <2> SUFFICES ASSUME id \in DOMAIN y.entity_of_node PROVE FALSE
    OBVIOUS
  <2> DEFINE z == y.entity_of_node[id]
  <2>1. z \in DOMAIN y.node_of_entity /\ f[z] = id
    BY IdsAfter
  <2> HIDE DEF z
  <2>2. z \in DOMAIN w.node_of_entity \cup NodesBorn(w)
    BY <2>1, FrameIs
  <2> QED BY <1>1, <2>1, <2>2 DEF Kinds
<1> HIDE DEF id
<1>4. x.target = id /\ x.node = FALSE /\ x.field = "alive" /\ x.value = b /\ x \in Ops
  BY <1>2 DEF Op, Ops
<1> HIDE DEF x
<1>5. FitsOf(c, x, y)
  BY <1>2, <1>3, <1>4 DEF Fit, FitsOf
<1> QED BY <1>5 DEF x, id

LEMMA EndsFits ==
  ASSUME NEW c, NEW w, NEW l, NEW m, NEW v, NEW f, NEW g, NEW y, NEW t, Framed(c, w, l, m, v, f, g, y, t),
         NEW e \in DOMAIN y.edge_of_entity
  PROVE  FitsOf(c, Op(g[e], FALSE, "ends", v.endpoints[e].ends), y)
<1> DEFINE id == g[e]
           ends == v.endpoints[e].ends
           x == Op(id, FALSE, "ends", ends)
<1>1. /\ y \in World /\ DOMAIN y.edge_of_entity = (DOMAIN w.edge_of_entity \cup EdgesBorn(w)) \cap DOMAIN y.endpoints
      /\ \A z \in DOMAIN y.endpoints : y.endpoints[z].ends = v.endpoints[z].ends
      /\ \A z \in DOMAIN y.edge_of_entity : y.edge_of_entity[z] = g[z]
      /\ Mirrored(y.edge_of_entity, y.entity_of_edge)
  BY FrameIs
<1>2. FitsOf(c, Op(g[e], FALSE, "alive", TRUE), y)
  BY <1>1, EdgeFits
<1>3. id[1] = c /\ id \in Id /\ id[2] < y.next /\ id \notin DOMAIN y.entity_of_node
  BY <1>2 DEF FitsOf, Fit, Op, Ops
<1>4. e \in DOMAIN y.endpoints /\ y.endpoints[e].ends = ends /\ y.entity_of_edge[id] = e
  BY <1>1 DEF Mirrored
<1>5. ends \in {None} \cup SUBSET Id
  BY <1>1, <1>4, WorldIs DEF Endpoints
<1> HIDE DEF id, ends
<1>6. x.target = id /\ x.node = FALSE /\ x.field = "ends" /\ x.value = ends /\ x \in Ops
  BY <1>3, <1>5 DEF Op, Ops
<1> HIDE DEF x
<1>7. FitsOf(c, x, y)
  BY <1>3, <1>4, <1>6 DEF Fit, FitsOf
<1> QED BY <1>7 DEF x, id, ends

LEMMA NewFit ==
  ASSUME NEW c, NEW w, NEW l, NEW m, NEW v, NEW f, NEW g, NEW y, NEW t, Framed(c, w, l, m, v, f, g, y, t),
         NEW x \in Range(t)
  PROVE  FitsOf(c, x, y)
<1>1. /\ Shipped(l, m, w, v, f, g, t)
      /\ y.node_of_entity = v.node_of_entity /\ y.edge_of_entity = v.edge_of_entity
  BY DEF Framed, Projected
<1>2. /\ DOMAIN y.node_of_entity \subseteq DOMAIN w.node_of_entity \cup NodesBorn(w)
      /\ DOMAIN y.edge_of_entity \subseteq DOMAIN w.edge_of_entity \cup EdgesBorn(w)
  BY FrameIs
<1>3. CASE \E e \in LostNodes(w) : x = Op(f[e], TRUE, "alive", FALSE)
  <2>1. PICK e \in LostNodes(w) : x = Op(f[e], TRUE, "alive", FALSE)
    BY <1>3
  <2>2. e \in DOMAIN w.node_of_entity \cup NodesBorn(w)
    BY <2>1 DEF LostNodes
  <2>3. FitsOf(c, Op(f[e], TRUE, "alive", FALSE), y)
    BY <2>2, NodeFits
  <2> QED BY <2>1, <2>3
<1>4. CASE \E e \in LostEdges(w) : x = Op(g[e], FALSE, "alive", FALSE)
  <2>1. PICK e \in LostEdges(w) : x = Op(g[e], FALSE, "alive", FALSE)
    BY <1>4
  <2>2. e \in DOMAIN w.edge_of_entity \cup EdgesBorn(w)
    BY <2>1 DEF LostEdges
  <2>3. FitsOf(c, Op(g[e], FALSE, "alive", FALSE), y)
    BY <2>2, EdgeFits
  <2> QED BY <2>1, <2>3
<1>5. CASE \E e \in v.changed \cap DOMAIN v.node_of_entity : x = Op(f[e], TRUE, "alive", TRUE)
  <2>1. PICK e \in v.changed \cap DOMAIN v.node_of_entity : x = Op(f[e], TRUE, "alive", TRUE)
    BY <1>5
  <2>2. e \in DOMAIN w.node_of_entity \cup NodesBorn(w)
    BY <1>1, <1>2, <2>1
  <2>3. FitsOf(c, Op(f[e], TRUE, "alive", TRUE), y)
    BY <2>2, NodeFits
  <2> QED BY <2>1, <2>3
<1>6. CASE \E e \in v.changed \cap DOMAIN v.edge_of_entity : x = Op(g[e], FALSE, "alive", TRUE)
  <2>1. PICK e \in v.changed \cap DOMAIN v.edge_of_entity : x = Op(g[e], FALSE, "alive", TRUE)
    BY <1>6
  <2>2. e \in DOMAIN w.edge_of_entity \cup EdgesBorn(w)
    BY <1>1, <1>2, <2>1
  <2>3. FitsOf(c, Op(g[e], FALSE, "alive", TRUE), y)
    BY <2>2, EdgeFits
  <2> QED BY <2>1, <2>3
<1>7. CASE \E e \in v.changed \cap DOMAIN v.edge_of_entity : x = Op(g[e], FALSE, "ends", v.endpoints[e].ends)
  <2>1. PICK e \in v.changed \cap DOMAIN v.edge_of_entity : x = Op(g[e], FALSE, "ends", v.endpoints[e].ends)
    BY <1>7
  <2>2. e \in DOMAIN y.edge_of_entity
    BY <1>1, <1>2, <2>1
  <2>3. FitsOf(c, Op(g[e], FALSE, "ends", v.endpoints[e].ends), y)
    BY <2>2, EndsFits
  <2> QED BY <2>1, <2>3
<1>8. \/ \E e \in LostNodes(w) : x = Op(f[e], TRUE, "alive", FALSE)
      \/ \E e \in LostEdges(w) : x = Op(g[e], FALSE, "alive", FALSE)
      \/ \E e \in v.changed \cap DOMAIN v.node_of_entity : x = Op(f[e], TRUE, "alive", TRUE)
      \/ \E e \in v.changed \cap DOMAIN v.edge_of_entity :
           x = Op(g[e], FALSE, "alive", TRUE) \/ x = Op(g[e], FALSE, "ends", v.endpoints[e].ends)
  BY <1>1, Zenon DEF Shipped
<1> QED BY <1>3, <1>4, <1>5, <1>6, <1>7, <1>8

-----------------------------------------------------------------------------
(* What was said stays said. *)

LEMMA SaidLonger ==
  ASSUME NEW S, NEW s \in Seq(S), NEW t \in Seq(S), NEW id, NEW b
  PROVE  /\ Said(s, Len(s), id, b) => Said(s \o t, Len(s \o t), id, b)
         /\ \A op \in Range(t) : op.target = id /\ op.field = "alive" /\ op.value = b
                                 => Said(s \o t, Len(s \o t), id, b)
<1> DEFINE u == s \o t
<1>1. /\ Len(s) \in Nat /\ Len(t) \in Nat /\ Len(u) = Len(s) + Len(t)
      /\ \A k \in 1..Len(s) : u[k] = s[k]
      /\ \A k \in 1..Len(t) : u[Len(s) + k] = t[k]
  OBVIOUS
<1> HIDE DEF u
<1>2. Said(s, Len(s), id, b) => Said(u, Len(u), id, b)
  BY <1>1 DEF Said
<1>3. ASSUME NEW op \in Range(t), op.target = id /\ op.field = "alive" /\ op.value = b
      PROVE  Said(u, Len(u), id, b)
  <2>1. PICK k \in 1..Len(t) : t[k] = op
    BY PlacesAre
  <2>2. Len(s) + k \in 1..Len(u) /\ u[Len(s) + k] = op
    BY <1>1, <2>1
  <2> QED BY <1>3, <2>2 DEF Said
<1> QED BY <1>2, <1>3 DEF u

LEMMA AnnouncedLonger ==
  ASSUME NEW l, NEW S, NEW s \in Seq(S), NEW t \in Seq(S), NEW id, NEW b
  PROVE  /\ Announced(l, s, id, b) => Announced(l, s \o t, id, b)
         /\ \A isNode : Op(id, isNode, "alive", b) \in Range(t) => Announced(l, s \o t, id, b)
<1>1. Announced(l, s, id, b) => Announced(l, s \o t, id, b)
  BY SaidLonger DEF Announced
<1>2. ASSUME NEW isNode, Op(id, isNode, "alive", b) \in Range(t) PROVE Announced(l, s \o t, id, b)
  <2>1. LET op == Op(id, isNode, "alive", b) IN op.target = id /\ op.field = "alive" /\ op.value = b
    BY DEF Op
  <2> QED BY <1>2, <2>1, SaidLonger DEF Announced
<1> QED BY <1>1, <1>2

LEMMA SaidMore ==
  ASSUME NEW l, NEW m \in Nat, NEW n \in Nat, m <= n, NEW id, NEW b, Said(l, m, id, b)
  PROVE  Said(l, n, id, b)
BY DEF Said

-----------------------------------------------------------------------------
(* A frame keeps the invariant of its client. *)

Kept(l, n, id, S, e, now) ==
    /\ ~now => Said(l, n, id, FALSE)
    /\ Reg(l, n, id, "alive") = FALSE => e \in S /\ ~now

LEMMA AgreeKept ==
  ASSUME NEW l, NEW a \in Nat, NEW n \in Nat, a <= n,
         \A k \in 1..n : l[k].field = "alive" => l[k].value \in BOOLEAN,
         NEW id, NEW S, NEW e, \A k \in a + 1..n : l[k].target = id => e \in S,
         NEW was \in BOOLEAN, ~was => Said(l, a, id, FALSE), Reg(l, a, id, "alive") # FALSE,
         NEW now, now = IF e \in S THEN Says(l, n, id, was) ELSE was
  PROVE  Kept(l, n, id, S, e, now)
<1> DEFINE r == Reg(l, n, id, "alive")
<1>1. r = FALSE => Said(l, n, id, FALSE)
  <2> SUFFICES ASSUME r = FALSE PROVE Said(l, n, id, FALSE)
    OBVIOUS
  <2>1. r # None
    BY NoneAssumption
  <2>2. PICK k \in 1..n : l[k].target = id /\ l[k].field = "alive" /\ r = l[k].value
    BY <2>1, RegIs
  <2> HIDE DEF r
  <2>3. l[k].value = FALSE
    BY <2>2
  <2> QED BY <2>2, <2>3 DEF Said
<1>2. r = None \/ r \in BOOLEAN
  BY RegIs
<1>3. ~was => Said(l, n, id, FALSE)
  BY SaidMore
<1>4. r = FALSE => e \in S
  <2>1. r = Reg(l, a, id, "alive") \/ \E k \in a + 1..n : l[k].target = id
    BY RegLater
  <2> QED BY <2>1
<1>5. Says(l, n, id, was) = IF r = None THEN was ELSE r
  BY DEF Says
<1> HIDE DEF r
<1>6. ~now => Said(l, n, id, FALSE)
  BY <1>1, <1>2, <1>3, <1>5
<1>7. r = FALSE => e \in S /\ ~now
  BY <1>4, <1>5, NoneAssumption
<1> QED BY <1>6, <1>7 DEF r, Kept

LEMMA QuietReg ==
  ASSUME NEW l, NEW n \in Nat, NEW id, Quiet(l, n, id)
  PROVE  Reg(l, n, id, "alive") = None
BY RegIs DEF Quiet

LEMMA NodesAgreeAfter ==
  ASSUME NEW c, NEW w, NEW l, NEW m, NEW v, NEW f, NEW g, NEW y, NEW t, Framed(c, w, l, m, v, f, g, y, t),
         NEW s \in Seq(Ops), NodesAgree(w, l, s)
  PROVE  NodesAgree(y, l, s \o t)
<1> DEFINE a == w.applied
           n == v.applied
<1>1. /\ Kinds(c, w, v, f, g) /\ Shipped(l, m, w, v, f, g, t) /\ Projected(l, a, v, y)
      /\ ResultEntities(w, v, f) /\ OwnFits(c, w, l) /\ l \in Seq(Ops) /\ m \in 0..Len(l)
      /\ a \in Nat /\ n \in Nat /\ a <= n /\ n <= Len(l) /\ t \in Seq(Ops)
  BY DEF Framed, Result, Sane, World, Shipped
<1>2. /\ DOMAIN y.presence = DOMAIN v.presence /\ DOMAIN v.presence = DOMAIN w.presence \ DeadNodes(w)
      /\ y.node_of_entity = v.node_of_entity /\ y.applied = n
      /\ ShownNodes(l, a, v) \subseteq y.changed
      /\ v.changed = w.changed \ Lost(w)
  BY <1>1 DEF Projected, ResultEntities
<1>3. /\ y \in World /\ w \in World /\ Apart(w)
      /\ DOMAIN y.node_of_entity \subseteq DOMAIN w.node_of_entity \cup NodesBorn(w)
      /\ \A e \in DOMAIN y.node_of_entity : y.node_of_entity[e] = f[e]
  BY FrameIs
<1>4. \A k \in 1..n : l[k].field = "alive" => l[k].value \in BOOLEAN
  BY <1>1 DEF OwnFits
<1> SUFFICES ASSUME NEW e \in DOMAIN y.presence, e \in DOMAIN y.node_of_entity
             PROVE  Agrees(y, l, s \o t, e, y.node_of_entity[e], y.presence[e])
  BY DEF NodesAgree
<1> DEFINE id == f[e]
           was == v.presence[e]
           now == y.presence[e]
           S == ShownNodes(l, a, v)
<1>5. e \in DOMAIN w.presence /\ e \notin DeadNodes(w) /\ y.node_of_entity[e] = id
      /\ was \in BOOLEAN /\ (was <=> w.presence[e] \/ e \in NodesBorn(w))
      /\ now = IF e \in S THEN Says(l, n, id, was) ELSE was
  <2>1. e \in DOMAIN v.presence /\ e \in DOMAIN v.node_of_entity /\ v.node_of_entity[e] = id /\ v \in World
    BY <1>2, <1>3 DEF Framed, Result
  <2>2. now = IF e \in S THEN Says(l, n, id, was) ELSE was
    BY <1>1, <2>1 DEF Projected
  <2>3. was \in BOOLEAN /\ (was <=> w.presence[e] \/ e \in NodesBorn(w))
    BY <1>1, <2>1, WorldIs DEF ResultEntities
  <2> QED BY <1>2, <1>3, <2>1, <2>2, <2>3
<1>6. e \in DOMAIN w.node_of_entity => Agrees(w, l, s, e, id, w.presence[e])
  <2>1. e \in DOMAIN w.node_of_entity => w.node_of_entity[e] = id
    BY <1>1 DEF Kinds
  <2> QED BY <1>5, <2>1 DEF NodesAgree
<1>7. e \in NodesBorn(w) => Quiet(l, n, id) /\ Quiet(l, a, id) /\ Quiet(l, m, id)
  <2>1. n \in 0..Len(l) /\ a \in 0..Len(l)
    BY <1>1
  <2> QED BY <1>1, <2>1, BornQuiet
<1>8. e \in DOMAIN w.node_of_entity \/ e \in NodesBorn(w)
  BY <1>3
<1> HIDE DEF id, was, now
<1>9. \A k \in a + 1..n : l[k].target = id => e \in S
  <2> SUFFICES ASSUME NEW k \in a + 1..n, l[k].target = id PROVE e \in S
    OBVIOUS
  <2>1. k \in 1..n /\ k \in 1..Len(l)
    BY <1>1
  <2>2. e \in DOMAIN w.node_of_entity
    BY <1>7, <1>8, <2>1 DEF Quiet
  <2>3. id \in DOMAIN w.entity_of_node /\ id[1] = c
    BY <1>1, <2>2 DEF Kinds, id
  <2>4. Fit(l[k], w)
    BY <1>1, <2>1, <2>3 DEF OwnFits
  <2>5. l[k].node = TRUE
    BY <2>3, <2>4 DEF Fit, Ops
  <2>6. Arrives(l, a, n, TRUE)
    BY <2>5 DEF Arrives
  <2> QED BY <1>2, <2>6 DEF ShownNodes
<1>10. ~was => Said(l, a, id, FALSE)
  BY <1>5, <1>6, <1>8 DEF Agrees
<1>11. Reg(l, a, id, "alive") # FALSE
  <2>1. CASE e \in NodesBorn(w)
    BY <1>1, <1>7, <2>1, QuietReg, NoneAssumption
  <2>2. CASE e \in DOMAIN w.node_of_entity
    BY <1>5, <1>6, <2>2 DEF Agrees, DeadNodes
  <2> QED BY <1>8, <2>1, <2>2
<1> HIDE DEF S, a, n
<1>12. Kept(l, n, id, S, e, now)
  <2>1. a \in Nat /\ n \in Nat /\ a <= n /\ was \in BOOLEAN
        /\ now = IF e \in S THEN Says(l, n, id, was) ELSE was
    BY <1>1, <1>5
  <2> QED BY <1>4, <1>9, <1>10, <1>11, <2>1, AgreeKept, Zenon
<1>13. Announced(l, s \o t, id, TRUE)
  <2>1. CASE e \in NodesBorn(w)
    <3>1. e \in v.changed /\ e \in DOMAIN v.node_of_entity
      BY <1>2, <1>3, <1>5, <2>1 DEF NodesBorn, Apart, Lost, Cut, DeadEdges
    <3>2. Op(f[e], TRUE, "alive", TRUE) \in Range(t)
      BY <1>1, <1>7, <2>1, <3>1 DEF Shipped, id
    <3> QED BY <1>1, <3>2, AnnouncedLonger DEF id
  <2>2. CASE e \in DOMAIN w.node_of_entity
    <3>1. Announced(l, s, id, TRUE)
      BY <1>6, <2>2 DEF Agrees
    <3> QED BY <1>1, <3>1, AnnouncedLonger
  <2> QED BY <1>8, <2>1, <2>2
<1>14. Agrees(y, l, s \o t, e, id, now)
  BY <1>2, <1>12, <1>13 DEF Agrees, S, Kept
<1> QED BY <1>5, <1>14 DEF now

LEMMA EdgesAgreeAfter ==
  ASSUME NEW c, NEW w, NEW l, NEW m, NEW v, NEW f, NEW g, NEW y, NEW t, Framed(c, w, l, m, v, f, g, y, t),
         NEW s \in Seq(Ops), EdgesAgree(w, l, s)
  PROVE  EdgesAgree(y, l, s \o t)
<1> DEFINE a == w.applied
           n == v.applied
<1>1. /\ Kinds(c, w, v, f, g) /\ Shipped(l, m, w, v, f, g, t) /\ Projected(l, a, v, y)
      /\ ResultEntities(w, v, f) /\ OwnFits(c, w, l) /\ l \in Seq(Ops) /\ m \in 0..Len(l)
      /\ a \in Nat /\ n \in Nat /\ a <= n /\ n <= Len(l) /\ t \in Seq(Ops)
  BY DEF Framed, Result, Sane, World, Shipped
<1>2. /\ DOMAIN y.endpoints = DOMAIN v.endpoints
      /\ DOMAIN v.endpoints = DOMAIN w.endpoints \ (Cut(w) \cup DeadEdges(w))
      /\ y.edge_of_entity = v.edge_of_entity /\ y.applied = n
      /\ ShownEdges(l, a, v) \subseteq y.changed
      /\ v.changed = w.changed \ Lost(w)
  BY <1>1 DEF Projected, ResultEntities
<1>3. /\ y \in World /\ w \in World /\ Apart(w)
      /\ DOMAIN y.edge_of_entity \subseteq DOMAIN w.edge_of_entity \cup EdgesBorn(w)
      /\ \A e \in DOMAIN y.edge_of_entity : y.edge_of_entity[e] = g[e]
  BY FrameIs
<1>4. \A k \in 1..n : l[k].field = "alive" => l[k].value \in BOOLEAN
  BY <1>1 DEF OwnFits
<1> SUFFICES ASSUME NEW e \in DOMAIN y.endpoints, e \in DOMAIN y.edge_of_entity
             PROVE  Agrees(y, l, s \o t, e, y.edge_of_entity[e], y.endpoints[e].alive)
  BY DEF EdgesAgree
<1> DEFINE id == g[e]
           was == v.endpoints[e].alive
           now == y.endpoints[e].alive
           S == ShownEdges(l, a, v)
<1>5. e \in DOMAIN w.endpoints /\ e \notin DeadEdges(w) /\ e \notin Cut(w) /\ y.edge_of_entity[e] = id
      /\ was \in BOOLEAN /\ (e \in EdgesBorn(w) => was) /\ (e \notin EdgesBorn(w) => was = w.endpoints[e].alive)
      /\ now = IF e \in S THEN Says(l, n, id, was) ELSE was
  <2>1. e \in DOMAIN v.endpoints /\ e \in DOMAIN v.edge_of_entity /\ v.edge_of_entity[e] = id /\ v \in World
    BY <1>2, <1>3 DEF Framed, Result
  <2>2. now = IF e \in S THEN Says(l, n, id, was) ELSE was
    BY <1>1, <2>1 DEF Projected
  <2>3. (e \in EdgesBorn(w) => was) /\ (e \notin EdgesBorn(w) => was = w.endpoints[e].alive)
    BY <1>1, <2>1 DEF ResultEntities
  <2>4. was \in BOOLEAN
    BY <2>1, WorldIs DEF Endpoints
  <2> QED BY <1>2, <1>3, <2>1, <2>2, <2>3, <2>4
<1>6. e \in DOMAIN w.edge_of_entity => Agrees(w, l, s, e, id, w.endpoints[e].alive)
  <2>1. e \in DOMAIN w.edge_of_entity => w.edge_of_entity[e] = id
    BY <1>1 DEF Kinds
  <2> QED BY <1>5, <2>1 DEF EdgesAgree
<1>7. e \in EdgesBorn(w) => Quiet(l, n, id) /\ Quiet(l, a, id) /\ Quiet(l, m, id)
  <2>1. n \in 0..Len(l) /\ a \in 0..Len(l)
    BY <1>1
  <2> QED BY <1>1, <2>1, BornQuiet
<1>8. (e \in DOMAIN w.edge_of_entity /\ e \notin EdgesBorn(w)) \/ e \in EdgesBorn(w)
  BY <1>3
<1> HIDE DEF id, was, now
<1>9. \A k \in a + 1..n : l[k].target = id => e \in S
  <2> SUFFICES ASSUME NEW k \in a + 1..n, l[k].target = id PROVE e \in S
    OBVIOUS
  <2>1. k \in 1..n /\ k \in 1..Len(l)
    BY <1>1
  <2>2. e \in DOMAIN w.edge_of_entity
    BY <1>7, <1>8, <2>1 DEF Quiet
  <2>3. id \in DOMAIN w.entity_of_edge /\ id[1] = c
    BY <1>1, <2>2 DEF Kinds, id
  <2>4. Fit(l[k], w)
    BY <1>1, <2>1, <2>3 DEF OwnFits
  <2>5. l[k].node = FALSE
    BY <2>3, <2>4 DEF Fit, Ops
  <2>6. Arrives(l, a, n, FALSE)
    BY <2>5 DEF Arrives
  <2> QED BY <1>2, <2>6 DEF ShownEdges
<1>10. ~was => Said(l, a, id, FALSE)
  BY <1>5, <1>6, <1>8 DEF Agrees
<1>11. Reg(l, a, id, "alive") # FALSE
  <2>1. CASE e \in EdgesBorn(w)
    BY <1>1, <1>7, <2>1, QuietReg, NoneAssumption
  <2>2. CASE e \in DOMAIN w.edge_of_entity
    BY <1>5, <1>6, <2>2 DEF Agrees, DeadEdges
  <2> QED BY <1>8, <2>1, <2>2
<1> HIDE DEF S, a, n
<1>12. Kept(l, n, id, S, e, now)
  <2>1. a \in Nat /\ n \in Nat /\ a <= n /\ was \in BOOLEAN
        /\ now = IF e \in S THEN Says(l, n, id, was) ELSE was
    BY <1>1, <1>5
  <2> QED BY <1>4, <1>9, <1>10, <1>11, <2>1, AgreeKept, Zenon
<1>13. Announced(l, s \o t, id, TRUE)
  <2>1. CASE e \in EdgesBorn(w)
    <3>1. e \in v.changed /\ e \in DOMAIN v.edge_of_entity
      BY <1>2, <1>3, <1>5, <2>1 DEF EdgesBorn, Apart, Lost, DeadNodes
    <3>2. Op(g[e], FALSE, "alive", TRUE) \in Range(t)
      BY <1>1, <1>7, <2>1, <3>1 DEF Shipped, id
    <3> QED BY <1>1, <3>2, AnnouncedLonger DEF id
  <2>2. CASE e \in DOMAIN w.edge_of_entity
    <3>1. Announced(l, s, id, TRUE)
      BY <1>6, <2>2 DEF Agrees
    <3> QED BY <1>1, <3>1, AnnouncedLonger
  <2> QED BY <1>8, <2>1, <2>2
<1>14. Agrees(y, l, s \o t, e, id, now)
  BY <1>2, <1>12, <1>13 DEF Agrees, S, Kept
<1> QED BY <1>5, <1>14 DEF now

\* Who is bound after a frame.
LEMMA BoundAfter ==
  ASSUME NEW c, NEW w, NEW l, NEW m, NEW v, NEW f, NEW g, NEW y, NEW t, Framed(c, w, l, m, v, f, g, y, t)
  PROVE  /\ \A e \in DOMAIN y.node_of_entity : IsBound(y, f[e])
         /\ \A e \in DOMAIN y.edge_of_entity : IsBound(y, g[e])
         /\ \A id : IsBound(y, id) => IsBound(w, id) \/ w.next <= id[2]
         /\ \A e \in LostNodes(w) : ~IsBound(y, f[e])
         /\ \A e \in LostEdges(w) : ~IsBound(y, g[e])
<1>1. /\ y \in World /\ w \in World /\ Apart(w)
      /\ DOMAIN y.presence = DOMAIN w.presence \ DeadNodes(w)
      /\ DOMAIN y.endpoints = DOMAIN w.endpoints \ (Cut(w) \cup DeadEdges(w))
      /\ DOMAIN y.node_of_entity = DOMAIN y.presence
      /\ DOMAIN y.node_of_entity \subseteq DOMAIN w.node_of_entity \cup NodesBorn(w)
      /\ DOMAIN y.edge_of_entity = (DOMAIN w.edge_of_entity \cup EdgesBorn(w)) \cap DOMAIN y.endpoints
      /\ \A e \in DOMAIN y.node_of_entity : y.node_of_entity[e] = f[e]
      /\ \A e \in DOMAIN y.edge_of_entity : y.edge_of_entity[e] = g[e]
      /\ Mirrored(y.node_of_entity, y.entity_of_node)
      /\ Mirrored(y.edge_of_entity, y.entity_of_edge)
  BY FrameIs
<1>2. Kinds(c, w, v, f, g)
  BY DEF Framed
<1>3. PICK k : Numbers(c, w, f, g, k, v.next)
  BY DEF Framed, Result
<1>4. /\ \A id \in DOMAIN y.entity_of_node :
           y.entity_of_node[id] \in DOMAIN y.node_of_entity /\ f[y.entity_of_node[id]] = id
      /\ \A id \in DOMAIN y.entity_of_edge :
           y.entity_of_edge[id] \in DOMAIN y.edge_of_entity /\ g[y.entity_of_edge[id]] = id
  BY IdsAfter
<1>5. /\ \A e \in DOMAIN y.node_of_entity : IsBound(y, f[e])
      /\ \A e \in DOMAIN y.edge_of_entity : IsBound(y, g[e])
  BY <1>1 DEF Mirrored, IsBound
<1>6. ASSUME NEW id, IsBound(y, id) PROVE IsBound(w, id) \/ w.next <= id[2]
  <2>1. CASE id \in DOMAIN y.entity_of_node
    <3>1. PICK e \in DOMAIN y.node_of_entity : f[e] = id
      BY <1>4, <2>1
    <3>2. e \in DOMAIN w.node_of_entity \/ e \in NodesBorn(w)
      BY <1>1
    <3> QED BY <1>2, <3>1, <3>2 DEF Kinds, IsBound
  <2>2. CASE id \in DOMAIN y.entity_of_edge
    <3>1. PICK e \in DOMAIN y.edge_of_entity : g[e] = id
      BY <1>4, <2>2
    <3>2. e \in DOMAIN w.edge_of_entity \/ e \in EdgesBorn(w)
      BY <1>1
    <3> QED BY <1>2, <3>1, <3>2 DEF Kinds, IsBound
  <2> QED BY <1>6, <2>1, <2>2 DEF IsBound
<1>7. ASSUME NEW e \in LostNodes(w), IsBound(y, f[e]) PROVE FALSE
  <2>1. e \in w.removed /\ e \in DOMAIN w.node_of_entity
    BY DEF LostNodes
  <2>2. CASE f[e] \in DOMAIN y.entity_of_node
    <3>1. PICK z \in DOMAIN y.node_of_entity : f[z] = f[e]
      BY <1>4, <2>2
    <3>2. z \in DOMAIN w.node_of_entity \cup NodesBorn(w) /\ z \in DOMAIN w.presence
      BY <1>1, <3>1
    <3>3. z = e
      BY <1>3, <2>1, <3>1, <3>2 DEF Numbers, Injective
    <3> QED BY <1>1, <2>1, <3>2, <3>3 DEF Apart, Entities
  <2>3. CASE f[e] \in DOMAIN y.entity_of_edge
    <3>1. PICK z \in DOMAIN y.edge_of_entity : g[z] = f[e]
      BY <1>4, <2>3
    <3>2. z \in DOMAIN w.edge_of_entity \cup EdgesBorn(w)
      BY <1>1, <3>1
    <3> QED BY <1>2, <2>1, <3>1, <3>2 DEF Kinds
  <2> QED BY <1>7, <2>2, <2>3 DEF IsBound
<1>8. ASSUME NEW e \in LostEdges(w), IsBound(y, g[e]) PROVE FALSE
  <2>1. (e \in w.removed \/ e \in Cut(w)) /\ e \in DOMAIN w.edge_of_entity \cup EdgesBorn(w)
    BY DEF LostEdges
  <2>2. CASE g[e] \in DOMAIN y.entity_of_edge
    <3>1. PICK z \in DOMAIN y.edge_of_entity : g[z] = g[e]
      BY <1>4, <2>2
    <3>2. z \in DOMAIN w.edge_of_entity \cup EdgesBorn(w) /\ z \in DOMAIN w.endpoints /\ z \notin Cut(w)
      BY <1>1, <3>1
    <3>3. z = e
      BY <1>3, <2>1, <3>1, <3>2 DEF Numbers, Injective
    <3> QED BY <1>1, <2>1, <3>2, <3>3 DEF Apart, Entities
  <2>3. CASE g[e] \in DOMAIN y.entity_of_node
    <3>1. PICK z \in DOMAIN y.node_of_entity : f[z] = g[e]
      BY <1>4, <2>3
    <3>2. z \in DOMAIN w.node_of_entity \cup NodesBorn(w)
      BY <1>1, <3>1
    <3> QED BY <1>2, <2>1, <3>1, <3>2 DEF Kinds
  <2> QED BY <1>8, <2>2, <2>3 DEF IsBound
<1> QED BY <1>5, <1>6, <1>7, <1>8

LEMMA EndedAfter ==
  ASSUME NEW c, NEW w, NEW l, NEW m, NEW v, NEW f, NEW g, NEW y, NEW t, Framed(c, w, l, m, v, f, g, y, t),
         NEW s \in Seq(Ops), NodesAgree(w, l, s), EdgesAgree(w, l, s), Ended(c, w, l, s)
  PROVE  Ended(c, y, l, s \o t)
<1>1. /\ w \in World /\ Apart(w) /\ w.next \in Nat /\ w.applied \in Nat
      /\ DOMAIN y.presence = DOMAIN w.presence \ DeadNodes(w)
      /\ DOMAIN y.endpoints = DOMAIN w.endpoints \ (Cut(w) \cup DeadEdges(w))
      /\ DOMAIN y.node_of_entity = DOMAIN y.presence
      /\ NodesBorn(w) \subseteq DOMAIN y.node_of_entity
      /\ DOMAIN y.edge_of_entity = (DOMAIN w.edge_of_entity \cup EdgesBorn(w)) \cap DOMAIN y.endpoints
  BY FrameIs DEF World
<1>2. /\ Kinds(c, w, v, f, g) /\ Shipped(l, m, w, v, f, g, t) /\ t \in Seq(Ops)
      /\ Len(l) \in Nat /\ w.applied <= Len(l) /\ y.next = v.next
      /\ Mirrored(w.node_of_entity, w.entity_of_node) /\ Mirrored(w.edge_of_entity, w.entity_of_edge)
  <2>1. l \in Seq(Ops) /\ w.applied <= v.applied /\ v.applied <= Len(l) /\ v \in World /\ Sane(c, w)
    BY DEF Framed, Result
  <2>2. Len(l) \in Nat /\ v.applied \in Nat
    BY <2>1 DEF World
  <2>3. Projected(l, w.applied, v, y) /\ Shipped(l, m, w, v, f, g, t) /\ Kinds(c, w, v, f, g)
    BY DEF Framed
  <2>4. w.applied <= Len(l)
    BY <1>1, <2>1, <2>2
  <2>5. y.next = v.next /\ t \in Seq(Ops)
    BY <2>3 DEF Projected, Shipped
  <2> QED BY <2>1, <2>2, <2>3, <2>4, <2>5 DEF Sane
<1>3. PICK mm : Numbers(c, w, f, g, mm, v.next)
  BY DEF Framed, Result
<1>4. /\ \A e \in DOMAIN y.node_of_entity : IsBound(y, f[e])
      /\ \A e \in DOMAIN y.edge_of_entity : IsBound(y, g[e])
  BY BoundAfter
<1>5. ASSUME NEW e \in LostNodes(w) PROVE Announced(l, s \o t, f[e], FALSE)
  <2>1. Op(f[e], TRUE, "alive", FALSE) \in Range(t)
    BY <1>2 DEF Shipped
  <2> QED BY <1>2, <2>1, AnnouncedLonger
<1>6. ASSUME NEW e \in LostEdges(w) PROVE Announced(l, s \o t, g[e], FALSE)
  <2>1. Op(g[e], FALSE, "alive", FALSE) \in Range(t)
    BY <1>2 DEF Shipped
  <2> QED BY <1>2, <2>1, AnnouncedLonger
<1>7. ASSUME NEW id, Said(l, w.applied, id, FALSE) PROVE Announced(l, s \o t, id, FALSE)
  <2>1. Said(l, Len(l), id, FALSE)
    BY <1>1, <1>2, <1>7, SaidMore
  <2> QED BY <2>1 DEF Announced
<1> SUFFICES ASSUME NEW k \in 0..y.next - 1
             PROVE  IsBound(y, <<c, k>>) \/ Announced(l, s \o t, <<c, k>>, FALSE)
  BY DEF Ended
<1> DEFINE id == <<c, k>>
<1> SUFFICES IsBound(y, id) \/ Announced(l, s \o t, id, FALSE)
  OBVIOUS
<1>8. CASE k < w.next
  <2>0. k \in 0..w.next - 1
    BY <1>1, <1>8
  <2>1. IsBound(w, id) \/ Announced(l, s, id, FALSE)
    BY <2>0 DEF Ended
  <2> HIDE DEF id
  <2>2. CASE Announced(l, s, id, FALSE)
    BY <1>2, <2>2, AnnouncedLonger
  <2>3. CASE id \in DOMAIN w.entity_of_node
    <3> DEFINE e == w.entity_of_node[id]
    <3>1. e \in DOMAIN w.node_of_entity /\ w.node_of_entity[e] = id
      BY <1>2, <2>3 DEF Mirrored
    <3> HIDE DEF e
    <3>2. f[e] = id
      BY <1>2, <3>1 DEF Kinds
    <3>3. CASE e \in DOMAIN y.presence
      BY <1>1, <1>4, <3>2, <3>3
    <3>4. CASE e \in w.removed
      BY <1>5, <3>1, <3>2, <3>4 DEF LostNodes
    <3>5. CASE e \in DeadNodes(w)
      <4>1. e \in DOMAIN w.presence /\ ~w.presence[e]
        BY <3>5 DEF DeadNodes
      <4>2. Said(l, w.applied, id, FALSE)
        BY <3>1, <4>1 DEF NodesAgree, Agrees
      <4> QED BY <1>7, <4>2
    <3> QED BY <1>1, <3>1, <3>3, <3>4, <3>5 DEF Apart, id
  <2>4. CASE id \in DOMAIN w.entity_of_edge
    <3> DEFINE e == w.entity_of_edge[id]
    <3>1. e \in DOMAIN w.edge_of_entity /\ w.edge_of_entity[e] = id
      BY <1>2, <2>4 DEF Mirrored
    <3> HIDE DEF e
    <3>2. g[e] = id
      BY <1>2, <3>1 DEF Kinds
    <3>3. CASE e \in DOMAIN y.endpoints
      BY <1>1, <1>4, <3>1, <3>2, <3>3
    <3>4. CASE e \in w.removed \/ e \in Cut(w)
      BY <1>6, <3>1, <3>2, <3>4 DEF LostEdges
    <3>5. CASE e \in DeadEdges(w)
      <4>1. e \in DOMAIN w.endpoints /\ ~w.endpoints[e].alive
        BY <3>5 DEF DeadEdges
      <4>2. Said(l, w.applied, id, FALSE)
        BY <3>1, <4>1 DEF EdgesAgree, Agrees
      <4> QED BY <1>7, <4>2
    <3> QED BY <1>1, <3>1, <3>3, <3>4, <3>5 DEF Apart, id
  <2> QED BY <2>1, <2>2, <2>3, <2>4 DEF IsBound, id
<1>9. CASE w.next <= k
  <2>1. mm \in Nat /\ v.next \in Nat /\ k \in Nat /\ k < v.next
    BY <1>2, <1>3 DEF Numbers
  <2>2. id \in Fresh(c, w.next, mm) \/ id \in Fresh(c, mm, v.next)
    BY <1>1, <1>9, <2>1 DEF Fresh
  <2> HIDE DEF id
  <2>3. CASE id \in Fresh(c, w.next, mm)
    <3>1. PICK e \in NodesBorn(w) : f[e] = id
      BY <1>3, <2>3 DEF Numbers
    <3> QED BY <1>1, <1>4, <3>1 DEF id
  <2>4. CASE id \in Fresh(c, mm, v.next)
    <3>1. PICK e \in EdgesBorn(w) : g[e] = id
      BY <1>3, <2>4 DEF Numbers
    <3>2. e \in DOMAIN w.endpoints /\ e \notin DeadEdges(w)
      BY <1>1, <3>1 DEF EdgesBorn, DeadEdges, Apart
    <3>3. CASE e \in Cut(w)
      BY <1>6, <3>1, <3>3 DEF LostEdges, id
    <3>4. CASE e \notin Cut(w)
      BY <1>1, <1>4, <3>1, <3>2, <3>4 DEF id
    <3> QED BY <3>3, <3>4
  <2> QED BY <2>2, <2>3, <2>4
<1>10. k \in Nat
  <2>1. y.next \in Nat
    BY <1>2 DEF Kinds
  <2> QED BY <2>1
<1>11. k < w.next \/ w.next <= k
  BY <1>1, <1>10
<1> QED BY <1>8, <1>9, <1>11, Zenon

\* No tombstone of an id that is only now given.
LEMMA NoTombstones ==
  ASSUME NEW c, NEW w, w.next \in Nat, NEW s \in Seq(Ops),
         \A k \in 1..Len(s) : s[k].target[1] = c => Fit(s[k], w),
         NEW id \in Id, id[1] = c, w.next <= id[2]
  PROVE  Cardinality(Tombstones(s, id)) = 0
<1>1. \A k \in 1..Len(s) : s[k].target # id
  <2> SUFFICES ASSUME NEW k \in 1..Len(s), s[k].target = id PROVE FALSE
    OBVIOUS
  <2>1. Fit(s[k], w)
    OBVIOUS
  <2>2. id[2] < w.next /\ id[2] \in Nat
    BY <2>1 DEF Fit, Id
  <2> QED BY <2>2
<1>2. Tombstones(s, id) = {}
  BY <1>1 DEF Tombstones
<1> QED BY <1>2, FS_EmptySet

LEMMA CountedAfter ==
  ASSUME NEW c, NEW w, NEW l, NEW m, NEW v, NEW f, NEW g, NEW y, NEW t, Framed(c, w, l, m, v, f, g, y, t),
         NEW s \in Seq(Ops), \A k \in 1..Len(s) : s[k].target[1] = c => Fit(s[k], w),
         NEW p \in Nat, Counted(c, w, l, s, p)
  PROVE  Counted(c, y, l, s \o t, p)
<1>1. /\ Kinds(c, w, v, f, g) /\ Shipped(l, m, w, v, f, g, t) /\ t \in Seq(Ops) /\ l \in Seq(Ops)
      /\ \A k \in 1..Len(l) : l[k].target[1] = c => Fit(l[k], w)
      /\ w.next \in Nat /\ c \in Client
  BY DEF Framed, Shipped, OwnFits, Kinds
<1>2. /\ \A z : IsBound(y, z) => IsBound(w, z) \/ w.next <= z[2]
      /\ \A e \in LostNodes(w) : ~IsBound(y, f[e])
      /\ \A e \in LostEdges(w) : ~IsBound(y, g[e])
  BY BoundAfter
<1> SUFFICES ASSUME NEW k \in Nat
             PROVE  Cardinality(Tombstones(l, <<c, k>>)) + Cardinality(Tombstones(s \o t, <<c, k>>))
                      <= p + IF IsBound(y, <<c, k>>) THEN 0 ELSE 1
  BY DEF Counted
<1> DEFINE id == <<c, k>>
           a == Cardinality(Tombstones(l, id))
           b == Cardinality(Tombstones(s, id))
           d == Cardinality(Tombstones(s \o t, id))
           N == \E j \in 1..Len(t) : IsTombstone(t[j], id)
<1> SUFFICES a + d <= p + IF IsBound(y, id) THEN 0 ELSE 1
  OBVIOUS
<1>3. id \in Id /\ id[1] = c /\ id[2] = k
  BY <1>1 DEF Id
<1>4. a + b <= p + IF IsBound(w, id) THEN 0 ELSE 1
  BY DEF Counted
<1> HIDE DEF id
<1>5. a \in Nat /\ b \in Nat
  BY <1>1, TombstonesFinite
<1>6. d \in Nat /\ d <= b + IF N THEN 1 ELSE 0
  <2>1. \A i, j \in 1..Len(t) : IsTombstone(t[i], id) /\ IsTombstone(t[j], id) => i = j
    BY <1>1 DEF Shipped
  <2>2. d <= b + IF N THEN 1 ELSE 0
    BY <1>1, <2>1, TombstonesConcat
  <2>3. s \o t \in Seq(Ops)
    BY <1>1
  <2>4. d \in Nat
    BY <2>3, TombstonesFinite
  <2> QED BY <2>2, <2>4
<1>7. w.next <= k => a = 0 /\ b = 0
  BY <1>1, <1>3, NoTombstones
<1>8. N => /\ ~IsBound(y, id) /\ (IsBound(w, id) \/ w.next <= k)
  <2> SUFFICES ASSUME NEW j \in 1..Len(t), IsTombstone(t[j], id)
               PROVE  ~IsBound(y, id) /\ (IsBound(w, id) \/ w.next <= k)
    OBVIOUS
  <2> DEFINE x == t[j]
  <2>1. x \in Range(t) /\ x.target = id /\ x.field = "alive" /\ x.value = FALSE
    BY <1>1, PlacesAre DEF IsTombstone
  <2> HIDE DEF x
  <2>2. CASE \E e \in LostNodes(w) : x = Op(f[e], TRUE, "alive", FALSE)
    <3>1. PICK e \in LostNodes(w) : f[e] = id
      BY <2>1, <2>2 DEF Op
    <3>2. IsBound(w, id)
      BY <1>1, <3>1 DEF LostNodes, Kinds, IsBound
    <3> QED BY <1>2, <3>1, <3>2
  <2>3. CASE \E e \in LostEdges(w) : x = Op(g[e], FALSE, "alive", FALSE)
    <3>1. PICK e \in LostEdges(w) : g[e] = id
      BY <2>1, <2>3 DEF Op
    <3>2. e \in DOMAIN w.edge_of_entity \/ e \in EdgesBorn(w)
      BY <3>1 DEF LostEdges
    <3>3. IsBound(w, id) \/ w.next <= k
      BY <1>1, <1>3, <3>1, <3>2 DEF Kinds, IsBound
    <3> QED BY <1>2, <3>1, <3>3
  <2>4. CASE \E e \in v.changed \cap DOMAIN v.node_of_entity : x = Op(f[e], TRUE, "alive", TRUE)
    BY <2>1, <2>4 DEF Op
  <2>5. CASE \E e \in v.changed \cap DOMAIN v.edge_of_entity :
               x = Op(g[e], FALSE, "alive", TRUE) \/ x = Op(g[e], FALSE, "ends", v.endpoints[e].ends)
    BY <2>1, <2>5 DEF Op
  <2>6. \/ \E e \in LostNodes(w) : x = Op(f[e], TRUE, "alive", FALSE)
        \/ \E e \in LostEdges(w) : x = Op(g[e], FALSE, "alive", FALSE)
        \/ \E e \in v.changed \cap DOMAIN v.node_of_entity : x = Op(f[e], TRUE, "alive", TRUE)
        \/ \E e \in v.changed \cap DOMAIN v.edge_of_entity :
             x = Op(g[e], FALSE, "alive", TRUE) \/ x = Op(g[e], FALSE, "ends", v.endpoints[e].ends)
    BY <1>1, <2>1, Zenon DEF Shipped
  <2> QED BY <2>2, <2>3, <2>4, <2>5, <2>6
<1>9. IsBound(y, id) => IsBound(w, id) \/ w.next <= k
  BY <1>2, <1>3
<1> HIDE DEF a, b, d, N
<1> QED BY <1>4, <1>5, <1>6, <1>7, <1>8, <1>9

LEMMA GrievedAfter ==
  ASSUME NEW c, NEW w, NEW l, NEW m, NEW v, NEW f, NEW g, NEW y, NEW t, Framed(c, w, l, m, v, f, g, y, t),
         NEW s \in Seq(Ops), NEW h, Grieved(w, s, h)
  PROVE  Grieved(y, s \o t, h)
<1>1. /\ Kinds(c, w, v, f, g) /\ Shipped(l, m, w, v, f, g, t) /\ t \in Seq(Ops) /\ y.removed = {}
  BY DEF Framed, Shipped, Projected
<1>2. ASSUME NEW x \in Range(t), x.node, ~x.value PROVE x.target \in h
  <2>2. CASE \E e \in LostNodes(w) : x = Op(f[e], TRUE, "alive", FALSE)
    <3>1. PICK e \in LostNodes(w) : x.target = f[e]
      BY <2>2 DEF Op
    <3> QED BY <1>1, <3>1 DEF Kinds, LostNodes, Grieved
  <2>3. CASE \E e \in LostEdges(w) : x = Op(g[e], FALSE, "alive", FALSE)
    BY <1>2, <2>3 DEF Op
  <2>4. CASE \E e \in v.changed \cap DOMAIN v.node_of_entity : x = Op(f[e], TRUE, "alive", TRUE)
    BY <1>2, <2>4 DEF Op
  <2>5. CASE \E e \in v.changed \cap DOMAIN v.edge_of_entity :
               x = Op(g[e], FALSE, "alive", TRUE) \/ x = Op(g[e], FALSE, "ends", v.endpoints[e].ends)
    BY <1>2, <2>5 DEF Op
  <2>6. \/ \E e \in LostNodes(w) : x = Op(f[e], TRUE, "alive", FALSE)
        \/ \E e \in LostEdges(w) : x = Op(g[e], FALSE, "alive", FALSE)
        \/ \E e \in v.changed \cap DOMAIN v.node_of_entity : x = Op(f[e], TRUE, "alive", TRUE)
        \/ \E e \in v.changed \cap DOMAIN v.edge_of_entity :
             x = Op(g[e], FALSE, "alive", TRUE) \/ x = Op(g[e], FALSE, "ends", v.endpoints[e].ends)
    BY <1>1, Zenon DEF Shipped
  <2> QED BY <2>2, <2>3, <2>4, <2>5, <2>6
<1>3. \A x \in Range(s) : x.node /\ ~x.value => x.target \in h
  BY DEF Grieved, Range
<1>4. s \o t \in Seq(Ops) /\ \A x : x \in Range(s \o t) <=> x \in Range(s) \/ x \in Range(t)
  BY <1>1, RangeOfBoth
<1> DEFINE u == s \o t
<1> HIDE DEF u
<1>5. \A k \in 1..Len(u) : u[k] \in Range(s) \/ u[k] \in Range(t)
  BY <1>4, PlacesAre DEF u
<1>6. Grieved(y, u, h)
  BY <1>1, <1>2, <1>3, <1>5 DEF Grieved
<1> QED BY <1>6 DEF u

LEMMA HangsAfter ==
  ASSUME NEW c, NEW w, NEW l, NEW m, NEW v, NEW f, NEW g, NEW y, NEW t, Framed(c, w, l, m, v, f, g, y, t),
         NEW b, Hangs(w, b)
  PROVE  Hangs(y, b)
<1>1. /\ y \in World /\ w \in World /\ Apart(w) /\ Linked(w)
      /\ DOMAIN y.presence = DOMAIN w.presence \ DeadNodes(w)
      /\ DOMAIN y.endpoints = DOMAIN w.endpoints \ (Cut(w) \cup DeadEdges(w))
      /\ \A e \in DOMAIN y.endpoints : /\ y.links[e] = w.links[e]
                                       /\ y.endpoints[e].ends = v.endpoints[e].ends
      /\ DOMAIN y.node_of_entity = DOMAIN y.presence
      /\ DOMAIN y.edge_of_entity = (DOMAIN w.edge_of_entity \cup EdgesBorn(w)) \cap DOMAIN y.endpoints
      /\ \A e \in DOMAIN y.node_of_entity : y.node_of_entity[e] = f[e]
      /\ Mirrored(y.node_of_entity, y.entity_of_node)
  BY FrameIs
<1>2. /\ Kinds(c, w, v, f, g) /\ ResultEntities(w, v, f) /\ DOMAIN v.endpoints = DOMAIN y.endpoints
      /\ Mirrored(w.node_of_entity, w.entity_of_node)
  BY DEF Framed, Projected, Result, Sane
<1>3. \A z \in DOMAIN y.presence : f[z] \in DOMAIN y.entity_of_node /\ y.entity_of_node[f[z]] = z
  BY <1>1 DEF Mirrored
<1> SUFFICES ASSUME NEW e \in DOMAIN y.endpoints, e \in DOMAIN y.edge_of_entity
             PROVE  /\ y.endpoints[e].ends \in SUBSET Id
                    /\ \A id \in y.endpoints[e].ends :
                         \/ id \in b
                         \/ id \in DOMAIN y.entity_of_node /\ y.entity_of_node[id] \in y.links[e]
  BY DEF Hangs
<1>4. \A z \in w.links[e] : z \in DOMAIN y.presence
  <2>1. e \in DOMAIN w.links /\ e \notin Cut(w)
    BY <1>1 DEF Apart
  <2>2. w.links[e] \subseteq DOMAIN w.presence /\ w.links[e] \cap DeadNodes(w) = {}
    BY <1>1, <2>1 DEF Linked, Cut
  <2> QED BY <1>1, <2>2
<1>5. y.links[e] = w.links[e] /\ y.endpoints[e].ends = v.endpoints[e].ends
  BY <1>1
<1>6. CASE e \in EdgesBorn(w)
  <2>1. v.endpoints[e].ends = {f[z] : z \in w.links[e]}
    BY <1>2, <1>6 DEF ResultEntities
  <2>2. \A z \in w.links[e] : f[z] \in Id
    <3>1. \A z \in DOMAIN y.node_of_entity : y.node_of_entity[z] \in Id
      BY <1>1, IndexIs
    <3> QED BY <1>1, <1>4, <3>1
  <2>3. \A id \in v.endpoints[e].ends : \E z \in w.links[e] : id = f[z]
    BY <2>1
  <2>4. v.endpoints[e].ends \in SUBSET Id
    BY <2>1, <2>2
  <2> QED BY <1>3, <1>4, <1>5, <2>3, <2>4
<1>7. CASE e \notin EdgesBorn(w)
  <2>1. v.endpoints[e] = w.endpoints[e] /\ e \in DOMAIN w.endpoints /\ e \in DOMAIN w.edge_of_entity
    BY <1>1, <1>2, <1>7 DEF ResultEntities
  <2>2. /\ w.endpoints[e].ends \in SUBSET Id
        /\ \A id \in w.endpoints[e].ends :
             \/ id \in b
             \/ id \in DOMAIN w.entity_of_node /\ w.entity_of_node[id] \in w.links[e]
    BY <2>1 DEF Hangs
  <2>3. ASSUME NEW id \in DOMAIN w.entity_of_node, w.entity_of_node[id] \in w.links[e]
        PROVE  id \in DOMAIN y.entity_of_node /\ y.entity_of_node[id] = w.entity_of_node[id]
    <3> DEFINE z == w.entity_of_node[id]
    <3>1. z \in DOMAIN w.node_of_entity /\ w.node_of_entity[z] = id
      BY <1>2 DEF Mirrored
    <3>2. f[z] = id
      BY <1>2, <3>1 DEF Kinds
    <3>3. z \in DOMAIN y.presence
      BY <1>4, <2>3
    <3> QED BY <1>3, <3>2, <3>3
  <2> QED BY <1>5, <2>1, <2>2, <2>3
<1> QED BY <1>6, <1>7

-----------------------------------------------------------------------------
(* The frames. *)

LEMMA OkAfter ==
  ASSUME NEW c \in Client, NEW w, NEW l, NEW m, NEW v, NEW f, NEW g, NEW y, NEW t,
         Framed(c, w, l, m, v, f, g, y, t),
         NEW s, NEW p \in Nat, NEW h, NEW b, Ok(c, w, l, s, p, h, b)
  PROVE  Ok(c, y, l, s \o t, p, h, b)
<1>1. /\ s \in Seq(Ops) /\ (\A k \in 1..Len(s) : s[k].target[1] = c /\ Fit(s[k], w))
      /\ NodesAgree(w, l, s) /\ EdgesAgree(w, l, s) /\ Ended(c, w, l, s) /\ Counted(c, w, l, s, p)
      /\ Grieved(w, s, h) /\ Hangs(w, b)
  BY DEF Ok
<1>2. t \in Seq(Ops) /\ y.applied <= Len(l)
  BY DEF Framed, Shipped, Projected
<1>3. Sane(c, y)
  BY SaneAfter
<1>4. NodesAgree(y, l, s \o t) /\ EdgesAgree(y, l, s \o t)
  BY <1>1, NodesAgreeAfter, EdgesAgreeAfter
<1>5. Ended(c, y, l, s \o t)
  BY <1>1, EndedAfter
<1>6. Counted(c, y, l, s \o t, p)
  BY <1>1, CountedAfter
<1>7. Grieved(y, s \o t, h) /\ Hangs(y, b)
  BY <1>1, GrievedAfter, HangsAfter
<1> DEFINE u == s \o t
<1>8. u \in Seq(Ops) /\ \A x : x \in Range(u) <=> x \in Range(s) \/ x \in Range(t)
  BY <1>1, <1>2, RangeOfBoth
<1> HIDE DEF u
<1>9. \A x \in Range(s) : x.target[1] = c /\ Fit(x, y)
  <2>1. \A x \in Range(s) : x.target[1] = c /\ Fit(x, w)
    BY <1>1, PlacesAre
  <2> QED BY <2>1, FitAfter
<1>10. \A x \in Range(t) : x.target[1] = c /\ Fit(x, y)
  BY NewFit DEF FitsOf
<1>11. \A k \in 1..Len(u) : u[k].target[1] = c /\ Fit(u[k], y)
  BY <1>8, <1>9, <1>10, PlacesAre
<1> QED BY <1>2, <1>3, <1>4, <1>5, <1>6, <1>7, <1>8, <1>11 DEF Ok, u

LEMMA OkOwn ==
  ASSUME NEW c \in Client, NEW l, NEW ws, LogOk(l, ws)
  PROVE  l \in Seq(Ops) /\ OwnFits(c, ws[c], l)
BY DEF LogOk, OwnFits, Meant, Fit

\* What the log says of the others stays true of them.
LEMMA LogOkAfter ==
  ASSUME NEW c \in Client, NEW w, NEW l, NEW m, NEW v, NEW f, NEW g, NEW y, NEW t,
         Framed(c, w, l, m, v, f, g, y, t),
         NEW ws, ws = [d \in Client |-> ws[d]], ws[c] = w, LogOk(l, ws)
  PROVE  LogOk(l, [ws EXCEPT ![c] = y])
<1> DEFINE zs == [ws EXCEPT ![c] = y]
<1>1. zs[c] = y /\ \A d \in Client \ {c} : zs[d] = ws[d]
  OBVIOUS
<1> HIDE DEF zs
<1>2. l \in Seq(Ops) /\ \A k \in 1..Len(l) : Meant(l[k], ws)
  BY DEF LogOk
<1>3. ASSUME NEW k \in 1..Len(l) PROVE Meant(l[k], zs)
  <2> DEFINE op == l[k]
  <2>1. Fit(op, ws[op.target[1]])
    BY <1>2 DEF Meant
  <2>2. op \in Ops
    BY <1>2
  <2> HIDE DEF op
  <2>3. op.target[1] \in Client
    BY <2>2 DEF Ops, Id
  <2>4. CASE op.target[1] = c
    <3>1. Fit(op, y)
      BY <2>1, <2>4, FitAfter
    <3> QED BY <1>1, <2>4, <3>1 DEF Meant, op
  <2>5. CASE op.target[1] # c
    BY <1>1, <2>1, <2>3, <2>5 DEF Meant, op
  <2> QED BY <2>4, <2>5
<1> QED BY <1>2, <1>3 DEF LogOk, zs

LEMMA UpdateKeeps ==
  ASSUME IInv, NEW c \in Client, NEW n \in world[c].applied..Len(log), NEW m \in 0..Len(log),
         Update(c, world[c], m, n), UNCHANGED <<log, peerOps, gone, bare>>,
         joined \subseteq joined', joined' \subseteq Client, c \in joined'
  PROVE  IInv'
<1>1. /\ Ok(c, world[c], log, wire[c], peerOps, gone[c], bare) /\ LogOk(log, world) /\ peerOps \in Nat
      /\ world = [d \in Client |-> world[d]] /\ wire = [d \in Client |-> wire[d]]
      /\ gone = [d \in Client |-> gone[d]]
  BY DEF IInv
<1>2. Sane(c, world[c]) /\ wire[c] \in Seq(Ops)
  BY <1>1 DEF Ok
<1>3. log \in Seq(Ops) /\ OwnFits(c, world[c], log)
  BY <1>1, OkOwn
<1>3a. Leads(c, world[c], m, n)
  BY <1>2, <1>3, UpdateIs
<1>4. PICK v, f, g, y, t :
           /\ Framed(c, world[c], log, m, v, f, g, y, t) /\ v.applied = n
           /\ world' = [world EXCEPT ![c] = y] /\ wire' = [wire EXCEPT ![c] = wire[c] \o t]
  BY <1>3a DEF Leads
<1>5. Ok(c, y, log, wire[c] \o t, peerOps, gone[c], bare)
  BY <1>1, <1>4, OkAfter
<1>6. LogOk(log', world')
  BY <1>1, <1>4, LogOkAfter
<1>7. /\ world' = [d \in Client |-> world'[d]] /\ wire' = [d \in Client |-> wire'[d]]
      /\ world'[c] = y /\ wire'[c] = wire[c] \o t
      /\ \A d \in Client \ {c} : world'[d] = world[d] /\ wire'[d] = wire[d]
  BY <1>1, <1>4
<1>8. ASSUME NEW d \in Client
      PROVE  /\ Ok(d, world'[d], log', wire'[d], peerOps', gone'[d], bare')
             /\ d \notin joined' => world'[d] = Empty /\ wire'[d] = << >>
  <2>1. CASE d = c
    <3>1. Ok(c, world'[c], log', wire'[c], peerOps', gone'[c], bare')
      BY <1>5, <1>7
    <3> QED BY <2>1, <3>1
  <2>2. CASE d # c
    <3>1. Ok(d, world[d], log, wire[d], peerOps, gone[d], bare)
          /\ (d \notin joined => world[d] = Empty /\ wire[d] = << >>)
      BY DEF IInv
    <3>2. world'[d] = world[d] /\ wire'[d] = wire[d]
      BY <1>7, <2>2
    <3> QED BY <3>1, <3>2
  <2> QED BY <2>1, <2>2
<1> QED BY <1>1, <1>6, <1>7, <1>8 DEF IInv

LEMMA FrameKeeps ==
  ASSUME IInv, NEW c \in Client, Frame(c)
  PROVE  IInv'
<1>1. PICK n \in world[c].applied..Len(log) : Update(c, world[c], world[c].applied, n)
  BY DEF Frame
<1>2. world[c].applied \in 0..Len(log)
  <2>1. Ok(c, world[c], log, wire[c], peerOps, gone[c], bare) /\ LogOk(log, world)
    BY DEF IInv
  <2>2. world[c].applied \in Nat /\ world[c].applied <= Len(log) /\ Len(log) \in Nat
    BY <2>1 DEF Ok, LogOk, Sane, World
  <2> QED BY <2>2
<1>3. UNCHANGED <<log, peerOps, gone, bare>> /\ joined' = joined /\ c \in joined /\ joined \subseteq Client
  BY DEF Frame, IInv
<1> QED BY <1>1, <1>2, <1>3, UpdateKeeps

LEMMA JoinKeeps ==
  ASSUME IInv, NEW c \in Client, Join(c)
  PROVE  IInv'
<1>1. Update(c, Empty, Len(log), Len(log)) /\ c \notin joined
  BY DEF Join
<1>2. world[c] = Empty /\ Len(log) \in Nat
  BY <1>1 DEF IInv, LogOk
<1>3. Len(log) \in world[c].applied..Len(log) /\ Len(log) \in 0..Len(log)
  BY <1>2 DEF Empty
<1>4. Update(c, world[c], Len(log), Len(log))
  BY <1>1, <1>2
<1>5. UNCHANGED <<log, peerOps, gone, bare>> /\ joined' = joined \cup {c} /\ joined \subseteq Client
  BY DEF Join, IInv
<1>6. joined \subseteq joined' /\ joined' \subseteq Client /\ c \in joined'
  BY <1>5
<1> QED BY <1>3, <1>4, <1>5, <1>6, UpdateKeeps

-----------------------------------------------------------------------------
(* What users do between frames. *)

SameIndex(w, y) ==
    /\ y.node_of_entity = w.node_of_entity /\ y.entity_of_node = w.entity_of_node
    /\ y.edge_of_entity = w.edge_of_entity /\ y.entity_of_edge = w.entity_of_edge
    /\ y.queue = w.queue /\ y.applied = w.applied /\ y.next = w.next

\* y is w with one more entity, a node or an edge of two nodes.
Spawned(w, e, y) ==
    /\ y \in World /\ e \in Nat /\ e \notin Named(w) /\ SameIndex(w, y)
    /\ y.pending = w.pending /\ y.removed = w.removed
    /\ y.added = w.added \cup {e} /\ y.changed = w.changed \cup {e}
    /\ \A x \in DOMAIN w.presence : x \in DOMAIN y.presence /\ y.presence[x] = w.presence[x]
    /\ \A x \in DOMAIN w.endpoints : x \in DOMAIN y.endpoints /\ y.endpoints[x] = w.endpoints[x]
    /\ \A x \in DOMAIN w.links : y.links[x] = w.links[x]
    /\ DOMAIN y.links = DOMAIN y.endpoints
    /\ \/ /\ DOMAIN y.presence = DOMAIN w.presence \cup {e}
          /\ DOMAIN y.endpoints = DOMAIN w.endpoints
       \/ /\ DOMAIN y.presence = DOMAIN w.presence
          /\ DOMAIN y.endpoints = DOMAIN w.endpoints \cup {e}
          /\ IsFiniteSet(y.links[e]) /\ Cardinality(y.links[e]) <= 2
          /\ y.links[e] \subseteq DOMAIN w.presence

LEMMA SpawnNodeIs ==
  ASSUME NEW c, NEW w, Sane(c, w)
  PROVE  Spawned(w, Unused(w), Spawn(w, Unused(w), TRUE))
<1> DEFINE e == Unused(w)
           p == Put(w.presence, e, FALSE)
           y == Spawn(w, e, TRUE)
<1>1. w \in World /\ Apart(w) /\ IsFiniteSet(Named(w))
  BY DEF Sane
<1>2. e \in Nat /\ e \notin Named(w)
  BY <1>1, UnusedIs
<1> HIDE DEF e
<1>3. w.presence \in MapsOf(Nat, BOOLEAN)
  BY <1>1 DEF World
<1>4. /\ p \in MapsOf(Nat, BOOLEAN) /\ DOMAIN p = DOMAIN w.presence \cup {e}
      /\ \A x \in DOMAIN w.presence \ {e} : p[x] = w.presence[x]
  <2>1. p \in MapsOf(Nat, BOOLEAN)
    BY <1>2, <1>3, PutMap
  <2>2. DOMAIN p = DOMAIN w.presence \cup {e} /\ \A x \in DOMAIN w.presence \ {e} : p[x] = w.presence[x]
    BY DEF Put
  <2> QED BY <2>1, <2>2
<1>5. y = [w EXCEPT !.presence = p, !.added = w.added \cup {e}, !.changed = w.changed \cup {e}]
  BY DEF Spawn
<1> HIDE DEF y, p
<1>6. /\ y \in World /\ y.presence = p /\ SameIndex(w, y) /\ y.pending = w.pending /\ y.removed = w.removed
      /\ y.added = w.added \cup {e} /\ y.changed = w.changed \cup {e}
      /\ y.endpoints = w.endpoints /\ y.links = w.links
  BY <1>1, <1>2, <1>4, <1>5 DEF World, SameIndex
<1>7. e \notin DOMAIN w.presence
  BY <1>2 DEF Named, Entities
<1>8. Spawned(w, e, y)
  BY <1>1, <1>2, <1>4, <1>6, <1>7 DEF Spawned, Apart
<1> QED BY <1>8 DEF y, e

LEMMA SpawnEdgeIs ==
  ASSUME NEW c, NEW w, Sane(c, w), NEW i \in DOMAIN w.presence, NEW j \in DOMAIN w.presence, NEW e, e = Unused(w)
  PROVE  Spawned(w, e, [Spawn(w, e, FALSE) EXCEPT !.links[e] = {i, j}])
<1> DEFINE p == Put(w.endpoints, e, NoEndpoints)
           q == Put(w.links, e, {})
           r == [q EXCEPT ![e] = {i, j}]
           s == Spawn(w, e, FALSE)
           y == [s EXCEPT !.links[e] = {i, j}]
<1>1. w \in World /\ Apart(w) /\ IsFiniteSet(Named(w))
  BY DEF Sane
<1>2. e \in Nat /\ e \notin Named(w)
  BY <1>1, UnusedIs
<1>3. /\ w.endpoints \in MapsOf(Nat, Endpoints) /\ w.links \in MapsOf(Nat, SUBSET Nat)
      /\ NoEndpoints \in Endpoints /\ DOMAIN w.presence \subseteq Nat
  BY <1>1, WorldIs DEF World, NoEndpoints, Endpoints
<1>4. /\ p \in MapsOf(Nat, Endpoints) /\ DOMAIN p = DOMAIN w.endpoints \cup {e}
      /\ \A x \in DOMAIN w.endpoints \ {e} : p[x] = w.endpoints[x]
  <2>1. p \in MapsOf(Nat, Endpoints)
    BY <1>2, <1>3, PutMap
  <2>2. DOMAIN p = DOMAIN w.endpoints \cup {e} /\ \A x \in DOMAIN w.endpoints \ {e} : p[x] = w.endpoints[x]
    BY DEF Put
  <2> QED BY <2>1, <2>2
<1>5. /\ q \in MapsOf(Nat, SUBSET Nat) /\ DOMAIN q = DOMAIN w.links \cup {e}
      /\ \A x \in DOMAIN w.links \ {e} : q[x] = w.links[x]
  <2>1. {} \in SUBSET Nat
    OBVIOUS
  <2>2. q \in MapsOf(Nat, SUBSET Nat)
    BY <1>2, <1>3, <2>1, PutMap
  <2>3. DOMAIN q = DOMAIN w.links \cup {e} /\ \A x \in DOMAIN w.links \ {e} : q[x] = w.links[x]
    BY DEF Put
  <2> QED BY <2>2, <2>3
<1>6. s = [w EXCEPT !.endpoints = p, !.links = q, !.added = w.added \cup {e}, !.changed = w.changed \cup {e}]
  BY DEF Spawn
<1> HIDE DEF p, q, s
<1>7. /\ r = [x \in DOMAIN r |-> r[x]] /\ DOMAIN r = DOMAIN q /\ r[e] = {i, j}
      /\ \A x \in DOMAIN q \ {e} : r[x] = q[x]
  <2>1. q = [x \in DOMAIN q |-> q[x]]
    BY <1>5, MapIs
  <2> QED BY <1>5, <2>1
<1>8. y = [s EXCEPT !.links = r]
  <2>1. s.links = q
    BY <1>1, <1>6 DEF World
  <2> QED BY <2>1
<1> HIDE DEF y, r
<1>9. r \in MapsOf(Nat, SUBSET Nat)
  <2>1. DOMAIN q \in SUBSET Nat /\ \A x \in DOMAIN q : q[x] \in SUBSET Nat
    BY <1>5, MapIs
  <2>2. DOMAIN r \in SUBSET Nat /\ \A x \in DOMAIN r : r[x] \in SUBSET Nat
    BY <1>3, <1>7, <2>1
  <2> QED BY <1>7, <2>2, MapOf
<1>10. y = [w EXCEPT !.endpoints = p, !.links = r, !.added = w.added \cup {e}, !.changed = w.changed \cup {e}]
  BY <1>1, <1>6, <1>8 DEF World
<1>11. /\ y \in World /\ SameIndex(w, y) /\ y.pending = w.pending /\ y.removed = w.removed
       /\ y.added = w.added \cup {e} /\ y.changed = w.changed \cup {e}
       /\ y.endpoints = p /\ y.links = r /\ y.presence = w.presence
  BY <1>1, <1>2, <1>4, <1>9, <1>10 DEF World, SameIndex
<1>12. e \notin DOMAIN w.endpoints /\ DOMAIN w.links = DOMAIN w.endpoints
  BY <1>1, <1>2 DEF Named, Entities, Apart
<1>13. IsFiniteSet({i, j}) /\ Cardinality({i, j}) <= 2
  <2>1. IsFiniteSet({i}) /\ Cardinality({i}) = 1
    BY FS_Singleton
  <2>2. IsFiniteSet({i} \cup {j})
        /\ Cardinality({i} \cup {j}) = IF j \in {i} THEN Cardinality({i}) ELSE Cardinality({i}) + 1
    BY <2>1, FS_AddElement
  <2>3. {i} \cup {j} = {i, j}
    OBVIOUS
  <2> QED BY <2>1, <2>2, <2>3
<1>14. /\ \A x \in DOMAIN w.endpoints : x \in DOMAIN y.endpoints /\ y.endpoints[x] = w.endpoints[x]
       /\ \A x \in DOMAIN w.links : y.links[x] = w.links[x]
       /\ DOMAIN y.links = DOMAIN y.endpoints /\ DOMAIN y.endpoints = DOMAIN w.endpoints \cup {e}
  BY <1>4, <1>5, <1>7, <1>11, <1>12
<1>15. y.links[e] = {i, j} /\ {i, j} \subseteq DOMAIN w.presence /\ y.presence = w.presence
  BY <1>7, <1>11
<1>16. /\ DOMAIN y.presence = DOMAIN w.presence /\ DOMAIN y.endpoints = DOMAIN w.endpoints \cup {e}
       /\ IsFiniteSet(y.links[e]) /\ Cardinality(y.links[e]) <= 2
       /\ y.links[e] \subseteq DOMAIN w.presence
       /\ \A x \in DOMAIN w.presence : x \in DOMAIN y.presence /\ y.presence[x] = w.presence[x]
  <2>1. IsFiniteSet(y.links[e]) /\ Cardinality(y.links[e]) <= 2
    BY <1>13, <1>15
  <2>2. y.links[e] \subseteq DOMAIN w.presence
    BY <1>15
  <2> QED BY <1>14, <1>15, <2>1, <2>2
<1>17. Spawned(w, e, y)
  BY <1>2, <1>11, <1>14, <1>16 DEF Spawned
<1> QED BY <1>17 DEF y, s

\* What is said of a client still fits it.
FitKept(w, y) == \A op : Fit(op, w) => Fit(op, y)

LEMMA SpawnKeeps ==
  ASSUME NEW c, NEW w, NEW e, NEW y, Spawned(w, e, y),
         NEW l, NEW s, NEW p, NEW h, NEW b, Ok(c, w, l, s, p, h, b)
  PROVE  Ok(c, y, l, s, p, h, b) /\ FitKept(w, y)
<1>1. /\ Sane(c, w) /\ w.applied <= Len(l)
      /\ s \in Seq(Ops) /\ \A k \in 1..Len(s) : s[k].target[1] = c /\ Fit(s[k], w)
  BY DEF Ok
<1>2. NodesAgree(w, l, s) /\ EdgesAgree(w, l, s) /\ Ended(c, w, l, s) /\ Counted(c, w, l, s, p)
      /\ Grieved(w, s, h) /\ Hangs(w, b)
  BY DEF Ok
<1>3. /\ w \in World /\ Apart(w) /\ Linked(w) /\ Known(w) /\ Own(c, w) /\ IsFiniteSet(Named(w))
      /\ Mirrored(w.node_of_entity, w.entity_of_node) /\ Mirrored(w.edge_of_entity, w.entity_of_edge)
  BY <1>1 DEF Sane
<1>4. /\ e \notin DOMAIN w.presence /\ e \notin DOMAIN w.endpoints /\ e \notin DOMAIN w.links
      /\ e \notin DOMAIN w.node_of_entity /\ e \notin DOMAIN w.edge_of_entity /\ e \notin w.removed
  BY <1>3 DEF Spawned, Named, Entities, Apart
<1>5. SameIndex(w, y) /\ y \in World
  BY DEF Spawned
<1>6. IsFiniteSet(Named(y))
  <2>1. Named(y) \subseteq Named(w) \cup {e}
    BY DEF Spawned, SameIndex, Named, Entities
  <2>2. IsFiniteSet(Named(w) \cup {e})
    BY <1>3, FS_AddElement
  <2> QED BY <2>1, <2>2, FS_Subset
<1>7. Apart(y)
  BY <1>3, <1>4 DEF Spawned, SameIndex, Apart, Entities
<1>8. Linked(y)
  <2> SUFFICES ASSUME NEW x \in DOMAIN y.links
               PROVE  /\ IsFiniteSet(y.links[x]) /\ Cardinality(y.links[x]) <= 2
                      /\ y.links[x] \subseteq DOMAIN y.presence
    BY DEF Linked
  <2>1. DOMAIN w.presence \subseteq DOMAIN y.presence
    BY DEF Spawned
  <2>2. CASE x \in DOMAIN w.links
    <3>1. y.links[x] = w.links[x]
      BY <2>2 DEF Spawned
    <3>2. IsFiniteSet(w.links[x]) /\ Cardinality(w.links[x]) <= 2 /\ w.links[x] \subseteq DOMAIN w.presence
      BY <1>3, <2>2 DEF Linked
    <3> QED BY <2>1, <3>1, <3>2
  <2>3. CASE x \notin DOMAIN w.links
    <3>1. x = e /\ IsFiniteSet(y.links[e]) /\ Cardinality(y.links[e]) <= 2
          /\ y.links[e] \subseteq DOMAIN w.presence
      BY <1>3, <2>3 DEF Spawned, Apart
    <3> QED BY <2>1, <3>1
  <2> QED BY <2>2, <2>3
<1>9. Known(y)
  <2>1. ASSUME NEW x \in DOMAIN y.presence PROVE x \in DOMAIN y.node_of_entity \/ x \in y.added
    <3>1. x \in DOMAIN w.presence \/ x = e
      BY DEF Spawned
    <3>2. y.added = w.added \cup {e} /\ y.node_of_entity = w.node_of_entity
      BY DEF Spawned, SameIndex
    <3> QED BY <1>3, <3>1, <3>2 DEF Known
  <2>2. ASSUME NEW x \in DOMAIN y.endpoints
        PROVE  x \in DOMAIN y.edge_of_entity \/ x \in y.added \/ Cardinality(y.links[x]) < 2
    <3>1. x \in DOMAIN w.endpoints \/ x = e
      BY DEF Spawned
    <3>2. y.added = w.added \cup {e} /\ y.edge_of_entity = w.edge_of_entity
      BY DEF Spawned, SameIndex
    <3>3. x \in DOMAIN w.endpoints => y.links[x] = w.links[x]
      BY <1>3 DEF Spawned, Apart
    <3> QED BY <1>3, <3>1, <3>2, <3>3 DEF Known
  <2> QED BY <2>1, <2>2 DEF Known
<1>10. Own(c, y)
  BY <1>3 DEF Spawned, SameIndex, Own
<1>11. Sane(c, y)
  BY <1>3, <1>5, <1>6, <1>7, <1>8, <1>9, <1>10 DEF Sane, SameIndex
<1>12. NodesAgree(y, l, s)
  <2> SUFFICES ASSUME NEW x \in DOMAIN y.presence, x \in DOMAIN y.node_of_entity
               PROVE  Agrees(y, l, s, x, y.node_of_entity[x], y.presence[x])
    BY DEF NodesAgree
  <2>1. x \in DOMAIN w.presence /\ x \in DOMAIN w.node_of_entity
    BY <1>4, <1>5 DEF Spawned, SameIndex
  <2>2. Agrees(w, l, s, x, w.node_of_entity[x], w.presence[x])
    BY <1>2, <2>1 DEF NodesAgree
  <2>3. /\ y.node_of_entity = w.node_of_entity /\ y.presence[x] = w.presence[x]
        /\ y.applied = w.applied /\ y.changed = w.changed \cup {e}
    BY <2>1 DEF Spawned, SameIndex
  <2> QED BY <2>2, <2>3 DEF Agrees
<1>13. EdgesAgree(y, l, s)
  <2> SUFFICES ASSUME NEW x \in DOMAIN y.endpoints, x \in DOMAIN y.edge_of_entity
               PROVE  Agrees(y, l, s, x, y.edge_of_entity[x], y.endpoints[x].alive)
    BY DEF EdgesAgree
  <2>1. x \in DOMAIN w.endpoints /\ x \in DOMAIN w.edge_of_entity
    BY <1>4, <1>5 DEF Spawned, SameIndex
  <2>2. Agrees(w, l, s, x, w.edge_of_entity[x], w.endpoints[x].alive)
    BY <1>2, <2>1 DEF EdgesAgree
  <2>3. /\ y.edge_of_entity = w.edge_of_entity /\ y.endpoints[x] = w.endpoints[x]
        /\ y.applied = w.applied /\ y.changed = w.changed \cup {e}
    BY <2>1 DEF Spawned, SameIndex
  <2> QED BY <2>2, <2>3 DEF Agrees
<1>14. Ended(c, y, l, s) /\ Counted(c, y, l, s, p)
  BY <1>2, <1>5 DEF SameIndex, Ended, Counted, IsBound
<1>15. Grieved(y, s, h)
  BY <1>2, <1>5 DEF Spawned, SameIndex, Grieved
<1>16. Hangs(y, b)
  <2> SUFFICES ASSUME NEW x \in DOMAIN y.endpoints, x \in DOMAIN y.edge_of_entity
               PROVE  /\ y.endpoints[x].ends \in SUBSET Id
                      /\ \A id \in y.endpoints[x].ends :
                           \/ id \in b
                           \/ id \in DOMAIN y.entity_of_node /\ y.entity_of_node[id] \in y.links[x]
    BY DEF Hangs
  <2>1. x \in DOMAIN w.endpoints /\ x \in DOMAIN w.edge_of_entity
    BY <1>4, <1>5 DEF Spawned, SameIndex
  <2>2. y.endpoints[x] = w.endpoints[x] /\ y.links[x] = w.links[x] /\ y.entity_of_node = w.entity_of_node
    BY <1>3, <2>1 DEF Spawned, SameIndex, Apart
  <2> QED BY <1>2, <2>1, <2>2 DEF Hangs
<1>17. FitKept(w, y)
  <2> SUFFICES ASSUME NEW op, Fit(op, w) PROVE Fit(op, y)
    BY DEF FitKept
  <2>1. \A id \in DOMAIN w.entity_of_edge : w.entity_of_edge[id] # e
    BY <1>3, <1>4 DEF Mirrored
  <2>2. ASSUME NEW x \in DOMAIN y.endpoints, x # e
        PROVE  x \in DOMAIN w.endpoints /\ y.endpoints[x] = w.endpoints[x]
    <3>1. x \in DOMAIN w.endpoints
      BY <2>2 DEF Spawned
    <3> QED BY <3>1 DEF Spawned
  <2> QED BY <1>5, <2>1, <2>2 DEF Fit, SameIndex
<1>18. y.applied <= Len(l) /\ \A k \in 1..Len(s) : s[k].target[1] = c /\ Fit(s[k], y)
  BY <1>1, <1>5, <1>17 DEF SameIndex, FitKept
<1> QED BY <1>1, <1>11, <1>12, <1>13, <1>14, <1>15, <1>16, <1>17, <1>18 DEF Ok

\* The edges that stay when live go have no bound end among them, but for b.
Shielded(w, live, b) ==
    \A e \in DOMAIN w.edge_of_entity \cap (DOMAIN w.endpoints \ live) :
      \A z \in w.links[e] \cap live : z \in DOMAIN w.node_of_entity => w.node_of_entity[z] \in b

LEMMA DespawnKeeps ==
  ASSUME NEW c, NEW w, NEW live, live \subseteq Entities(w), NEW y, Despawned(w, live, y),
         NEW l, NEW s, NEW p, NEW h, NEW b, Ok(c, w, l, s, p, h, b),
         NEW i, h \subseteq i, \A e \in live \cap DOMAIN w.node_of_entity : w.node_of_entity[e] \in i,
         NEW j, b \subseteq j, Shielded(w, live, j)
  PROVE  Ok(c, y, l, s, p, i, j) /\ FitKept(w, y)
<1>1. /\ Sane(c, w) /\ w.applied <= Len(l)
      /\ s \in Seq(Ops) /\ \A k \in 1..Len(s) : s[k].target[1] = c /\ Fit(s[k], w)
  BY DEF Ok
<1>2. NodesAgree(w, l, s) /\ EdgesAgree(w, l, s) /\ Ended(c, w, l, s) /\ Counted(c, w, l, s, p)
      /\ Grieved(w, s, h) /\ Hangs(w, b)
  BY DEF Ok
<1>3. /\ w \in World /\ Apart(w) /\ Linked(w) /\ Known(w) /\ Own(c, w) /\ IsFiniteSet(Named(w))
      /\ Mirrored(w.node_of_entity, w.entity_of_node) /\ Mirrored(w.edge_of_entity, w.entity_of_edge)
  BY <1>1 DEF Sane
<1>4. SameIndex(w, y) /\ y \in World
  BY DEF Despawned, SameIndex
<1>5. /\ DOMAIN y.presence = DOMAIN w.presence \ live /\ DOMAIN y.endpoints = DOMAIN w.endpoints \ live
      /\ DOMAIN y.links = DOMAIN w.links \ live
      /\ y.added = w.added \ live /\ y.changed = w.changed \ live /\ y.removed = w.removed \cup live
      /\ y.pending = w.pending \ live
  BY DEF Despawned
<1>6. /\ \A e \in DOMAIN y.presence : y.presence[e] = w.presence[e]
      /\ \A e \in DOMAIN y.endpoints : y.endpoints[e] = w.endpoints[e]
      /\ \A e \in DOMAIN y.links : y.links[e] = w.links[e] \ live
  BY DEF Despawned
<1>7. IsFiniteSet(Named(y))
  <2>1. Named(y) \subseteq Named(w)
    BY <1>4, <1>5 DEF SameIndex, Named, Entities
  <2> QED BY <1>3, <2>1, FS_Subset
<1>8. Apart(y)
  BY <1>3, <1>4, <1>5 DEF SameIndex, Apart, Entities
<1>9. ASSUME NEW x \in DOMAIN y.links
      PROVE  /\ IsFiniteSet(y.links[x]) /\ Cardinality(y.links[x]) <= Cardinality(w.links[x])
             /\ Cardinality(w.links[x]) <= 2 /\ y.links[x] \subseteq DOMAIN y.presence
             /\ Cardinality(w.links[x]) \in Nat /\ Cardinality(y.links[x]) \in Nat
  <2>1. IsFiniteSet(w.links[x]) /\ Cardinality(w.links[x]) <= 2 /\ w.links[x] \subseteq DOMAIN w.presence
    BY <1>3, <1>5 DEF Linked
  <2>2. y.links[x] \subseteq w.links[x] /\ y.links[x] \subseteq DOMAIN y.presence
    BY <1>5, <1>6, <2>1
  <2>3. IsFiniteSet(y.links[x]) /\ Cardinality(y.links[x]) <= Cardinality(w.links[x])
    BY <2>1, <2>2, FS_Subset
  <2> QED BY <2>1, <2>2, <2>3, FS_CardinalityType
<1>10. Linked(y)
  BY <1>9 DEF Linked
<1>11. Known(y)
  <2>1. ASSUME NEW x \in DOMAIN y.endpoints
        PROVE  x \in DOMAIN y.edge_of_entity \/ x \in y.added \/ Cardinality(y.links[x]) < 2
    <3>1. x \in DOMAIN w.endpoints /\ x \notin live /\ x \in DOMAIN y.links
      BY <1>3, <1>5 DEF Apart
    <3>2. x \in DOMAIN w.edge_of_entity \/ x \in w.added \/ Cardinality(w.links[x]) < 2
      BY <1>3, <3>1 DEF Known
    <3> QED BY <1>4, <1>5, <1>9, <3>1, <3>2 DEF SameIndex
  <2>2. \A x \in DOMAIN y.presence : x \in DOMAIN y.node_of_entity \/ x \in y.added
    BY <1>3, <1>4, <1>5 DEF SameIndex, Known
  <2> QED BY <2>1, <2>2 DEF Known
<1>12. Own(c, y)
  BY <1>3, <1>4, <1>5 DEF SameIndex, Own
<1>13. Sane(c, y)
  BY <1>3, <1>4, <1>7, <1>8, <1>10, <1>11, <1>12 DEF Sane, SameIndex
<1>14. NodesAgree(y, l, s)
  <2> SUFFICES ASSUME NEW x \in DOMAIN y.presence, x \in DOMAIN y.node_of_entity
               PROVE  Agrees(y, l, s, x, y.node_of_entity[x], y.presence[x])
    BY DEF NodesAgree
  <2>1. x \in DOMAIN w.presence /\ x \in DOMAIN w.node_of_entity /\ x \notin live
    BY <1>4, <1>5 DEF SameIndex
  <2>2. Agrees(w, l, s, x, w.node_of_entity[x], w.presence[x])
    BY <1>2, <2>1 DEF NodesAgree
  <2> QED BY <1>4, <1>5, <1>6, <2>1, <2>2 DEF Agrees, SameIndex
<1>15. EdgesAgree(y, l, s)
  <2> SUFFICES ASSUME NEW x \in DOMAIN y.endpoints, x \in DOMAIN y.edge_of_entity
               PROVE  Agrees(y, l, s, x, y.edge_of_entity[x], y.endpoints[x].alive)
    BY DEF EdgesAgree
  <2>1. x \in DOMAIN w.endpoints /\ x \in DOMAIN w.edge_of_entity /\ x \notin live
    BY <1>4, <1>5 DEF SameIndex
  <2>2. Agrees(w, l, s, x, w.edge_of_entity[x], w.endpoints[x].alive)
    BY <1>2, <2>1 DEF EdgesAgree
  <2> QED BY <1>4, <1>5, <1>6, <2>1, <2>2 DEF Agrees, SameIndex
<1>16. Ended(c, y, l, s) /\ Counted(c, y, l, s, p)
  BY <1>2, <1>4 DEF SameIndex, Ended, Counted, IsBound
<1>17. Grieved(y, s, i)
  <2>1. \A e \in y.removed \cap DOMAIN y.node_of_entity : y.node_of_entity[e] \in i
    BY <1>2, <1>4, <1>5 DEF SameIndex, Grieved
  <2>2. \A k \in 1..Len(s) : s[k].node /\ ~s[k].value => s[k].target \in i
    BY <1>2 DEF Grieved
  <2> QED BY <2>1, <2>2 DEF Grieved
<1>18. Hangs(y, j)
  <2> SUFFICES ASSUME NEW x \in DOMAIN y.endpoints, x \in DOMAIN y.edge_of_entity
               PROVE  /\ y.endpoints[x].ends \in SUBSET Id
                      /\ \A id \in y.endpoints[x].ends :
                           \/ id \in j
                           \/ id \in DOMAIN y.entity_of_node /\ y.entity_of_node[id] \in y.links[x]
    BY DEF Hangs
  <2>1. x \in DOMAIN w.endpoints /\ x \in DOMAIN w.edge_of_entity /\ x \notin live /\ x \in DOMAIN w.links
    BY <1>3, <1>4, <1>5 DEF SameIndex, Apart
  <2>2. /\ y.endpoints[x] = w.endpoints[x] /\ y.links[x] = w.links[x] \ live
        /\ y.entity_of_node = w.entity_of_node
    BY <1>4, <1>5, <1>6, <2>1 DEF SameIndex
  <2>3. /\ w.endpoints[x].ends \in SUBSET Id
        /\ \A id \in w.endpoints[x].ends :
             \/ id \in b
             \/ id \in DOMAIN w.entity_of_node /\ w.entity_of_node[id] \in w.links[x]
    BY <1>2, <2>1 DEF Hangs
  <2>4. ASSUME NEW id \in DOMAIN w.entity_of_node, w.entity_of_node[id] \in w.links[x]
        PROVE  id \in j \/ w.entity_of_node[id] \in w.links[x] \ live
    <3>1. w.entity_of_node[id] \in DOMAIN w.node_of_entity /\ w.node_of_entity[w.entity_of_node[id]] = id
      BY <1>3 DEF Mirrored
    <3> QED BY <2>1, <2>4, <3>1 DEF Shielded
  <2> QED BY <2>2, <2>3, <2>4
<1>19. FitKept(w, y)
  BY <1>4, <1>5, <1>6 DEF FitKept, Fit, SameIndex
<1>20. y.applied <= Len(l) /\ \A k \in 1..Len(s) : s[k].target[1] = c /\ Fit(s[k], y)
  BY <1>1, <1>4, <1>19 DEF SameIndex, FitKept
<1> QED BY <1>1, <1>13, <1>14, <1>15, <1>16, <1>17, <1>18, <1>19, <1>20 DEF Ok

\* What a client did to its world between frames.
LEMMA WorldKeeps ==
  ASSUME IInv, NEW c \in Client, c \in joined, NEW y, FitKept(world[c], y), NEW i, NEW j,
         Ok(c, y, log, wire[c], peerOps, i, j), bare \subseteq j,
         world' = [world EXCEPT ![c] = y], gone' = [gone EXCEPT ![c] = i], bare' = j,
         UNCHANGED <<log, wire, joined, peerOps>>
  PROVE  IInv'
<1>1. /\ LogOk(log, world) /\ world = [d \in Client |-> world[d]] /\ wire = [d \in Client |-> wire[d]]
      /\ gone = [d \in Client |-> gone[d]] /\ joined \subseteq Client /\ peerOps \in Nat
  BY DEF IInv
<1>2. /\ world' = [d \in Client |-> world'[d]] /\ gone' = [d \in Client |-> gone'[d]]
      /\ world'[c] = y /\ gone'[c] = i /\ wire' = wire /\ log' = log /\ joined' = joined /\ peerOps' = peerOps
      /\ \A d \in Client \ {c} : world'[d] = world[d] /\ gone'[d] = gone[d]
  BY <1>1
<1>3. LogOk(log', world')
  <2>1. log \in Seq(Ops) /\ \A k \in 1..Len(log) : Meant(log[k], world)
    BY <1>1 DEF LogOk
  <2>2. ASSUME NEW k \in 1..Len(log) PROVE Meant(log[k], world')
    <3> DEFINE op == log[k]
    <3>1. op \in Ops /\ Fit(op, world[op.target[1]])
      BY <2>1 DEF Meant
    <3> HIDE DEF op
    <3>2. op.target[1] \in Client
      BY <3>1 DEF Ops, Id
    <3>3. CASE op.target[1] = c
      <4>1. Fit(op, y)
        BY <3>1, <3>3 DEF FitKept
      <4> QED BY <1>2, <3>3, <4>1 DEF Meant, op
    <3>4. CASE op.target[1] # c
      BY <1>2, <3>1, <3>2, <3>4 DEF Meant, op
    <3> QED BY <3>3, <3>4
  <2> QED BY <1>2, <2>1, <2>2 DEF LogOk
<1>4. ASSUME NEW d \in Client
      PROVE  /\ Ok(d, world'[d], log', wire'[d], peerOps', gone'[d], bare')
             /\ d \notin joined' => world'[d] = Empty /\ wire'[d] = << >>
  <2>1. CASE d = c
    <3>1. Ok(c, world'[c], log', wire'[c], peerOps', gone'[c], bare')
      BY <1>2
    <3> QED BY <1>2, <2>1, <3>1
  <2>2. CASE d # c
    <3>1. Ok(d, world[d], log, wire[d], peerOps, gone[d], bare)
          /\ (d \notin joined => world[d] = Empty /\ wire[d] = << >>)
      BY DEF IInv
    <3>2. Ok(d, world[d], log, wire[d], peerOps, gone[d], j)
      <4>1. Hangs(world[d], bare) => Hangs(world[d], j)
        BY DEF Hangs
      <4> QED BY <3>1, <4>1 DEF Ok
    <3> QED BY <1>2, <2>2, <3>1, <3>2
  <2> QED BY <2>1, <2>2
<1> QED BY <1>1, <1>2, <1>3, <1>4 DEF IInv

LEMMA SpawnsKeep ==
  ASSUME IInv, NEW c \in Client, c \in joined, UserSpawnNode(c) \/ UserSpawnEdge(c)
  PROVE  IInv'
<1> DEFINE w == world[c]
           e == Unused(w)
<1>1. Ok(c, w, log, wire[c], peerOps, gone[c], bare) /\ Sane(c, w) /\ gone = [d \in Client |-> gone[d]]
      /\ world = [d \in Client |-> world[d]]
  BY DEF IInv, Ok
<1>2. UNCHANGED <<log, wire, joined, peerOps, gone, bare>>
  BY DEF UserSpawnNode, UserSpawnEdge
<1>3. \E y : Spawned(w, e, y) /\ world' = [world EXCEPT ![c] = y]
  <2>1. CASE UserSpawnNode(c)
    <3>1. world' = [world EXCEPT ![c] = Spawn(w, e, TRUE)]
      BY <2>1 DEF UserSpawnNode
    <3> QED BY <1>1, <3>1, SpawnNodeIs
  <2>2. CASE UserSpawnEdge(c)
    <3>1. PICK i, j \in DOMAIN w.presence :
            world' = [world EXCEPT ![c] = [Spawn(w, e, FALSE) EXCEPT !.links[e] = {i, j}]]
      BY <2>2 DEF UserSpawnEdge
    <3> QED BY <1>1, <3>1, SpawnEdgeIs
  <2> QED BY <2>1, <2>2
<1>4. PICK y : Spawned(w, e, y) /\ world' = [world EXCEPT ![c] = y]
  BY <1>3
<1>5. Ok(c, y, log, wire[c], peerOps, gone[c], bare) /\ FitKept(w, y)
  BY <1>1, <1>4, SpawnKeeps
<1>6. gone' = [gone EXCEPT ![c] = gone[c]] /\ bare' = bare /\ bare \subseteq bare
  BY <1>1, <1>2
<1> QED BY <1>2, <1>4, <1>5, <1>6, WorldKeeps

LEMMA DespawnsKeep ==
  ASSUME IInv, NEW c \in Client, c \in joined, NEW es, UserDespawns(c, es), bare \subseteq bare',
         Shielded(world[c], Entities(world[c]) \cap es, bare')
  PROVE  IInv'
<1> DEFINE w == world[c]
           live == Entities(w) \cap es
           y == Despawn(w, es)
           i == gone[c] \cup Ids(w, es)
<1>1. Ok(c, w, log, wire[c], peerOps, gone[c], bare) /\ w \in World /\ gone = [d \in Client |-> gone[d]]
  BY DEF IInv, Ok, Sane
<1>2. UNCHANGED <<log, wire, joined, peerOps>> /\ world' = [world EXCEPT ![c] = y]
      /\ gone' = [gone EXCEPT ![c] = i]
  BY DEF UserDespawns
<1>3. Despawned(w, live, y)
  BY <1>1, DespawnIs
<1>4. live \subseteq Entities(w)
  OBVIOUS
<1>5. gone[c] \subseteq i /\ \A e \in live \cap DOMAIN w.node_of_entity : w.node_of_entity[e] \in i
  BY DEF Ids
<1>6. Shielded(w, live, bare')
  OBVIOUS
<1> HIDE DEF y, i, live, w
<1>7. Ok(c, y, log, wire[c], peerOps, i, bare') /\ FitKept(w, y)
  BY <1>1, <1>3, <1>4, <1>5, <1>6, DespawnKeeps
<1>8. Ok(c, y, log, wire[c], peerOps, i, bare') /\ FitKept(world[c], y)
  BY <1>7 DEF w
<1> QED BY <1>2, <1>8, WorldKeeps

LEMMA UserDespawnKeeps ==
  ASSUME IInv, NEW c \in Client, c \in joined, UserDespawn(c)
  PROVE  IInv'
<1> DEFINE w == world[c]
<1>1. PICK e \in Entities(w) :
         UserDespawns(c, {e}) /\ bare' = bare \cup Ids(w, {e} \cap DOMAIN w.presence)
  BY DEF UserDespawn
<1>2. w \in World /\ Linked(w) /\ Apart(w)
  BY DEF IInv, Ok, Sane
<1>3. Shielded(w, Entities(w) \cap {e}, bare')
  <2> SUFFICES ASSUME NEW x \in DOMAIN w.edge_of_entity \cap (DOMAIN w.endpoints \ (Entities(w) \cap {e})),
                      NEW z \in w.links[x] \cap (Entities(w) \cap {e}), z \in DOMAIN w.node_of_entity
               PROVE  w.node_of_entity[z] \in bare'
    BY DEF Shielded
  <2>1. x \in DOMAIN w.links /\ z = e
    BY <1>2 DEF Apart
  <2>2. z \in DOMAIN w.presence
    BY <1>2, <2>1 DEF Linked
  <2> QED BY <1>1, <2>1, <2>2 DEF Ids
<1> QED BY <1>1, <1>3, DespawnsKeep

LEMMA UserRemoveNodeKeeps ==
  ASSUME IInv, NEW c \in Client, c \in joined, UserRemoveNode(c)
  PROVE  IInv'
<1> DEFINE w == world[c]
<1>1. PICK e \in DOMAIN w.presence : UserDespawns(c, {e} \cup Incident(w, e)) /\ bare' = bare
  BY DEF UserRemoveNode
<1> DEFINE es == {e} \cup Incident(w, e)
<1>2. w \in World /\ Linked(w) /\ Apart(w)
  BY DEF IInv, Ok, Sane
<1>3. Shielded(w, Entities(w) \cap es, bare')
  <2> SUFFICES ASSUME NEW x \in DOMAIN w.edge_of_entity \cap (DOMAIN w.endpoints \ (Entities(w) \cap es)),
                      NEW z \in w.links[x] \cap (Entities(w) \cap es), z \in DOMAIN w.node_of_entity
               PROVE  w.node_of_entity[z] \in bare'
    BY DEF Shielded
  <2>1. x \in DOMAIN w.links /\ x \in Entities(w) /\ x \notin es
    BY <1>2 DEF Apart, Entities
  <2>2. z \in DOMAIN w.presence
    BY <1>2, <2>1 DEF Linked
  <2>3. z \notin Incident(w, e)
    BY <1>2, <2>2 DEF Incident, Apart
  <2>4. z = e
    BY <2>3
  <2>5. x \in Incident(w, e)
    BY <2>1, <2>4 DEF Incident
  <2> QED BY <2>1, <2>5
<1>4. bare \subseteq bare' /\ UserDespawns(c, es)
  BY <1>1
<1> QED BY <1>3, <1>4, DespawnsKeep

-----------------------------------------------------------------------------
(* The server's log. *)

\* What a client knows stays true when an op is logged, of its own or not.
LEMMA LogMoves ==
  ASSUME NEW c, NEW w, NEW l, NEW s, NEW p, NEW h, NEW b, Ok(c, w, l, s, p, h, b),
         NEW op, l \in Seq(Ops), op \in Ops, NEW t \in Seq(Ops), NEW q,
         \A x \in Range(t) : x \in Range(s), \A x \in Range(s) : x = op \/ x \in Range(t),
         Counted(c, w, Append(l, op), t, q)
  PROVE  Ok(c, w, Append(l, op), t, q, h, b)
<1> DEFINE m == Append(l, op)
<1>1. /\ Sane(c, w) /\ w.applied <= Len(l)
      /\ s \in Seq(Ops) /\ \A k \in 1..Len(s) : s[k].target[1] = c /\ Fit(s[k], w)
  BY DEF Ok
<1>2. NodesAgree(w, l, s) /\ EdgesAgree(w, l, s) /\ Ended(c, w, l, s) /\ Grieved(w, s, h) /\ Hangs(w, b)
  BY DEF Ok
<1>3. /\ Len(l) \in Nat /\ Len(m) = Len(l) + 1 /\ m[Len(l) + 1] = op /\ m \in Seq(Ops)
      /\ \A k \in 1..Len(l) : m[k] = l[k]
  OBVIOUS
<1> HIDE DEF m
<1>4. w.applied \in Nat
  BY <1>1 DEF Sane, World
<1>5. ASSUME NEW id, NEW v, Announced(l, s, id, v) PROVE Announced(m, t, id, v)
  <2>1. CASE Said(l, Len(l), id, v)
    BY <1>3, <2>1 DEF Said, Announced
  <2>2. CASE Said(s, Len(s), id, v)
    <3>1. PICK k \in 1..Len(s) : s[k].target = id /\ s[k].field = "alive" /\ s[k].value = v
      BY <2>2 DEF Said
    <3>2. s[k] \in Range(s)
      BY <1>1, PlacesAre
    <3>3. CASE s[k] = op
      <4>1. Said(m, Len(m), id, v)
        BY <1>3, <3>1, <3>3 DEF Said
      <4> QED BY <4>1 DEF Announced
    <3>4. CASE s[k] \in Range(t)
      <4>1. PICK j \in 1..Len(t) : t[j] = s[k]
        BY <3>4, PlacesAre
      <4>2. Said(t, Len(t), id, v)
        BY <3>1, <4>1 DEF Said
      <4> QED BY <4>2 DEF Announced
    <3> QED BY <3>2, <3>3, <3>4
  <2> QED BY <1>5, <2>1, <2>2 DEF Announced
<1>5a. \A k \in 1..w.applied : m[k] = l[k]
  BY <1>1, <1>3, <1>4
<1>6. \A id : Reg(m, w.applied, id, "alive") = Reg(l, w.applied, id, "alive")
  <2> TAKE id
  <2> DEFINE n == w.applied
  <2>1. n \in Nat /\ \A k \in 1..n : m[k] = l[k]
    BY <1>4, <1>5a
  <2> HIDE DEF n
  <2>2. Reg(m, n, id, "alive") = Reg(l, n, id, "alive")
    BY <2>1, RegSame
  <2> QED BY <2>2 DEF n
<1>7. \A id, v : Said(l, w.applied, id, v) => Said(m, w.applied, id, v)
  BY <1>5a DEF Said
<1>8. \A e, id, v : Agrees(w, l, s, e, id, v) => Agrees(w, m, t, e, id, v)
  BY <1>5, <1>6, <1>7 DEF Agrees
<1>9. NodesAgree(w, m, t) /\ EdgesAgree(w, m, t)
  BY <1>2, <1>8 DEF NodesAgree, EdgesAgree
<1>10. Ended(c, w, m, t)
  BY <1>2, <1>5 DEF Ended
<1>11. \A k \in 1..Len(t) : \E j \in 1..Len(s) : t[k] = s[j]
  BY <1>1, PlacesAre
<1>12. Grieved(w, t, h)
  BY <1>2, <1>11 DEF Grieved
<1>13. \A k \in 1..Len(t) : t[k].target[1] = c /\ Fit(t[k], w)
  BY <1>1, <1>11
<1>14. w.applied <= Len(m)
  BY <1>1, <1>3, <1>4
<1>15. Counted(c, w, m, t, q)
  BY DEF m
<1>16. Ok(c, w, m, t, q, h, b)
  BY <1>1, <1>2, <1>9, <1>10, <1>12, <1>13, <1>14, <1>15 DEF Ok
<1> QED BY <1>16 DEF m

LEMMA LogGrows ==
  ASSUME NEW l, NEW ws, LogOk(l, ws), NEW op, Meant(op, ws)
  PROVE  LogOk(Append(l, op), ws)
<1> DEFINE m == Append(l, op)
<1>1. l \in Seq(Ops) /\ (\A k \in 1..Len(l) : Meant(l[k], ws)) /\ op \in Ops
  BY DEF LogOk, Meant, Fit
<1>2. /\ Len(l) \in Nat /\ Len(m) = Len(l) + 1 /\ m[Len(l) + 1] = op /\ m \in Seq(Ops)
      /\ \A k \in 1..Len(l) : m[k] = l[k]
  BY <1>1
<1> HIDE DEF m
<1>3. ASSUME NEW k \in 1..Len(m) PROVE Meant(m[k], ws)
  <2>1. k = Len(l) + 1 \/ k \in 1..Len(l)
    BY <1>2
  <2> QED BY <1>1, <1>2, <2>1
<1>4. LogOk(m, ws)
  BY <1>2, <1>3 DEF LogOk
<1> QED BY <1>4 DEF m

\* An op of another client leaves the count of one's own.
LEMMA CountedMore ==
  ASSUME NEW c \in Client, NEW w, NEW l \in Seq(Ops), NEW s \in Seq(Ops), NEW p \in Nat, Counted(c, w, l, s, p),
         NEW op \in Ops, NEW q \in Nat, p <= q, op.target[1] = c => p + 1 <= q
  PROVE  Counted(c, w, Append(l, op), s, q)
<1> SUFFICES ASSUME NEW k \in Nat
             PROVE  Cardinality(Tombstones(Append(l, op), <<c, k>>)) + Cardinality(Tombstones(s, <<c, k>>))
                      <= q + IF IsBound(w, <<c, k>>) THEN 0 ELSE 1
  BY DEF Counted
<1> DEFINE id == <<c, k>>
           a == Cardinality(Tombstones(l, id))
           d == Cardinality(Tombstones(Append(l, op), id))
           f == Cardinality(Tombstones(s, id))
           n == IF IsBound(w, id) THEN 0 ELSE 1
<1>1. a + f <= p + n
  BY DEF Counted
<1>2. id[1] = c
  OBVIOUS
<1> HIDE DEF id
<1>3. d = a + IF IsTombstone(op, id) THEN 1 ELSE 0
  BY TombstonesAppend
<1>4. a \in Nat /\ f \in Nat /\ n \in 0..1
  BY TombstonesFinite
<1>5. IsTombstone(op, id) => op.target[1] = c
  BY <1>2 DEF IsTombstone
<1> HIDE DEF a, d, f, n
<1>6. d + f <= q + n
  BY <1>1, <1>3, <1>4, <1>5
<1> QED BY <1>6 DEF d, f, n, id

\* An op that moves from the wire to the log is counted once.
LEMMA CountedMoved ==
  ASSUME NEW c \in Client, NEW w, NEW l \in Seq(Ops), NEW s \in Seq(Ops), s # << >>, NEW p \in Nat,
         Counted(c, w, l, s, p)
  PROVE  Counted(c, w, Append(l, Head(s)), Tail(s), p)
<1> DEFINE op == Head(s)
           t == Tail(s)
<1>0. op \in Ops /\ t \in Seq(Ops)
  OBVIOUS
<1> HIDE DEF op, t
<1> SUFFICES ASSUME NEW k \in Nat
             PROVE  Cardinality(Tombstones(Append(l, op), <<c, k>>)) + Cardinality(Tombstones(t, <<c, k>>))
                      <= p + IF IsBound(w, <<c, k>>) THEN 0 ELSE 1
  BY DEF Counted, op, t
<1> DEFINE id == <<c, k>>
           a == Cardinality(Tombstones(l, id))
           d == Cardinality(Tombstones(Append(l, op), id))
           f == Cardinality(Tombstones(s, id))
           g == Cardinality(Tombstones(t, id))
           n == IF IsBound(w, id) THEN 0 ELSE 1
<1>1. a + f <= p + n
  BY DEF Counted
<1> HIDE DEF id
<1>3. d = a + IF IsTombstone(op, id) THEN 1 ELSE 0
  BY <1>0, TombstonesAppend
<1>4. g + (IF IsTombstone(op, id) THEN 1 ELSE 0) <= f
  BY TombstonesTail DEF op, t
<1>5. a \in Nat /\ f \in Nat /\ n \in 0..1 /\ g \in Nat
  BY <1>0, TombstonesFinite
<1> HIDE DEF a, d, f, g, n
<1>6. d + g <= p + n
  BY <1>1, <1>3, <1>4, <1>5
<1> QED BY <1>6 DEF d, g, n, id

LEMMA LogKeeps ==
  ASSUME IInv, NEW c \in Client, Log(c)
  PROVE  IInv'
<1> DEFINE s == wire[c]
           op == Head(s)
           t == Tail(s)
<1>1. /\ LogOk(log, world) /\ world = [d \in Client |-> world[d]] /\ wire = [d \in Client |-> wire[d]]
      /\ gone = [d \in Client |-> gone[d]] /\ joined \subseteq Client /\ peerOps \in Nat
      /\ log \in Seq(Ops)
  BY DEF IInv, LogOk
<1>2. Ok(c, world[c], log, s, peerOps, gone[c], bare)
  BY DEF IInv
<1>3. /\ s # << >> /\ log' = Append(log, op) /\ wire' = [wire EXCEPT ![c] = t]
      /\ UNCHANGED <<world, joined, peerOps, gone, bare>>
  BY DEF Log
<1>4. s \in Seq(Ops) /\ \A k \in 1..Len(s) : s[k].target[1] = c /\ Fit(s[k], world[c])
  BY <1>2 DEF Ok
<1>5. /\ op = s[1] /\ 1 \in 1..Len(s) /\ op \in Ops /\ t \in Seq(Ops)
      /\ Len(t) = Len(s) - 1 /\ \A k \in 1..Len(t) : t[k] = s[k + 1]
  BY <1>3, <1>4
<1>6. op.target[1] = c /\ Fit(op, world[c])
  BY <1>4, <1>5
<1>7. Counted(c, world[c], log, s, peerOps)
  BY <1>2 DEF Ok
<1>8. Counted(c, world[c], Append(log, op), t, peerOps)
  BY <1>1, <1>3, <1>4, <1>7, CountedMoved
<1> HIDE DEF s, op, t
<1>9. (\A x \in Range(t) : x \in Range(s)) /\ \A x \in Range(s) : x = op \/ x \in Range(t)
  <2>1. \A k \in 1..Len(t) : k + 1 \in 1..Len(s) /\ t[k] = s[k + 1]
    BY <1>4, <1>5
  <2>2. \A x \in Range(t) : x \in Range(s)
    <3> TAKE x \in Range(t)
    <3>1. PICK k \in 1..Len(t) : t[k] = x
      BY <1>5, PlacesAre
    <3> QED BY <1>4, <2>1, <3>1, PlacesAre
  <2>3. ASSUME NEW x \in Range(s) PROVE x = op \/ x \in Range(t)
    <3>1. PICK k \in 1..Len(s) : s[k] = x
      BY <1>4, PlacesAre
    <3> DEFINE j == k - 1
    <3>2. CASE k = 1
      BY <1>5, <3>1, <3>2
    <3>3. CASE k # 1
      <4>1. Len(s) \in Nat /\ Len(t) = Len(s) - 1
        BY <1>4, <1>5
      <4>2. j \in 1..Len(t) /\ k = j + 1
        BY <3>3, <4>1
      <4> HIDE DEF j
      <4>3. t[j] = x
        BY <1>5, <3>1, <4>2
      <4> QED BY <1>5, <4>2, <4>3, PlacesAre
    <3> QED BY <3>2, <3>3
  <2> QED BY <2>2, <2>3
<1>10. Ok(c, world[c], Append(log, op), t, peerOps, gone[c], bare)
  BY <1>1, <1>2, <1>5, <1>8, <1>9, LogMoves
<1>11. LogOk(log', world')
  <2>1. Meant(op, world)
    BY <1>6 DEF Meant
  <2> QED BY <1>1, <1>3, <2>1, LogGrows
<1>12. ASSUME NEW d \in Client
       PROVE  /\ Ok(d, world'[d], log', wire'[d], peerOps', gone'[d], bare')
              /\ d \notin joined' => world'[d] = Empty /\ wire'[d] = << >>
  <2>1. Ok(d, world[d], log, wire[d], peerOps, gone[d], bare)
        /\ (d \notin joined => world[d] = Empty /\ wire[d] = << >>)
    BY DEF IInv
  <2>2. CASE d = c
    <3>1. wire'[c] = t /\ c \in joined
      BY <1>1, <1>3, <2>1, <2>2 DEF s
    <3> QED BY <1>3, <1>10, <2>2, <3>1
  <2>3. CASE d # c
    <3> DEFINE u == wire[d]
               w == world[d]
    <3>1. wire'[d] = u
      BY <1>1, <1>3, <2>3
    <3>2. u \in Seq(Ops) /\ Counted(d, w, log, u, peerOps)
      BY <2>1 DEF Ok
    <3> HIDE DEF u, w
    <3>3. op.target[1] = d => peerOps + 1 <= peerOps
      BY <1>6, <2>3
    <3>4. peerOps <= peerOps
      BY <1>1
    <3>5. Counted(d, w, Append(log, op), u, peerOps)
      BY <1>1, <1>5, <3>2, <3>3, <3>4, CountedMore
    <3>6. Ok(d, w, log, u, peerOps, gone[d], bare)
      BY <2>1 DEF u, w
    <3>7. (\A x \in Range(u) : x \in Range(u)) /\ \A x \in Range(u) : x = op \/ x \in Range(u)
      OBVIOUS
    <3>8. Ok(d, w, Append(log, op), u, peerOps, gone[d], bare)
      BY <1>1, <1>5, <3>2, <3>5, <3>6, <3>7, LogMoves
    <3> QED BY <1>3, <2>1, <3>1, <3>8 DEF u, w
  <2> QED BY <2>2, <2>3
<1>13. wire' = [d \in Client |-> wire'[d]]
  BY <1>1, <1>3
<1> QED BY <1>1, <1>3, <1>11, <1>12, <1>13 DEF IInv

LEMMA PeerTombstoneKeeps ==
  ASSUME IInv, PeerTombstone
  PROVE  IInv'
<1>1. /\ LogOk(log, world) /\ world = [d \in Client |-> world[d]] /\ wire = [d \in Client |-> wire[d]]
      /\ gone = [d \in Client |-> gone[d]] /\ joined \subseteq Client /\ peerOps \in Nat
      /\ log \in Seq(Ops) /\ \A k \in 1..Len(log) : Meant(log[k], world)
  BY DEF IInv, LogOk
<1>2. PICK k \in 1..Len(log) : log' = Append(log, Op(log[k].target, log[k].node, "alive", FALSE))
  BY DEF PeerTombstone
<1> DEFINE op == Op(log[k].target, log[k].node, "alive", FALSE)
<1>3. UNCHANGED <<world, wire, joined, gone, bare>> /\ peerOps' = peerOps + 1 /\ peerOps' \in Nat
  BY <1>1 DEF PeerTombstone
<1>4. Meant(op, world) /\ op \in Ops
  <2>1. log[k] \in Ops /\ Fit(log[k], world[log[k].target[1]])
    BY <1>1 DEF Meant
  <2>2. op \in Ops /\ op.target = log[k].target /\ op.node = log[k].node /\ op.field = "alive" /\ op.value = FALSE
    BY <2>1 DEF Op, Ops
  <2> HIDE DEF op
  <2> QED BY <2>1, <2>2 DEF Meant, Fit
<1>5. LogOk(log', world')
  BY <1>1, <1>2, <1>3, <1>4, LogGrows
<1> HIDE DEF op
<1>6. ASSUME NEW d \in Client
      PROVE  /\ Ok(d, world'[d], log', wire'[d], peerOps', gone'[d], bare')
             /\ d \notin joined' => world'[d] = Empty /\ wire'[d] = << >>
  <2>1. Ok(d, world[d], log, wire[d], peerOps, gone[d], bare)
        /\ (d \notin joined => world[d] = Empty /\ wire[d] = << >>)
    BY DEF IInv
  <2> DEFINE u == wire[d]
             w == world[d]
             q == peerOps + 1
  <2>2. u \in Seq(Ops) /\ Counted(d, w, log, u, peerOps)
    BY <2>1 DEF Ok
  <2>3. q \in Nat /\ peerOps <= q /\ (op.target[1] = d => peerOps + 1 <= q)
    BY <1>1
  <2>4. Ok(d, w, log, u, peerOps, gone[d], bare)
    BY <2>1
  <2> HIDE DEF u, w, q
  <2>5. Counted(d, w, Append(log, op), u, q)
    BY <1>1, <1>4, <2>2, <2>3, CountedMore
  <2>6. (\A x \in Range(u) : x \in Range(u)) /\ \A x \in Range(u) : x = op \/ x \in Range(u)
    OBVIOUS
  <2>7. Ok(d, w, Append(log, op), u, q, gone[d], bare)
    BY <1>1, <1>4, <2>2, <2>4, <2>5, <2>6, LogMoves
  <2> QED BY <1>2, <1>3, <2>1, <2>7 DEF u, w, q, op
<1>7. wire' = [d \in Client |-> wire'[d]] /\ world' = [d \in Client |-> world'[d]]
      /\ gone' = [d \in Client |-> gone'[d]]
  BY <1>1, <1>3
<1> QED BY <1>1, <1>3, <1>5, <1>6, <1>7 DEF IInv

-----------------------------------------------------------------------------
(* The start, and the steps. *)

LEMMA ImageFinite ==
  ASSUME NEW S, IsFiniteSet(S), NEW f, DOMAIN f = S, f = [x \in S |-> f[x]], NEW T, T = {f[x] : x \in S}
  PROVE  IsFiniteSet(T)
<1>1. f \in Surjection(S, T)
  BY DEF Surjection
<1> QED BY <1>1, FS_Surjection

LEMMA SettledFinite == IsFiniteSet(SettledNodes)
<1> DEFINE F(c) == {c} \X (0..Settled[c] - 1)
           S == {F(c) : c \in Client}
<1>1. IsFiniteSet(Client) /\ \A c \in Client : Settled[c] \in Nat
  BY ClientAssumption
<1>2. IsFiniteSet(S)
  <2> DEFINE f == [c \in Client |-> F(c)]
  <2>1. DOMAIN f = Client /\ f = [x \in Client |-> f[x]] /\ S = {f[x] : x \in Client}
    OBVIOUS
  <2> HIDE DEF f, S
  <2> QED BY <1>1, <2>1, ImageFinite
<1>3. ASSUME NEW c \in Client PROVE IsFiniteSet(F(c))
  <2> DEFINE n == Settled[c] - 1
  <2>2. n \in Int /\ 0 \in Int
    BY <1>1
  <2> HIDE DEF n
  <2>3. IsFiniteSet(0..n)
    BY <2>2, FS_Interval
  <2>4. IsFiniteSet({c})
    BY FS_Singleton
  <2>1. IsFiniteSet({c}) /\ IsFiniteSet(0..Settled[c] - 1)
    BY <2>3, <2>4 DEF n
  <2> QED BY <2>1, FS_Product
<1>4. IsFiniteSet(UNION S)
  <2>1. \A T \in S : IsFiniteSet(T)
    BY <1>3
  <2> HIDE DEF S
  <2> QED BY <1>2, <2>1, FS_UNION
<1> QED BY <1>4 DEF SettledNodes

\* The world a client starts with.
Start(c, n, w) ==
    /\ w \in World
    /\ w.presence = [e \in 0..Settled[c] - 1 |-> TRUE]
    /\ w.node_of_entity = [e \in 0..Settled[c] - 1 |-> <<c, e>>]
    /\ w.entity_of_node = [id \in {c} \X (0..Settled[c] - 1) |-> id[2]]
    /\ w.next = Settled[c] /\ w.applied = n
    /\ w.endpoints = EmptyMap /\ w.links = EmptyMap
    /\ w.edge_of_entity = EmptyMap /\ w.entity_of_edge = EmptyMap
    /\ w.pending = {} /\ w.added = {} /\ w.changed = {} /\ w.removed = {} /\ w.queue = << >>

Record(p, f, g, n, s) ==
    [presence |-> p, endpoints |-> EmptyMap, links |-> EmptyMap, pending |-> {}, added |-> {},
     changed |-> {}, removed |-> {}, node_of_entity |-> f, entity_of_node |-> g,
     edge_of_entity |-> EmptyMap, entity_of_edge |-> EmptyMap, queue |-> << >>,
     applied |-> n, next |-> s]

RecordIs(w, p, f, g, n, s) ==
    /\ w \in World /\ w.presence = p /\ w.node_of_entity = f /\ w.entity_of_node = g
    /\ w.next = s /\ w.applied = n
    /\ w.endpoints = EmptyMap /\ w.links = EmptyMap
    /\ w.edge_of_entity = EmptyMap /\ w.entity_of_edge = EmptyMap
    /\ w.pending = {} /\ w.added = {} /\ w.changed = {} /\ w.removed = {} /\ w.queue = << >>

LEMMA RecordHolds ==
  ASSUME NEW p \in MapsOf(Nat, BOOLEAN), NEW f \in MapsOf(Nat, Id), NEW g \in MapsOf(Id, Nat),
         NEW n \in Nat, NEW s \in Nat, NEW w, w = Record(p, f, g, n, s)
  PROVE  RecordIs(w, p, f, g, n, s)
<1>1. EmptyMap \in MapsOf(Nat, Endpoints) /\ EmptyMap \in MapsOf(Nat, SUBSET Nat)
      /\ EmptyMap \in MapsOf(Nat, Id) /\ EmptyMap \in MapsOf(Id, Nat) /\ << >> \in Seq(Ops)
  BY EmptyMapIs
<1> QED BY <1>1 DEF Record, RecordIs, World

LEMMA StartIs ==
  ASSUME NEW c \in Client, NEW n \in Nat,
         NEW w, w = [Empty EXCEPT !.presence = [e \in 0..Settled[c] - 1 |-> TRUE],
                                  !.node_of_entity = [e \in 0..Settled[c] - 1 |-> <<c, e>>],
                                  !.entity_of_node = [id \in {c} \X (0..Settled[c] - 1) |-> id[2]],
                                  !.next = Settled[c],
                                  !.applied = n]
  PROVE  Start(c, n, w)
<1> DEFINE mine == 0..Settled[c] - 1
           p == [e \in mine |-> TRUE]
           f == [e \in mine |-> <<c, e>>]
           g == [id \in {c} \X mine |-> id[2]]
<1>1. Settled[c] \in Nat /\ mine \in SUBSET Nat
  BY ClientAssumption
<1>2. p \in MapsOf(Nat, BOOLEAN)
  <2>1. p = [x \in DOMAIN p |-> p[x]] /\ DOMAIN p \in SUBSET Nat /\ \A x \in DOMAIN p : p[x] \in BOOLEAN
    BY <1>1
  <2> HIDE DEF p
  <2> QED BY <2>1, MapOf
<1>3. f \in MapsOf(Nat, Id)
  <2>1. f = [x \in DOMAIN f |-> f[x]] /\ DOMAIN f \in SUBSET Nat /\ \A x \in DOMAIN f : f[x] \in Id
    BY <1>1 DEF Id
  <2> HIDE DEF f
  <2> QED BY <2>1, MapOf
<1>4. g \in MapsOf(Id, Nat)
  <2>1. g = [x \in DOMAIN g |-> g[x]] /\ DOMAIN g \in SUBSET Id /\ \A x \in DOMAIN g : g[x] \in Nat
    BY <1>1 DEF Id
  <2> HIDE DEF g
  <2> QED BY <2>1, MapOf
<1>5. EmptyMap \in MapsOf(Nat, Endpoints) /\ EmptyMap \in MapsOf(Nat, SUBSET Nat)
      /\ EmptyMap \in MapsOf(Nat, Id) /\ EmptyMap \in MapsOf(Id, Nat) /\ << >> \in Seq(Ops)
  BY EmptyMapIs
<1>6. w = Record(p, f, g, n, Settled[c])
  BY DEF Empty, Record
<1> HIDE DEF p, f, g
<1>7. RecordIs(w, p, f, g, n, Settled[c])
  BY <1>1, <1>2, <1>3, <1>4, <1>6, RecordHolds
<1> QED BY <1>7 DEF Start, RecordIs, p, f, g

\* The log a room starts with.
StartLog(l) ==
    /\ l \in Seq(Ops)
    /\ \A k \in 1..Len(l) : \E id \in SettledNodes : l[k] = Op(id, TRUE, "alive", TRUE)
    /\ \A id \in SettledNodes : \E k \in 1..Len(l) : l[k] = Op(id, TRUE, "alive", TRUE)

LEMMA StartLogIs == StartLog(InOrder({Op(id, TRUE, "alive", TRUE) : id \in SettledNodes}))
<1> DEFINE S == {Op(id, TRUE, "alive", TRUE) : id \in SettledNodes}
           l == InOrder(S)
<1>1. IsFiniteSet(S)
  <2> DEFINE f == [id \in SettledNodes |-> Op(id, TRUE, "alive", TRUE)]
  <2>1. DOMAIN f = SettledNodes /\ f = [x \in SettledNodes |-> f[x]] /\ S = {f[x] : x \in SettledNodes}
    OBVIOUS
  <2> HIDE DEF f, S
  <2> QED BY SettledFinite, <2>1, ImageFinite
<1>2. SettledNodes \subseteq Id
  BY ClientAssumption DEF SettledNodes, Id
<1>3. S \subseteq Ops
  <2> SUFFICES ASSUME NEW id \in Id PROVE Op(id, TRUE, "alive", TRUE) \in Ops
    BY <1>2
  <2> QED BY DEF Op, Ops
<1>4. \A x : x \in S <=> \E id \in SettledNodes : x = Op(id, TRUE, "alive", TRUE)
  OBVIOUS
<1> HIDE DEF S
<1>5. l \in Seq(S) /\ Range(l) = S
  BY <1>1, InOrderIs
<1> HIDE DEF l
<1>6. l \in Seq(Ops)
  BY <1>3, <1>5
<1>7. (\A k \in 1..Len(l) : l[k] \in S) /\ \A x \in S : \E k \in 1..Len(l) : l[k] = x
  BY <1>5, PlacesAre
<1>8. StartLog(l)
  BY <1>4, <1>6, <1>7 DEF StartLog
<1> QED BY <1>8 DEF l, S

LEMMA SettledAre ==
  /\ \A c \in Client : Settled[c] \in Nat
  /\ \A c \in Client, k \in Nat : <<c, k>> \in SettledNodes <=> k < Settled[c]
  /\ \A id \in SettledNodes : id \in Id /\ id[2] < Settled[id[1]]
<1>1. \A c \in Client : Settled[c] \in Nat
  BY ClientAssumption
<1>2. \A c \in Client : Settled[c] \in Nat /\ \A k : k \in 0..Settled[c] - 1 <=> k \in Nat /\ k < Settled[c]
  BY <1>1
<1>3. \A id : id \in SettledNodes <=> \E c \in Client : id \in {c} \X (0..Settled[c] - 1)
  BY DEF SettledNodes
<1>4. ASSUME NEW c \in Client, NEW k \in Nat PROVE <<c, k>> \in SettledNodes <=> k < Settled[c]
  BY <1>2, <1>3
<1>5. ASSUME NEW id \in SettledNodes PROVE id \in Id /\ id[2] < Settled[id[1]]
  BY <1>2, <1>3 DEF Id
<1> QED BY <1>1, <1>4, <1>5

LEMMA StartSane ==
  ASSUME NEW c \in Client, NEW n, NEW w, Start(c, n, w)
  PROVE  Sane(c, w)
<1> DEFINE mine == 0..Settled[c] - 1
<1>1. Settled[c] \in Nat /\ mine \subseteq Nat
  BY ClientAssumption
<1>2. /\ DOMAIN w.presence = mine /\ DOMAIN w.endpoints = {} /\ DOMAIN w.links = {}
      /\ DOMAIN w.node_of_entity = mine /\ DOMAIN w.edge_of_entity = {} /\ DOMAIN w.entity_of_edge = {}
      /\ DOMAIN w.entity_of_node = {c} \X mine
  BY EmptyMapIs DEF Start
<1>3. Mirrored(w.node_of_entity, w.entity_of_node) /\ Mirrored(w.edge_of_entity, w.entity_of_edge)
  <2>1. \A e \in mine : w.node_of_entity[e] = <<c, e>>
    BY DEF Start
  <2>2. \A id \in {c} \X mine : w.entity_of_node[id] = id[2] /\ id[2] \in mine /\ id = <<c, id[2]>>
    BY DEF Start
  <2>3. \A e \in mine : <<c, e>> \in {c} \X mine /\ w.entity_of_node[<<c, e>>] = e
    BY DEF Start
  <2> HIDE DEF mine
  <2>4. Mirrored(w.node_of_entity, w.entity_of_node)
    <3> DEFINE F == w.node_of_entity
               G == w.entity_of_node
    <3>1. \A e \in DOMAIN F : F[e] = <<c, e>> /\ <<c, e>> \in DOMAIN G /\ G[<<c, e>>] = e
      BY <1>2, <2>1, <2>3
    <3>2. \A id \in DOMAIN G : G[id] = id[2] /\ id[2] \in DOMAIN F /\ id = <<c, id[2]>>
      BY <1>2, <2>2
    <3> HIDE DEF F, G
    <3>3. \A e \in DOMAIN F : F[e] \in DOMAIN G /\ G[F[e]] = e
      BY <3>1
    <3>4. \A id \in DOMAIN G : G[id] \in DOMAIN F /\ F[G[id]] = id
      <4> TAKE id \in DOMAIN G
      <4> DEFINE e == id[2]
      <4>1. G[id] = e /\ e \in DOMAIN F /\ id = <<c, e>>
        BY <3>2
      <4> HIDE DEF e
      <4> QED BY <3>1, <4>1
    <3> QED BY <3>3, <3>4 DEF Mirrored, F, G
  <2> QED BY <1>2, <2>4 DEF Mirrored
<1>4. IsFiniteSet(Named(w))
  <2>1. Named(w) = mine
    BY <1>2 DEF Named, Entities, Start
  <2>2. IsFiniteSet(mine)
    BY <1>1, FS_Interval
  <2> QED BY <2>1, <2>2
<1>5. Apart(w) /\ Linked(w) /\ Known(w)
  BY <1>2 DEF Apart, Linked, Known, Entities, Start
<1>6. Own(c, w)
  <2>1. \A id \in {c} \X mine : id[1] = c /\ id[2] < Settled[c]
    BY <1>1
  <2> HIDE DEF mine
  <2> QED BY <1>2, <2>1 DEF Own, Start
<1> QED BY <1>3, <1>4, <1>5, <1>6 DEF Sane, Start

LEMMA StartOk ==
  ASSUME NEW c \in Client, NEW l, StartLog(l), NEW n \in Nat, n <= Len(l), NEW w, Start(c, n, w)
  PROVE  Ok(c, w, l, << >>, 0, {}, {})
<1>1. Sane(c, w)
  BY StartSane
<1>2. /\ l \in Seq(Ops)
      /\ \A k \in 1..Len(l) : l[k].value = TRUE /\ l[k].field = "alive" /\ l[k].target \in SettledNodes
      /\ \A id \in SettledNodes : \E k \in 1..Len(l) :
           l[k].target = id /\ l[k].field = "alive" /\ l[k].value = TRUE
  <2>1. \A id, x : x = Op(id, TRUE, "alive", TRUE) => x.target = id /\ x.field = "alive" /\ x.value = TRUE
    BY DEF Op
  <2>2. ASSUME NEW k \in 1..Len(l)
        PROVE  l[k].value = TRUE /\ l[k].field = "alive" /\ l[k].target \in SettledNodes
    <3>1. PICK id \in SettledNodes : l[k] = Op(id, TRUE, "alive", TRUE)
      BY DEF StartLog
    <3> QED BY <2>1, <3>1
  <2>3. ASSUME NEW id \in SettledNodes
        PROVE  \E k \in 1..Len(l) : l[k].target = id /\ l[k].field = "alive" /\ l[k].value = TRUE
    <3>1. PICK k \in 1..Len(l) : l[k] = Op(id, TRUE, "alive", TRUE)
      BY DEF StartLog
    <3> QED BY <2>1, <3>1
  <2>4. l \in Seq(Ops)
    BY DEF StartLog
  <2> QED BY <2>2, <2>3, <2>4
<1>3. /\ DOMAIN w.presence = 0..Settled[c] - 1 /\ DOMAIN w.node_of_entity = 0..Settled[c] - 1
      /\ (\A e \in 0..Settled[c] - 1 : w.presence[e] = TRUE /\ w.node_of_entity[e] = <<c, e>>)
      /\ DOMAIN w.endpoints = {} /\ DOMAIN w.edge_of_entity = {} /\ DOMAIN w.entity_of_edge = {}
      /\ DOMAIN w.entity_of_node = {c} \X (0..Settled[c] - 1)
      /\ w.next = Settled[c] /\ w.applied = n /\ w.removed = {} /\ Settled[c] \in Nat
  BY EmptyMapIs, SettledAre DEF Start
<1>4. \A id \in SettledNodes : Announced(l, << >>, id, TRUE)
  BY <1>2 DEF Announced, Said
<1>5. \A id : Reg(l, n, id, "alive") # FALSE
  <2> TAKE id
  <2>1. \A k \in 1..n : l[k].value = TRUE
    <3>1. Len(l) \in Nat
      BY <1>2
    <3> QED BY <1>2, <3>1
  <2>2. CASE Reg(l, n, id, "alive") = None
    BY <2>2, NoneAssumption
  <2>3. CASE \E k \in 1..n : Reg(l, n, id, "alive") = l[k].value
    BY <2>1, <2>3
  <2>4. \/ Reg(l, n, id, "alive") = None
        \/ \E k \in 1..n : Reg(l, n, id, "alive") = l[k].value
    <3> DEFINE field == "alive"
    <3> HIDE DEF field
    <3>1. \/ Reg(l, n, id, field) = None
          \/ \E k \in 1..n : Reg(l, n, id, field) = l[k].value
      BY RegIs
    <3> QED BY <3>1 DEF field
  <2> QED BY <2>2, <2>3, <2>4
<1>6. NodesAgree(w, l, << >>)
  <2> SUFFICES ASSUME NEW e \in 0..Settled[c] - 1
               PROVE  Agrees(w, l, << >>, e, w.node_of_entity[e], w.presence[e])
    BY <1>3 DEF NodesAgree
  <2>1. <<c, e>> \in SettledNodes
    BY <1>3, SettledAre
  <2> QED BY <1>3, <1>4, <1>5, <2>1 DEF Agrees
<1>7. EdgesAgree(w, l, << >>) /\ Hangs(w, {})
  BY <1>3 DEF EdgesAgree, Hangs
<1>8. Ended(c, w, l, << >>)
  BY <1>3 DEF Ended, IsBound
<1>9. \A id : Tombstones(l, id) = {} /\ Tombstones(<< >>, id) = {}
  BY <1>2 DEF Tombstones
<1>10. Counted(c, w, l, << >>, 0)
  <2> SUFFICES ASSUME NEW k \in Nat
               PROVE  Cardinality(Tombstones(l, <<c, k>>)) + Cardinality(Tombstones(<< >>, <<c, k>>))
                        <= 0 + IF IsBound(w, <<c, k>>) THEN 0 ELSE 1
    BY DEF Counted
  <2>1. Cardinality(Tombstones(l, <<c, k>>)) = 0 /\ Cardinality(Tombstones(<< >>, <<c, k>>)) = 0
    BY <1>9, FS_EmptySet
  <2> QED BY <2>1
<1>11. Grieved(w, << >>, {})
  BY <1>3 DEF Grieved
<1>12. << >> \in Seq(Ops) /\ Len(<< >>) = 0
  OBVIOUS
<1> QED BY <1>1, <1>3, <1>6, <1>7, <1>8, <1>10, <1>11, <1>12 DEF Ok

\* A client that is not connected has an empty world.
LEMMA StartEmpty ==
  ASSUME NEW c \in Client, Settled[c] = 0, NEW w, Start(c, 0, w)
  PROVE  w = Empty
<1>1. 0..Settled[c] - 1 = {}
  OBVIOUS
<1>2. w.presence = EmptyMap /\ w.node_of_entity = EmptyMap /\ w.entity_of_node = EmptyMap
  BY <1>1, Zenon DEF Start, EmptyMap
<1>3. /\ w \in World /\ w.next = 0 /\ w.applied = 0 /\ w.endpoints = EmptyMap /\ w.links = EmptyMap
      /\ w.edge_of_entity = EmptyMap /\ w.entity_of_edge = EmptyMap
      /\ w.pending = {} /\ w.added = {} /\ w.changed = {} /\ w.removed = {} /\ w.queue = << >>
  BY DEF Start
<1>4. w = [presence |-> w.presence, endpoints |-> w.endpoints, links |-> w.links, pending |-> w.pending,
           added |-> w.added, changed |-> w.changed, removed |-> w.removed,
           node_of_entity |-> w.node_of_entity, entity_of_node |-> w.entity_of_node,
           edge_of_entity |-> w.edge_of_entity, entity_of_edge |-> w.entity_of_edge,
           queue |-> w.queue, applied |-> w.applied, next |-> w.next]
  BY <1>3 DEF World
<1> QED BY <1>2, <1>3, <1>4 DEF Empty

LEMMA StartFit ==
  ASSUME NEW l, StartLog(l), NEW ws, \A c \in Client : \E n \in Nat : Start(c, n, ws[c])
  PROVE  LogOk(l, ws)
<1> SUFFICES ASSUME NEW k \in 1..Len(l) PROVE Meant(l[k], ws)
  BY DEF LogOk, StartLog
<1> DEFINE op == l[k]
<1>1. PICK id \in SettledNodes : op = Op(id, TRUE, "alive", TRUE)
  BY DEF StartLog
<1>2. op \in Ops
  BY DEF StartLog
<1> HIDE DEF op
<1>3. id \in Id /\ id[2] < Settled[id[1]] /\ id[1] \in Client
  BY SettledAre DEF Id
<1> DEFINE w == ws[id[1]]
<1>4. w.next = Settled[id[1]] /\ DOMAIN w.entity_of_edge = {}
  BY <1>3, EmptyMapIs DEF Start
<1> HIDE DEF w
<1>5. Fit(op, w)
  BY <1>1, <1>2, <1>3, <1>4 DEF Fit, Op
<1>6. op.target = id
  BY <1>1 DEF Op
<1> QED BY <1>5, <1>6 DEF Meant, w, op

LEMMA InitHolds == Init => IInv
<1> SUFFICES ASSUME Init PROVE IInv
  OBVIOUS
<1>1. log = InOrder({Op(id, TRUE, "alive", TRUE) : id \in SettledNodes})
  BY DEF Init
<1>2. StartLog(log)
  BY <1>1, StartLogIs
<1>3. Len(log) \in Nat
  BY <1>2 DEF StartLog
<1>4. ASSUME NEW c \in Client
      PROVE  Start(c, IF c \in First THEN Len(log) ELSE 0, world[c])
  <2> DEFINE n == IF c \in First THEN Len(log) ELSE 0
             w == world[c]
  <2>1. w = [Empty EXCEPT !.presence = [e \in 0..Settled[c] - 1 |-> TRUE],
                          !.node_of_entity = [e \in 0..Settled[c] - 1 |-> <<c, e>>],
                          !.entity_of_node = [id \in {c} \X (0..Settled[c] - 1) |-> id[2]],
                          !.next = Settled[c],
                          !.applied = n]
    BY DEF Init
  <2>2. n \in Nat
    BY <1>3
  <2> HIDE DEF n, w
  <2>3. Start(c, n, w)
    BY <2>1, <2>2, StartIs
  <2> QED BY <2>3 DEF n, w
<1>5. /\ joined = First /\ peerOps = 0 /\ bare = {} /\ First \subseteq Client
      /\ world = [c \in Client |-> world[c]] /\ wire = [c \in Client |-> wire[c]]
      /\ gone = [c \in Client |-> gone[c]]
      /\ \A c \in Client : wire[c] = << >> /\ gone[c] = {}
  BY ClientAssumption DEF Init
<1>6. LogOk(log, world)
  BY <1>2, <1>3, <1>4, StartFit
<1>7. ASSUME NEW c \in Client
      PROVE  /\ Ok(c, world[c], log, wire[c], peerOps, gone[c], bare)
             /\ c \notin joined => world[c] = Empty /\ wire[c] = << >>
  <2> DEFINE n == IF c \in First THEN Len(log) ELSE 0
             w == world[c]
  <2>1. n \in Nat /\ n <= Len(log) /\ (c \notin joined => n = 0 /\ Settled[c] = 0) /\ Start(c, n, w)
    BY <1>3, <1>4, <1>5, ClientAssumption
  <2> HIDE DEF n, w
  <2>2. Ok(c, w, log, << >>, 0, {}, {})
    BY <1>2, <2>1, StartOk
  <2>3. c \notin joined => w = Empty
    BY <2>1, StartEmpty
  <2> QED BY <1>5, <2>2, <2>3 DEF w
<1> QED BY <1>3, <1>5, <1>6, <1>7 DEF IInv

LEMMA NextKeeps == IInv /\ [Next]_vars => IInv'
<1> SUFFICES ASSUME IInv, [Next]_vars PROVE IInv'
  OBVIOUS
<1>1. joined \subseteq Client
  BY DEF IInv
<1>2. CASE UNCHANGED vars
  BY <1>2 DEF vars, IInv
<1>3. ASSUME NEW c \in joined, UserSpawnNode(c) \/ UserSpawnEdge(c) PROVE IInv'
  BY <1>1, <1>3, SpawnsKeep
<1>4. ASSUME NEW c \in joined, UserDespawn(c) PROVE IInv'
  BY <1>1, <1>4, UserDespawnKeeps
<1>5. ASSUME NEW c \in joined, UserRemoveNode(c) PROVE IInv'
  BY <1>1, <1>5, UserRemoveNodeKeeps
<1>6. ASSUME NEW c \in Client, Frame(c) PROVE IInv'
  BY <1>6, FrameKeeps
<1>7. ASSUME NEW c \in Client, Join(c) PROVE IInv'
  BY <1>7, JoinKeeps
<1>8. ASSUME NEW c \in Client, Log(c) PROVE IInv'
  BY <1>8, LogKeeps
<1>9. CASE PeerTombstone
  BY <1>9, PeerTombstoneKeeps
<1> QED BY <1>2, <1>3, <1>4, <1>5, <1>6, <1>7, <1>8, <1>9 DEF Next

\* The ids, the index, and what was announced hold together in every state.
THEOREM InvariantHolds == Spec => []IInv
<1>1. Init => IInv
  BY InitHolds
<1>2. IInv /\ [Next]_vars => IInv'
  BY NextKeeps
<1> QED BY <1>1, <1>2, PTL DEF Spec

-----------------------------------------------------------------------------
(* What follows. *)

\* The two halves of every client's index mirror each other and agree with
\* what lives (bind_node, bind_edge, unbind_node, unbind_edge).
THEOREM IndexStaysExact == Spec => []IndexIsExact
<1>1. IInv => IndexIsExact
  <2> SUFFICES ASSUME IInv, NEW c \in Client
               PROVE  LET w == world[c]
                          Mirror(f, g) == /\ Range(f) = DOMAIN g /\ Range(g) = DOMAIN f
                                          /\ \A e \in DOMAIN f : g[f[e]] = e
                          bound == DOMAIN w.node_of_entity \cup DOMAIN w.edge_of_entity
                      IN /\ Mirror(w.node_of_entity, w.entity_of_node)
                         /\ Mirror(w.edge_of_entity, w.entity_of_edge)
                         /\ bound \subseteq Entities(w) \cup w.removed
                         /\ \A e \in Entities(w) \ (bound \cup w.added) :
                              e \in DOMAIN w.links /\ Cardinality(w.links[e]) < 2
    BY DEF IndexIsExact
  <2> DEFINE w == world[c]
  <2>1. /\ Mirrored(w.node_of_entity, w.entity_of_node) /\ Mirrored(w.edge_of_entity, w.entity_of_edge)
        /\ Apart(w) /\ Known(w)
    BY DEF IInv, Ok, Sane
  <2> HIDE DEF w
  <2>2. /\ Range(w.node_of_entity) = DOMAIN w.entity_of_node /\ Range(w.entity_of_node) = DOMAIN w.node_of_entity
        /\ \A e \in DOMAIN w.node_of_entity : w.entity_of_node[w.node_of_entity[e]] = e
    BY <2>1, MirrorIds DEF Mirrored
  <2>3. /\ Range(w.edge_of_entity) = DOMAIN w.entity_of_edge /\ Range(w.entity_of_edge) = DOMAIN w.edge_of_entity
        /\ \A e \in DOMAIN w.edge_of_entity : w.entity_of_edge[w.edge_of_entity[e]] = e
    BY <2>1, MirrorIds DEF Mirrored
  <2>4. DOMAIN w.node_of_entity \cup DOMAIN w.edge_of_entity \subseteq Entities(w) \cup w.removed
    BY <2>1 DEF Apart, Entities
  <2>5. \A e \in Entities(w) \ ((DOMAIN w.node_of_entity \cup DOMAIN w.edge_of_entity) \cup w.added) :
          e \in DOMAIN w.links /\ Cardinality(w.links[e]) < 2
    BY <2>1 DEF Apart, Entities, Known
  <2> QED BY <2>2, <2>3, <2>4, <2>5, Zenon DEF w
<1> QED BY <1>1, InvariantHolds, PTL

\* A client announces only the ends its user brought about, each once
\* (detect_local_node_despawn, despawn_tombstoned_nodes).
THEOREM OnlyOwnTombstones == Spec => []TombstonesAreOwn
<1>1. IInv => TombstonesAreOwn
  <2> SUFFICES ASSUME IInv, NEW c \in Client
               PROVE  /\ \A op \in Range(wire[c]) : op.node /\ ~op.value => op.target \in gone[c]
                      /\ \A id \in {c} \X (0..MaxIds[c] - 1) :
                           Cardinality(Tombstones(log, id)) + Cardinality(Tombstones(wire[c], id)) <= 1 + peerOps
    BY DEF TombstonesAreOwn
  <2> DEFINE s == wire[c]
             w == world[c]
  <2>1. Grieved(w, s, gone[c]) /\ Counted(c, w, log, s, peerOps) /\ s \in Seq(Ops) /\ peerOps \in Nat
        /\ log \in Seq(Ops)
    BY DEF IInv, Ok, LogOk
  <2> HIDE DEF s, w
  <2>2. ASSUME NEW op \in Range(s), op.node, ~op.value PROVE op.target \in gone[c]
    <3>1. PICK k \in 1..Len(s) : s[k] = op
      BY <2>1, PlacesAre
    <3> QED BY <2>1, <2>2, <3>1 DEF Grieved
  <2>3. ASSUME NEW id \in {c} \X (0..MaxIds[c] - 1)
        PROVE  Cardinality(Tombstones(log, id)) + Cardinality(Tombstones(s, id)) <= 1 + peerOps
    <3> DEFINE k == id[2]
               a == Cardinality(Tombstones(log, id))
               b == Cardinality(Tombstones(s, id))
               n == IF IsBound(w, <<c, k>>) THEN 0 ELSE 1
    <3>1. k \in Nat /\ id = <<c, k>>
      BY BoundAssumption
    <3>2. a + b <= peerOps + n
      BY <2>1, <3>1 DEF Counted
    <3>3. a \in Nat /\ b \in Nat /\ n \in 0..1
      BY <2>1, TombstonesFinite
    <3> HIDE DEF a, b, n
    <3>4. a + b <= 1 + peerOps
      BY <2>1, <3>2, <3>3
    <3> QED BY <3>4 DEF a, b
  <2> QED BY <2>2, <2>3 DEF s
<1> QED BY <1>1, InvariantHolds, PTL

\* At rest the last word on a bound id is that it lives.
LEMMA BoundIsAlive ==
  ASSUME IInv, NEW c \in Client, AtRest(c), NEW id \in Bound(c)
  PROVE  Alive(id)
<1> DEFINE w == world[c]
           n == Len(log)
<1>1. /\ Sane(c, w) /\ Apart(w) /\ NodesAgree(w, log, << >>) /\ EdgesAgree(w, log, << >>)
      /\ Mirrored(w.node_of_entity, w.entity_of_node) /\ Mirrored(w.edge_of_entity, w.entity_of_edge)
  BY DEF IInv, Ok, Sane, AtRest
<1>2. w.changed = {} /\ w.removed = {} /\ w.applied = n /\ n \in Nat
      /\ \A k \in 1..n : log[k].field = "alive" => log[k].value \in BOOLEAN
  <2>1. w.changed = {} /\ w.removed = {} /\ w.applied = n
    BY DEF AtRest
  <2>2. log \in Seq(Ops) /\ \A k \in 1..n : Meant(log[k], world)
    BY DEF IInv, LogOk
  <2> HIDE DEF w
  <2>3. \A k \in 1..n : log[k].field = "alive" => log[k].value \in BOOLEAN
    BY <2>2 DEF Meant, Fit
  <2> QED BY <2>1, <2>2, <2>3
<1>3. id \in DOMAIN w.entity_of_node \/ id \in DOMAIN w.entity_of_edge
  BY DEF Bound
<1> HIDE DEF w, n
<1>4. \E e, alive : Agrees(w, log, << >>, e, id, alive)
  <2>1. CASE id \in DOMAIN w.entity_of_node
    <3> DEFINE e == w.entity_of_node[id]
    <3>1. e \in DOMAIN w.node_of_entity /\ w.node_of_entity[e] = id
      BY <1>1, <2>1 DEF Mirrored
    <3>2. e \in DOMAIN w.presence
      BY <1>1, <1>2, <3>1 DEF Apart
    <3> QED BY <1>1, <3>1, <3>2 DEF NodesAgree
  <2>2. CASE id \in DOMAIN w.entity_of_edge
    <3> DEFINE e == w.entity_of_edge[id]
    <3>1. e \in DOMAIN w.edge_of_entity /\ w.edge_of_entity[e] = id
      BY <1>1, <2>2 DEF Mirrored
    <3>2. e \in DOMAIN w.endpoints
      BY <1>1, <1>2, <3>1 DEF Apart
    <3> QED BY <1>1, <3>1, <3>2 DEF EdgesAgree
  <2> QED BY <1>3, <2>1, <2>2
<1>5. Announced(log, << >>, id, TRUE) /\ Reg(log, n, id, "alive") # FALSE
  BY <1>2, <1>4 DEF Agrees
<1>6. Said(log, n, id, TRUE)
  BY <1>5 DEF Announced, Said, n
<1>7. Reg(log, n, id, "alive") = TRUE
  BY <1>2, <1>5, <1>6, RegTrue
<1> QED BY <1>7, RegisterIs DEF Alive, n

\* At rest an id the log says is alive is bound, or came back.
LEMMA AliveIsBound ==
  ASSUME IInv, NEW c \in Client, AtRest(c), NEW id \in Id, id[1] = c, Alive(id)
  PROVE  id \in Bound(c) \/ Revived(id)
<1> SUFFICES ASSUME id \notin Bound(c) PROVE Revived(id)
  OBVIOUS
<1> DEFINE w == world[c]
           n == Len(log)
<1>1. Ended(c, w, log, << >>) /\ w.next \in Nat
  BY DEF IInv, Ok, AtRest, Sane, World
<1>2. n \in Nat /\ log \in Seq(Ops) /\ \A k \in 1..n : log[k] \in Ops /\ Meant(log[k], world)
  BY DEF IInv, LogOk
<1>3. Reg(log, n, id, "alive") = TRUE
  BY RegisterIs DEF Alive
<1>4. ~IsBound(w, id)
  BY DEF Bound, IsBound
<1> HIDE DEF w, n
<1>5. PICK k \in 1..n : /\ log[k].target = id /\ log[k].field = "alive" /\ log[k].value = TRUE
                        /\ \A j \in 1..n : log[j].target = id /\ log[j].field = "alive" => j <= k
  <2> DEFINE field == "alive"
  <2>1. Reg(log, n, id, field) = TRUE /\ None # TRUE
    BY <1>3, NoneAssumption
  <2> HIDE DEF field
  <2>2. \E k \in 1..n : /\ log[k].target = id /\ log[k].field = field /\ log[k].value = TRUE
                        /\ \A j \in 1..n : log[j].target = id /\ log[j].field = field => j <= k
    <3>1. CASE Reg(log, n, id, field) = None
      BY <2>1, <3>1
    <3>2. CASE \E k \in 1..n : /\ log[k].target = id /\ log[k].field = field
                               /\ \A j \in 1..n : log[j].target = id /\ log[j].field = field => j <= k
                               /\ Reg(log, n, id, field) = log[k].value
      BY <2>1, <3>2
    <3>3. \/ Reg(log, n, id, field) = None
          \/ \E k \in 1..n : /\ log[k].target = id /\ log[k].field = field
                             /\ \A j \in 1..n : log[j].target = id /\ log[j].field = field => j <= k
                             /\ Reg(log, n, id, field) = log[k].value
      BY <1>2, RegIs
    <3> QED BY <3>1, <3>2, <3>3
  <2> QED BY <2>2 DEF field
<1>60. id \in Id /\ Fit(log[k], w)
  BY <1>2, <1>5 DEF Meant, w
<1>6. id[2] < w.next /\ id[2] \in Nat /\ id = <<c, id[2]>>
  <2>1. id[2] \in Nat /\ id = <<id[1], id[2]>>
    BY <1>60 DEF Id
  <2>2. id[2] < w.next
    BY <1>5, <1>60 DEF Fit
  <2> QED BY <2>1, <2>2
<1>7. Announced(log, << >>, id, FALSE)
  <2> DEFINE m == id[2]
  <2>1. m \in 0..w.next - 1 /\ id = <<c, m>>
    BY <1>1, <1>6
  <2> HIDE DEF m
  <2>2. IsBound(w, <<c, m>>) \/ Announced(log, << >>, <<c, m>>, FALSE)
    BY <1>1, <2>1 DEF Ended
  <2> QED BY <1>4, <2>1, <2>2
<1>8. PICK j \in 1..n : log[j].target = id /\ log[j].field = "alive" /\ log[j].value = FALSE
  BY <1>7 DEF Announced, Said, n
<1>9. j < k
  <2>1. j <= k /\ j # k
    BY <1>5, <1>8
  <2> QED BY <1>2, <2>1
<1>10. /\ log[j] = Op(id, log[j].node, "alive", FALSE)
       /\ log[k] = Op(id, log[k].node, "alive", TRUE)
  <2>1. \A x \in Ops : x = Op(x.target, x.node, x.field, x.value)
    BY DEF Ops, Op
  <2> QED BY <1>2, <1>5, <1>8, <2>1
<1> QED BY <1>9, <1>10 DEF Revived, n

\* At rest a client's world is what of its own is alive in the room, but for
\* what came back.
THEOREM RestIsTheRoom == Spec => []RestingWorldIsTheRoom
<1>1. IInv => RestingWorldIsTheRoom
  <2> SUFFICES ASSUME IInv, NEW c \in Client, AtRest(c), NEW id \in {c} \X (0..MaxIds[c] - 1)
               PROVE  Revived(id) \/ (id \in Bound(c) <=> Alive(id))
    BY DEF RestingWorldIsTheRoom
  <2>1. id \in Id /\ id[1] = c
    BY BoundAssumption DEF Id
  <2> QED BY <2>1, BoundIsAlive, AliveIsBound
<1> QED BY <1>1, InvariantHolds, PTL

\* At rest no edge outlives its ends, but for what users left behind or came
\* back (despawn_tombstoned_nodes, RemoveNode).
THEOREM EdgesDie == Spec => []EdgesDieWithTheirNodes
<1>1. IInv => EdgesDieWithTheirNodes
  <2> SUFFICES ASSUME IInv, \A c \in joined : AtRest(c), NEW op \in Range(log), op.field = "ends", Alive(op.target),
                      ~Revived(op.target), NEW id \in op.value
               PROVE  Alive(id) \/ id \in bare
    BY DEF EdgesDieWithTheirNodes
  <2> DEFINE c == op.target[1]
             w == world[c]
  <2>1. op \in Ops /\ Fit(op, w)
    <3>1. log \in Seq(Ops) /\ \A k \in 1..Len(log) : Meant(log[k], world)
      BY DEF IInv, LogOk
    <3>2. PICK k \in 1..Len(log) : log[k] = op
      BY <3>1, PlacesAre
    <3> QED BY <3>1, <3>2 DEF Meant
  <2>2. op.target \in Id /\ c \in Client /\ op.target[2] \in Nat
    BY <2>1 DEF Ops, Id
  <2>3. c \in joined
    <3> SUFFICES ASSUME c \notin joined PROVE FALSE
      OBVIOUS
    <3>1. w = Empty
      BY <2>2 DEF IInv
    <3>2. op.target[2] < 0
      BY <2>1, <3>1 DEF Fit, Empty
    <3> QED BY <2>2, <3>2
  <2>4. AtRest(c)
    BY <2>3
  <2>5. op.target \in Bound(c)
    BY <2>2, <2>4, AliveIsBound
  <2>6. /\ Apart(w) /\ Hangs(w, bare) /\ Mirrored(w.edge_of_entity, w.entity_of_edge) /\ w.removed = {}
    BY <2>2, <2>4 DEF IInv, Ok, Sane, AtRest
  <2>7. op.target \in DOMAIN w.entity_of_edge
    BY <2>1, <2>5 DEF Fit, Bound
  <2> DEFINE e == w.entity_of_edge[op.target]
  <2>8. e \in DOMAIN w.edge_of_entity /\ e \in DOMAIN w.endpoints
    BY <2>6, <2>7 DEF Mirrored, Apart
  <2>9. op.value = w.endpoints[e].ends
    BY <2>1, <2>7, <2>8 DEF Fit
  <2>10. id \in bare \/ id \in DOMAIN w.entity_of_node
    BY <2>6, <2>8, <2>9 DEF Hangs
  <2>11. ASSUME id \in DOMAIN w.entity_of_node PROVE Alive(id)
    <3>1. id \in Bound(c)
      BY <2>11 DEF Bound
    <3> QED BY <2>2, <2>4, <3>1, BoundIsAlive
  <2> QED BY <2>10, <2>11
<1> QED BY <1>1, InvariantHolds, PTL
=============================================================================
