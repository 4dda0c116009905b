-------------------------- MODULE SceneAgentProofs --------------------------
(***************************************************************************)
(* Proofs about the agent that watches and edits a scene (AgentWatch), as  *)
(* a part of the SceneAgent: its watch buffer reports every removal under  *)
(* a captured path, and its client's picture of the scene is exact up to   *)
(* the rows it dropped or has yet to read.                                 *)
(*                                                                         *)
(* The runs' invariants say what holds when everything is at rest.  They   *)
(* follow from what holds at every step (InStep): a node the client is wrong *)
(* about has a row in the buffer, or a change that waits for its frame, or *)
(* a row that the client's own filter dropped.                             *)
(*                                                                         *)
(* And about the keys that order siblings (OrderKeys): each lies between   *)
(* those of its neighbours, and none is longer than the siblings are many. *)
(***************************************************************************)
EXTENDS SceneAgent, FoldProofs

\* Rows whose paths are some of P.
Row(P) == [kind : {"Added", "Removed", "Moved", "Modified"}, gen : Nat, path : P]
RowMaps(P) == UNION {[S -> Row(P)] : S \in SUBSET Node}
Msg == [kind : {"Added", "Removed", "Moved"}, node : Node]
Buffer(P) == [rows : RowMaps(P), overflowed : BOOLEAN, generation : Nat]

\* The paths a frame may put in a row.
Captured(P) == None \in P /\ \A n \in DOMAIN captured : captured[n] \in P

-----------------------------------------------------------------------------
(* The inductive invariant. *)

\* What a removal is to be reported under.
Owed(n) == IF went[n].by = n THEN went[n].path ELSE <<Last(went[n].path)>>

\* Changes of nodes that are alive wait for the frame, and removals of nodes
\* that are not, each with its captured path.
SceneFits ==
    /\ born \subseteq Node /\ live \subseteq born
    /\ added \subseteq live /\ moved \subseteq live
    /\ removed \subseteq born \ live /\ DOMAIN captured = removed
    /\ \A n \in removed : n \in DOMAIN went /\ captured[n] = Owed(n)

\* The buffer is within its capacity; a row says that a node is gone, and by
\* which path, or the node is alive or about to be reported.
RowFits(n) == IF rows[n].kind = "Removed" THEN n \notin live /\ n \in DOMAIN went /\ rows[n].path = Owed(n)
              ELSE n \in live \cup removed

RowsFit ==
    /\ overflowed \in BOOLEAN /\ generation \in Nat
    /\ \E P : rows \in RowMaps(P)
    /\ DOMAIN rows \subseteq born /\ Cardinality(DOMAIN rows) <= Capacity
    /\ \A n \in DOMAIN rows : RowFits(n)

\* What the client is wrong about is on its way, or was dropped.
Pictured(n) == \/ (n \in mirror) <=> (n \in live)
               \/ n \in dropped \/ n \in DOMAIN rows \/ n \in added \/ n \in removed

PictureFits == ~ overflowed /\ ~ told => \A n \in Node : Pictured(n)

\* The answer that is due is about a node that is what the verb made of it.
AnswerFits ==
    \/ calling = Quiet
    \/ calling.verb \in {"create", "move"} /\ calling.node \in live
    \/ calling.verb = "delete" /\ calling.node \in Node \ live

InStep == SceneFits /\ RowsFit /\ PictureFits

\* Where a NodeRef is kept, nobody watches.
Aside == handling # "idle" => told /\ rows = EmptyMap /\ calling = Quiet

IInv == InStep /\ AnswerFits /\ Aside

-----------------------------------------------------------------------------
(* What the scene does. *)

\* The chain up from a node begins with the node.
UpIs(f, n, m) ==
    f = [k \in 0..m |-> IF k = 0 THEN n
                        ELSE IF f[k - 1] = None THEN None ELSE parent[f[k - 1]]]

LEMMA UpExists ==
  ASSUME NEW n, NEW N \in Nat
  PROVE  \E f : UpIs(f, n, N)
<1> DEFINE T == {m \in 0..N : \E f : UpIs(f, n, m)}
<1>1. 0 \in T
  <2> DEFINE f == [k \in 0..0 |-> n]
  <2>1. \A k \in 0..0 : k = 0
    OBVIOUS
  <2>2. f = [k \in 0..0 |-> IF k = 0 THEN n
                            ELSE IF f[k - 1] = None THEN None ELSE parent[f[k - 1]]]
    BY <2>1
  <2> HIDE DEF f
  <2>3. UpIs(f, n, 0)
    BY <2>2 DEF UpIs
  <2> QED BY <2>3
<1>2. ASSUME NEW m \in 0..N-1, m \in T PROVE m + 1 \in T
  <2>1. PICK f : UpIs(f, n, m)
    BY <1>2
  <2> DEFINE next == IF f[m] = None THEN None ELSE parent[f[m]]
             g == [k \in 0..m+1 |-> IF k = m + 1 THEN next ELSE f[k]]
             up(k) == IF k = 0 THEN n ELSE IF g[k - 1] = None THEN None ELSE parent[g[k - 1]]
  <2>2. \A k \in 0..m : f[k] = IF k = 0 THEN n
                               ELSE IF f[k - 1] = None THEN None ELSE parent[f[k - 1]]
    <3> HIDE DEF next
    <3> QED BY <2>1 DEF UpIs
  <2> HIDE DEF next
  <2>3. g[m + 1] = next /\ \A k \in 0..m : g[k] = f[k]
    OBVIOUS
  <2>4. g = [k \in 0..m+1 |-> g[k]]
    OBVIOUS
  <2> HIDE DEF g
  <2>5. ASSUME NEW k \in 0..m+1 PROVE g[k] = up(k)
    <3>1. CASE k = m + 1
      <4>1. k # 0 /\ k - 1 = m /\ m \in 0..m
        BY <3>1
      <4> QED BY <2>3, <3>1, <4>1 DEF next
    <3>2. CASE k # m + 1
      <4>1. k \in 0..m /\ (k # 0 => k - 1 \in 0..m)
        BY <3>2
      <4> QED BY <2>2, <2>3, <4>1
    <3> QED BY <3>1, <3>2
  <2>6. g = [k \in 0..m+1 |-> up(k)]
    <3> HIDE DEF up
    <3> QED BY <2>4, <2>5, Zenon
  <2>7. UpIs(g, n, m + 1)
    BY <2>6, Zenon DEF UpIs
  <2>8. m + 1 \in 0..N
    OBVIOUS
  <2> QED BY <2>7, <2>8
<1> HIDE DEF T
<1>3. \A m \in 0..N : m \in T
  BY <1>1, <1>2, UpTo
<1>4. N \in 0..N
  OBVIOUS
<1> QED BY <1>3, <1>4 DEF T

LEMMA UpStarts ==
  ASSUME NEW n
  PROVE  /\ 0 \in DOMAIN Up(n) /\ Up(n)[0] = n
         /\ DOMAIN Up(n) = 0..Cardinality(Node)
         /\ n # None /\ 1 \in DOMAIN Up(n) => Up(n)[1] = parent[n]
<1> DEFINE N == Cardinality(Node)
           up == CHOOSE f : UpIs(f, n, N)
<1>1. N \in Nat
  BY SceneAssumption, FS_CardinalityType
<1>2. Up(n) = up
  BY Zenon DEF Up, UpIs
<1> HIDE DEF N
<1>3. UpIs(up, n, N)
  <2> HIDE DEF up
  <2>1. \E f : UpIs(f, n, N)
    BY <1>1, UpExists
  <2> QED BY <2>1, Zenon DEF up
<1> HIDE DEF up
<1>4. up = [k \in 0..N |-> IF k = 0 THEN n
                           ELSE IF up[k - 1] = None THEN None ELSE parent[up[k - 1]]]
  BY <1>3 DEF UpIs
<1>5. 0 \in 0..N
  BY <1>1
<1>6. DOMAIN up = 0..N /\ up[0] = n
  BY <1>4, <1>5, Zenon
<1>7. ASSUME n # None, 1 \in 0..N PROVE up[1] = parent[n]
  <2>1. 1 # 0 /\ 1 - 1 = 0
    OBVIOUS
  <2>2. up[1] = IF up[0] = None THEN None ELSE parent[up[0]]
    BY <1>4, <1>7, <2>1, Zenon
  <2> QED BY <1>6, <1>7, <2>2
<1> QED BY <1>2, <1>5, <1>6, <1>7 DEF N

\* What is despawned with a node: itself, and nothing that was not alive.
LEMMA BelowIs ==
  ASSUME NEW n \in live
  PROVE  n \in Below(n) /\ Below(n) \subseteq live
<1>1. Below(n) \subseteq live
  BY DEF Below
<1>2. \E k \in DOMAIN Up(n) : Up(n)[k] = n
  BY UpStarts, Zenon
<1>3. n \in Below(n)
  BY <1>2 DEF Below
<1> QED BY <1>1, <1>3

-----------------------------------------------------------------------------
(* The edits of the scene. *)

\* What an edit leaves alone.
Unread == UNCHANGED <<buffer, client>>

LEMMA PictureOfEdit ==
  ASSUME PictureFits, Unread, added \cup removed \subseteq added' \cup removed',
         \A n \in Node : n \notin added' \cup removed' => (n \in live' <=> n \in live)
  PROVE  PictureFits'
<1>1. ASSUME ~overflowed, ~told, NEW n \in Node PROVE Pictured(n)'
  <2>1. Pictured(n)
    BY <1>1 DEF PictureFits
  <2>2. mirror' = mirror /\ dropped' = dropped /\ rows' = rows
    BY DEF Unread, buffer, client
  <2>3. CASE n \in added' \cup removed'
    BY <2>3 DEF Pictured
  <2>4. CASE n \notin added' \cup removed'
    BY <2>1, <2>2, <2>4 DEF Pictured
  <2> QED BY <2>3, <2>4
<1>2. overflowed' = overflowed /\ told' = told
  BY DEF Unread, buffer, client
<1> QED BY <1>1, <1>2 DEF PictureFits

LEMMA RowsOfEdit ==
  ASSUME RowsFit, Unread, born \subseteq born',
         \A n \in born : n \in live' => n \in live,
         live \cup removed \subseteq live' \cup removed',
         \A n \in DOMAIN went \ live : n \in DOMAIN went' /\ went'[n] = went[n]
  PROVE  RowsFit'
<1>1. rows' = rows /\ overflowed' = overflowed /\ generation' = generation
  BY DEF Unread, buffer
<1>2. \A n \in DOMAIN rows : RowFits(n)'
  BY <1>1 DEF RowsFit, RowFits, Owed
<1> QED BY <1>1, <1>2 DEF RowsFit

LEMMA SpawnFits ==
  ASSUME InStep, NEW n \in Node, NEW p, NEW k, Spawn(n, p, k), Unread
  PROVE  InStep' /\ n \in live'
<1>1. /\ n \notin born
      /\ born' = born \cup {n} /\ live' = live \cup {n}
      /\ added' = added \cup {n} /\ removed' = removed /\ captured' = captured /\ went' = went
      /\ moved' \subseteq moved \cup {n}
  BY DEF Spawn
<1>2. SceneFits'
  BY <1>1 DEF InStep, SceneFits, Owed
<1>3. RowsFit'
  BY <1>1, RowsOfEdit DEF InStep
<1>4. PictureFits'
  BY <1>1, PictureOfEdit DEF InStep
<1> QED BY <1>1, <1>2, <1>3, <1>4 DEF InStep

\* Of what is despawned, the node itself is captured with the path it had, and
\* what goes along with its own label alone.
LEMMA CaptureIs ==
  ASSUME NEW n, NEW m \in Node
  PROVE  LET had == capture_removal_path(m, live)
         IN  capture_removal_path(m, LeftFor(n, m)) = IF n = m THEN had ELSE <<Last(had)>>
<1> DEFINE up == Up(m)
           D == DOMAIN up
           Chain(there) == {k \in D : \A i \in 1..k : up[i] \in there}
           Labels(l) == [k \in 1..l |-> label(up[l - k])]
           had == capture_removal_path(m, live)
           left == live \ {parent[m]}
<1>1. /\ D = 0..Cardinality(Node) /\ up[0] = m
      /\ 1 \in D => up[1] = parent[m]
  BY UpStarts, SceneAssumption
<1>2. Cardinality(Node) \in Nat
  BY SceneAssumption, FS_CardinalityType
<1>3. \A there : capture_removal_path(m, there) = Labels(Cardinality(Chain(there)))
  BY DEF capture_removal_path
<1> HIDE DEF up, had
<1>4. CASE n = m
  BY <1>4 DEF LeftFor, had
<1>5. CASE n # m
  <2>1. LeftFor(n, m) = left
    BY <1>5 DEF LeftFor
  <2>2. ASSUME NEW there PROVE 0 \in Chain(there) /\ IsFiniteSet(Chain(there))
    <3>1. 0 \in Chain(there) /\ Chain(there) \in SUBSET D
      BY <1>1, <1>2
    <3>2. IsFiniteSet(D)
      BY <1>1, <1>2, FS_Interval
    <3> QED BY <3>1, <3>2, FS_Subset
  <2>3. Chain(left) = {0}
    <3>1. ASSUME NEW k \in Chain(left), k # 0 PROVE FALSE
      <4>1. 1 \in D /\ 1 \in 1..k
        BY <1>1, <1>2, <3>1
      <4> QED BY <1>1, <3>1, <4>1
    <3> QED BY <2>2, <3>1
  <2>4. Cardinality(Chain(left)) = 1
    BY <2>3, FS_Singleton
  <2> DEFINE l == Cardinality(Chain(live))
  <2>5. l \in Nat /\ l # 0
    <3>1. Chain(live) # {}
      BY <2>2
    <3> HIDE DEF Chain
    <3> QED BY <2>2, <3>1, FS_CardinalityType, FS_EmptySet
  <2>6. had = Labels(l)
    BY <1>3 DEF had
  <2> HIDE DEF l, Chain, D
  <2>7. Len(had) = l /\ had[l] = label(m)
    BY <1>1, <2>5, <2>6
  <2>8. Last(had) = label(m)
    BY <2>7 DEF Last
  <2>9. Labels(1) = <<label(m)>>
    BY <1>1
  <2> QED BY <1>3, <1>5, <2>1, <2>4, <2>8, <2>9 DEF had
<1> QED BY <1>4, <1>5

LEMMA DespawnInStep ==
  ASSUME InStep, NEW n, Despawn(n), Unread
  PROVE  InStep'
<1> DEFINE Caught(m) == capture_removal_path(m, LeftFor(n, m))
           had(m) == capture_removal_path(m, live)
<1>1. Below(n) \subseteq live
  BY DEF Below
<1>2. /\ born' = born /\ live' = live \ Below(n)
      /\ added' = added \ Below(n) /\ moved' = moved \ Below(n)
      /\ removed' = removed \cup Below(n)
      /\ captured' = PutAll(captured, [m \in Below(n) |-> Caught(m)])
      /\ went' = PutAll(went, [m \in Below(n) |-> [path |-> had(m), by |-> n]])
  BY DEF Despawn
<1>3. SceneFits
  BY DEF InStep
<1>4. ASSUME NEW m \in Below(n) PROVE Caught(m) = IF n = m THEN had(m) ELSE <<Last(had(m))>>
  BY <1>1, <1>3, CaptureIs DEF SceneFits
<1> HIDE DEF Caught, had
<1>5. /\ DOMAIN captured' = DOMAIN captured \cup Below(n)
      /\ \A m \in Below(n) : captured'[m] = Caught(m)
      /\ \A m \in DOMAIN captured \ Below(n) : captured'[m] = captured[m]
      /\ DOMAIN went' = DOMAIN went \cup Below(n)
      /\ \A m \in Below(n) : went'[m] = [path |-> had(m), by |-> n]
      /\ \A m \in DOMAIN went \ Below(n) : went'[m] = went[m]
  BY <1>2 DEF PutAll
<1>6. ASSUME NEW m \in removed' PROVE m \in DOMAIN went' /\ captured'[m] = Owed(m)'
  <2>1. CASE m \in Below(n)
    <3>1. went'[m].path = had(m) /\ went'[m].by = n /\ captured'[m] = Caught(m)
      BY <1>5, <2>1
    <3> QED BY <1>4, <1>5, <2>1, <3>1 DEF Owed
  <2>2. CASE m \notin Below(n)
    <3>1. m \in removed /\ m \in DOMAIN captured /\ m \in DOMAIN went /\ captured[m] = Owed(m)
      BY <1>2, <1>3, <2>2 DEF SceneFits
    <3> QED BY <1>5, <2>2, <3>1 DEF Owed
  <2> QED BY <2>1, <2>2
<1>7. SceneFits'
  BY <1>1, <1>2, <1>3, <1>5, <1>6 DEF SceneFits
<1>8. RowsFit'
  BY <1>1, <1>2, <1>5, RowsOfEdit DEF InStep
<1>9. PictureFits'
  BY <1>1, <1>2, PictureOfEdit DEF InStep
<1> QED BY <1>7, <1>8, <1>9 DEF InStep

LEMMA DespawnFits ==
  ASSUME InStep, NEW n \in live, Despawn(n), Unread
  PROVE  InStep' /\ n \in Node \ live'
<1>1. n \in Below(n) /\ live' = live \ Below(n)
  BY BelowIs DEF Despawn
<1>2. n \in Node
  BY DEF InStep, SceneFits
<1> QED BY <1>1, <1>2, DespawnInStep

LEMMA PlaceFits ==
  ASSUME InStep, NEW n \in live, NEW p, NEW k, Place(n, p, k), Unread
  PROVE  InStep' /\ n \in live'
<1>1. /\ born' = born /\ live' = live /\ added' = added /\ removed' = removed
      /\ captured' = captured /\ moved' = moved \cup {n} /\ went' = went
  BY DEF Place
<1>2. SceneFits'
  BY <1>1 DEF InStep, SceneFits, Owed
<1>3. RowsFit'
  BY <1>1, RowsOfEdit DEF InStep
<1>4. PictureFits'
  BY <1>1, PictureOfEdit DEF InStep
<1> QED BY <1>1, <1>2, <1>3, <1>4 DEF InStep

-----------------------------------------------------------------------------
(* The messages of a frame. *)

Kinds == {"Added", "Removed", "Moved"}

Says(s, kind, S) ==
    /\ s \in Seq(Msg)
    /\ \A i \in DOMAIN s : s[i].kind = kind /\ s[i].node \in S
    /\ \A n \in S : \E i \in DOMAIN s : s[i].node = n

LEMMA SaidIs ==
  ASSUME NEW kind \in Kinds, NEW S \in SUBSET Node, NEW s \in Said(kind, S)
  PROVE  Says(s, kind, S)
<1> DEFINE N == Cardinality(S)
<1>1. IsFiniteSet(S) /\ N \in Nat
  BY SceneAssumption, FS_Subset, FS_CardinalityType
<1>2. PICK f \in SetToSeqs(S) : s = [i \in DOMAIN f |-> [kind |-> kind, node |-> f[i]]]
  BY DEF Said
<1>3. f \in [1..N -> S] /\ \A i, j \in 1..N : i # j => f[i] # f[j]
  BY Zenon DEF SetToSeqs
<1>4. IsFiniteSet(1..N) /\ Cardinality(1..N) = N
  <2> HIDE DEF N
  <2>1. 1 \in Int /\ N \in Int
    BY <1>1
  <2>2. IsFiniteSet(1..N) /\ Cardinality(1..N) = IF 1 > N THEN 0 ELSE N - 1 + 1
    BY <2>1, FS_Interval
  <2> QED BY <1>1, <2>2
<1>5. f \in Injection(1..N, S)
  BY <1>3 DEF Injection, IsInjective
<1>6. f \in Surjection(1..N, S)
  BY <1>1, <1>4, <1>5, FS_Injection DEF N
<1> HIDE DEF N
<1>7. \A n \in S : \E i \in 1..N : f[i] = n
  BY <1>6 DEF Surjection
<1>8. DOMAIN f = 1..N
  BY <1>3
<1>9. DOMAIN s = 1..N /\ \A i \in 1..N : s[i] = [kind |-> kind, node |-> f[i]]
  BY <1>2, <1>8
<1>10. \A i \in 1..N : s[i] \in Msg /\ s[i].kind = kind /\ s[i].node = f[i] /\ f[i] \in S
  <2> TAKE i \in 1..N
  <2>1. f[i] \in S /\ f[i] \in Node
    BY <1>3
  <2>2. [kind |-> kind, node |-> f[i]] \in Msg
    BY <2>1 DEF Msg, Kinds
  <2> QED BY <1>9, <2>1, <2>2
<1>11. s \in Seq(Msg)
  <2>1. s = [i \in 1..N |-> s[i]]
    BY <1>2, <1>9
  <2>2. s \in [1..N -> Msg]
    BY <1>10, <2>1
  <2> QED BY <1>1, <2>2
<1> QED BY <1>7, <1>9, <1>10, <1>11 DEF Says

\* A message for every node added and removed; of a removal, where the node is
\* gone, of anything else, where it is alive.
Tells(msgs) ==
    /\ msgs \in Seq(Msg)
    /\ \A i \in 1..Len(msgs) : IF msgs[i].kind = "Removed" THEN msgs[i].node \in removed
                               ELSE msgs[i].node \in live
    /\ \A n \in added \cup removed : \E i \in 1..Len(msgs) : msgs[i].node = n

\* c has what a and b have.
HasBoth(a, b, c) ==
    /\ c \in Seq(Msg)
    /\ \A i \in DOMAIN c : (\E j \in DOMAIN a : c[i] = a[j]) \/ (\E j \in DOMAIN b : c[i] = b[j])
    /\ \A j \in DOMAIN a : \E i \in DOMAIN c : c[i] = a[j]
    /\ \A j \in DOMAIN b : \E i \in DOMAIN c : c[i] = b[j]

LEMMA BothJoin ==
  ASSUME NEW a \in Seq(Msg), NEW b \in Seq(Msg)
  PROVE  HasBoth(a, b, a \o b)
<1>1. DOMAIN (a \o b) = 1..(Len(a) + Len(b)) /\ Len(a) \in Nat /\ Len(b) \in Nat
      /\ DOMAIN a = 1..Len(a) /\ DOMAIN b = 1..Len(b)
  OBVIOUS
<1>2. \A i \in 1..Len(a) : (a \o b)[i] = a[i] /\ i \in DOMAIN (a \o b)
  BY <1>1
<1>3. \A i \in 1..Len(b) : (a \o b)[Len(a) + i] = b[i] /\ Len(a) + i \in DOMAIN (a \o b)
  BY <1>1
<1>4. \A i \in DOMAIN (a \o b) : \/ i \in 1..Len(a)
                                 \/ i - Len(a) \in 1..Len(b) /\ i = Len(a) + (i - Len(a))
  BY <1>1
<1>5. a \o b \in Seq(Msg)
  OBVIOUS
<1>6. \A i \in DOMAIN (a \o b) : \/ \E j \in DOMAIN a : (a \o b)[i] = a[j]
                                 \/ \E j \in DOMAIN b : (a \o b)[i] = b[j]
  <2> TAKE i \in DOMAIN (a \o b)
  <2>1. CASE i \in 1..Len(a)
    BY <1>1, <1>2, <2>1
  <2>2. CASE i - Len(a) \in 1..Len(b) /\ i = Len(a) + (i - Len(a))
    <3>1. (a \o b)[i] = b[i - Len(a)]
      BY <1>3, <2>2
    <3> QED BY <1>1, <2>2, <3>1
  <2> QED BY <1>4, <2>1, <2>2
<1> QED BY <1>1, <1>2, <1>3, <1>5, <1>6 DEF HasBoth

LEMMA MessagesAre ==
  ASSUME SceneFits, NEW msgs \in Messages
  PROVE  Tells(msgs)
<1> DEFINE A == added \cap live
           M == {n \in moved : key[n] # 0}
<1> DEFINE SA == Said("Added", added \cap live)
           SR == Said("Removed", removed)
           SM == Said("Moved", {n \in moved : key[n] # 0})
           All == {a \o r \o m : a \in SA, r \in SR, m \in SM}
<1>0. Messages = All
  BY DEF Messages
<1> HIDE DEF SA, SR, SM
<1>01. msgs \in All
  <2> HIDE DEF All
  <2> QED BY <1>0
<1>1. PICK a \in SA, r \in SR, m \in SM : msgs = a \o r \o m
  BY <1>01
<1>2. /\ A \in SUBSET Node /\ removed \in SUBSET Node /\ M \in SUBSET Node
      /\ A = added /\ A \subseteq live /\ M \subseteq live
  BY DEF SceneFits
<1> HIDE DEF A, M
<1>30. "Added" \in Kinds /\ "Removed" \in Kinds /\ "Moved" \in Kinds
  BY DEF Kinds
<1>31. Says(a, "Added", A) /\ Says(r, "Removed", removed) /\ Says(m, "Moved", M)
  BY <1>1, <1>2, <1>30, SaidIs DEF SA, SR, SM, A, M
<1>3. /\ a \in Seq(Msg)
      /\ \A i \in DOMAIN a : a[i].kind = "Added" /\ a[i].node \in A
      /\ \A n \in A : \E i \in DOMAIN a : a[i].node = n
  BY <1>31 DEF Says
<1>4. /\ r \in Seq(Msg)
      /\ \A i \in DOMAIN r : r[i].kind = "Removed" /\ r[i].node \in removed
      /\ \A n \in removed : \E i \in DOMAIN r : r[i].node = n
  BY <1>31 DEF Says
<1>5. /\ m \in Seq(Msg)
      /\ \A i \in DOMAIN m : m[i].kind = "Moved" /\ m[i].node \in M
  BY <1>31 DEF Says
<1> DEFINE ar == a \o r
           Right(msg) == IF msg.kind = "Removed" THEN msg.node \in removed ELSE msg.node \in live
<1>6. /\ ar \in Seq(Msg)
      /\ \A i \in DOMAIN ar : \/ \E j \in DOMAIN a : ar[i] = a[j]
                              \/ \E j \in DOMAIN r : ar[i] = r[j]
      /\ \A j \in DOMAIN a : \E i \in DOMAIN ar : ar[i] = a[j]
      /\ \A j \in DOMAIN r : \E i \in DOMAIN ar : ar[i] = r[j]
  BY <1>3, <1>4, BothJoin DEF HasBoth
<1>7. msgs = ar \o m
  BY <1>1
<1> HIDE DEF ar
<1>80. HasBoth(ar, m, msgs)
  BY <1>5, <1>6, <1>7, BothJoin
<1>8. /\ msgs \in Seq(Msg)
      /\ \A i \in DOMAIN msgs : \/ \E j \in DOMAIN ar : msgs[i] = ar[j]
                                \/ \E j \in DOMAIN m : msgs[i] = m[j]
      /\ \A j \in DOMAIN ar : \E i \in DOMAIN msgs : msgs[i] = ar[j]
  BY <1>80 DEF HasBoth
<1>9. DOMAIN msgs = 1..Len(msgs)
  BY <1>8
<1>10. \A i \in DOMAIN ar : Right(ar[i])
  <2>1. \A j \in DOMAIN a : Right(a[j])
    BY <1>2, <1>3
  <2>2. \A j \in DOMAIN r : Right(r[j])
    BY <1>4
  <2> HIDE DEF Right
  <2> QED BY <1>6, <2>1, <2>2
<1>11. \A i \in DOMAIN msgs : Right(msgs[i])
  <2>1. \A j \in DOMAIN m : Right(m[j])
    BY <1>2, <1>5
  <2> HIDE DEF Right
  <2> QED BY <1>8, <1>10, <2>1
<1>12. ASSUME NEW n \in added \cup removed PROVE \E i \in DOMAIN msgs : msgs[i].node = n
  <2>1. \E i \in DOMAIN ar : ar[i].node = n
    <3>1. CASE n \in added
      <4>1. PICK j \in DOMAIN a : a[j].node = n
        BY <1>2, <1>3, <3>1
      <4> QED BY <1>6, <4>1
    <3>2. CASE n \in removed
      <4>1. PICK j \in DOMAIN r : r[j].node = n
        BY <1>4, <3>2
      <4> QED BY <1>6, <4>1
    <3> QED BY <3>1, <3>2
  <2> QED BY <1>8, <2>1
<1> QED BY <1>8, <1>9, <1>11, <1>12 DEF Tells

-----------------------------------------------------------------------------
(* The watch buffer. *)

\* What record makes of a buffer and a message.
Recorded(b, msg, c, P) ==
    /\ c \in Buffer(P)
    /\ DOMAIN b.rows \subseteq DOMAIN c.rows
    /\ DOMAIN c.rows \subseteq DOMAIN b.rows \cup {msg.node}
    /\ b.overflowed => c.overflowed
    /\ msg.node \in DOMAIN c.rows \/ c.overflowed
    /\ Cardinality(DOMAIN b.rows) <= Capacity => Cardinality(DOMAIN c.rows) <= Capacity
    /\ \A n \in DOMAIN c.rows : n # msg.node => n \in DOMAIN b.rows /\ c.rows[n] = b.rows[n]
    /\ msg.node \in DOMAIN c.rows =>
          IF msg.kind = "Removed"
          THEN /\ c.rows[msg.node].kind = "Removed"
               /\ msg.node \in DOMAIN captured => c.rows[msg.node].path = captured[msg.node]
          ELSE c.rows[msg.node].kind # "Removed"

\* p is f with the row r of n put in.
PutIn(p, f, n, r, P) ==
    /\ p \in RowMaps(P) /\ DOMAIN p = DOMAIN f \cup {n}
    /\ p[n] = r /\ \A m \in DOMAIN f : m # n => p[m] = f[m]

LEMMA PutIs ==
  ASSUME NEW P, NEW f \in RowMaps(P), NEW n \in Node, NEW r \in Row(P)
  PROVE  PutIn(Put(f, n, r), f, n, r, P)
<1>1. DOMAIN f \in SUBSET Node /\ \A m \in DOMAIN f : f[m] \in Row(P)
  BY DEF RowMaps
<1>2. DOMAIN f \cup {n} \in SUBSET Node
  BY <1>1
<1>3. Put(f, n, r) \in [DOMAIN f \cup {n} -> Row(P)]
  BY <1>1 DEF Put
<1>4. Put(f, n, r) \in RowMaps(P)
  <2> DEFINE p == Put(f, n, r)
             d == DOMAIN f \cup {n}
  <2>1. p \in [d -> Row(P)] /\ d \in SUBSET Node
    BY <1>2, <1>3
  <2> HIDE DEF p, d
  <2>2. p \in RowMaps(P)
    BY <2>1 DEF RowMaps
  <2> QED BY <2>2 DEF p
<1> QED BY <1>4 DEF Put, PutIn

\* The row of a node, and what coalesce makes of it.
LEMMA CoalesceIs ==
  ASSUME NEW prev, NEW next \in Kinds
  PROVE  /\ coalesce(prev, next) \in {"Added", "Removed", "Modified"}
         /\ coalesce(prev, next) = "Removed" <=> next = "Removed"
  BY DEF coalesce, Kinds

\* A message folded into the row r of its node.
Found(msg) == msg.kind = "Removed" /\ msg.node \in DOMAIN captured
Row1(g, msg) == [kind |-> msg.kind, gen |-> g, path |-> IF Found(msg) THEN captured[msg.node] ELSE None]
Row2(r, g, msg) == [kind |-> coalesce(r.kind, msg.kind), gen |-> g,
                    path |-> IF Found(msg) THEN captured[msg.node] ELSE r.path]

LEMMA RowsAre ==
  ASSUME NEW P, Captured(P), NEW g \in Nat, NEW msg \in Msg, NEW r \in Row(P)
  PROVE  /\ Row1(g, msg) \in Row(P) /\ Row1(g, msg).kind = msg.kind
         /\ Found(msg) => Row1(g, msg).path = captured[msg.node]
         /\ Row2(r, g, msg) \in Row(P)
         /\ Row2(r, g, msg).kind = "Removed" <=> msg.kind = "Removed"
         /\ Found(msg) => Row2(r, g, msg).path = captured[msg.node]
<1>1. msg.kind \in Kinds /\ r.path \in P /\ r.kind \in {"Added", "Removed", "Moved", "Modified"}
  BY DEF Msg, Row, Kinds
<1>2. /\ coalesce(r.kind, msg.kind) \in {"Added", "Removed", "Modified"}
      /\ coalesce(r.kind, msg.kind) = "Removed" <=> msg.kind = "Removed"
  BY <1>1, CoalesceIs
<1>3. msg.kind \in {"Added", "Removed", "Moved"}
  BY <1>1 DEF Kinds
<1>4. Found(msg) => captured[msg.node] \in P
  BY DEF Found, Captured
<1>5. Row1(g, msg) \in Row(P) /\ Row1(g, msg).kind = msg.kind
  <2> DEFINE p == IF Found(msg) THEN captured[msg.node] ELSE None
  <2>1. p \in P /\ Row1(g, msg) = [kind |-> msg.kind, gen |-> g, path |-> p]
    BY <1>4 DEF Captured, Row1
  <2> HIDE DEF p
  <2> QED BY <1>3, <2>1 DEF Row
<1>6. Row2(r, g, msg) \in Row(P)
  <2> DEFINE k == coalesce(r.kind, msg.kind)
             p == IF Found(msg) THEN captured[msg.node] ELSE r.path
  <2>1. k \in {"Added", "Removed", "Modified"} /\ p \in P
    BY <1>1, <1>2, <1>4
  <2>2. Row2(r, g, msg) = [kind |-> k, gen |-> g, path |-> p]
    BY DEF Row2
  <2> HIDE DEF k, p
  <2> QED BY <2>1, <2>2 DEF Row
<1>7. Row2(r, g, msg).kind = coalesce(r.kind, msg.kind)
  BY DEF Row2
<1>8. /\ Found(msg) => Row1(g, msg).path = captured[msg.node]
      /\ Found(msg) => Row2(r, g, msg).path = captured[msg.node]
  BY DEF Row1, Row2
<1> QED BY <1>2, <1>5, <1>6, <1>7, <1>8

LEMMA RecordIs ==
  ASSUME NEW P, Captured(P), NEW b \in Buffer(P), NEW msg \in Msg
  PROVE  Recorded(b, msg, record(b, msg), P)
<1> DEFINE n == msg.node
           g == b.generation + 1
           c == record(b, msg)
           D == DOMAIN b.rows
<1>1. /\ n \in Node /\ b.rows \in RowMaps(P) /\ b.overflowed \in BOOLEAN /\ b.generation \in Nat
      /\ g \in Nat /\ b = [rows |-> b.rows, overflowed |-> b.overflowed, generation |-> b.generation]
  BY DEF Msg, Buffer
<1>2. D \in SUBSET Node /\ IsFiniteSet(D) /\ \A m \in D : b.rows[m] \in Row(P)
  <2>1. D \in SUBSET Node /\ \A m \in D : b.rows[m] \in Row(P)
    BY <1>1 DEF RowMaps
  <2> QED BY <2>1, SceneAssumption, FS_Subset
<1>3. CASE n \in D
  <2> DEFINE r == Row2(b.rows[n], g, msg)
  <2>1. b.rows[n] \in Row(P)
    BY <1>2, <1>3
  <2>2. r \in Row(P) /\ (r.kind = "Removed" <=> msg.kind = "Removed")
        /\ (Found(msg) => r.path = captured[n])
    BY <1>1, <2>1, RowsAre
  <2>3. c = [b EXCEPT !.generation = g, !.rows = Put(b.rows, n, r)]
    BY <1>3 DEF record, Row2, Found
  <2> HIDE DEF r, g, c, n
  <2> DEFINE p == Put(b.rows, n, r)
  <2>4. p \in RowMaps(P) /\ DOMAIN p = D \cup {n} /\ p[n] = r /\ \A m \in D : m # n => p[m] = b.rows[m]
    <3>1. n \in Node /\ b.rows \in RowMaps(P) /\ r \in Row(P)
      BY <1>1, <2>2
    <3> HIDE DEF D
    <3>2. PutIn(p, b.rows, n, r, P)
      BY <3>1, PutIs
    <3> HIDE DEF p
    <3> QED BY <3>2 DEF D, PutIn
  <2> HIDE DEF p
  <2>5. c \in Buffer(P) /\ c.rows = p /\ c.overflowed = b.overflowed
    <3>1. c = [rows |-> p, overflowed |-> b.overflowed, generation |-> g]
      BY <1>1, <2>3 DEF p
    <3> QED BY <1>1, <2>4, <3>1 DEF Buffer
  <2>6. DOMAIN p = D
    BY <1>3, <2>4
  <2> HIDE DEF D
  <2> QED BY <1>3, <2>2, <2>4, <2>5, <2>6 DEF Recorded, Found, n, c, D
<1>4. CASE n \notin D /\ Cardinality(D) >= Capacity
  <2>1. c = [b EXCEPT !.generation = g, !.overflowed = TRUE]
    BY <1>4 DEF record
  <2>2. c = [rows |-> b.rows, overflowed |-> TRUE, generation |-> g]
    BY <1>1, <2>1
  <2> HIDE DEF g, c
  <2>3. c \in Buffer(P) /\ c.rows = b.rows /\ c.overflowed
    BY <1>1, <2>2 DEF Buffer
  <2> QED BY <1>4, <2>3 DEF Recorded, c
<1>5. CASE n \notin D /\ ~(Cardinality(D) >= Capacity)
  <2> DEFINE r == Row1(g, msg)
             any == [kind |-> "Added", gen |-> g, path |-> None]
  <2>1. any \in Row(P)
    BY <1>1 DEF Row, Captured
  <2>2. r \in Row(P) /\ r.kind = msg.kind /\ (Found(msg) => r.path = captured[n])
    BY <1>1, <2>1, RowsAre
  <2>3. c = [b EXCEPT !.generation = g, !.rows = Put(b.rows, n, r)]
    BY <1>5 DEF record, Row1, Found
  <2> HIDE DEF r, g, c, n
  <2> DEFINE p == Put(b.rows, n, r)
  <2>4. p \in RowMaps(P) /\ DOMAIN p = D \cup {n} /\ p[n] = r /\ \A m \in D : m # n => p[m] = b.rows[m]
    <3>1. n \in Node /\ b.rows \in RowMaps(P) /\ r \in Row(P)
      BY <1>1, <2>2
    <3> HIDE DEF D
    <3>2. PutIn(p, b.rows, n, r, P)
      BY <3>1, PutIs
    <3> HIDE DEF p
    <3> QED BY <3>2 DEF D, PutIn
  <2> HIDE DEF p
  <2>5. c \in Buffer(P) /\ c.rows = p /\ c.overflowed = b.overflowed
    <3>1. c = [rows |-> p, overflowed |-> b.overflowed, generation |-> g]
      BY <1>1, <2>3 DEF p
    <3> QED BY <1>1, <2>4, <3>1 DEF Buffer
  <2>6. Cardinality(DOMAIN p) <= Capacity
    <3>1. Cardinality(D \cup {n}) = Cardinality(D) + 1 /\ Cardinality(D) \in Nat
      BY <1>2, <1>5, FS_AddElement, FS_CardinalityType
    <3> QED BY <1>5, <2>4, <3>1, WatchAssumption
  <2> HIDE DEF D
  <2> QED BY <1>5, <2>2, <2>4, <2>5, <2>6 DEF Recorded, Found, n, c, D
<1> QED BY <1>3, <1>4, <1>5

\* The buffer after the first k messages of a frame.
Folded(b, msgs, k, c, P) ==
    /\ c \in Buffer(P)
    /\ DOMAIN b.rows \subseteq DOMAIN c.rows /\ DOMAIN c.rows \subseteq born
    /\ b.overflowed => c.overflowed
    /\ c.overflowed \/ \A i \in 1..k : msgs[i].node \in DOMAIN c.rows
    /\ Cardinality(DOMAIN c.rows) <= Capacity
    /\ \A n \in DOMAIN c.rows :
          IF c.rows[n].kind = "Removed" THEN n \notin live /\ n \in DOMAIN went /\ c.rows[n].path = Owed(n)
          ELSE n \in live \/ \E i \in k+1..Len(msgs) : msgs[i].node = n /\ msgs[i].kind = "Removed"

LEMMA FoldedMore ==
  ASSUME SceneFits, NEW P, Captured(P), NEW b \in Buffer(P), NEW msgs, Tells(msgs), NEW k \in 1..Len(msgs),
         NEW c, Folded(b, msgs, k - 1, c, P), NEW d, Recorded(c, msgs[k], d, P)
  PROVE  Folded(b, msgs, k, d, P)
<1> DEFINE msg == msgs[k]
           q == msg.node
           m == Len(msgs)
<1>1. m \in Nat /\ msg \in Msg /\ k \in 1..m
  BY DEF Tells
<1>2. IF msg.kind = "Removed" THEN q \in removed ELSE q \in live
  BY <1>1 DEF Tells
<1>3. q \in born /\ (msg.kind = "Removed" => q \notin live /\ q \in DOMAIN captured /\ q \in DOMAIN went /\ captured[q] = Owed(q))
  BY <1>2 DEF SceneFits
<1>4. /\ d \in Buffer(P)
      /\ DOMAIN c.rows \subseteq DOMAIN d.rows
      /\ DOMAIN d.rows \subseteq DOMAIN c.rows \cup {q}
      /\ c.overflowed => d.overflowed
      /\ q \in DOMAIN d.rows \/ d.overflowed
      /\ Cardinality(DOMAIN c.rows) <= Capacity => Cardinality(DOMAIN d.rows) <= Capacity
      /\ \A n \in DOMAIN d.rows : n # q => n \in DOMAIN c.rows /\ d.rows[n] = c.rows[n]
      /\ q \in DOMAIN d.rows =>
            IF msg.kind = "Removed"
            THEN d.rows[q].kind = "Removed" /\ (q \in DOMAIN captured => d.rows[q].path = captured[q])
            ELSE d.rows[q].kind # "Removed"
  BY DEF Recorded
<1>5. /\ DOMAIN b.rows \subseteq DOMAIN c.rows /\ DOMAIN c.rows \subseteq born
      /\ b.overflowed => c.overflowed
      /\ c.overflowed \/ \A i \in 1..k-1 : msgs[i].node \in DOMAIN c.rows
      /\ Cardinality(DOMAIN c.rows) <= Capacity
      /\ \A n \in DOMAIN c.rows :
            IF c.rows[n].kind = "Removed" THEN n \notin live /\ n \in DOMAIN went /\ c.rows[n].path = Owed(n)
            ELSE n \in live \/ \E i \in k..m : msgs[i].node = n /\ msgs[i].kind = "Removed"
  <2>1. (k - 1) + 1 = k
    BY <1>1
  <2> QED BY <2>1 DEF Folded
<1>6. d.overflowed \/ \A i \in 1..k : msgs[i].node \in DOMAIN d.rows
  <2> SUFFICES ASSUME ~d.overflowed, NEW i \in 1..k PROVE msgs[i].node \in DOMAIN d.rows
    OBVIOUS
  <2>1. CASE i = k
    BY <1>4, <2>1
  <2>2. CASE i # k
    <3>1. i \in 1..k-1
      BY <1>1, <2>2
    <3> QED BY <1>4, <1>5, <3>1
  <2> QED BY <2>1, <2>2
<1>7. ASSUME NEW n \in DOMAIN d.rows
      PROVE  IF d.rows[n].kind = "Removed" THEN n \notin live /\ n \in DOMAIN went /\ d.rows[n].path = Owed(n)
             ELSE n \in live \/ \E i \in k+1..m : msgs[i].node = n /\ msgs[i].kind = "Removed"
  <2>1. CASE n = q
    BY <1>2, <1>3, <1>4, <2>1
  <2>2. CASE n # q
    <3>1. n \in DOMAIN c.rows /\ d.rows[n] = c.rows[n]
      BY <1>4, <2>2
    <3>2. CASE c.rows[n].kind = "Removed"
      BY <1>5, <3>1, <3>2
    <3>3. CASE c.rows[n].kind # "Removed" /\ n \in live
      BY <3>1, <3>3
    <3>4. ASSUME NEW i \in k..m, c.rows[n].kind # "Removed",
                 msgs[i].node = n, msgs[i].kind = "Removed"
          PROVE  i \in k+1..m
      <4>1. i # k
        BY <2>2, <3>4
      <4> QED BY <1>1, <4>1
    <3> QED BY <1>5, <3>1, <3>2, <3>3, <3>4
  <2> QED BY <2>1, <2>2
<1>8. DOMAIN b.rows \subseteq DOMAIN d.rows /\ DOMAIN d.rows \subseteq born
  BY <1>3, <1>4, <1>5
<1>9. (b.overflowed => d.overflowed) /\ Cardinality(DOMAIN d.rows) <= Capacity
  BY <1>4, <1>5
<1> HIDE DEF q, msg
<1> QED BY <1>4, <1>6, <1>7, <1>8, <1>9 DEF Folded

\* The fold of a frame's messages.
Fold(b, msgs) == FoldLeft(record, b, msgs)

LEMMA FoldIs ==
  ASSUME SceneFits, NEW P, Captured(P), NEW b \in Buffer(P), NEW msgs, Tells(msgs), Folded(b, msgs, 0, b, P)
  PROVE  Folded(b, msgs, Len(msgs), Fold(b, msgs), P)
<1> DEFINE m == Len(msgs)
           Folds(f) == f = [S \in SUBSET (1..m) |->
                              IF S = {} THEN b ELSE record(f[S \ {Max(S)}], msgs[Max(S)])]
           iter == CHOOSE f : Folds(f)
           step == [x \in Buffer(P) \X (1..m) |-> record(x[1], msgs[x[2]])]
<1>1. m \in Nat /\ DOMAIN msgs = 1..m /\ \A k \in 1..m : msgs[k] \in Msg
  BY DEF Tells
<1>2. Fold(b, msgs) = iter[1..m]
  BY <1>1 DEF Fold, FoldLeft, MapThenFoldSet, Max
<1> HIDE DEF m
<1>3. step \in [Buffer(P) \X (1..m) -> Buffer(P)]
  BY <1>1, RecordIs DEF Recorded
<1>4. PICK f \in [SUBSET (1..m) -> Buffer(P)] : Iterated(f, step, b, m)
  BY <1>1, <1>3, Iterates
<1>5. ASSUME NEW S \in SUBSET (1..m), S # {}
      PROVE  step[<<f[S \ {Max(S)}], Max(S)>>] = record(f[S \ {Max(S)}], msgs[Max(S)])
  <2>1. S \in SUBSET Nat /\ \A x \in S : x <= m
    BY <1>1
  <2>2. Max(S) \in S
    BY <1>1, <1>5, <2>1, MaxOfBounded
  <2>3. <<f[S \ {Max(S)}], Max(S)>> \in Buffer(P) \X (1..m)
    BY <2>2
  <2> QED BY <2>3
<1> HIDE DEF step
<1>6. Folds(f)
  BY <1>4, <1>5 DEF Iterated
<1>7. Folds(iter)
  <2> HIDE DEF Folds
  <2> QED BY <1>6
<1> HIDE DEF iter
<1>8. iter[1..0] = b
  <2>1. 1..0 = {} /\ {} \in SUBSET (1..m)
    OBVIOUS
  <2> QED BY <1>7, <2>1
<1>9. ASSUME NEW k \in 1..m PROVE iter[1..k] = record(iter[1..(k-1)], msgs[k])
  <2>1. 1..k # {} /\ 1..k \in SUBSET (1..m) /\ Max(1..k) = k /\ (1..k) \ {k} = 1..(k-1)
    BY <1>1, Prefix
  <2> QED BY <1>7, <2>1
<1> HIDE DEF Folds
<1> DEFINE T == {k \in 0..m : Folded(b, msgs, k, iter[1..k], P)}
<1>10. 0 \in T
  BY <1>1, <1>8
<1>11. ASSUME NEW j \in 0..m-1, j \in T PROVE j + 1 \in T
  <2> DEFINE k == j + 1
  <2>1. k \in 1..m /\ k - 1 = j /\ k \in 0..m
    BY <1>1
  <2> HIDE DEF k
  <2>2. iter[1..k] = record(iter[1..j], msgs[k])
    BY <1>9, <2>1
  <2>3. Folded(b, msgs, k - 1, iter[1..j], P) /\ iter[1..j] \in Buffer(P)
    BY <1>11, <2>1 DEF Folded
  <2>4. Recorded(iter[1..j], msgs[k], iter[1..k], P)
    BY <1>1, <2>1, <2>2, <2>3, RecordIs
  <2>5. Folded(b, msgs, k, iter[1..k], P)
    BY <2>1, <2>3, <2>4, FoldedMore DEF m
  <2> QED BY <2>1, <2>5 DEF k
<1> HIDE DEF T
<1>12. \A k \in 0..m : k \in T
  BY <1>1, <1>10, <1>11, UpTo
<1>13. Folded(b, msgs, m, iter[1..m], P)
  BY <1>1, <1>12 DEF T
<1> QED BY <1>2, <1>13 DEF m

\* A frame: every change that waited has its row, unless the buffer is full.
LEMMA PumpFits ==
  ASSUME SceneFits, RowsFit, Pump
  PROVE  /\ SceneFits' /\ RowsFit' /\ live' = live
         /\ overflowed => overflowed'
         /\ ~overflowed' => DOMAIN rows \cup added \cup removed \subseteq DOMAIN rows'
<1> DEFINE b == [rows |-> rows, overflowed |-> overflowed, generation |-> generation]
<1>1. PICK msgs \in Messages :
         /\ rows' = Fold(b, msgs).rows /\ overflowed' = Fold(b, msgs).overflowed
         /\ generation' = Fold(b, msgs).generation
         /\ added' = {} /\ removed' = {} /\ moved' = {}
         /\ captured' = Restrict(captured, DOMAIN captured \ removed)
         /\ UNCHANGED <<tree, went>>
  BY Zenon DEF Pump, Fold
<1>2. Tells(msgs)
  BY MessagesAre
<1>p. PICK Q : rows \in RowMaps(Q)
  BY DEF RowsFit
<1> DEFINE P == Q \cup {None} \cup {captured[n] : n \in DOMAIN captured}
<1>c. Captured(P)
  BY DEF Captured
<1>3. b \in Buffer(P) /\ b.rows = rows /\ b.overflowed = overflowed
  <2>1. Row(Q) \subseteq Row(P)
    BY DEF Row
  <2>2. rows \in RowMaps(P)
    <3> HIDE DEF P
    <3> QED BY <1>p, <2>1 DEF RowMaps
  <2> HIDE DEF P
  <2> QED BY <2>2 DEF RowsFit, Buffer
<1> HIDE DEF P
<1> DEFINE c == Fold(b, msgs)
           m == Len(msgs)
<1>4. rows' = c.rows /\ overflowed' = c.overflowed /\ generation' = c.generation
  BY <1>1
<1>5. m \in Nat /\ \A n \in removed : \E i \in 1..m : msgs[i].node = n /\ msgs[i].kind = "Removed"
  <2>1. m \in Nat
    BY <1>2 DEF Tells
  <2>2. ASSUME NEW n \in removed
        PROVE  \E i \in 1..m : msgs[i].node = n /\ msgs[i].kind = "Removed"
    <3>1. PICK i \in 1..m : msgs[i].node = n
      BY <1>2 DEF Tells
    <3>2. n \notin live
      BY DEF SceneFits
    <3> QED BY <1>2, <3>1, <3>2 DEF Tells
  <2> QED BY <2>1, <2>2
<1> HIDE DEF b
<1>6. Folded(b, msgs, 0, b, P)
  <2>1. \A n \in DOMAIN rows :
          IF rows[n].kind = "Removed" THEN n \notin live /\ n \in DOMAIN went /\ rows[n].path = Owed(n)
          ELSE n \in live \/ \E i \in 1..m : msgs[i].node = n /\ msgs[i].kind = "Removed"
    BY <1>5 DEF RowsFit, RowFits
  <2>2. DOMAIN rows \subseteq born /\ Cardinality(DOMAIN rows) <= Capacity /\ 0 + 1 = 1
    BY DEF RowsFit
  <2>3. \A i \in 1..0 : msgs[i].node \in DOMAIN rows
    OBVIOUS
  <2> QED BY <1>3, <2>1, <2>2, <2>3 DEF Folded
<1>7. Folded(b, msgs, m, c, P)
  BY <1>2, <1>3, <1>6, <1>c, FoldIs
<1> HIDE DEF c
<1>8. /\ c \in Buffer(P)
      /\ DOMAIN rows \subseteq DOMAIN rows' /\ DOMAIN rows' \subseteq born
      /\ overflowed => overflowed'
      /\ overflowed' \/ \A i \in 1..m : msgs[i].node \in DOMAIN rows'
      /\ Cardinality(DOMAIN rows') <= Capacity
      /\ \A n \in DOMAIN rows' :
            IF rows'[n].kind = "Removed" THEN n \notin live /\ n \in DOMAIN went /\ rows'[n].path = Owed(n) ELSE n \in live
  <2>1. \A i \in m+1..m : FALSE
    BY <1>5
  <2> QED BY <1>3, <1>4, <1>7, <2>1 DEF Folded
<1>9. born' = born /\ live' = live /\ went' = went
  BY <1>1 DEF tree
<1>10. SceneFits'
  BY <1>1, <1>9 DEF SceneFits, Restrict
<1>11. RowsFit'
  <2>1. rows' \in RowMaps(P) /\ overflowed' \in BOOLEAN /\ generation' \in Nat
    BY <1>4, <1>8 DEF Buffer
  <2>2. \A n \in DOMAIN rows' : RowFits(n)'
    BY <1>8, <1>9 DEF RowFits, Owed
  <2> QED BY <1>8, <1>9, <2>1, <2>2 DEF RowsFit
<1>12. ~overflowed' => added \cup removed \subseteq DOMAIN rows'
  BY <1>2, <1>8 DEF Tells
<1> QED BY <1>8, <1>9, <1>10, <1>11, <1>12

LEMMA FrameFits ==
  ASSUME InStep, Pump, UNCHANGED client
  PROVE  InStep' /\ live' = live
<1>1. SceneFits /\ RowsFit /\ PictureFits
  BY DEF InStep
<1>2. /\ SceneFits' /\ RowsFit' /\ live' = live
      /\ overflowed => overflowed'
      /\ ~overflowed' => DOMAIN rows \cup added \cup removed \subseteq DOMAIN rows'
  BY <1>1, PumpFits
<1>3. PictureFits'
  <2> SUFFICES ASSUME ~overflowed', ~told', NEW n \in Node PROVE Pictured(n)'
    BY DEF PictureFits
  <2>1. told' = told /\ mirror' = mirror /\ dropped' = dropped
    BY DEF client
  <2>2. Pictured(n)
    BY <1>1, <1>2, <2>1 DEF PictureFits
  <2> QED BY <1>2, <2>1, <2>2 DEF Pictured
<1> QED BY <1>2, <1>3 DEF InStep

LEMMA ReturnFits ==
  ASSUME InStep, AnswerFits, Return
  PROVE  InStep' /\ AnswerFits'
<1>1. SceneFits /\ RowsFit /\ PictureFits
  BY DEF InStep
<1>2. Pump /\ calling # Quiet
  BY DEF Return
<1>3. /\ SceneFits' /\ RowsFit' /\ live' = live
      /\ overflowed => overflowed'
      /\ ~overflowed' => DOMAIN rows \cup added \cup removed \subseteq DOMAIN rows'
  BY <1>1, <1>2, PumpFits
<1>4. CASE UNCHANGED <<calling, client>>
  BY <1>2, <1>3, <1>4, FrameFits DEF AnswerFits
<1>5. CASE /\ calling' = Quiet
           /\ mirror' = IF calling.verb = "delete" THEN mirror \ {calling.node}
                        ELSE mirror \cup {calling.node}
           /\ UNCHANGED <<told, dropped>>
  <2>1. AnswerFits'
    BY <1>5 DEF AnswerFits
  <2>2. \/ calling.verb # "delete" /\ calling.node \in live
        \/ calling.verb = "delete" /\ calling.node \notin live
    BY <1>2 DEF AnswerFits
  <2>3. PictureFits'
    <3> SUFFICES ASSUME ~overflowed', ~told', NEW n \in Node PROVE Pictured(n)'
      BY DEF PictureFits
    <3>1. told' = told /\ dropped' = dropped
      BY <1>5
    <3>2. Pictured(n)
      BY <1>1, <1>3, <3>1 DEF PictureFits
    <3>3. CASE n = calling.node
      BY <1>3, <1>5, <2>2, <3>3 DEF Pictured
    <3>4. CASE n # calling.node
      <4>1. n \in mirror' <=> n \in mirror
        BY <1>5, <3>4
      <4> QED BY <1>3, <3>1, <3>2, <4>1 DEF Pictured
    <3> QED BY <3>3, <3>4
  <2> QED BY <1>3, <2>1, <2>3 DEF InStep
<1> QED BY <1>4, <1>5 DEF Return

-----------------------------------------------------------------------------
(* The client. *)

LEMMA ReadFits ==
  ASSUME InStep, NEW since, NEW kept \in SUBSET Due(since), Read(since, kept)
  PROVE  InStep'
<1> DEFINE due == Due(since)
<1>1. SceneFits /\ RowsFit /\ PictureFits
  BY DEF InStep
<1>2. /\ ~overflowed /\ ~told
      /\ mirror' = (mirror \cup kept) \ {n \in kept : rows[n].kind = "Removed"}
      /\ rows' = Restrict(rows, DOMAIN rows \ due)
      /\ dropped' = (dropped \ kept) \cup (due \ kept)
      /\ overflowed' = overflowed /\ generation' = generation /\ told' = told
      /\ UNCHANGED scene
  BY DEF Read
<1>3. kept \subseteq due /\ due \subseteq DOMAIN rows
  BY DEF Due
<1> HIDE DEF due
<1>4. DOMAIN rows' = DOMAIN rows \ due /\ \A n \in DOMAIN rows' : rows'[n] = rows[n]
  BY <1>2 DEF Restrict
<1>5. /\ born' = born /\ live' = live /\ added' = added /\ removed' = removed
      /\ moved' = moved /\ captured' = captured /\ went' = went
  BY <1>2 DEF scene, tree, pending
<1>6. SceneFits'
  BY <1>1, <1>5 DEF SceneFits, Owed
<1>7. RowsFit'
  <2>p. PICK P : rows \in RowMaps(P)
    BY <1>1 DEF RowsFit
  <2>1. rows' \in RowMaps(P)
    <3> DEFINE d == DOMAIN rows \ due
    <3>1. DOMAIN rows \in SUBSET Node /\ \A n \in DOMAIN rows : rows[n] \in Row(P)
      BY <2>p DEF RowMaps
    <3>2. d \in SUBSET Node /\ rows' \in [d -> Row(P)]
      BY <1>2, <3>1 DEF Restrict
    <3> HIDE DEF d
    <3> QED BY <3>2 DEF RowMaps
  <2>2. Cardinality(DOMAIN rows') <= Capacity
    <3> DEFINE d == DOMAIN rows
               e == DOMAIN rows'
    <3>1. d \in SUBSET Node /\ e \in SUBSET d
      BY <1>1, <1>4 DEF RowsFit, RowMaps
    <3>2. IsFiniteSet(d)
      BY <3>1, SceneAssumption, FS_Subset
    <3>3. IsFiniteSet(e) /\ Cardinality(e) <= Cardinality(d)
      BY <3>1, <3>2, FS_Subset
    <3>4. Cardinality(d) \in Nat /\ Cardinality(e) \in Nat /\ Cardinality(d) <= Capacity
      BY <1>1, <3>2, <3>3, FS_CardinalityType DEF RowsFit
    <3> QED BY <3>3, <3>4, WatchAssumption
  <2>3. \A n \in DOMAIN rows' : RowFits(n)'
    BY <1>1, <1>4, <1>5 DEF RowsFit, RowFits, Owed
  <2> QED BY <1>1, <1>2, <1>4, <1>5, <2>1, <2>2, <2>3 DEF RowsFit
<1>8. ASSUME NEW n \in Node PROVE Pictured(n)'
  <2>1. Pictured(n)
    BY <1>1, <1>2 DEF PictureFits
  <2>2. CASE n \in kept /\ rows[n].kind = "Removed"
    <3>1. n \notin mirror' /\ n \notin live'
      BY <1>1, <1>2, <1>3, <1>5, <2>2 DEF RowsFit, RowFits
    <3> QED BY <3>1 DEF Pictured
  <2>3. CASE n \in kept /\ rows[n].kind # "Removed"
    <3>1. n \in mirror' /\ (n \in live' \/ n \in removed')
      BY <1>1, <1>2, <1>3, <1>5, <2>3 DEF RowsFit, RowFits
    <3> QED BY <3>1 DEF Pictured
  <2>4. CASE n \notin kept /\ n \in due
    BY <1>2, <2>4 DEF Pictured
  <2>5. CASE n \notin kept /\ n \notin due
    BY <1>2, <1>4, <1>5, <2>1, <2>5 DEF Pictured
  <2> QED BY <2>2, <2>3, <2>4, <2>5
<1>9. PictureFits'
  BY <1>8 DEF PictureFits
<1> QED BY <1>6, <1>7, <1>9 DEF InStep

\* Scene and buffer stay what they are.
LEMMA StayFits ==
  ASSUME InStep, UNCHANGED <<scene, rows, overflowed, generation>>, PictureFits'
  PROVE  InStep'
<1>1. /\ born' = born /\ live' = live /\ added' = added /\ removed' = removed
      /\ moved' = moved /\ captured' = captured /\ went' = went
      /\ rows' = rows /\ overflowed' = overflowed /\ generation' = generation
  BY DEF scene, tree, pending
<1>2. SceneFits'
  BY <1>1 DEF InStep, SceneFits, Owed
<1>3. RowsFit'
  BY <1>1 DEF InStep, RowsFit, RowFits, Owed
<1> QED BY <1>2, <1>3 DEF InStep

LEMMA ReadOverflowFits ==
  ASSUME InStep, ReadOverflow
  PROVE  InStep'
<1>1. told' = TRUE /\ UNCHANGED <<scene, rows, overflowed, generation>>
  BY DEF ReadOverflow, buffer
<1>2. PictureFits'
  BY <1>1 DEF PictureFits
<1> QED BY <1>1, <1>2, StayFits

LEMMA ScanFits ==
  ASSUME InStep, Scan
  PROVE  InStep'
<1>1. mirror' = live /\ live' = live /\ UNCHANGED <<scene, rows, overflowed, generation>>
  BY DEF Scan, scene, tree, buffer
<1>2. PictureFits'
  BY <1>1 DEF PictureFits, Pictured
<1> QED BY <1>1, <1>2, StayFits

-----------------------------------------------------------------------------
(* Every step. *)

Answers(verb, n) == calling' = [verb |-> verb, node |-> n]

LEMMA AnswerOf ==
  ASSUME NEW verb \in {"create", "move", "delete"}, NEW n, Answers(verb, n),
         IF verb = "delete" THEN n \in Node \ live' ELSE n \in live'
  PROVE  AnswerFits'
<1>1. calling'.verb = verb /\ calling'.node = n
  BY DEF Answers
<1> QED BY <1>1 DEF AnswerFits

\* Nothing that is looked at changes but perhaps that a walk has begun that
\* does not end.
LEMMA IdleFits ==
  ASSUME InStep, AnswerFits, UNCHANGED <<scene, buffer, calling, client>>
  PROVE  InStep' /\ AnswerFits'
<1>1. PictureFits'
  BY DEF InStep, PictureFits, Pictured, scene, tree, pending, buffer, client
<1>2. UNCHANGED <<scene, rows, overflowed, generation>>
  BY DEF buffer
<1>3. AnswerFits'
  BY DEF AnswerFits, scene, tree
<1> QED BY <1>1, <1>2, <1>3, StayFits

LEMMA WatchFits ==
  ASSUME InStep, AnswerFits, WatchNext
  PROVE  InStep' /\ AnswerFits'
<1>0. Quiet = calling => AnswerFits
  BY DEF AnswerFits
<1>1. ASSUME NEW n \in Node, NEW p \in Places, NEW k \in Key \cup {0}, WorldSpawn(n, p, k)
      PROVE  InStep' /\ AnswerFits'
  <2>1. Spawn(n, p, k) /\ Unread /\ calling = Quiet /\ calling' = calling
    BY <1>1 DEF WorldSpawn, MayEdit, Unread
  <2> QED BY <2>1, SpawnFits DEF AnswerFits
<1>2. ASSUME NEW n \in Node, NEW p \in Places, NEW k \in Key \cup {0}, Create(n, p, k)
      PROVE  InStep' /\ AnswerFits'
  <2> DEFINE l == IF k = 0 /\ p # None THEN 1 ELSE k
  <2>1. Spawn(n, p, l) /\ Unread /\ Answers("create", n)
    BY <1>2 DEF Create, Unread, Answers
  <2> HIDE DEF l
  <2>2. InStep' /\ n \in live'
    BY <2>1, SpawnFits
  <2> QED BY <2>1, <2>2, AnswerOf
<1>3. ASSUME NEW n \in live, WorldDespawn(n) PROVE InStep' /\ AnswerFits'
  <2>1. CASE Hang
    BY <2>1, IdleFits DEF Hang
  <2>2. CASE Despawn(n) /\ UNCHANGED <<buffer, calling, stuck, client>>
    <3>1. Unread /\ calling = Quiet /\ calling' = calling
      BY <1>3, <2>2 DEF WorldDespawn, MayEdit, Unread
    <3> QED BY <2>2, <3>1, DespawnFits DEF AnswerFits
  <2> QED BY <1>3, <2>1, <2>2 DEF WorldDespawn
<1>4. ASSUME NEW n \in live, Delete(n) PROVE InStep' /\ AnswerFits'
  <2>1. CASE Hang
    BY <2>1, IdleFits DEF Hang
  <2>2. CASE Despawn(n) /\ Answers("delete", n) /\ UNCHANGED <<buffer, stuck, client>>
    <3>1. Unread
      BY <2>2 DEF Unread
    <3>2. InStep' /\ n \in Node \ live'
      BY <2>2, <3>1, DespawnFits
    <3> QED BY <2>2, <3>2, AnswerOf
  <2> QED BY <1>4, <2>1, <2>2 DEF Delete, Answers
<1>5. ASSUME NEW n \in live, NEW p \in live, NEW k \in Key, WorldPlace(n, p, k)
      PROVE  InStep' /\ AnswerFits'
  <2>1. Place(n, p, k) /\ Unread /\ calling = Quiet /\ calling' = calling
    BY <1>5 DEF WorldPlace, MayEdit, Unread
  <2> QED BY <2>1, PlaceFits DEF AnswerFits
<1>6. ASSUME NEW n \in live, NEW p \in Places, NEW k \in Key, Move(n, p, k)
      PROVE  InStep' /\ AnswerFits'
  <2>1. Place(n, p, k) /\ Unread /\ Answers("move", n)
    BY <1>6 DEF Move, Unread, Answers
  <2>2. InStep' /\ n \in live'
    BY <2>1, PlaceFits
  <2> QED BY <2>1, <2>2, AnswerOf
<1>7. CASE Frame
  <2>1. Pump /\ UNCHANGED client /\ calling = Quiet /\ calling' = calling
    BY <1>7 DEF Frame
  <2> QED BY <2>1, FrameFits DEF AnswerFits
<1>8. CASE Return
  BY <1>8, ReturnFits
<1>9. ASSUME NEW since, NEW kept \in SUBSET Due(since), Read(since, kept)
      PROVE  InStep' /\ AnswerFits'
  <2>1. calling = Quiet /\ calling' = calling
    BY <1>9 DEF Read
  <2> QED BY <1>9, <2>1, ReadFits DEF AnswerFits
<1>10. CASE ReadOverflow
  <2>1. calling = Quiet /\ calling' = calling
    BY <1>10 DEF ReadOverflow
  <2> QED BY <1>10, <2>1, ReadOverflowFits DEF AnswerFits
<1>11. CASE Scan
  <2>1. calling = Quiet /\ calling' = calling
    BY <1>11 DEF Scan
  <2> QED BY <1>11, <2>1, ScanFits DEF AnswerFits
<1> QED BY <1>1, <1>2, <1>3, <1>4, <1>5, <1>6, <1>7, <1>8, <1>9, <1>10, <1>11 DEF WatchNext

\* While a NodeRef is kept the scene goes on by itself: nothing is recorded.
LEMMA AsideFits ==
  ASSUME IInv, told, HandleNext, UNCHANGED <<buffer, calling, client>>
  PROVE  InStep'
<1>1. Unread /\ SceneFits /\ RowsFit /\ PictureFits /\ InStep /\ told' = told
      /\ rows' = rows /\ overflowed' = overflowed /\ generation' = generation
  BY DEF IInv, InStep, Unread, buffer, client
<1>2. PictureFits'
  BY <1>1 DEF PictureFits
<1>3. handling # "idle" => DOMAIN rows = {}
  BY DEF IInv, Aside, EmptyMap
<1>4. CASE SettleFrame
  <2>1. /\ handling = "running" /\ born' = born /\ live' = live
        /\ added' = {} /\ removed' = {} /\ moved' = {} /\ captured' = EmptyMap
    BY <1>4 DEF SettleFrame, tree
  <2>2. SceneFits'
    BY <1>1, <2>1 DEF SceneFits, EmptyMap
  <2>3. DOMAIN rows = {}
    BY <1>3, <2>1
  <2>4. RowsFit'
    BY <1>1, <2>1, <2>3 DEF RowsFit
  <2> QED BY <1>2, <2>2, <2>4 DEF InStep
<1>5. CASE OthersEdit
  <2>1. ASSUME NEW n \in Node, NEW p \in live \cup {None}, NEW k \in Key, Spawn(n, p, k) PROVE InStep'
    BY <1>1, <2>1, SpawnFits
  <2>2. ASSUME NEW n \in live, Despawn(n) PROVE InStep'
    BY <1>1, <2>2, DespawnInStep
  <2>3. ASSUME NEW n \in live, NEW p \in live \cup {None}, NEW k \in Key, Place(n, p, k) PROVE InStep'
    BY <1>1, <2>3, PlaceFits
  <2> QED BY <1>5, <2>1, <2>2, <2>3 DEF OthersEdit
<1>6. CASE DeleteHeld
  <2>1. PICK n \in resolve(held) : Despawn(n)
    BY <1>6 DEF DeleteHeld
  <2> QED BY <1>1, <2>1, DespawnInStep
<1>7. CASE NewRun
  <2>1. handling = "running" /\ added = {} /\ removed = {} /\ moved = {}
    BY <1>7 DEF NewRun, Settled
  <2>2. PICK now \in [Node -> Node] :
           born' = {now[n] : n \in born} /\ live' = {now[n] : n \in live}
    BY <1>7 DEF NewRun
  <2>3. added' = added /\ removed' = removed /\ moved' = moved /\ captured' = captured /\ went' = went
    BY <1>7 DEF NewRun, pending
  <2>4. SceneFits'
    BY <1>1, <2>1, <2>2, <2>3 DEF SceneFits
  <2>5. RowsFit'
    BY <1>1, <1>3, <2>1 DEF RowsFit
  <2> QED BY <1>2, <2>4, <2>5 DEF InStep
<1>8. ASSUME NEW n \in live, KeepRef(n) PROVE InStep'
  <2>1. UNCHANGED <<scene, rows, overflowed, generation>>
    BY <1>1, <1>8 DEF KeepRef
  <2> QED BY <1>1, <1>2, <2>1, StayFits
<1> QED BY <1>4, <1>5, <1>6, <1>7, <1>8 DEF HandleNext

LEMMA HandleFits ==
  ASSUME IInv, HandleNext, UNCHANGED <<buffer, calling, client>>
  PROVE  IInv'
<1>1. handling = "running" /\ handling' = "running"
  <2>1. handling = "running"
    BY DEF HandleNext, SettleFrame, OthersEdit, DeleteHeld, NewRun, KeepRef, Settled
  <2>2. handling' = handling
    BY DEF HandleNext, SettleFrame, OthersEdit, DeleteHeld, NewRun, KeepRef, handleVars
  <2> QED BY <2>1, <2>2
<1>2. told /\ rows = EmptyMap /\ calling = Quiet
  BY <1>1 DEF IInv, Aside
<1>3. InStep'
  BY <1>2, AsideFits
<1>4. told' = told /\ rows' = rows /\ calling' = calling
  BY DEF client, buffer
<1>5. AnswerFits' /\ Aside'
  <2>1. Quiet' = Quiet /\ EmptyMap' = EmptyMap
    BY DEF Quiet, EmptyMap
  <2> QED BY <1>2, <1>4, <2>1 DEF AnswerFits, Aside
<1> QED BY <1>3, <1>5 DEF IInv

LEMMA InvariantStarts == AgentInit => IInv
<1> SUFFICES ASSUME AgentInit PROVE IInv
  OBVIOUS
<1>1. /\ rows = EmptyMap /\ overflowed = FALSE /\ generation = 0
      /\ calling = Quiet /\ mirror = {} /\ dropped = {}
      /\ SceneInit \/ HandleInit
      /\ handling # "idle" => told
      /\ live = {} \/ told
  <2>1. SceneInit => live = {}
    BY DEF SceneInit
  <2>2. CASE Watching
    BY <2>1, <2>2 DEF Watching, WatchInit, HandleIdle
  <2>3. CASE Asking
    BY <2>1, <2>3 DEF Asking, WatchIdle
  <2>4. CASE Alone
    BY <2>1, <2>4 DEF Alone, WatchIdle
  <2> QED BY <2>2, <2>3, <2>4 DEF AgentInit
<1>2. SceneFits
  BY <1>1 DEF SceneInit, HandleInit, SceneFits, EmptyMap
<1>3. RowsFit
  <2>1. DOMAIN rows = {} /\ rows \in [{} -> Row({})]
    BY <1>1 DEF EmptyMap
  <2>2. rows \in RowMaps({})
    BY <2>1 DEF RowMaps
  <2>3. Cardinality(DOMAIN rows) <= Capacity
    BY <2>1, FS_EmptySet, WatchAssumption
  <2> QED BY <1>1, <2>1, <2>2, <2>3 DEF RowsFit
<1>4. PictureFits
  BY <1>1 DEF PictureFits, Pictured
<1> QED BY <1>1, <1>2, <1>3, <1>4 DEF IInv, InStep, AnswerFits, Aside

LEMMA InvariantSteps == IInv /\ [AgentNext]_agentVars => IInv'
<1> SUFFICES ASSUME IInv, [AgentNext]_agentVars PROVE IInv'
  OBVIOUS
<1>1. CASE Edit
  <2>1. handling = "idle" /\ handling' = handling /\ WatchNext
    BY <1>1 DEF Edit, besideVars, handleVars
  <2>2. InStep' /\ AnswerFits'
    BY <2>1, WatchFits DEF IInv
  <2> QED BY <2>1, <2>2 DEF IInv, Aside
<1>2. CASE KeepHandle
  <2>1. HandleNext /\ UNCHANGED <<buffer, calling, client>>
    BY <1>2 DEF KeepHandle
  <2> QED BY <2>1, HandleFits
<1>3. CASE UNCHANGED <<watchVars, handling>>
  <2>1. UNCHANGED <<scene, buffer, calling, client>>
    BY <1>3 DEF watchVars
  <2>2. InStep' /\ AnswerFits'
    BY <2>1, IdleFits DEF IInv
  <2>3. Aside'
    <3>1. told' = told /\ rows' = rows /\ calling' = calling /\ handling' = handling
      BY <1>3, <2>1 DEF client, buffer
    <3> QED BY <3>1 DEF IInv, Aside
  <2> QED BY <2>2, <2>3 DEF IInv
<1>4. Match \/ Walk \/ PlaceSibling \/ SpeakPath \/ UNCHANGED agentVars => UNCHANGED <<watchVars, handling>>
  BY DEF Match, Walk, PlaceSibling, SpeakPath, agentVars, besideVars, handleVars
<1> QED BY <1>1, <1>2, <1>3, <1>4 DEF AgentNext

\* What the watch buffer, the client's picture and the scene have to do with
\* each other at every step of the agent.
THEOREM InvariantHolds == AgentSpec => []IInv
<1> QED BY InvariantStarts, InvariantSteps, PTL DEF AgentSpec

\* A node that is despawned is reported under the path it had, one that goes
\* along with it under its own label alone, whatever is despawned when, and
\* whatever frames, rows and reads come between; and no captured path outlives
\* the message it was captured for (watch.rs:311-410).
THEOREM RemovalsHavePaths == AgentSpec => []RemovalsAreNamed
<1>1. IInv => RemovalsAreNamed
  BY DEF IInv, InStep, SceneFits, RowsFit, RowFits, Owed, RemovalsAreNamed
<1> QED BY <1>1, InvariantHolds, PTL

\* The buffer keeps to its capacity, and a client that has read up to now
\* believes in the nodes that are alive, but for the rows it dropped and those
\* it has yet to read.
THEOREM MirrorIsExact == AgentSpec => []MirrorTracksScene
<1>1. IInv => MirrorTracksScene
  <2> SUFFICES ASSUME IInv PROVE MirrorTracksScene
    OBVIOUS
  <2>1. Cardinality(DOMAIN rows) <= Capacity
    BY DEF IInv, InStep, RowsFit
  <2>2. ASSUME AtRest, ~overflowed, ~told, NEW n \in Node
        PROVE  (n \in mirror <=> n \in live) \/ n \in dropped \/ n \in DOMAIN rows
    <3>1. Pictured(n) /\ n \notin added /\ n \notin removed
      BY <2>2 DEF IInv, InStep, PictureFits, AtRest
    <3> QED BY <3>1 DEF Pictured
  <2> QED BY <2>1, <2>2 DEF MirrorTracksScene
<1> QED BY <1>1, InvariantHolds, PTL

-----------------------------------------------------------------------------
(* The keys of siblings.  A byte is its place in the alphabet, and 0 is the *)
(* one below 'a'.                                                           *)

Byte == 0..26

\* What a child is placed by: it does not end in the byte below 'a'.
Spelled(k) == k \in Seq(Byte) /\ Len(k) >= 1 /\ k[Len(k)] >= 1

\* k comes before l by what they have at i, where k may have ended.
Parts(k, l, i) ==
    /\ i \in 1..Len(l) /\ i - 1 <= Len(k)
    /\ \A j \in 1..(i - 1) : k[j] = l[j]
    /\ i = Len(k) + 1 \/ (i <= Len(k) /\ k[i] < l[i])

LEMMA SameKeys ==
  ASSUME NEW S, NEW k \in Seq(S), NEW l \in Seq(S), Len(k) = Len(l),
         \A j \in 1..Len(k) : k[j] = l[j]
  PROVE  k = l
  OBVIOUS

LEMMA KeyAndByte ==
  ASSUME NEW k \in Seq(Byte), NEW b \in Byte
  PROVE  /\ k \o <<b>> \in Seq(Byte) /\ Len(k \o <<b>>) = Len(k) + 1
         /\ (k \o <<b>>)[Len(k) + 1] = b
         /\ \A j \in 1..Len(k) : (k \o <<b>>)[j] = k[j]
<1> HIDE DEF Byte
<1> DEFINE t == <<b>>
<1>1. t \in Seq(Byte) /\ Len(t) = 1 /\ t[1] = b
  OBVIOUS
<1> HIDE DEF t
<1>2. k \o t \in Seq(Byte)
  BY <1>1
<1>3. Listed(k) /\ Listed(t)
  BY <1>1, ListedOf
<1>4. /\ Len(k \o t) = Len(k) + Len(t) /\ \A j \in 1..Len(k) : (k \o t)[j] = k[j]
      /\ \A j \in 1..Len(t) : (k \o t)[Len(k) + j] = t[j]
  BY <1>3, ConcatOf
<1>5. (k \o t)[Len(k) + 1] = b /\ Len(k \o t) = Len(k) + 1
  <2>1. 1 \in 1..Len(t)
    BY <1>1
  <2> QED BY <1>1, <1>4, <2>1, Zenon
<1> QED BY <1>2, <1>4, <1>5 DEF t

LEMMA BeforeIs ==
  ASSUME NEW k \in Seq(Byte), NEW l \in Seq(Byte)
  PROVE  Before(k, l) <=> \E i \in Nat : Parts(k, l, i)
<1>0. Len(k) \in Nat /\ Len(l) \in Nat /\ DOMAIN k = 1..Len(k) /\ DOMAIN l = 1..Len(l)
  OBVIOUS
<1>1. ASSUME IsStrictPrefix(k, l) PROVE \E i \in Nat : Parts(k, l, i)
  <2>1. Len(k) <= Len(l) /\ SubSeq(k, 1, Len(k)) = SubSeq(l, 1, Len(k)) /\ k # l
    BY <1>1 DEF IsStrictPrefix, IsPrefix
  <2>2. \A j \in 1..Len(k) : k[j] = l[j]
    <3> TAKE j \in 1..Len(k)
    <3>1. SubSeq(k, 1, Len(k))[j] = k[j] /\ SubSeq(l, 1, Len(k))[j] = l[j]
      BY <1>0, <2>1
    <3> QED BY <2>1, <3>1
  <2>3. Len(k) # Len(l)
    <3> HIDE DEF Byte
    <3> QED BY <1>0, <2>1, <2>2, SameKeys
  <2>4. Parts(k, l, Len(k) + 1)
    <3> DEFINE n == Len(k)
               m == Len(l)
    <3>1. n \in Nat /\ m \in Nat /\ n <= m /\ n # m
      BY <1>0, <2>1, <2>3
    <3>2. \A j \in 1..n : k[j] = l[j]
      BY <2>2
    <3> HIDE DEF n, m
    <3>3. n + 1 \in 1..m /\ n + 1 - 1 = n
      BY <3>1
    <3>4. \A j \in 1..(n + 1 - 1) : k[j] = l[j]
      BY <3>2, <3>3
    <3> QED BY <3>1, <3>3, <3>4 DEF Parts, n, m
  <2> QED BY <1>0, <2>4
<1>2. ASSUME NEW i \in DOMAIN k \cap DOMAIN l, k[i] < l[i], \A j \in 1..(i - 1) : k[j] = l[j]
      PROVE  Parts(k, l, i)
  BY <1>0, <1>2 DEF Parts
<1>3. ASSUME NEW i \in Nat, Parts(k, l, i) PROVE Before(k, l)
  <2>1. CASE i = Len(k) + 1
    <3>1. Len(k) < Len(l) /\ \A j \in 1..Len(k) : k[j] = l[j]
      BY <1>0, <1>3, <2>1 DEF Parts
    <3>2. SubSeq(k, 1, Len(k)) = SubSeq(l, 1, Len(k))
      <4>1. SubSeq(k, 1, Len(k)) \in Seq(Byte) /\ SubSeq(l, 1, Len(k)) \in Seq(Byte)
        BY <1>0, <3>1
      <4>2. Len(SubSeq(k, 1, Len(k))) = Len(k) /\ Len(SubSeq(l, 1, Len(k))) = Len(k)
        BY <1>0, <3>1
      <4>3. \A j \in 1..Len(k) : SubSeq(k, 1, Len(k))[j] = SubSeq(l, 1, Len(k))[j]
        BY <1>0, <3>1
      <4> HIDE DEF Byte
      <4> QED BY <1>0, <4>1, <4>2, <4>3, SameKeys
    <3> QED BY <1>0, <3>1, <3>2 DEF Before, IsStrictPrefix, IsPrefix
  <2>2. CASE i <= Len(k) /\ k[i] < l[i]
    BY <1>0, <1>3, <2>2 DEF Parts, Before
  <2> QED BY <1>3, <2>1, <2>2 DEF Parts
<1>4. ASSUME Before(k, l) PROVE \E i \in Nat : Parts(k, l, i)
  BY <1>0, <1>1, <1>2, <1>4 DEF Before
<1> QED BY <1>3, <1>4

\* A child placed behind the last one.
LEMMA BehindSeparates ==
  ASSUME NEW l, Spelled(l)
  PROVE  Spelled(l \o first) /\ Before(l, l \o first) /\ Len(l \o first) = Len(l) + 1
<1> DEFINE m == l \o first
<1>1. l \in Seq(Byte) /\ Len(l) \in Nat /\ first \in Seq(Byte) /\ Len(first) = 1 /\ first[1] = 14
  BY DEF Spelled, first, Byte
<1>2. /\ m \in Seq(Byte) /\ Len(m) = Len(l) + 1 /\ m[Len(l) + 1] = 14
      /\ \A j \in 1..Len(l) : m[j] = l[j]
  BY <1>1, KeyAndByte DEF first, Byte
<1> HIDE DEF m
<1>3. Parts(l, m, Len(l) + 1)
  BY <1>1, <1>2 DEF Parts
<1>4. Before(l, m)
  BY <1>1, <1>2, <1>3, BeforeIs
<1>5. Spelled(m)
  BY <1>1, <1>2 DEF Spelled
<1> QED BY <1>2, <1>4, <1>5 DEF m

LEMMA LeastExists ==
  ASSUME NEW T \in SUBSET Nat, T # {}
  PROVE  LET i == CHOOSE j \in T : \A h \in T : j <= h
         IN  i \in T /\ \A h \in T : i <= h
  BY LeastNat

\* A byte in the middle lies between, and is the lower one if there is no room.
LEMMA MidIs ==
  ASSUME NEW a \in 0..26, NEW c \in 0..27, c > a + 1
  PROVE  Mid(a, c) \in 1..26 /\ a < Mid(a, c) /\ Mid(a, c) < c
  BY DEF Mid

LEMMA Halved ==
  ASSUME NEW c, c \in 0..26, c > 1
  PROVE  Mid(1, c) \in 1..26 /\ Mid(1, c) < c
  BY DEF Mid

\* A child placed in front of the first one, whose key has room below it.
LEMMA AheadSeparates ==
  ASSUME NEW r, Spelled(r), Lowers(r) # {}
  PROVE  /\ Spelled(before(r)) /\ Before(before(r), r) /\ Len(before(r)) <= Len(r)
         /\ (\A j \in 1..Len(r) : r[j] >= 1) => \A j \in 1..Len(before(r)) : before(r)[j] >= 1
<1> DEFINE i == CHOOSE j \in Lowers(r) : \A h \in Lowers(r) : j <= h
           b == Mid(1, r[i])
           m == SubSeq(r, 1, i - 1) \o <<b>>
<1>1. r \in Seq(Byte) /\ Len(r) \in Nat /\ DOMAIN r = 1..Len(r)
  BY DEF Spelled
<1>2. i \in Lowers(r)
  <2>1. Lowers(r) \in SUBSET Nat
    BY <1>1 DEF Lowers
  <2> QED BY <2>1, LeastExists
<1> HIDE DEF i
<1>3. i \in 1..Len(r) /\ r[i] > 1 /\ r[i] \in 0..26
  <2>1. i \in 1..Len(r) /\ r[i] > 1
    BY <1>1, <1>2 DEF Lowers
  <2>2. r[i] \in Byte
    BY <1>1, <2>1
  <2> QED BY <2>1, <2>2 DEF Byte
<1>4. b \in 1..26 /\ b < r[i]
  BY <1>3, Halved
<1> HIDE DEF b
<1>5. /\ SubSeq(r, 1, i - 1) \in Seq(Byte) /\ Len(SubSeq(r, 1, i - 1)) = i - 1
      /\ \A j \in 1..(i - 1) : SubSeq(r, 1, i - 1)[j] = r[j]
  BY <1>1, <1>3
<1>7. /\ m \in Seq(Byte) /\ Len(m) = i /\ m[i] = b
      /\ \A j \in 1..(i - 1) : m[j] = r[j]
  <2> DEFINE s == SubSeq(r, 1, i - 1)
  <2>1. s \in Seq(Byte) /\ Len(s) = i - 1 /\ b \in Byte /\ m = s \o <<b>>
    BY <1>4, <1>5 DEF Byte
  <2>2. \A j \in 1..(i - 1) : s[j] = r[j]
    BY <1>5
  <2> HIDE DEF s, m
  <2>3. m \in Seq(Byte) /\ Len(m) = i - 1 + 1 /\ m[i - 1 + 1] = b /\ \A j \in 1..(i - 1) : m[j] = s[j]
    BY <2>1, KeyAndByte
  <2> QED BY <1>3, <2>2, <2>3
<1>8. before(r) = m
  BY DEF before, i, m, b
<1> HIDE DEF m
<1>9. Parts(m, r, i)
  BY <1>1, <1>3, <1>4, <1>7 DEF Parts
<1>10. Before(m, r)
  BY <1>1, <1>3, <1>7, <1>9, BeforeIs
<1>11. Spelled(m)
  BY <1>3, <1>4, <1>7 DEF Spelled
<1>12. (\A j \in 1..Len(r) : r[j] >= 1) => \A j \in 1..Len(m) : m[j] >= 1
  BY <1>1, <1>3, <1>4, <1>7
<1> QED BY <1>3, <1>7, <1>8, <1>10, <1>11, <1>12


\* What a key made by midpoint is: the left key up to the first gap within the
\* longer key and a byte that fits, or all of it and an 'n'.
Halfway(l, r, m, stop) ==
    LET longer == IF Len(l) > Len(r) THEN Len(l) ELSE Len(r)
    IN  /\ stop \in 1..(longer + 1)
        /\ Len(m) = stop
        /\ \A j \in 1..(stop - 1) : m[j] = ByteOr(l, j, 0) /\ ByteOr(r, j, 27) <= ByteOr(l, j, 0) + 1
        /\ m[stop] \in 1..26
        /\ \/ stop = longer + 1
           \/ ByteOr(l, stop, 0) < m[stop] /\ m[stop] < ByteOr(r, stop, 27)

LEMMA ByteOf ==
  ASSUME NEW k \in Seq(Byte), NEW j \in 1..Len(k), NEW x
  PROVE  ByteOr(k, j, x) = k[j] /\ k[j] \in 0..26
<1>1. DOMAIN k = 1..Len(k) /\ k[j] \in Byte
  OBVIOUS
<1> QED BY <1>1 DEF ByteOr, Byte

LEMMA NoByteOf ==
  ASSUME NEW k \in Seq(Byte), NEW j, j \notin 1..Len(k), NEW x
  PROVE  ByteOr(k, j, x) = x
<1>1. DOMAIN k = 1..Len(k)
  OBVIOUS
<1> QED BY <1>1 DEF ByteOr

LEMMA MidpointIs ==
  ASSUME NEW l, NEW r, Spelled(l), Spelled(r)
  PROVE  midpoint(l, r) \in Seq(Byte) /\ \E stop \in Nat : Halfway(l, r, midpoint(l, r), stop)
<1> DEFINE longer == IF Len(l) > Len(r) THEN Len(l) ELSE Len(r)
           gaps == Gaps(l, r) \cap 1..longer
           stop == IF gaps = {} THEN longer + 1 ELSE CHOOSE i \in gaps : \A j \in gaps : i <= j
           b == IF gaps = {} THEN 14 ELSE Mid(ByteOr(l, stop, 0), ByteOr(r, stop, 27))
           k == [i \in 1..(stop - 1) |-> ByteOr(l, i, 0)]
           m == midpoint(l, r)
<1>1. l \in Seq(Byte) /\ r \in Seq(Byte) /\ Len(l) \in Nat \ {0} /\ Len(r) \in Nat \ {0}
  BY DEF Spelled
<1>2. longer \in Nat \ {0} /\ Len(l) <= longer /\ Len(r) <= longer
  BY <1>1
<1>3. m = k \o <<b>>
  BY Zenon DEF midpoint
<1> HIDE DEF m
<1>4. Len(l \o r) \in Nat /\ longer <= Len(l \o r)
  <2>1. Len(l \o r) = Len(l) + Len(r)
    BY <1>1
  <2> QED BY <1>1, <1>2, <2>1
<1>5. gaps = {j \in 1..longer : ByteOr(r, j, 27) > ByteOr(l, j, 0) + 1}
  <2> HIDE DEF longer
  <2>1. 1..longer \subseteq 1..Len(l \o r)
    BY <1>2, <1>4
  <2> QED BY <2>1 DEF Gaps
<1> HIDE DEF longer
<1>6. gaps \in SUBSET Nat
  BY <1>5
<1> HIDE DEF gaps
<1>7. \/ gaps = {} /\ stop = longer + 1
      \/ gaps # {} /\ stop \in gaps /\ \A j \in gaps : stop <= j
  BY <1>6, LeastExists
<1> HIDE DEF stop
<1>8. stop \in 1..(longer + 1) /\ stop \in Nat \ {0}
  BY <1>2, <1>5, <1>7
<1>9. \A j \in 1..(stop - 1) : j \notin gaps /\ j \in 1..longer
  BY <1>2, <1>6, <1>7, <1>8
<1>10. \A j \in 1..longer : ByteOr(l, j, 0) \in 0..26 /\ ByteOr(r, j, 27) \in 0..27
  <2> TAKE j \in 1..longer
  <2>1. ByteOr(l, j, 0) \in 0..26
    <3>1. CASE j \in 1..Len(l)
      <4>1. ByteOr(l, j, 0) = l[j] /\ l[j] \in 0..26
        BY <1>1, <3>1, ByteOf
      <4> QED BY <4>1
    <3>2. CASE j \notin 1..Len(l)
      <4>1. ByteOr(l, j, 0) = 0
        BY <1>1, <3>2, NoByteOf
      <4> QED BY <4>1
    <3> QED BY <3>1, <3>2
  <2>2. ByteOr(r, j, 27) \in 0..27
    <3>1. CASE j \in 1..Len(r)
      <4>1. ByteOr(r, j, 27) = r[j] /\ r[j] \in 0..26
        BY <1>1, <3>1, ByteOf
      <4> QED BY <4>1
    <3>2. CASE j \notin 1..Len(r)
      <4>1. ByteOr(r, j, 27) = 27
        BY <1>1, <3>2, NoByteOf
      <4> QED BY <4>1
    <3> QED BY <3>1, <3>2
  <2> QED BY <2>1, <2>2
<1>11. /\ b \in 1..26
       /\ \/ stop = longer + 1
          \/ ByteOr(l, stop, 0) < b /\ b < ByteOr(r, stop, 27)
  <2>1. CASE gaps = {}
    <3>1. b = 14 /\ stop = longer + 1
      BY <1>7, <2>1
    <3> QED BY <3>1
  <2>2. CASE gaps # {}
    <3>1. stop \in gaps
      BY <1>7, <2>2
    <3>2. stop \in 1..longer /\ ByteOr(r, stop, 27) > ByteOr(l, stop, 0) + 1
      BY <1>5, <3>1
    <3>3. ByteOr(l, stop, 0) \in 0..26 /\ ByteOr(r, stop, 27) \in 0..27
      BY <1>10, <3>2
    <3>4. b = Mid(ByteOr(l, stop, 0), ByteOr(r, stop, 27))
      BY <2>2
    <3> QED BY <3>2, <3>3, <3>4, MidIs
  <2> QED BY <2>1, <2>2
<1> HIDE DEF b
<1>12. k \in Seq(Byte) /\ Len(k) = stop - 1 /\ \A j \in 1..(stop - 1) : k[j] = ByteOr(l, j, 0)
  <2>1. \A j \in 1..(stop - 1) : ByteOr(l, j, 0) \in Byte
    BY <1>9, <1>10 DEF Byte
  <2>2. stop - 1 \in Nat
    BY <1>8
  <2> QED BY <2>1, <2>2
<1> HIDE DEF k
<1>13. b \in Byte
  BY <1>11 DEF Byte
<1>14. /\ m \in Seq(Byte) /\ Len(m) = stop - 1 + 1 /\ m[stop - 1 + 1] = b
       /\ \A j \in 1..(stop - 1) : m[j] = k[j]
  BY <1>3, <1>12, <1>13, KeyAndByte
<1>15. stop - 1 + 1 = stop
  BY <1>8
<1>16. \A j \in 1..(stop - 1) : m[j] = ByteOr(l, j, 0)
  BY <1>12, <1>14
<1>17. \A j \in 1..(stop - 1) : ByteOr(r, j, 27) <= ByteOr(l, j, 0) + 1
  <2> TAKE j \in 1..(stop - 1)
  <2>1. j \in 1..longer /\ ~ (ByteOr(r, j, 27) > ByteOr(l, j, 0) + 1)
    BY <1>5, <1>9
  <2>2. ByteOr(l, j, 0) \in 0..26 /\ ByteOr(r, j, 27) \in 0..27
    BY <1>10, <2>1
  <2> QED BY <2>1, <2>2
<1>18. Halfway(l, r, m, stop)
  BY <1>8, <1>11, <1>14, <1>15, <1>16, <1>17 DEF Halfway, longer
<1> QED BY <1>8, <1>14, <1>18 DEF m


LEMMA ZeroOrMore ==
  ASSUME NEW x \in 0..26, ~ (x >= 1)
  PROVE  x = 0
  OBVIOUS

\* A child placed between two.
LEMMA MidpointSeparates ==
  ASSUME NEW l, NEW r, Spelled(l), Spelled(r), Before(l, r)
  PROVE  LET m == midpoint(l, r)
         IN  /\ Spelled(m) /\ Before(l, m) /\ Before(m, r)
             /\ Len(m) <= Len(l) + 1 \/ Len(m) <= Len(r) + 1
<1> DEFINE m == midpoint(l, r)
<1>1. /\ l \in Seq(Byte) /\ r \in Seq(Byte) /\ Len(l) \in Nat \ {0} /\ Len(r) \in Nat \ {0}
      /\ r[Len(r)] >= 1
  BY DEF Spelled
<1>2. m \in Seq(Byte) /\ \E stop \in Nat : Halfway(l, r, m, stop)
  BY MidpointIs
<1> HIDE DEF m
<1>3. PICK stop \in Nat : Halfway(l, r, m, stop)
  BY <1>2
<1>4. PICK i \in Nat : Parts(l, r, i)
  BY <1>1, BeforeIs
<1>5. /\ stop \in Nat \ {0} /\ Len(m) = stop
      /\ stop <= Len(l) + 1 \/ stop <= Len(r) + 1
      /\ \A j \in 1..(stop - 1) : m[j] = ByteOr(l, j, 0)
      /\ \A j \in 1..(stop - 1) : ByteOr(r, j, 27) <= ByteOr(l, j, 0) + 1
      /\ m[stop] \in 1..26
      /\ \/ stop > Len(l) /\ stop > Len(r)
         \/ ByteOr(l, stop, 0) < m[stop] /\ m[stop] < ByteOr(r, stop, 27)
  BY <1>1, <1>3 DEF Halfway
<1>6. /\ i \in 1..Len(r) /\ i - 1 <= Len(l)
      /\ \A j \in 1..(i - 1) : l[j] = r[j]
      /\ i = Len(l) + 1 \/ (i <= Len(l) /\ l[i] < r[i])
  BY <1>4 DEF Parts
<1>7. Spelled(m)
  <2>0. m[stop] \in 1..26 /\ Len(m) = stop /\ stop \in Nat \ {0}
    BY <1>5
  <2>1. Len(m) = stop /\ stop >= 1 /\ m[stop] >= 1
    <3> DEFINE x == m[stop]
    <3>1. x \in 1..26
      BY <2>0
    <3> HIDE DEF x
    <3>2. x >= 1
      BY <3>1
    <3> QED BY <2>0, <3>2 DEF x
  <2>2. Len(m) >= 1 /\ m[Len(m)] >= 1
    BY <2>1
  <2> QED BY <1>2, <2>2 DEF Spelled
<1>8. \A j \in 1..Len(l) : ByteOr(l, j, 0) = l[j] /\ l[j] \in 0..26
  <2> TAKE j \in 1..Len(l)
  <2> QED BY <1>1, ByteOf
<1>9. \A j \in 1..Len(r) : ByteOr(r, j, 27) = r[j] /\ r[j] \in 0..26
  <2> TAKE j \in 1..Len(r)
  <2> QED BY <1>1, ByteOf
<1>10. \A j \in Nat : j > Len(l) => ByteOr(l, j, 0) = 0
  <2> TAKE j \in Nat
  <2> HAVE j > Len(l)
  <2>1. j \notin 1..Len(l)
    BY <1>1
  <2> QED BY <1>1, <2>1, NoByteOf
<1>11. \E n \in Nat : Parts(l, m, n)
  <2>1. CASE stop <= Len(l)
    <3>1. stop \in 1..Len(l) /\ l[stop] < m[stop]
      BY <1>1, <1>5, <1>8, <2>1
    <3>2. \A j \in 1..(stop - 1) : l[j] = m[j]
      BY <1>1, <1>5, <1>8, <2>1
    <3>3. Parts(l, m, stop)
      BY <1>1, <1>5, <3>1, <3>2 DEF Parts
    <3> QED BY <3>3
  <2>2. CASE stop > Len(l)
    <3> DEFINE n == Len(l) + 1
    <3>1. n \in Nat /\ n \in 1..Len(m) /\ n - 1 = Len(l)
      BY <1>1, <1>5, <2>2
    <3>2. \A j \in 1..Len(l) : l[j] = m[j]
      BY <1>1, <1>5, <1>8, <2>2
    <3>3. \A j \in 1..(n - 1) : l[j] = m[j]
      BY <3>1, <3>2
    <3> HIDE DEF n
    <3>4. n = Len(l) + 1 /\ n - 1 <= Len(l)
      BY <1>1, <3>1 DEF n
    <3>5. Parts(l, m, n)
      BY <3>1, <3>3, <3>4 DEF Parts
    <3> QED BY <3>1, <3>5
  <2> QED BY <1>1, <1>5, <2>1, <2>2
\* Up to where the keys part there is no gap.
<1>12. i <= stop
  <2>1. SUFFICES ASSUME stop < i PROVE FALSE
    BY <1>5, <1>6
  <2>2. stop \in 1..(i - 1) /\ stop \in 1..Len(l) /\ stop \in 1..Len(r)
    BY <1>1, <1>5, <1>6, <2>1
  <2>3. ByteOr(l, stop, 0) = l[stop] /\ ByteOr(r, stop, 27) = r[stop] /\ l[stop] = r[stop]
    BY <1>6, <1>8, <1>9, <2>2
  <2>4. l[stop] \in 0..26
    BY <1>8, <2>2
  <2>5. ~ (stop > Len(l) /\ stop > Len(r))
    BY <1>1, <2>2
  <2>6. l[stop] < m[stop] /\ m[stop] < l[stop] /\ m[stop] \in 1..26
    BY <1>5, <2>3, <2>5
  <2> QED BY <2>4, <2>6
<1>13. \A j \in 1..(i - 1) : m[j] = r[j]
  <2> TAKE j \in 1..(i - 1)
  <2>1. j \in 1..(stop - 1) /\ j \in 1..Len(l)
    BY <1>1, <1>5, <1>6, <1>12
  <2> QED BY <1>5, <1>6, <1>8, <2>1
<1>14. \E n \in Nat : Parts(m, r, n)
  <2>1. CASE i = stop
    <3>1. m[stop] < r[stop]
      BY <1>1, <1>5, <1>6, <1>9, <2>1
    <3> QED BY <1>1, <1>5, <1>6, <1>13, <2>1, <3>1 DEF Parts
  <2>2. CASE i < stop /\ i <= Len(l)
    <3>1. i \in 1..(stop - 1) /\ i \in 1..Len(l)
      BY <1>1, <1>5, <1>6, <2>2
    <3>2. m[i] < r[i] /\ i <= Len(m)
      BY <1>5, <1>6, <1>8, <2>2, <3>1
    <3> QED BY <1>6, <1>13, <3>2 DEF Parts
  <2>3. CASE i < stop /\ i = Len(l) + 1
    \* The left key has ended: what comes are zeros, and the right key has not
    \* only zeros.
    <3> DEFINE T == {j \in i..Len(r) : r[j] >= 1}
    <3>1. T \in SUBSET Nat /\ T # {}
      BY <1>1, <1>6
    <3>2. PICK n \in T : \A h \in T : n <= h
      BY <3>1, LeastNat
    <3>3. n \in i..Len(r) /\ r[n] >= 1 /\ \A j \in i..(n - 1) : r[j] = 0
      <4>1. \A j \in i..(n - 1) : j \notin T /\ j \in i..Len(r)
        BY <1>1, <1>6, <3>1, <3>2
      <4>2. \A j \in i..Len(r) : r[j] \in 0..26
        BY <1>1, <1>6, <1>9
      <4>3. \A j \in i..(n - 1) : r[j] = 0
        <5> TAKE j \in i..(n - 1)
        <5>1. j \in i..Len(r) /\ j \notin T
          BY <4>1
        <5>2. ~ (r[j] >= 1)
          BY <5>1, Zenon DEF T
        <5>3. r[j] \in 0..26
          BY <4>2, <5>1
        <5> QED BY <5>2, <5>3, ZeroOrMore
      <4>4. n \in i..Len(r) /\ r[n] >= 1
        BY <3>2
      <4> QED BY <4>3, <4>4
    <3> HIDE DEF T
    <3>4. CASE n < stop
      <4>1. n \in Nat /\ n \in 1..Len(r) /\ n - 1 <= Len(m) /\ n <= Len(m)
        BY <1>1, <1>5, <1>6, <3>3, <3>4
      <4>2. m[n] = 0
        BY <1>1, <1>5, <1>6, <1>10, <2>3, <3>3, <3>4
      <4>3. \A j \in i..(n - 1) : m[j] = 0
        BY <1>1, <1>5, <1>6, <1>10, <2>3, <3>3, <3>4
      <4>4. \A j \in 1..(n - 1) : m[j] = r[j]
        BY <1>6, <1>13, <3>3, <4>1, <4>3
      <4>5. m[n] < r[n]
        <5>1. r[n] \in 0..26 /\ r[n] >= 1
          BY <1>9, <3>3, <4>1
        <5> QED BY <4>2, <5>1
      <4>6. Parts(m, r, n)
        BY <4>1, <4>4, <4>5 DEF Parts
      <4> QED BY <4>1, <4>6
    <3>5. CASE n >= stop
      <4>1. stop \in 1..Len(r) /\ stop - 1 <= Len(m)
        BY <1>1, <1>5, <1>6, <3>3, <3>5
      <4>2. m[stop] < r[stop]
        BY <1>1, <1>5, <1>9, <4>1
      <4>3. \A j \in i..(stop - 1) : m[j] = 0 /\ r[j] = 0
        BY <1>1, <1>5, <1>6, <1>10, <2>3, <3>3, <3>5
      <4>4. \A j \in 1..(stop - 1) : m[j] = r[j]
        BY <1>5, <1>6, <1>13, <4>3
      <4>5. Parts(m, r, stop)
        BY <1>5, <4>1, <4>2, <4>4 DEF Parts
      <4> QED BY <4>5
    <3> QED BY <1>5, <3>3, <3>4, <3>5
  <2> QED BY <1>1, <1>5, <1>6, <1>12, <2>1, <2>2, <2>3
<1>15. Before(l, m) /\ Before(m, r)
  BY <1>1, <1>2, <1>11, <1>14, BeforeIs
<1> QED BY <1>5, <1>7, <1>15 DEF m


-----------------------------------------------------------------------------
(* The keys of siblings: the invariant. *)

\* The first key is made from none that is before it, so it has no byte below
\* 'a': it is all 'a's when there is no room in front of it.
KeysInv ==
    /\ keys \in Seq(Seq(Byte))
    /\ \A i \in 1..Len(keys) : Spelled(keys[i]) /\ Len(keys[i]) <= Len(keys)
    /\ \A i \in 1..(Len(keys) - 1) : Before(keys[i], keys[i + 1])
    /\ Len(keys) >= 1 => \A j \in 1..Len(keys[1]) : keys[1][j] >= 1
    /\ placing = "panicked" => Len(keys) >= 1 /\ Lowers(keys[1]) = {}

\* What the keys are once one more is among them.
IsInserted(t, S, s, i, e) ==
    /\ t \in Seq(S) /\ Len(t) = Len(s) + 1 /\ t[i] = e
    /\ \A j \in 1..(i - 1) : t[j] = s[j]
    /\ \A j \in (i + 1)..(Len(s) + 1) : t[j] = s[j - 1]

LEMMA Inserted ==
  ASSUME NEW S, NEW s \in Seq(S), NEW i \in 1..(Len(s) + 1), NEW e \in S
  PROVE  IsInserted(InsertAt(s, i, e), S, s, i, e)
<1> DEFINE a == SubSeq(s, 1, i - 1)
           b == <<e>>
           c == SubSeq(s, i, Len(s))
<1>1. /\ a \in Seq(S) /\ Len(a) = i - 1 /\ \A j \in 1..(i - 1) : a[j] = s[j]
      /\ c \in Seq(S) /\ Len(c) = Len(s) + 1 - i /\ \A j \in 1..(Len(s) + 1 - i) : c[j] = s[i + j - 1]
      /\ b \in Seq(S) /\ Len(b) = 1 /\ b[1] = e
  OBVIOUS
<1>2. InsertAt(s, i, e) = (a \o b) \o c
  BY DEF InsertAt
<1>3. Len(s) \in Nat /\ i \in 1..(Len(s) + 1)
  OBVIOUS
<1> HIDE DEF a, b, c
<1>4. /\ a \o b \in Seq(S) /\ Len(a \o b) = i
      /\ \A j \in 1..(i - 1) : (a \o b)[j] = s[j]
      /\ (a \o b)[i] = e
  <2>1. Listed(a) /\ Listed(b)
    BY <1>1, ListedOf
  <2>2. /\ Len(a \o b) = Len(a) + Len(b)
        /\ \A j \in 1..Len(a) : (a \o b)[j] = a[j]
        /\ \A j \in 1..Len(b) : (a \o b)[Len(a) + j] = b[j]
    BY <2>1, ConcatOf
  <2>3. 1 \in 1..Len(b) /\ Len(a) + 1 = i
    BY <1>1, <1>3
  <2>4. (a \o b)[i] = e
    BY <1>1, <2>2, <2>3
  <2>5. a \o b \in Seq(S)
    BY <1>1
  <2> QED BY <1>1, <1>3, <2>2, <2>4, <2>5
<1> DEFINE d == a \o b
           t == d \o c
<1> HIDE DEF d
<1>5. Listed(d) /\ Listed(c) /\ d \in Seq(S)
  BY <1>1, <1>4, ListedOf DEF d
<1>6. t \in Seq(S)
  BY <1>1, <1>5
<1>7. /\ Len(t) = Len(d) + Len(c)
      /\ \A j \in 1..Len(d) : t[j] = d[j]
      /\ \A j \in 1..Len(c) : t[Len(d) + j] = c[j]
  BY <1>5, ConcatOf
<1> HIDE DEF t
<1>8. Len(d) = i /\ d[i] = e /\ \A j \in 1..(i - 1) : d[j] = s[j]
  BY <1>4 DEF d
<1>9. Len(t) = Len(s) + 1 /\ t[i] = e /\ \A j \in 1..(i - 1) : t[j] = s[j]
  BY <1>1, <1>3, <1>7, <1>8
<1>10. \A j \in (i + 1)..(Len(s) + 1) : t[j] = s[j - 1]
  <2> TAKE j \in (i + 1)..(Len(s) + 1)
  <2> DEFINE h == j - i
  <2>1. h \in 1..Len(c) /\ h \in 1..(Len(s) + 1 - i) /\ Len(d) + h = j /\ i + h - 1 = j - 1
    BY <1>1, <1>3, <1>8
  <2> HIDE DEF h
  <2>2. t[Len(d) + h] = c[h] /\ c[h] = s[i + h - 1]
    BY <1>1, <1>7, <2>1
  <2> QED BY <2>1, <2>2
<1>11. InsertAt(s, i, e) = t
  BY <1>2 DEF t, d
<1> QED BY <1>6, <1>9, <1>10, <1>11 DEF IsInserted

\* Keys s with one more, e, put at i, between what is there.
LEMMA InsertKeeps ==
  ASSUME NEW s \in Seq(Seq(Byte)), NEW i \in 1..(Len(s) + 1), NEW e, Spelled(e),
         \A j \in 1..(Len(s) - 1) : Before(s[j], s[j + 1]),
         i > 1 => Before(s[i - 1], e), i <= Len(s) => Before(e, s[i])
  PROVE  LET t == InsertAt(s, i, e)
         IN  \A j \in 1..(Len(t) - 1) : Before(t[j], t[j + 1])
<1> DEFINE t == InsertAt(s, i, e)
<1>1. e \in Seq(Byte)
  BY DEF Spelled
<1>2. /\ Len(t) = Len(s) + 1 /\ t[i] = e
      /\ \A j \in 1..(i - 1) : t[j] = s[j]
      /\ \A j \in (i + 1)..(Len(s) + 1) : t[j] = s[j - 1]
  <2>1. IsInserted(t, Seq(Byte), s, i, e)
    <3> HIDE DEF Byte
    <3> QED BY <1>1, Inserted
  <2> QED BY <2>1 DEF IsInserted
<1> HIDE DEF t
<1>3. Len(s) \in Nat
  OBVIOUS
<1> SUFFICES ASSUME NEW j \in 1..(Len(t) - 1) PROVE Before(t[j], t[j + 1])
  BY DEF t
<1>4. j \in 1..Len(s)
  BY <1>2, <1>3
<1>5. CASE j < i - 1
  <2>1. t[j] = s[j] /\ t[j + 1] = s[j + 1] /\ j \in 1..(Len(s) - 1)
    BY <1>2, <1>3, <1>4, <1>5
  <2> QED BY <2>1
<1>6. CASE j = i - 1
  <2>1. t[j] = s[i - 1] /\ t[j + 1] = e /\ i > 1
    BY <1>2, <1>3, <1>4, <1>6
  <2> QED BY <2>1
<1>7. CASE j = i
  <2>1. t[j] = e /\ t[j + 1] = s[i] /\ i <= Len(s)
    BY <1>2, <1>3, <1>4, <1>7
  <2> QED BY <2>1
<1>8. CASE j > i
  <2> DEFINE h == j - 1
  <2>1. t[j] = s[h] /\ t[j + 1] = s[j] /\ h \in 1..(Len(s) - 1) /\ h + 1 = j
    BY <1>2, <1>3, <1>4, <1>8
  <2> HIDE DEF h
  <2> QED BY <2>1
<1> QED BY <1>3, <1>4, <1>5, <1>6, <1>7, <1>8

LEMMA OneOnly ==
  ASSUME NEW x \in 0..26, ~ (x > 1), x >= 1
  PROVE  x = 1
  OBVIOUS


LEMMA KeyOf ==
  ASSUME KeysInv, NEW i \in 1..Len(keys)
  PROVE  ByteOr(keys, i, NoKey) = keys[i] /\ Spelled(keys[i]) /\ keys[i] # NoKey /\ keys[i] \in Seq(Byte)
<1>1. DOMAIN keys = 1..Len(keys)
  BY DEF KeysInv
<1>2. Spelled(keys[i])
  BY DEF KeysInv
<1>3. keys[i] # NoKey
  BY <1>2 DEF Spelled, NoKey
<1> QED BY <1>1, <1>2, <1>3 DEF ByteOr, Spelled

LEMMA NoKeyOf ==
  ASSUME KeysInv, NEW i, i \notin 1..Len(keys)
  PROVE  ByteOr(keys, i, NoKey) = NoKey
<1>1. DOMAIN keys = 1..Len(keys)
  BY DEF KeysInv
<1> QED BY <1>1 DEF ByteOr

\* The key that is made lies between those of its neighbours, is a byte longer
\* at most, and is as the first ones are if it is to be the first.
Fitting(i, e) ==
    /\ Spelled(e) /\ Len(e) <= Len(keys) + 1
    /\ i > 1 => Before(keys[i - 1], e)
    /\ i <= Len(keys) => Before(e, keys[i])
    /\ i = 1 => \A j \in 1..Len(e) : e[j] >= 1

LEMMA BetweenFits ==
  ASSUME KeysInv, NEW i \in 1..(Len(keys) + 1),
         NEW l, l = ByteOr(keys, i - 1, NoKey), NEW r, r = ByteOr(keys, i, NoKey),
         l # NoKey \/ r = NoKey \/ Lowers(r) # {}
  PROVE  Fitting(i, between(l, r))
<1>1. Len(keys) \in Nat
  BY DEF KeysInv
<1>2. CASE i = 1 /\ Len(keys) = 0
  <2>1. l = NoKey /\ r = NoKey
    BY <1>2, NoKeyOf
  <2>2. between(l, r) = first
    BY <2>1 DEF between
  <2>3. Spelled(first) /\ Len(first) = 1 /\ \A j \in 1..Len(first) : first[j] >= 1
    BY DEF Spelled, first, Byte
  <2>4. Len(first) <= Len(keys) + 1 /\ ~ (i > 1) /\ ~ (i <= Len(keys))
    BY <1>2, <2>3
  <2> QED BY <2>2, <2>3, <2>4, Zenon DEF Fitting
<1>3. CASE i > 1 /\ i = Len(keys) + 1
  <2>1. i - 1 \in 1..Len(keys) /\ i - 1 = Len(keys) /\ i \notin 1..Len(keys)
    BY <1>1, <1>3
  <2>2. l = keys[i - 1] /\ Spelled(l) /\ l # NoKey /\ r = NoKey
    BY <2>1, KeyOf, NoKeyOf
  <2>3. between(l, r) = l \o first
    BY <2>2 DEF between
  <2>4. Spelled(l \o first) /\ Before(l, l \o first) /\ Len(l \o first) = Len(l) + 1
    BY <2>2, BehindSeparates
  <2>5. Len(l) <= Len(keys) /\ Len(l) \in Nat
    BY <2>1, <2>2 DEF KeysInv, Spelled
  <2>6. Len(l \o first) <= Len(keys) + 1 /\ ~ (i = 1) /\ ~ (i <= Len(keys))
    BY <1>1, <1>3, <2>4, <2>5
  <2> QED BY <2>2, <2>3, <2>4, <2>6, Zenon DEF Fitting
<1>4. CASE i = 1 /\ Len(keys) >= 1
  <2>1. i - 1 \notin 1..Len(keys) /\ i \in 1..Len(keys)
    BY <1>1, <1>4
  <2>2. l = NoKey /\ r = keys[1] /\ Spelled(r) /\ r # NoKey
    BY <1>4, <2>1, KeyOf, NoKeyOf
  <2>3. between(l, r) = before(r) /\ Lowers(r) # {}
    BY <2>2 DEF between
  <2>4. /\ Len(r) <= Len(keys) /\ Len(r) \in Nat
        /\ \A j \in 1..Len(r) : r[j] >= 1
    <3>1. Len(keys[1]) <= Len(keys) /\ \A j \in 1..Len(keys[1]) : keys[1][j] >= 1
      BY <1>4, <2>1 DEF KeysInv
    <3>2. Len(r) \in Nat
      BY <2>2 DEF Spelled
    <3> QED BY <2>2, <3>1, <3>2, Zenon
  <2>5. /\ Spelled(before(r)) /\ Before(before(r), r) /\ Len(before(r)) <= Len(r)
        /\ \A j \in 1..Len(before(r)) : before(r)[j] >= 1
    BY <2>2, <2>3, <2>4, AheadSeparates
  <2>6. Len(before(r)) \in Nat
    BY <2>5 DEF Spelled
  <2> QED BY <1>1, <1>4, <2>2, <2>3, <2>4, <2>5, <2>6 DEF Fitting
<1>5. CASE i > 1 /\ i <= Len(keys)
  <2>1. i - 1 \in 1..Len(keys) /\ i \in 1..Len(keys) /\ i - 1 \in 1..(Len(keys) - 1) /\ i - 1 + 1 = i
    BY <1>1, <1>5
  <2>2. l = keys[i - 1] /\ Spelled(l) /\ l # NoKey /\ r = keys[i] /\ Spelled(r) /\ r # NoKey
    BY <2>1, KeyOf
  <2>3. between(l, r) = midpoint(l, r)
    BY <2>2 DEF between
  <2>4. Before(l, r)
    BY <2>1, <2>2 DEF KeysInv
  <2>5. /\ Len(l) <= Len(keys) /\ Len(l) \in Nat /\ Len(r) <= Len(keys) /\ Len(r) \in Nat
    BY <2>1, <2>2 DEF KeysInv, Spelled
  <2> DEFINE m == midpoint(l, r)
  <2>6. /\ Spelled(m) /\ Before(l, m) /\ Before(m, r)
        /\ Len(m) <= Len(l) + 1 \/ Len(m) <= Len(r) + 1
    BY <2>2, <2>4, MidpointSeparates
  <2> HIDE DEF m
  <2>7. Len(m) \in Nat
    BY <2>6 DEF Spelled
  <2>8. Len(m) <= Len(keys) + 1
    BY <1>1, <2>5, <2>6, <2>7
  <2>9. between(l, r) = m
    BY <2>3 DEF m
  <2> QED BY <1>5, <2>2, <2>6, <2>8, <2>9 DEF Fitting
<1> QED BY <1>1, <1>2, <1>3, <1>4, <1>5

LEMMA PlaceKeepsKeys ==
  ASSUME KeysInv, NEW i \in 1..(Len(keys) + 1), PlaceAt(i)
  PROVE  KeysInv'
<1> DEFINE l == ByteOr(keys, i - 1, NoKey)
           r == ByteOr(keys, i, NoKey)
<1>0. /\ keys \in Seq(Seq(Byte)) /\ Len(keys) \in Nat /\ placing = "running"
      /\ \A j \in 1..Len(keys) : Spelled(keys[j]) /\ Len(keys[j]) <= Len(keys)
      /\ \A j \in 1..(Len(keys) - 1) : Before(keys[j], keys[j + 1])
      /\ Len(keys) >= 1 => \A j \in 1..Len(keys[1]) : keys[1][j] >= 1
  BY DEF KeysInv, PlaceAt
<1>1. CASE l = NoKey /\ r # NoKey /\ Lowers(r) = {} /\ placing' = "panicked" /\ keys' = keys
  <2>1. i \in 1..Len(keys)
    BY <1>1, NoKeyOf
  <2>2. i - 1 \notin 1..Len(keys)
    BY <1>1, KeyOf
  <2>3. i = 1 /\ Len(keys) >= 1
    BY <1>0, <2>1, <2>2
  <2>4. r = keys[1]
    BY <2>1, <2>3, KeyOf
  <2> QED BY <1>1, <2>3, <2>4 DEF KeysInv
<1>2. CASE /\ l # NoKey \/ r = NoKey \/ Lowers(r) # {}
           /\ keys' = InsertAt(keys, i, between(l, r)) /\ placing' = placing
  <2> DEFINE e == between(l, r)
             t == InsertAt(keys, i, e)
  <2>1. Fitting(i, e)
    BY <1>2, BetweenFits
  <2> HIDE DEF l, r, e
  <2>2. e \in Seq(Byte)
    BY <2>1 DEF Fitting, Spelled
  <2>3. \A j \in 1..(Len(t) - 1) : Before(t[j], t[j + 1])
    BY <1>0, <2>1, InsertKeeps DEF Fitting
  <2>4. IsInserted(t, Seq(Byte), keys, i, e)
    <3> HIDE DEF Byte
    <3> QED BY <1>0, <2>2, Inserted
  <2> HIDE DEF t
  <2>5. /\ t \in Seq(Seq(Byte)) /\ Len(t) = Len(keys) + 1 /\ t[i] = e
        /\ \A j \in 1..(i - 1) : t[j] = keys[j]
        /\ \A j \in (i + 1)..(Len(keys) + 1) : t[j] = keys[j - 1]
    BY <2>4 DEF IsInserted
  <2>6. ASSUME NEW j \in 1..Len(t) PROVE Spelled(t[j]) /\ Len(t[j]) <= Len(t)
    <3>1. CASE j = i
      BY <2>1, <2>5, <3>1 DEF Fitting
    <3>2. CASE j < i
      <4>1. t[j] = keys[j] /\ j \in 1..Len(keys)
        BY <1>0, <2>5, <3>2
      <4>2. Spelled(keys[j]) /\ Len(keys[j]) <= Len(keys) /\ Len(keys[j]) \in Nat
        BY <1>0, <4>1 DEF Spelled
      <4> QED BY <1>0, <2>5, <4>1, <4>2
    <3>3. CASE j > i
      <4> DEFINE h == j - 1
      <4>0. j \in (i + 1)..(Len(keys) + 1) /\ h \in 1..Len(keys)
        BY <1>0, <2>5, <3>3
      <4>1. t[j] = keys[h] /\ h \in 1..Len(keys)
        BY <2>5, <4>0
      <4> HIDE DEF h
      <4>2. Spelled(keys[h]) /\ Len(keys[h]) <= Len(keys) /\ Len(keys[h]) \in Nat
        BY <1>0, <4>1 DEF Spelled
      <4> QED BY <1>0, <2>5, <4>1, <4>2
    <3>4. j < i \/ j = i \/ j > i
      BY <1>0, <2>5
    <3> QED BY <3>1, <3>2, <3>3, <3>4
  <2>7. \A j \in 1..Len(t[1]) : t[1][j] >= 1
    <3>1. CASE i = 1
      BY <2>1, <2>5, <3>1 DEF Fitting
    <3>2. CASE i > 1
      <4>1. t[1] = keys[1] /\ Len(keys) >= 1
        BY <1>0, <2>5, <3>2
      <4> QED BY <1>0, <4>1
    <3> QED BY <3>1, <3>2
  <2>8. keys' = t /\ placing' = "running"
    BY <1>0, <1>2 DEF t, e
  <2>9. /\ keys' \in Seq(Seq(Byte))
        /\ \A j \in 1..Len(keys') : Spelled(keys'[j]) /\ Len(keys'[j]) <= Len(keys')
        /\ \A j \in 1..(Len(keys') - 1) : Before(keys'[j], keys'[j + 1])
        /\ \A j \in 1..Len(keys'[1]) : keys'[1][j] >= 1
    BY <2>3, <2>5, <2>6, <2>7, <2>8
  <2> QED BY <2>8, <2>9 DEF KeysInv
<1>3. \/ l = NoKey /\ r # NoKey /\ Lowers(r) = {} /\ placing' = "panicked" /\ keys' = keys
      \/ /\ l # NoKey \/ r = NoKey \/ Lowers(r) # {}
         /\ keys' = InsertAt(keys, i, between(l, r)) /\ placing' = placing
  BY DEF PlaceAt
<1> QED BY <1>1, <1>2, <1>3

LEMMA KeysStart == AgentInit => KeysInv
<1> SUFFICES ASSUME AgentInit PROVE KeysInv
  OBVIOUS
<1>1. keys = <<>> /\ placing \in {"idle", "running"}
  BY DEF AgentInit, Watching, Asking, Alone, KeysIdle, KeysInit
<1> QED BY <1>1 DEF KeysInv

LEMMA KeysSteps == KeysInv /\ [AgentNext]_agentVars => KeysInv'
<1> SUFFICES ASSUME KeysInv, [AgentNext]_agentVars PROVE KeysInv'
  OBVIOUS
<1>1. CASE UNCHANGED keyVars
  BY <1>1 DEF KeysInv, keyVars
<1>2. CASE PlaceSibling
  BY <1>2, PlaceKeepsKeys DEF PlaceSibling, KeysNext
<1>3. \/ UNCHANGED keyVars \/ PlaceSibling
  BY DEF AgentNext, Edit, Match, Walk, KeepHandle, SpeakPath, agentVars, besideVars
<1> QED BY <1>1, <1>2, <1>3

\* What the keys of one parent's children are, whatever was placed where.
THEOREM KeysInvHolds == AgentSpec => []KeysInv
<1> QED BY KeysStart, KeysSteps, PTL DEF AgentSpec

\* A key lies strictly between those of its neighbours, and none is longer than
\* the siblings are many; placing fails only in front of a key that is all
\* 'a's (tree.rs:53-56, :82-87, :96-130).
THEOREM KeysDoSeparate == AgentSpec => []KeysSeparate
<1>1. KeysInv => KeysSeparate
  <2> SUFFICES ASSUME KeysInv PROVE KeysSeparate
    OBVIOUS
  <2>1. DOMAIN keys = 1..Len(keys)
    BY DEF KeysInv
  <2>2. ASSUME placing = "panicked" PROVE ToSet(keys[1]) = {1}
    <3>1. Len(keys) >= 1 /\ Lowers(keys[1]) = {} /\ Len(keys) \in Nat
      BY <2>2 DEF KeysInv
    <3>2. 1 \in 1..Len(keys) /\ \A j \in 1..Len(keys[1]) : keys[1][j] >= 1
      BY <3>1 DEF KeysInv
    <3> DEFINE k == keys[1]
    <3>3. k \in Seq(Byte) /\ Len(k) >= 1 /\ Len(k) \in Nat /\ DOMAIN k = 1..Len(k)
      BY <3>2, KeyOf DEF Spelled
    <3>4. \A j \in 1..Len(k) : k[j] \in 0..26
      BY <3>3, ByteOf
    <3>5. \A j \in 1..Len(k) : ~ (k[j] > 1) /\ k[j] >= 1
      BY <3>1, <3>2, <3>3 DEF Lowers
    <3> HIDE DEF k
    <3>6. \A j \in 1..Len(k) : k[j] = 1
      <4> TAKE j \in 1..Len(k)
      <4> QED BY <3>4, <3>5, OneOnly
    <3>7. 1 \in 1..Len(k)
      BY <3>3
    <3>8. ToSet(k) = {1}
      BY <3>3, <3>6, <3>7 DEF ToSet
    <3> QED BY <3>8 DEF k
  <2> QED BY <2>1, <2>2 DEF KeysInv, KeysSeparate
<1> QED BY <1>1, KeysInvHolds, PTL
=============================================================================
