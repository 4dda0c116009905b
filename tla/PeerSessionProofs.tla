------------------------- MODULE PeerSessionProofs --------------------------
(***************************************************************************)
(* For any clients, any states they can say of themselves and any number   *)
(* of restarts: minted ids collide only in the ways the code leaves open,  *)
(* nobody is present who has gone, and a client that has read all it was   *)
(* sent draws who is present in the room.                                  *)
(*                                                                         *)
(* The ids rest on one Welcome per client (OneWelcome) and on every minted *)
(* id being behind its client's count (MintsAreOld).  Presence rests on    *)
(* what a client will have heard of a peer once it has read all its        *)
(* frames, whichever of the writer's channels they are in (NewsArrives).   *)
(***************************************************************************)
EXTENDS PeerSession, FoldProofs

-----------------------------------------------------------------------------
(* Frames and presence maps. *)

\* What a presence map can be, and the frames of a connection.
Presences == UNION {[S -> States] : S \in SUBSET Nat}
Welcomes == [type : {"Welcome"}, peer : Nat, presence : Presences]
News == [type : {"PresenceUpdate"}, peer : Nat, state : States]
          \cup [type : {"PresenceLeft"}, peer : Nat]
Ends == [type : {"Disconnected"}]
Frames == Welcomes \cup News \cup Ends

\* A frame that says something of peer p, and what it leaves p with.
Entry(f, p) == IF p \in DOMAIN f THEN {f[p]} ELSE {}
About(m, p) == m.type \in {"Welcome", "Disconnected"} \/ m.peer = p
Says(m, p) == CASE m.type = "Welcome" -> Entry(m.presence, p)
                [] m.type = "PresenceUpdate" -> {m.state}
                [] m.type \in {"PresenceLeft", "Disconnected"} -> {}
Abouts(s, p) == {k \in DOMAIN s : About(s[k], p)}
Told(e, s, p) == IF Abouts(s, p) = {} THEN e ELSE Says(s[Max(Abouts(s, p))], p)

LEMMA FrameKinds ==
  ASSUME NEW m \in Frames
  PROVE  /\ m.type = "Welcome" => m \in Welcomes /\ m.peer \in Nat /\ m.presence \in Presences
         /\ m.type = "PresenceUpdate" => m \in News /\ m.peer \in Nat /\ m.state \in States
         /\ m.type = "PresenceLeft" => m \in News /\ m.peer \in Nat
         /\ m.type \in {"Welcome", "PresenceUpdate", "PresenceLeft", "Disconnected"}
BY DEF Frames, Welcomes, News, Ends

LEMMA NewsKinds ==
  ASSUME NEW m \in News
  PROVE  /\ m \in Frames /\ m.peer \in Nat
         /\ m.type \in {"PresenceUpdate", "PresenceLeft"}
         /\ m.type = "PresenceUpdate" => m.state \in States
BY DEF Frames, News

LEMMA WelcomeKinds ==
  ASSUME NEW m \in Welcomes
  PROVE  m \in Frames /\ m.type = "Welcome" /\ m.peer \in Nat /\ m.presence \in Presences
BY DEF Frames, Welcomes

LEMMA MapsOfPresence ==
  ASSUME NEW f \in Presences
  PROVE  /\ DOMAIN f \in SUBSET Nat /\ f = [x \in DOMAIN f |-> f[x]]
         /\ \A x \in DOMAIN f : f[x] \in States
BY DEF Presences

\* Two maps with the same entries are the same.
LEMMA EntriesTell ==
  ASSUME NEW f \in Presences, NEW g \in Presences, \A p \in Nat : Entry(f, p) = Entry(g, p)
  PROVE  f = g
<1>1. \A p \in Nat : p \in DOMAIN f <=> p \in DOMAIN g
  BY DEF Entry
<1>2. DOMAIN f = DOMAIN g
  BY <1>1, MapsOfPresence
<1>3. \A p \in DOMAIN f : f[p] = g[p]
  BY <1>1, MapsOfPresence DEF Entry
<1> QED BY <1>2, <1>3, MapsOfPresence

\* Puts and removals keep a map, and change the entry of their key alone.
LEMMA PutEntries ==
  ASSUME NEW f \in Presences, NEW k \in Nat, NEW v \in States
  PROVE  /\ Put(f, k, v) \in Presences
         /\ Entry(Put(f, k, v), k) = {v}
         /\ \A p \in Nat \ {k} : Entry(Put(f, k, v), p) = Entry(f, p)
<1>1. DOMAIN f \cup {k} \in SUBSET Nat
  BY MapsOfPresence
<1>2. Put(f, k, v) \in [DOMAIN f \cup {k} -> States]
  BY MapsOfPresence DEF Put
<1>3. Put(f, k, v) \in Presences
  BY <1>1, <1>2 DEF Presences
<1>4. Entry(Put(f, k, v), k) = {v}
  BY DEF Put, Entry
<1>5. \A p \in Nat \ {k} : Entry(Put(f, k, v), p) = Entry(f, p)
  BY DEF Put, Entry
<1> QED BY <1>3, <1>4, <1>5

LEMMA WithoutEntries ==
  ASSUME NEW f \in Presences, NEW k \in Nat
  PROVE  /\ Without(f, k) \in Presences
         /\ Entry(Without(f, k), k) = {}
         /\ \A p \in Nat \ {k} : Entry(Without(f, k), p) = Entry(f, p)
<1>1. DOMAIN f \ {k} \in SUBSET Nat
  BY MapsOfPresence
<1>2. Without(f, k) \in [DOMAIN f \ {k} -> States]
  BY MapsOfPresence DEF Without, Restrict
<1>3. Without(f, k) \in Presences
  BY <1>1, <1>2 DEF Presences
<1>4. Entry(Without(f, k), k) = {}
  BY DEF Without, Restrict, Entry
<1>5. \A p \in Nat \ {k} : Entry(Without(f, k), p) = Entry(f, p)
  BY DEF Without, Restrict, Entry
<1> QED BY <1>3, <1>4, <1>5

LEMMA EmptyEntries == EmptyMap \in Presences /\ \A p : Entry(EmptyMap, p) = {}
<1>1. EmptyMap \in [{} -> States] /\ {} \in SUBSET Nat
  BY DEF EmptyMap
<1>2. EmptyMap \in Presences
  BY <1>1 DEF Presences
<1> QED BY <1>2 DEF EmptyMap, Entry

\* A frame leaves the peers it is about with what it says, and the others
\* with what they had.
LEMMA DrainedEntries ==
  ASSUME NEW f \in Presences, NEW m \in Frames
  PROVE  /\ Drained(f, m) \in Presences
         /\ \A p \in Nat : Entry(Drained(f, m), p) = IF About(m, p) THEN Says(m, p) ELSE Entry(f, p)
<1>1. CASE m.type = "Welcome"
  BY <1>1, FrameKinds DEF Drained, About, Says
<1>2. CASE m.type = "PresenceUpdate"
  <2>1. Drained(f, m) = Put(f, m.peer, m.state)
    BY <1>2 DEF Drained
  <2>2. \A p \in Nat : (About(m, p) <=> p = m.peer) /\ Says(m, p) = {m.state}
    BY <1>2 DEF About, Says
  <2>3. m.peer \in Nat /\ m.state \in States
    BY <1>2, FrameKinds
  <2>4. Drained(f, m) \in Presences
    BY <2>1, <2>3, PutEntries
  <2>5. ASSUME NEW p \in Nat
        PROVE  Entry(Drained(f, m), p) = IF About(m, p) THEN Says(m, p) ELSE Entry(f, p)
    <3>1. CASE p = m.peer
      <4>1. Entry(Put(f, m.peer, m.state), m.peer) = {m.state}
        <5> DEFINE k == m.peer
               v == m.state
        <5>1. k \in Nat /\ v \in States
          BY <2>3
        <5> HIDE DEF k, v
        <5>2. Entry(Put(f, k, v), k) = {v}
          BY <5>1, PutEntries
        <5> QED BY <5>2 DEF k, v
      <4> QED BY <3>1, <4>1, <2>1, <2>2, Zenon
    <3>2. CASE p # m.peer
      BY <3>2, <2>1, <2>2, <2>3, PutEntries
    <3> QED BY <3>1, <3>2
  <2> QED BY <2>4, <2>5
<1>3. CASE m.type = "PresenceLeft"
  <2>1. Drained(f, m) = Without(f, m.peer)
    BY <1>3 DEF Drained
  <2>2. \A p \in Nat : (About(m, p) <=> p = m.peer) /\ Says(m, p) = {}
    BY <1>3 DEF About, Says
  <2>3. m.peer \in Nat
    BY <1>3, FrameKinds
  <2>4. Drained(f, m) \in Presences
    BY <2>1, <2>3, WithoutEntries
  <2>5. ASSUME NEW p \in Nat
        PROVE  Entry(Drained(f, m), p) = IF About(m, p) THEN Says(m, p) ELSE Entry(f, p)
    <3>1. CASE p = m.peer
      BY <3>1, <2>1, <2>2, <2>3, WithoutEntries
    <3>2. CASE p # m.peer
      BY <3>2, <2>1, <2>2, <2>3, WithoutEntries
    <3> QED BY <3>1, <3>2
  <2> QED BY <2>4, <2>5
<1>4. CASE m.type = "Disconnected"
  <2>1. Drained(f, m) = EmptyMap
    BY <1>4 DEF Drained
  <2>2. \A p \in Nat : About(m, p) /\ Says(m, p) = {}
    BY <1>4 DEF About, Says
  <2> QED BY <2>1, <2>2, EmptyEntries
<1> QED BY <1>1, <1>2, <1>3, <1>4, FrameKinds

\* The same for the typed view, where a Welcome leaves what is there by now.
LEMMA TypedEntries ==
  ASSUME NEW now \in Presences, NEW f \in Presences, NEW m \in Frames
  PROVE  /\ Typed(now, f, m) \in Presences
         /\ m.type # "Disconnected" =>
              \A p \in Nat : Entry(Typed(now, f, m), p) =
                IF m.type = "Welcome" THEN Entry(now, p)
                ELSE IF About(m, p) THEN Says(m, p) ELSE Entry(f, p)
<1>1. CASE m.type = "Welcome"
  BY <1>1 DEF Typed
<1>2. CASE m.type = "PresenceUpdate"
  <2>1. Typed(now, f, m) = Put(f, m.peer, m.state)
    BY <1>2 DEF Typed
  <2>2. \A p \in Nat : (About(m, p) <=> p = m.peer) /\ Says(m, p) = {m.state}
    BY <1>2 DEF About, Says
  <2>3. m.peer \in Nat /\ m.state \in States
    BY <1>2, FrameKinds
  <2>4. Typed(now, f, m) \in Presences
    BY <2>1, <2>3, PutEntries
  <2>5. ASSUME NEW p \in Nat
        PROVE  Entry(Typed(now, f, m), p) = IF About(m, p) THEN Says(m, p) ELSE Entry(f, p)
    <3>1. CASE p = m.peer
      <4>1. Entry(Put(f, m.peer, m.state), m.peer) = {m.state}
        <5> DEFINE k == m.peer
               v == m.state
        <5>1. k \in Nat /\ v \in States
          BY <2>3
        <5> HIDE DEF k, v
        <5>2. Entry(Put(f, k, v), k) = {v}
          BY <5>1, PutEntries
        <5> QED BY <5>2 DEF k, v
      <4> QED BY <3>1, <4>1, <2>1, <2>2, Zenon
    <3>2. CASE p # m.peer
      BY <3>2, <2>1, <2>2, <2>3, PutEntries
    <3> QED BY <3>1, <3>2
  <2> QED BY <1>2, <2>4, <2>5
<1>3. CASE m.type = "PresenceLeft"
  <2>1. Typed(now, f, m) = Without(f, m.peer)
    BY <1>3 DEF Typed
  <2>2. \A p \in Nat : (About(m, p) <=> p = m.peer) /\ Says(m, p) = {}
    BY <1>3 DEF About, Says
  <2>3. m.peer \in Nat
    BY <1>3, FrameKinds
  <2>4. Typed(now, f, m) \in Presences
    BY <2>1, <2>3, WithoutEntries
  <2>5. ASSUME NEW p \in Nat
        PROVE  Entry(Typed(now, f, m), p) = IF About(m, p) THEN Says(m, p) ELSE Entry(f, p)
    <3>1. CASE p = m.peer
      BY <3>1, <2>1, <2>2, <2>3, WithoutEntries
    <3>2. CASE p # m.peer
      BY <3>2, <2>1, <2>2, <2>3, WithoutEntries
    <3> QED BY <3>1, <3>2
  <2> QED BY <1>3, <2>4, <2>5
<1>4. CASE m.type = "Disconnected"
  BY <1>4 DEF Typed
<1> QED BY <1>1, <1>2, <1>3, <1>4, FrameKinds

-----------------------------------------------------------------------------
(* What a sequence of frames leaves a peer with: what the last frame says  *)
(* that is about it.                                                       *)

LEMMA LastAbout ==
  ASSUME NEW s, s \in Seq(Frames), NEW p, Abouts(s, p) # {}
  PROVE  /\ Max(Abouts(s, p)) \in Abouts(s, p)
         /\ \A k \in Abouts(s, p) : k <= Max(Abouts(s, p))
<1> DEFINE S == Abouts(s, p)
<1>1. S \in SUBSET Nat /\ Len(s) \in Nat /\ \A k \in S : k <= Len(s)
  BY DEF Abouts
<1> HIDE DEF S
<1>2. S # {} => Max(S) \in S /\ \A k \in S : k <= Max(S)
  BY <1>1, MaxOfBounded
<1> QED BY <1>2 DEF S

LEMMA ToldIs ==
  ASSUME NEW s, s \in Seq(Frames), NEW p, NEW e
  PROVE  /\ (\A k \in 1..Len(s) : ~About(s[k], p)) => Told(e, s, p) = e
         /\ \A k \in 1..Len(s) :
              About(s[k], p) /\ (\A j \in 1..Len(s) : About(s[j], p) => j <= k) =>
                Told(e, s, p) = Says(s[k], p)
<1>1. ASSUME \A k \in 1..Len(s) : ~About(s[k], p) PROVE Told(e, s, p) = e
  BY <1>1 DEF Told, Abouts
<1>2. ASSUME NEW k \in 1..Len(s), About(s[k], p),
             \A j \in 1..Len(s) : About(s[j], p) => j <= k
      PROVE  Told(e, s, p) = Says(s[k], p)
  <2>1. k \in Abouts(s, p)
    BY <1>2 DEF Abouts
  <2>2. Max(Abouts(s, p)) \in Abouts(s, p) /\ k <= Max(Abouts(s, p))
    BY <2>1, LastAbout
  <2> DEFINE m == Max(Abouts(s, p))
  <2>3. m \in 1..Len(s) /\ About(s[m], p) /\ k <= m
    BY <2>2 DEF Abouts
  <2> HIDE DEF m
  <2>4. m = k
    BY <1>2, <2>3
  <2> QED BY <2>1, <2>4 DEF Told, m
<1> QED BY <1>1, <1>2

LEMMA ToldNothing ==
  ASSUME NEW p, NEW e
  PROVE  Told(e, << >>, p) = e
BY DEF Told, Abouts

\* The frame that comes last, and the one that is read first.
LEMMA ToldAppend ==
  ASSUME NEW s, s \in Seq(Frames), NEW m \in Frames, NEW p, NEW e
  PROVE  Told(e, Append(s, m), p) = IF About(m, p) THEN Says(m, p) ELSE Told(e, s, p)
<1> DEFINE t == Append(s, m)
           n == Len(s)
<1>1. /\ t \in Seq(Frames) /\ n \in Nat /\ Len(t) = n + 1 /\ t[n+1] = m
      /\ \A k \in 1..n : t[k] = s[k]
  OBVIOUS
<1> HIDE DEF t
<1>2. CASE About(m, p)
  <2>1. n + 1 \in 1..Len(t) /\ About(t[n+1], p) /\ \A j \in 1..Len(t) : j <= n + 1
    BY <1>1, <1>2
  <2>2. Told(e, t, p) = Says(t[n+1], p)
    BY <1>1, <2>1, ToldIs
  <2> QED BY <1>1, <1>2, <2>2 DEF t
<1>3. CASE ~About(m, p)
  <2>1. CASE \A k \in 1..n : ~About(s[k], p)
    <3>1. \A k \in 1..Len(t) : ~About(t[k], p)
      BY <1>1, <1>3, <2>1
    <3>2. Told(e, t, p) = e /\ Told(e, s, p) = e
      BY <1>1, <2>1, <3>1, ToldIs
    <3> QED BY <1>3, <3>2 DEF t
  <2>2. CASE \E k \in 1..n : About(s[k], p)
    <3>1. Abouts(s, p) # {}
      BY <2>2 DEF Abouts
    <3>2. Max(Abouts(s, p)) \in Abouts(s, p) /\ \A k \in Abouts(s, p) : k <= Max(Abouts(s, p))
      BY <3>1, LastAbout
    <3> DEFINE x == Max(Abouts(s, p))
    <3>3. x \in 1..n /\ About(s[x], p) /\ \A k \in 1..n : About(s[k], p) => k <= x
      BY <3>2 DEF Abouts
    <3> HIDE DEF x
    <3>4. Told(e, s, p) = Says(s[x], p)
      BY <3>3, ToldIs
    <3>5. x \in 1..Len(t) /\ About(t[x], p)
      BY <1>1, <3>3
    <3>6. \A j \in 1..Len(t) : About(t[j], p) => j <= x
      BY <1>1, <1>3, <3>3
    <3>7. Told(e, t, p) = Says(t[x], p)
      BY <1>1, <3>5, <3>6, ToldIs
    <3> QED BY <1>1, <1>3, <3>3, <3>4, <3>7 DEF t
  <2> QED BY <2>1, <2>2
<1> QED BY <1>2, <1>3

LEMMA ToldHead ==
  ASSUME NEW s, s \in Seq(Frames), s # << >>, NEW p, NEW e
  PROVE  Told(e, s, p) = Told(IF About(Head(s), p) THEN Says(Head(s), p) ELSE e, Tail(s), p)
<1> DEFINE t == Tail(s)
           n == Len(s)
           d == IF About(Head(s), p) THEN Says(Head(s), p) ELSE e
<1>1. /\ t \in Seq(Frames) /\ n \in Nat \ {0} /\ Len(t) = n - 1 /\ Head(s) = s[1]
      /\ \A k \in 1..n-1 : t[k] = s[k+1]
  OBVIOUS
<1>2. d = IF About(s[1], p) THEN Says(s[1], p) ELSE e
  BY <1>1
<1> HIDE DEF t, d
<1>3. CASE \A k \in 1..n-1 : ~About(t[k], p)
  <2>1. Told(d, t, p) = d
    BY <1>1, <1>3, ToldIs
  <2>2. \A k \in 2..n : ~About(s[k], p)
    <3>1. ASSUME NEW k \in 2..n PROVE ~About(s[k], p)
      <4>1. k - 1 \in 1..n-1 /\ (k - 1) + 1 = k
        BY <1>1
      <4> QED BY <1>1, <1>3, <4>1
    <3> QED BY <3>1
  <2>3. CASE About(s[1], p)
    <3>1. 1 \in 1..n /\ \A j \in 1..n : About(s[j], p) => j <= 1
      BY <1>1, <2>2
    <3>2. Told(e, s, p) = Says(s[1], p)
      BY <2>3, <3>1, ToldIs
    <3> QED BY <1>2, <2>1, <2>3, <3>2 DEF t, d
  <2>4. CASE ~About(s[1], p)
    <3>1. \A j \in 1..n : ~About(s[j], p)
      BY <1>1, <2>2, <2>4
    <3>2. Told(e, s, p) = e
      BY <3>1, ToldIs
    <3> QED BY <1>2, <2>1, <2>4, <3>2 DEF t, d
  <2> QED BY <2>3, <2>4
<1>4. CASE \E k \in 1..n-1 : About(t[k], p)
  <2>1. Abouts(t, p) # {}
    BY <1>1, <1>4 DEF Abouts
  <2>2. Max(Abouts(t, p)) \in Abouts(t, p) /\ \A k \in Abouts(t, p) : k <= Max(Abouts(t, p))
    BY <1>1, <2>1, LastAbout
  <2> DEFINE x == Max(Abouts(t, p))
  <2>3. x \in 1..n-1 /\ About(t[x], p) /\ \A k \in 1..n-1 : About(t[k], p) => k <= x
    BY <1>1, <2>2 DEF Abouts
  <2> HIDE DEF x
  <2>4. Told(d, t, p) = Says(t[x], p)
    BY <1>1, <2>3, ToldIs
  <2>5. x + 1 \in 1..n /\ About(s[x+1], p) /\ s[x+1] = t[x]
    BY <1>1, <2>3
  <2>6. ASSUME NEW j \in 1..n, About(s[j], p) PROVE j <= x + 1
    <3>1. CASE j = 1
      BY <3>1, <2>3
    <3>2. CASE j # 1
      <4>1. j - 1 \in 1..n-1 /\ (j - 1) + 1 = j
        BY <1>1, <3>2
      <4>2. About(t[j-1], p)
        BY <1>1, <2>6, <4>1
      <4>3. j - 1 <= x
        BY <2>3, <4>1, <4>2
      <4> QED BY <1>1, <2>3, <4>3
    <3> QED BY <3>1, <3>2
  <2>7. Told(e, s, p) = Says(s[x+1], p)
    BY <2>5, <2>6, ToldIs
  <2> QED BY <2>4, <2>5, <2>7 DEF t, d
<1> QED BY <1>1, <1>3, <1>4

-----------------------------------------------------------------------------
(* The folds of Drain. *)

\* RawPresence after the frames, step by step.
LEMMA DrainedRuns ==
  ASSUME NEW s, s \in Seq(Frames), NEW b \in Presences
  PROVE  \E run \in [0..Len(s) -> Presences] :
           /\ run[0] = b /\ run[Len(s)] = FoldLeft(Drained, b, s)
           /\ \A k \in 1..Len(s) : run[k] = Drained(run[k-1], s[k])
<1> DEFINE n == Len(s)
           Folds(f) == f = [S \in SUBSET (1..n) |->
                              IF S = {} THEN b ELSE Drained(f[S \ {Max(S)}], s[Max(S)])]
           iter == CHOOSE f : Folds(f)
           step == [x \in Presences \X (1..n) |-> Drained(x[1], s[x[2]])]
<1>1. n \in Nat /\ DOMAIN s = 1..n /\ \A k \in 1..n : s[k] \in Frames
  OBVIOUS
<1>2. FoldLeft(Drained, b, s) = iter[1..n]
  BY <1>1 DEF FoldLeft, MapThenFoldSet, Max
<1>3. step \in [Presences \X (1..n) -> Presences]
  BY <1>1, DrainedEntries
<1> HIDE DEF n
<1>4. PICK f \in [SUBSET (1..n) -> Presences] : Iterated(f, step, b, n)
  BY <1>1, <1>3, Iterates
<1>5. ASSUME NEW S \in SUBSET (1..n), S # {}
      PROVE  step[<<f[S \ {Max(S)}], Max(S)>>] = Drained(f[S \ {Max(S)}], s[Max(S)])
  <2>1. S \in SUBSET Nat /\ \A x \in S : x <= n
    BY <1>1
  <2>2. Max(S) \in S
    BY <1>1, <1>5, <2>1, MaxOfBounded
  <2>3. <<f[S \ {Max(S)}], Max(S)>> \in Presences \X (1..n)
    BY <2>2
  <2> QED BY <2>3
<1> HIDE DEF step
<1>6. Folds(f)
  BY <1>4, <1>5 DEF Iterated
<1>7. Folds(iter)
  <2> HIDE DEF Folds
  <2> QED BY <1>6
<1> HIDE DEF iter
<1>8. iter[1..0] = b
  <2>1. 1..0 = {} /\ {} \in SUBSET (1..n)
    OBVIOUS
  <2> QED BY <1>7, <2>1
<1>9. ASSUME NEW k \in 1..n PROVE iter[1..k] = Drained(iter[1..(k-1)], s[k])
  <2>1. 1..k # {} /\ 1..k \in SUBSET (1..n) /\ Max(1..k) = k /\ (1..k) \ {k} = 1..(k-1)
    BY <1>1, Prefix
  <2> QED BY <1>7, <2>1
<1> HIDE DEF Folds
<1>10. \A k \in 0..n : iter[1..k] \in Presences
  <2> DEFINE T == {k \in 0..n : iter[1..k] \in Presences}
  <2>1. 0 \in T
    BY <1>1, <1>8
  <2>2. ASSUME NEW k \in 0..n-1, k \in T PROVE k + 1 \in T
    <3>1. k + 1 \in 1..n /\ (k + 1) - 1 = k
      BY <1>1
    <3>2. iter[1..(k+1)] = Drained(iter[1..k], s[k+1]) /\ s[k+1] \in Frames
      BY <1>1, <1>9, <3>1
    <3>3. iter[1..(k+1)] \in Presences
      BY <2>2, <3>2, DrainedEntries
    <3> QED BY <1>1, <3>1, <3>3
  <2> HIDE DEF T
  <2>3. \A k \in 0..n : k \in T
    BY <1>1, <2>1, <2>2, UpTo
  <2> QED BY <2>3 DEF T
<1> DEFINE run == [k \in 0..n |-> iter[1..k]]
<1>11. run \in [0..n -> Presences] /\ run[0] = b /\ run[n] = iter[1..n]
  BY <1>1, <1>8, <1>10
<1>12. \A k \in 1..n : run[k] = Drained(run[k-1], s[k])
  <2>1. \A k \in 1..n : k \in 0..n /\ k - 1 \in 0..n
    BY <1>1
  <2> QED BY <1>9, <2>1
<1> HIDE DEF run
<1> QED BY <1>2, <1>11, <1>12 DEF n

\* What it makes of each peer.
LEMMA DrainedTells ==
  ASSUME NEW s, s \in Seq(Frames), NEW b \in Presences
  PROVE  /\ FoldLeft(Drained, b, s) \in Presences
         /\ \A p \in Nat : Entry(FoldLeft(Drained, b, s), p) = Told(Entry(b, p), s, p)
<1> DEFINE n == Len(s)
<1>1. PICK run \in [0..n -> Presences] :
        /\ run[0] = b /\ run[n] = FoldLeft(Drained, b, s)
        /\ \A k \in 1..n : run[k] = Drained(run[k-1], s[k])
  BY DrainedRuns
<1>2. n \in Nat /\ \A k \in 1..n : s[k] \in Frames
  OBVIOUS
<1>3. ASSUME NEW p \in Nat PROVE Entry(run[n], p) = Told(Entry(b, p), s, p)
  <2> DEFINE val == [k \in 0..n |-> Entry(run[k], p)]
             say == [k \in 1..n |-> Says(s[k], p)]
             A == Abouts(s, p)
  <2>1. A \in SUBSET (1..n) /\ \A k \in 1..n : k \in A <=> About(s[k], p)
    BY DEF Abouts
  <2>2. ASSUME NEW k \in 1..n PROVE val[k] = IF k \in A THEN say[k] ELSE val[k-1]
    <3>1. k \in 0..n /\ k - 1 \in 0..n
      BY <1>2
    <3>2. run[k] = Drained(run[k-1], s[k]) /\ run[k-1] \in Presences /\ s[k] \in Frames
      BY <1>1, <1>2, <3>1
    <3>3. Entry(run[k], p) = IF About(s[k], p) THEN Says(s[k], p) ELSE Entry(run[k-1], p)
      BY <3>2, DrainedEntries
    <3> QED BY <2>1, <3>1, <3>3
  <2>3. val[0] = Entry(b, p) /\ val[n] = Entry(run[n], p) /\ \A k \in A : say[k] = Says(s[k], p)
    BY <1>1, <1>2, <2>1
  <2>4. A # {} => Max(A) \in A
    BY LastAbout
  <2> HIDE DEF val, say, A
  <2>5. val[n] = IF A = {} THEN val[0] ELSE say[Max(A)]
    <3>1. n \in Nat /\ A \in SUBSET (1..n)
      BY <1>2, <2>1
    <3>2. Overwrites(val, say, A, n)
      BY <2>2 DEF Overwrites
    <3> HIDE DEF n
    <3> QED BY <3>1, <3>2, LastWrite, ZenonT(40)
  <2> QED BY <2>3, <2>4, <2>5 DEF Told, A
<1>4. run[n] \in Presences
  BY <1>2
<1> QED BY <1>1, <1>3, <1>4

\* Presence after the frames, the snapshots read from now.
LEMMA TypedRuns ==
  ASSUME NEW s, s \in Seq(Frames), NEW b \in Presences, NEW now \in Presences
  PROVE  \E run \in [0..Len(s) -> Presences] :
           /\ run[0] = b /\ run[Len(s)] = update_typed_presence(now, b, s)
           /\ \A k \in 1..Len(s) : run[k] = Typed(now, run[k-1], s[k])
<1> DEFINE n == Len(s)
           Folds(f) == f = [S \in SUBSET (1..n) |->
                              IF S = {} THEN b ELSE Typed(now, f[S \ {Max(S)}], s[Max(S)])]
           iter == CHOOSE f : Folds(f)
           step == [x \in Presences \X (1..n) |-> Typed(now, x[1], s[x[2]])]
<1>1. n \in Nat /\ DOMAIN s = 1..n /\ \A k \in 1..n : s[k] \in Frames
  OBVIOUS
<1>2. update_typed_presence(now, b, s) = iter[1..n]
  BY <1>1 DEF update_typed_presence, FoldLeft, MapThenFoldSet, Max
<1>3. step \in [Presences \X (1..n) -> Presences]
  BY <1>1, TypedEntries
<1> HIDE DEF n
<1>4. PICK f \in [SUBSET (1..n) -> Presences] : Iterated(f, step, b, n)
  BY <1>1, <1>3, Iterates
<1>5. ASSUME NEW S \in SUBSET (1..n), S # {}
      PROVE  step[<<f[S \ {Max(S)}], Max(S)>>] = Typed(now, f[S \ {Max(S)}], s[Max(S)])
  <2>1. S \in SUBSET Nat /\ \A x \in S : x <= n
    BY <1>1
  <2>2. Max(S) \in S
    BY <1>1, <1>5, <2>1, MaxOfBounded
  <2>3. <<f[S \ {Max(S)}], Max(S)>> \in Presences \X (1..n)
    BY <2>2
  <2> QED BY <2>3
<1> HIDE DEF step
<1>6. Folds(f)
  BY <1>4, <1>5 DEF Iterated
<1>7. Folds(iter)
  <2> HIDE DEF Folds
  <2> QED BY <1>6
<1> HIDE DEF iter
<1>8. iter[1..0] = b
  <2>1. 1..0 = {} /\ {} \in SUBSET (1..n)
    OBVIOUS
  <2> QED BY <1>7, <2>1
<1>9. ASSUME NEW k \in 1..n PROVE iter[1..k] = Typed(now, iter[1..(k-1)], s[k])
  <2>1. 1..k # {} /\ 1..k \in SUBSET (1..n) /\ Max(1..k) = k /\ (1..k) \ {k} = 1..(k-1)
    BY <1>1, Prefix
  <2> QED BY <1>7, <2>1
<1> HIDE DEF Folds
<1>10. \A k \in 0..n : iter[1..k] \in Presences
  <2> DEFINE T == {k \in 0..n : iter[1..k] \in Presences}
  <2>1. 0 \in T
    BY <1>1, <1>8
  <2>2. ASSUME NEW k \in 0..n-1, k \in T PROVE k + 1 \in T
    <3>1. k + 1 \in 1..n /\ (k + 1) - 1 = k
      BY <1>1
    <3>2. iter[1..(k+1)] = Typed(now, iter[1..k], s[k+1]) /\ s[k+1] \in Frames
      BY <1>1, <1>9, <3>1
    <3>3. iter[1..k] \in Presences
      BY <2>2
    <3>4. iter[1..(k+1)] \in Presences
      <4> DEFINE was == iter[1..k]
                 m == s[k+1]
      <4>1. was \in Presences /\ m \in Frames
        BY <3>2, <3>3
      <4> HIDE DEF was, m
      <4>2. Typed(now, was, m) \in Presences
        BY <4>1, TypedEntries
      <4> QED BY <3>2, <4>2 DEF was, m
    <3> QED BY <1>1, <3>1, <3>4
  <2> HIDE DEF T
  <2>3. \A k \in 0..n : k \in T
    BY <1>1, <2>1, <2>2, UpTo
  <2> QED BY <2>3 DEF T
<1> DEFINE run == [k \in 0..n |-> iter[1..k]]
<1>11. run \in [0..n -> Presences] /\ run[0] = b /\ run[n] = iter[1..n]
  BY <1>1, <1>8, <1>10
<1>12. \A k \in 1..n : run[k] = Typed(now, run[k-1], s[k])
  <2>1. \A k \in 1..n : k \in 0..n /\ k - 1 \in 0..n
    BY <1>1
  <2> QED BY <1>9, <2>1
<1> HIDE DEF run
<1> QED BY <1>2, <1>11, <1>12 DEF n

\* As long as the connection lasts it is what RawPresence is by now.
LEMMA TypedTells ==
  ASSUME NEW s, s \in Seq(Frames), NEW b \in Presences, NEW now \in Presences,
         \A k \in DOMAIN s : s[k].type # "Disconnected",
         \A p \in Nat : Entry(now, p) = Told(Entry(b, p), s, p)
  PROVE  update_typed_presence(now, b, s) = now
<1> DEFINE n == Len(s)
<1>1. PICK run \in [0..n -> Presences] :
        /\ run[0] = b /\ run[n] = update_typed_presence(now, b, s)
        /\ \A k \in 1..n : run[k] = Typed(now, run[k-1], s[k])
  BY TypedRuns
<1>2. n \in Nat /\ \A k \in 1..n : s[k] \in Frames /\ s[k].type # "Disconnected"
  OBVIOUS
<1>3. ASSUME NEW p \in Nat PROVE Entry(run[n], p) = Entry(now, p)
  <2> DEFINE val == [k \in 0..n |-> Entry(run[k], p)]
             say == [k \in 1..n |-> IF s[k].type = "Welcome" THEN Entry(now, p) ELSE Says(s[k], p)]
             A == Abouts(s, p)
  <2>1. A \in SUBSET (1..n) /\ \A k \in 1..n : k \in A <=> About(s[k], p)
    BY DEF Abouts
  <2>2. ASSUME NEW k \in 1..n PROVE val[k] = IF k \in A THEN say[k] ELSE val[k-1]
    <3>1. k \in 0..n /\ k - 1 \in 0..n
      BY <1>2
    <3>2. run[k] = Typed(now, run[k-1], s[k]) /\ run[k-1] \in Presences /\ s[k] \in Frames
      BY <1>1, <1>2, <3>1
    <3>3. Entry(run[k], p) = IF s[k].type = "Welcome" THEN Entry(now, p)
                             ELSE IF About(s[k], p) THEN Says(s[k], p) ELSE Entry(run[k-1], p)
      <4> DEFINE m == s[k]
                 f == run[k-1]
      <4>1. m \in Frames /\ m.type # "Disconnected" /\ f \in Presences
        BY <1>2, <3>2
      <4> HIDE DEF m, f
      <4>2. Entry(Typed(now, f, m), p) =
              IF m.type = "Welcome" THEN Entry(now, p)
              ELSE IF About(m, p) THEN Says(m, p) ELSE Entry(f, p)
        BY <4>1, TypedEntries
      <4> QED BY <3>2, <4>2 DEF m, f
    <3>4. s[k].type = "Welcome" => k \in A
      BY <2>1 DEF About
    <3> QED BY <2>1, <3>1, <3>3, <3>4
  <2>3. /\ val[0] = Entry(b, p) /\ val[n] = Entry(run[n], p)
        /\ \A k \in A : say[k] = Entry(now, p) \/ say[k] = Says(s[k], p)
    <3>1. val[0] = Entry(b, p) /\ val[n] = Entry(run[n], p)
      <4>1. 0 \in 0..n /\ n \in 0..n
        BY <1>2
      <4>2. val[0] = Entry(run[0], p) /\ val[n] = Entry(run[n], p)
        BY <4>1
      <4> QED BY <1>1, <4>2
    <3>2. \A k \in 1..n : say[k] = Entry(now, p) \/ say[k] = Says(s[k], p)
      OBVIOUS
    <3> QED BY <2>1, <3>1, <3>2
  <2>4. A # {} => Max(A) \in A
    BY LastAbout
  <2> HIDE DEF val, say, A
  <2>5. val[n] = IF A = {} THEN val[0] ELSE say[Max(A)]
    <3>1. n \in Nat /\ A \in SUBSET (1..n)
      BY <1>2, <2>1
    <3>2. Overwrites(val, say, A, n)
      BY <2>2 DEF Overwrites
    <3> HIDE DEF n
    <3> QED BY <3>1, <3>2, LastWrite, ZenonT(40)
  <2>6. Entry(now, p) = IF A = {} THEN Entry(b, p) ELSE Says(s[Max(A)], p)
    BY DEF Told, A
  <2> QED BY <2>3, <2>4, <2>5, <2>6
<1>4. run[n] \in Presences
  BY <1>2
<1> QED BY <1>1, <1>3, <1>4, EntriesTell

-----------------------------------------------------------------------------
(* Types. *)

\* What every variable holds.
TypeOK ==
    /\ epoch \in Nat /\ next_peer \in Nat \ {0} /\ presence \in Presences
    /\ phase \in [Client -> {"new", "greeted", "live", "closed"}]
    /\ peer \in [Client -> Nat] /\ born \in [Client -> Nat]
    /\ outbox \in [Client -> Seq(Welcomes)] /\ casts \in [Client -> Seq(News)]
    /\ inbox \in [Client -> Seq(Frames)]
    /\ status \in [Client -> {"AwaitingWelcome", "Connected", "Disconnected"}]
    /\ ids \in [Client -> [peer : Nat, next : Nat]]
    /\ unread \in [Client -> BOOLEAN]
    /\ raw \in [Client -> Presences] /\ typed \in [Client -> Presences]
    /\ cursors \in [Client -> Presences]
    /\ mints \in Seq([id : [peer : Nat, next : Nat], by : Client, epoch : Nat, unread : BOOLEAN])
    /\ missed \in [Client -> SUBSET Nat]

LEMMA BroadcastTypes ==
  ASSUME TypeOK, NEW msg \in News, Broadcast(msg)
  PROVE  casts' \in [Client -> Seq(News)] /\ missed' \in [Client -> SUBSET Nat]
<1>1. ASSUME NEW c \in Client
      PROVE  (IF phase[c] = "live" THEN Append(casts[c], msg) ELSE casts[c]) \in Seq(News)
  BY DEF TypeOK
<1>2. ASSUME NEW c \in Client
      PROVE  (IF phase[c] = "greeted" THEN missed[c] \cup {msg.peer} ELSE missed[c]) \in SUBSET Nat
  <2>1. msg.peer \in Nat
    BY NewsKinds
  <2> QED BY <2>1 DEF TypeOK
<1> QED BY <1>1, <1>2 DEF Broadcast

LEMMA ClearTypes ==
  ASSUME TypeOK, NEW p \in Nat, clear_presence(p)
  PROVE  /\ presence' \in Presences /\ casts' \in [Client -> Seq(News)]
         /\ missed' \in [Client -> SUBSET Nat]
<1>1. CASE p \in DOMAIN presence
  <2>1. [type |-> "PresenceLeft", peer |-> p] \in News
    BY DEF News
  <2>2. Broadcast([type |-> "PresenceLeft", peer |-> p]) /\ presence' = Without(presence, p)
    BY <1>1 DEF clear_presence
  <2>3. presence' \in Presences
    BY <2>2, WithoutEntries DEF TypeOK
  <2> QED BY <2>1, <2>2, <2>3, BroadcastTypes
<1>2. CASE p \notin DOMAIN presence
  BY <1>2 DEF clear_presence, TypeOK
<1> QED BY <1>1, <1>2

LEMMA HangupTypes ==
  ASSUME TypeOK, NEW c \in Client
  PROVE  Append(inbox[c], [type |-> "Disconnected"]) \in Seq(Frames)
<1>1. [type |-> "Disconnected"] \in Frames
  BY DEF Frames, Ends
<1> QED BY <1>1 DEF TypeOK

LEMMA InitTypes == Init => TypeOK
<1> SUFFICES ASSUME Init PROVE TypeOK
  OBVIOUS
<1>1. EmptyMap \in Presences
  BY EmptyEntries
<1> QED BY <1>1 DEF Init, TypeOK

\* What a client takes from the frames it drains.
LEMMA DrainTypes ==
  ASSUME TypeOK, NEW c \in Client, Drain(c)
  PROVE  /\ raw' = [raw EXCEPT ![c] = FoldLeft(Drained, raw[c], inbox[c])]
         /\ typed' = [typed EXCEPT ![c] =
              update_typed_presence(FoldLeft(Drained, raw[c], inbox[c]), typed[c], inbox[c])]
         /\ raw' \in [Client -> Presences] /\ typed' \in [Client -> Presences]
         /\ ids' \in [Client -> [peer : Nat, next : Nat]] /\ unread' \in [Client -> BOOLEAN]
         /\ status' \in [Client -> {"AwaitingWelcome", "Connected", "Disconnected"}]
<1> DEFINE now == FoldLeft(Drained, raw[c], inbox[c])
<1>1. now \in Presences
  BY DrainedTells DEF TypeOK
<1>2. raw' = [raw EXCEPT ![c] = now]
  BY DEF Drain
<1>3. typed' = [typed EXCEPT ![c] = update_typed_presence(now, typed[c], inbox[c])]
  BY DEF Drain, TypeOK
<1>4. update_typed_presence(now, typed[c], inbox[c]) \in Presences
  <2> DEFINE s == inbox[c]
             b == typed[c]
  <2>1. b \in Presences /\ s \in Seq(Frames) /\ Len(s) \in Nat
    BY DEF TypeOK
  <2> HIDE DEF now, s, b
  <2>2. \E run \in [0..Len(s) -> Presences] : run[Len(s)] = update_typed_presence(now, b, s)
    BY <1>1, <2>1, TypedRuns, ZenonT(40)
  <2>3. update_typed_presence(now, b, s) \in Presences
    BY <2>1, <2>2
  <2> QED BY <2>3 DEF s, b
<1>5. raw' \in [Client -> Presences] /\ typed' \in [Client -> Presences]
  <2> HIDE DEF now
  <2> QED BY <1>1, <1>2, <1>3, <1>4 DEF TypeOK
<1>6. ids' \in [Client -> [peer : Nat, next : Nat]]
  <2> DEFINE ws == {m \in Range(inbox[c]) : m.type = "Welcome"}
  <2>1. \/ ids' = ids
        \/ \E m \in ws : ids' = [ids EXCEPT ![c] = [peer |-> m.peer, next |-> 0]]
    BY DEF Drain, set_peer
  <2>2. \A m \in ws : m.peer \in Nat
    <3>1. \A m \in Range(inbox[c]) : m \in Frames
      BY DEF TypeOK, Range
    <3> QED BY <3>1, FrameKinds
  <2> HIDE DEF ws
  <2>3. CASE ids' = ids
    BY <2>3 DEF TypeOK
  <2>4. ASSUME NEW m \in ws, ids' = [ids EXCEPT ![c] = [peer |-> m.peer, next |-> 0]]
        PROVE  ids' \in [Client -> [peer : Nat, next : Nat]]
    <3>1. [peer |-> m.peer, next |-> 0] \in [peer : Nat, next : Nat]
      BY <2>2
    <3> QED BY <2>4, <3>1 DEF TypeOK
  <2> QED BY <2>1, <2>3, <2>4
<1>7. unread' \in [Client -> BOOLEAN]
  <2>1. PICK x \in BOOLEAN : unread' = [unread EXCEPT ![c] = unread[c] \/ x]
    <3> DEFINE y == {m \in Range(inbox[c]) : m.type = "Welcome"} # {}
    <3>1. unread' = [unread EXCEPT ![c] = unread[c] \/ y] /\ y \in BOOLEAN
      BY DEF Drain
    <3> QED BY <3>1
  <2> QED BY <2>1 DEF TypeOK
<1>8. status' \in [Client -> {"AwaitingWelcome", "Connected", "Disconnected"}]
  BY DEF Drain, TypeOK
<1> QED BY <1>2, <1>3, <1>5, <1>6, <1>7, <1>8

LEMMA TypesKept == TypeOK /\ [Next]_vars => TypeOK'
<1> SUFFICES ASSUME TypeOK, [Next]_vars PROVE TypeOK'
  OBVIOUS
<1>1. ASSUME NEW c \in Client, Handshake(c) PROVE TypeOK'
  <2>1. [type |-> "Welcome", peer |-> next_peer, presence |-> presence] \in Welcomes
    BY DEF TypeOK, Welcomes
  <2>2. outbox' \in [Client -> Seq(Welcomes)]
    BY <1>1, <2>1 DEF Handshake, TypeOK
  <2>3. UNCHANGED <<epoch, presence, casts, inbox, status, ids, unread, raw, typed, cursors, mints, missed>>
    BY <1>1 DEF Handshake, clients, screen
  <2>4. /\ next_peer' \in Nat \ {0} /\ peer' \in [Client -> Nat] /\ born' \in [Client -> Nat]
        /\ phase' \in [Client -> {"new", "greeted", "live", "closed"}]
    BY <1>1 DEF Handshake, TypeOK
  <2> QED BY <2>2, <2>3, <2>4 DEF TypeOK
<1>2. ASSUME NEW c \in Client, Subscribe(c) PROVE TypeOK'
  BY <1>2 DEF Subscribe, TypeOK, server, clients, screen
<1>3. ASSUME NEW c \in Client, WriteWelcome(c) PROVE TypeOK'
  <2>1. inbox[c] \o outbox[c] \in Seq(Frames)
    BY DEF TypeOK, Frames
  <2>2. inbox' \in [Client -> Seq(Frames)] /\ outbox' \in [Client -> Seq(Welcomes)]
    BY <1>3, <2>1 DEF WriteWelcome, TypeOK
  <2>3. UNCHANGED <<epoch, next_peer, presence, phase, peer, born, casts, status, ids, unread, raw,
                    typed, cursors, mints, missed>>
    BY <1>3 DEF WriteWelcome, server, screen
  <2> QED BY <2>2, <2>3 DEF TypeOK
<1>4. ASSUME NEW c \in Client, WriteBroadcast(c) PROVE TypeOK'
  <2>1. Head(casts[c]) \in News /\ Tail(casts[c]) \in Seq(News)
    BY <1>4 DEF WriteBroadcast, TypeOK
  <2>2. Head(casts[c]) \in Frames /\ Head(casts[c]).peer \in Nat
    BY <2>1, NewsKinds
  <2>3. inbox' \in [Client -> Seq(Frames)] /\ casts' \in [Client -> Seq(News)]
    <3>1. Append(inbox[c], Head(casts[c])) \in Seq(Frames)
      BY <2>2 DEF TypeOK
    <3> QED BY <1>4, <2>1, <3>1 DEF WriteBroadcast, TypeOK
  <2>4. missed' \in [Client -> SUBSET Nat]
    <3>1. missed[c] \cup {Head(casts[c]).peer} \in SUBSET Nat
      BY <2>2 DEF TypeOK
    <3> QED BY <1>4, <3>1 DEF WriteBroadcast, TypeOK
  <2>5. UNCHANGED <<epoch, next_peer, presence, phase, peer, born, outbox, status, ids, unread, raw,
                    typed, cursors, mints>>
    BY <1>4 DEF WriteBroadcast, server, screen
  <2> QED BY <2>3, <2>4, <2>5 DEF TypeOK
<1>5. ASSUME NEW c \in Client, update_presence(c) PROVE TypeOK'
  <2>1. PICK state \in States :
          /\ presence' = Put(presence, peer[c], state)
          /\ Broadcast([type |-> "PresenceUpdate", peer |-> peer[c], state |-> state])
    BY <1>5 DEF update_presence
  <2>2. peer[c] \in Nat /\ presence \in Presences
    BY DEF TypeOK
  <2>3. [type |-> "PresenceUpdate", peer |-> peer[c], state |-> state] \in News
    BY <2>2 DEF News
  <2>4. presence' \in Presences
    BY <2>1, <2>2, PutEntries
  <2>5. casts' \in [Client -> Seq(News)] /\ missed' \in [Client -> SUBSET Nat]
    BY <2>1, <2>3, BroadcastTypes
  <2>6. UNCHANGED <<epoch, next_peer, phase, peer, born, outbox, inbox, status, ids, unread, raw,
                    typed, cursors, mints>>
    BY <1>5 DEF update_presence, screen
  <2> QED BY <2>4, <2>5, <2>6 DEF TypeOK
<1>6. ASSUME NEW c \in Client, LeavePresence(c) PROVE TypeOK'
  <2>1. /\ presence' \in Presences /\ casts' \in [Client -> Seq(News)]
        /\ missed' \in [Client -> SUBSET Nat]
    BY <1>6, ClearTypes DEF LeavePresence, TypeOK
  <2>2. UNCHANGED <<epoch, next_peer, phase, peer, born, outbox, inbox, status, ids, unread, raw,
                    typed, cursors, mints>>
    BY <1>6 DEF LeavePresence, clients, screen
  <2> QED BY <2>1, <2>2 DEF TypeOK
<1>7. ASSUME NEW c \in Client, Disconnect(c) PROVE TypeOK'
  <2>1. /\ presence' \in Presences /\ casts' \in [Client -> Seq(News)]
        /\ missed' \in [Client -> SUBSET Nat]
    <3>1. CASE clear_presence(peer[c])
      BY <3>1, ClearTypes DEF TypeOK
    <3>2. CASE UNCHANGED <<presence, casts, missed>>
      BY <3>2 DEF TypeOK
    <3> QED BY <1>7, <3>1, <3>2 DEF Disconnect
  <2>2. inbox' \in [Client -> Seq(Frames)]
    BY <1>7, HangupTypes DEF Disconnect, Hangup, TypeOK
  <2>3. /\ outbox' \in [Client -> Seq(Welcomes)]
        /\ phase' \in [Client -> {"new", "greeted", "live", "closed"}]
    BY <1>7 DEF Disconnect, TypeOK
  <2>4. UNCHANGED <<epoch, next_peer, peer, born, status, ids, unread, raw, typed, cursors, mints>>
    BY <1>7 DEF Disconnect, screen
  <2> QED BY <2>1, <2>2, <2>3, <2>4 DEF TypeOK
<1>8. ASSUME NEW c \in Client, Mint(c) PROVE TypeOK'
  <2>1. [id |-> ids[c], by |-> c, epoch |-> born[c], unread |-> unread[c]]
          \in [id : [peer : Nat, next : Nat], by : Client, epoch : Nat, unread : BOOLEAN]
    BY DEF TypeOK
  <2>2. mints' \in Seq([id : [peer : Nat, next : Nat], by : Client, epoch : Nat, unread : BOOLEAN])
    BY <1>8, <2>1 DEF Mint, TypeOK
  <2>3. ids' \in [Client -> [peer : Nat, next : Nat]]
    <3>1. ids[c] \in [peer : Nat, next : Nat] /\ ids' = [ids EXCEPT ![c].next = ids[c].next + 1]
      BY <1>8 DEF Mint, TypeOK
    <3>2. [ids[c] EXCEPT !.next = ids[c].next + 1] \in [peer : Nat, next : Nat]
      BY <3>1
    <3> QED BY <3>1, <3>2 DEF TypeOK
  <2>4. UNCHANGED <<epoch, next_peer, presence, phase, peer, born, outbox, casts, inbox, status, unread,
                    raw, typed, cursors, missed>>
    BY <1>8 DEF Mint, server, connections, screen
  <2> QED BY <2>2, <2>3, <2>4 DEF TypeOK
<1>9. ASSUME NEW c \in Client, Drain(c) PROVE TypeOK'
  <2>1. /\ raw' \in [Client -> Presences] /\ typed' \in [Client -> Presences]
        /\ ids' \in [Client -> [peer : Nat, next : Nat]] /\ unread' \in [Client -> BOOLEAN]
        /\ status' \in [Client -> {"AwaitingWelcome", "Connected", "Disconnected"}]
    BY <1>9, DrainTypes
  <2>2. inbox' \in [Client -> Seq(Frames)]
    <3>1. inbox' = [inbox EXCEPT ![c] = << >>]
      BY <1>9 DEF Drain
    <3> QED BY <3>1 DEF TypeOK
  <2>3. UNCHANGED <<epoch, next_peer, presence, phase, peer, born, outbox, casts, cursors, mints, missed>>
    BY <1>9 DEF Drain, server, connections
  <2> QED BY <2>1, <2>2, <2>3 DEF TypeOK
<1>10. ASSUME NEW c \in Client, ReadWelcome(c) PROVE TypeOK'
  <2>1. ids' \in [Client -> [peer : Nat, next : Nat]] /\ unread' \in [Client -> BOOLEAN]
    BY <1>10 DEF ReadWelcome, set_peer, TypeOK
  <2>2. UNCHANGED <<epoch, next_peer, presence, phase, peer, born, outbox, casts, inbox, status,
                    raw, typed, cursors, mints, missed>>
    BY <1>10 DEF ReadWelcome, server, connections, screen
  <2> QED BY <2>1, <2>2 DEF TypeOK
<1>11. ASSUME NEW c \in Client, DrawCursors(c) PROVE TypeOK'
  <2>1. Drawn(c) \in Presences
    <3> DEFINE own == IF status[c] = "Connected" THEN {peer[c]} ELSE {}
               D == ((DOMAIN typed[c]) \ own) \cup (DOMAIN typed[c] \cap DOMAIN cursors[c])
    <3>1. typed[c] \in Presences
      BY DEF TypeOK
    <3>2. D \in SUBSET Nat /\ \A q \in D : typed[c][q] \in States
      BY <3>1, MapsOfPresence
    <3>3. Drawn(c) = [q \in D |-> typed[c][q]]
      BY DEF Drawn
    <3> HIDE DEF D
    <3>4. Drawn(c) \in [D -> States]
      BY <3>2, <3>3
    <3> QED BY <3>2, <3>4 DEF Presences
  <2>2. cursors' \in [Client -> Presences]
    BY <1>11, <2>1 DEF DrawCursors, TypeOK
  <2>3. UNCHANGED <<epoch, next_peer, presence, phase, peer, born, outbox, casts, inbox, status, ids,
                    unread, raw, typed, mints, missed>>
    BY <1>11 DEF DrawCursors, server, connections
  <2> QED BY <2>2, <2>3 DEF TypeOK
<1>12. ASSUME Restart PROVE TypeOK'
  <2>1. inbox' \in [Client -> Seq(Frames)]
    <3>1. \A c \in Client :
            (IF phase[c] \in {"greeted", "live"} THEN Append(inbox[c], [type |-> "Disconnected"])
             ELSE inbox[c]) \in Seq(Frames)
      BY HangupTypes DEF TypeOK
    <3> QED BY <1>12, <3>1 DEF Restart
  <2>2. presence' \in Presences
    BY <1>12, EmptyEntries DEF Restart
  <2>3. /\ epoch' \in Nat /\ next_peer' \in Nat \ {0}
        /\ phase' \in [Client -> {"new", "greeted", "live", "closed"}]
        /\ outbox' \in [Client -> Seq(Welcomes)] /\ casts' \in [Client -> Seq(News)]
    BY <1>12 DEF Restart, TypeOK
  <2>4. UNCHANGED <<peer, born, status, ids, unread, raw, typed, cursors, mints, missed>>
    BY <1>12 DEF Restart, screen
  <2> QED BY <2>1, <2>2, <2>3, <2>4 DEF TypeOK
<1>13. CASE UNCHANGED vars
  BY <1>13 DEF vars, server, connections, clients, screen, TypeOK
<1> QED BY <1>1, <1>2, <1>3, <1>4, <1>5, <1>6, <1>7, <1>8, <1>9, <1>10, <1>11, <1>12, <1>13 DEF Next

\* For any clients, states and bounds: every variable holds what it is meant to.
THEOREM TypeCorrect == Spec => []TypeOK
BY InitTypes, TypesKept, PTL DEF Spec

-----------------------------------------------------------------------------
(* Peer ids and minted ids. *)

Open(c) == phase[c] \in {"greeted", "live"}

\* A server gives each peer id once, and only peers it gave are present.
PeersAreGiven ==
    \A c \in Client :
      /\ phase[c] # "new" => peer[c] # 0 /\ (born[c] = epoch => peer[c] < next_peer)
      /\ born[c] <= epoch
      /\ Open(c) => born[c] = epoch
PeersDiffer ==
    \A c, d \in Client :
      c # d /\ phase[c] # "new" /\ phase[d] # "new" /\ born[c] = born[d] => peer[c] # peer[d]
PresentAreGiven == \A p \in DOMAIN presence : p < next_peer
Peering == PeersAreGiven /\ PeersDiffer /\ PresentAreGiven

LEMMA ClearKeeps ==
  ASSUME NEW p, clear_presence(p)
  PROVE  DOMAIN presence' = DOMAIN presence \ {p}
<1>1. CASE p \in DOMAIN presence
  BY <1>1 DEF clear_presence, Without, Restrict
<1>2. CASE p \notin DOMAIN presence
  BY <1>2 DEF clear_presence
<1> QED BY <1>1, <1>2

\* What most steps leave alone.
LEMMA PeeringKept ==
  ASSUME Peering, UNCHANGED <<epoch, next_peer, peer, born>>,
         \A p \in DOMAIN presence' : p < next_peer,
         \A c \in Client : phase'[c] # "new" => phase[c] # "new",
         \A c \in Client : Open(c)' => Open(c)
  PROVE  Peering'
BY DEF Peering, PeersAreGiven, PeersDiffer, PresentAreGiven

LEMMA PeeringStep == TypeOK /\ Peering /\ [Next]_vars => Peering'
<1> SUFFICES ASSUME TypeOK, Peering, [Next]_vars PROVE Peering'
  OBVIOUS
<1>0. /\ next_peer \in Nat \ {0} /\ epoch \in Nat /\ peer \in [Client -> Nat]
      /\ born \in [Client -> Nat] /\ phase \in [Client -> {"new", "greeted", "live", "closed"}]
      /\ \A p \in DOMAIN presence : p < next_peer
  BY DEF TypeOK, Peering, PresentAreGiven
<1>1. ASSUME NEW c \in Client, Handshake(c) PROVE Peering'
  <2>1. /\ next_peer' = next_peer + 1 /\ epoch' = epoch /\ presence' = presence
        /\ phase' = [phase EXCEPT ![c] = "greeted"] /\ peer' = [peer EXCEPT ![c] = next_peer]
        /\ born' = [born EXCEPT ![c] = epoch]
    BY <1>1 DEF Handshake
  <2>2. PresentAreGiven'
    <3>1. DOMAIN presence \in SUBSET Nat
      BY MapsOfPresence DEF TypeOK
    <3> QED BY <1>0, <2>1, <3>1 DEF PresentAreGiven
  <2>3. PeersAreGiven'
    BY <1>0, <2>1 DEF Peering, PeersAreGiven, Open
  <2>4. PeersDiffer'
    BY <1>0, <2>1 DEF Peering, PeersAreGiven, PeersDiffer
  <2> QED BY <2>2, <2>3, <2>4 DEF Peering
<1>2. ASSUME NEW c \in Client, Subscribe(c) PROVE Peering'
  <2>1. /\ UNCHANGED <<epoch, next_peer, presence, peer, born>> /\ phase[c] = "greeted"
        /\ phase' = [phase EXCEPT ![c] = "live"]
    BY <1>2 DEF Subscribe, server
  <2> QED BY <1>0, <2>1, PeeringKept DEF Open
<1>3. ASSUME NEW c \in Client, update_presence(c) PROVE Peering'
  <2>1. UNCHANGED <<epoch, next_peer, phase, peer, born>> /\ phase[c] = "live"
    BY <1>3 DEF update_presence
  <2>2. \A p \in DOMAIN presence' : p = peer[c] \/ p \in DOMAIN presence
    BY <1>3 DEF update_presence, Put
  <2>3. peer[c] < next_peer
    BY <2>1 DEF Peering, PeersAreGiven, Open
  <2> QED BY <1>0, <2>1, <2>2, <2>3, PeeringKept DEF Open
<1>4. ASSUME NEW c \in Client, LeavePresence(c) PROVE Peering'
  <2>1. UNCHANGED <<epoch, next_peer, phase, peer, born>> /\ clear_presence(peer[c])
    BY <1>4 DEF LeavePresence
  <2> QED BY <1>0, <2>1, ClearKeeps, PeeringKept DEF Open
<1>5. ASSUME NEW c \in Client, Disconnect(c) PROVE Peering'
  <2>1. /\ UNCHANGED <<epoch, next_peer, peer, born>> /\ phase[c] = "live"
        /\ phase' = [phase EXCEPT ![c] = "closed"]
        /\ clear_presence(peer[c]) \/ presence' = presence
    BY <1>5 DEF Disconnect
  <2>2. \A p \in DOMAIN presence' : p < next_peer
    BY <1>0, <2>1, ClearKeeps
  <2> QED BY <1>0, <2>1, <2>2, PeeringKept DEF Open
<1>6. ASSUME Restart PROVE Peering'
  <2>1. /\ epoch' = epoch + 1 /\ presence' = EmptyMap /\ UNCHANGED <<peer, born>>
        /\ phase' = [c \in Client |-> IF phase[c] = "new" THEN "new" ELSE "closed"]
    BY <1>6 DEF Restart
  <2>2. PresentAreGiven'
    BY <2>1 DEF PresentAreGiven, EmptyMap
  <2>3. PeersAreGiven'
    BY <1>0, <2>1 DEF Peering, PeersAreGiven, Open
  <2>4. PeersDiffer'
    BY <1>0, <2>1 DEF Peering, PeersDiffer
  <2> QED BY <2>2, <2>3, <2>4 DEF Peering
<1>7. ASSUME UNCHANGED <<epoch, next_peer, presence, phase, peer, born>> PROVE Peering'
  BY <1>0, <1>7, PeeringKept DEF Open
<1>8. ASSUME NEW c \in Client,
             \/ WriteWelcome(c) \/ WriteBroadcast(c) \/ Mint(c) \/ Drain(c) \/ ReadWelcome(c)
             \/ DrawCursors(c)
      PROVE  UNCHANGED <<epoch, next_peer, presence, phase, peer, born>>
  BY <1>8 DEF WriteWelcome, WriteBroadcast, Mint, Drain, ReadWelcome, DrawCursors, server, connections
<1>9. ASSUME UNCHANGED vars PROVE UNCHANGED <<epoch, next_peer, presence, phase, peer, born>>
  BY <1>9 DEF vars, server, connections
<1> QED BY <1>1, <1>2, <1>3, <1>4, <1>5, <1>6, <1>7, <1>8, <1>9 DEF Next

-----------------------------------------------------------------------------
(* A step of one client and the state of another. *)

Step(c) ==
    \/ Handshake(c) \/ Subscribe(c) \/ WriteWelcome(c) \/ WriteBroadcast(c)
    \/ update_presence(c) \/ LeavePresence(c) \/ Disconnect(c)
    \/ Mint(c) \/ Drain(c) \/ ReadWelcome(c) \/ DrawCursors(c)

LEMMA Steps == [Next]_vars => (\E c \in Client : Step(c)) \/ Restart \/ UNCHANGED vars
BY DEF Next, Step

\* All of d's state but what the room sends to everyone.
Untouched(d) ==
    /\ phase'[d] = phase[d] /\ peer'[d] = peer[d] /\ born'[d] = born[d]
    /\ outbox'[d] = outbox[d] /\ inbox'[d] = inbox[d] /\ status'[d] = status[d]
    /\ ids'[d] = ids[d] /\ unread'[d] = unread[d]
    /\ raw'[d] = raw[d] /\ typed'[d] = typed[d] /\ cursors'[d] = cursors[d]

LEMMA StepsAreOwn ==
  ASSUME TypeOK, NEW c \in Client, Step(c), NEW d \in Client, d # c
  PROVE  Untouched(d)
<1>1. CASE Handshake(c)
  BY <1>1 DEF Handshake, clients, screen, TypeOK, Untouched
<1>2. CASE Subscribe(c)
  BY <1>2 DEF Subscribe, clients, screen, TypeOK, Untouched
<1>3. CASE WriteWelcome(c)
  BY <1>3 DEF WriteWelcome, screen, TypeOK, Untouched
<1>4. CASE WriteBroadcast(c)
  BY <1>4 DEF WriteBroadcast, screen, TypeOK, Untouched
<1>5. CASE update_presence(c)
  BY <1>5 DEF update_presence, screen, Untouched
<1>6. CASE LeavePresence(c)
  BY <1>6 DEF LeavePresence, clients, screen, Untouched
<1>7. CASE Disconnect(c)
  BY <1>7 DEF Disconnect, Hangup, screen, TypeOK, Untouched
<1>8. CASE Mint(c)
  BY <1>8 DEF Mint, connections, screen, TypeOK, Untouched
<1>9. CASE Drain(c)
  <2>1. UNCHANGED <<phase, peer, born, outbox, cursors>> /\ inbox' = [inbox EXCEPT ![c] = << >>]
    BY <1>9 DEF Drain, connections
  <2>2. raw'[d] = raw[d] /\ typed'[d] = typed[d]
    <3> DEFINE x == FoldLeft(Drained, raw[c], inbox[c])
               y == update_typed_presence(x, typed[c], inbox[c])
    <3>1. raw' = [raw EXCEPT ![c] = x] /\ typed' = [typed EXCEPT ![c] = y]
      BY <1>9, DrainTypes
    <3> HIDE DEF x, y
    <3> QED BY <3>1 DEF TypeOK
  <2>3. ids'[d] = ids[d]
    BY <1>9 DEF Drain, set_peer, TypeOK
  <2>4. unread'[d] = unread[d] /\ status'[d] = status[d]
    BY <1>9 DEF Drain, TypeOK
  <2> QED BY <2>1, <2>2, <2>3, <2>4 DEF Untouched, TypeOK
<1>10. CASE ReadWelcome(c)
  BY <1>10 DEF ReadWelcome, set_peer, connections, screen, TypeOK, Untouched
<1>11. CASE DrawCursors(c)
  BY <1>11 DEF DrawCursors, connections, TypeOK, Untouched
<1> QED BY <1>1, <1>2, <1>3, <1>4, <1>5, <1>6, <1>7, <1>8, <1>9, <1>10, <1>11 DEF Step

\* The restart: connections end, screens and counters stay.
LEMMA RestartEnds ==
  ASSUME TypeOK, Restart, NEW d \in Client
  PROVE  /\ peer'[d] = peer[d] /\ born'[d] = born[d] /\ status'[d] = status[d]
         /\ ids'[d] = ids[d] /\ unread'[d] = unread[d]
         /\ raw'[d] = raw[d] /\ typed'[d] = typed[d] /\ cursors'[d] = cursors[d]
         /\ outbox'[d] = << >> /\ casts'[d] = << >> /\ ~Open(d)'
         /\ phase[d] = "new" <=> phase'[d] = "new"
         /\ inbox'[d] = IF Open(d) THEN Append(inbox[d], [type |-> "Disconnected"]) ELSE inbox[d]
BY DEF Restart, screen, Open, TypeOK

-----------------------------------------------------------------------------
(* The Welcome of a client. *)

\* A client that has not connected has nothing.
Blank(c) ==
    /\ inbox[c] = << >> /\ outbox[c] = << >> /\ casts[c] = << >>
    /\ raw[c] = EmptyMap /\ typed[c] = EmptyMap /\ cursors[c] = EmptyMap
    /\ ids[c].peer = 0 /\ ~unread[c]
NewIsBlank == \A c \in Client : phase[c] = "new" => Blank(c)

\* What a broadcast leaves to a client that has not subscribed.
LEMMA CastsToLive ==
  ASSUME NEW c \in Client, Step(c), NEW d \in Client, phase[d] # "live"
  PROVE  casts'[d] = casts[d]
<1>1. ASSUME NEW msg, Broadcast(msg) PROVE casts'[d] = casts[d]
  BY <1>1 DEF Broadcast
<1>2. ASSUME NEW p, clear_presence(p) PROVE casts'[d] = casts[d]
  BY <1>1, <1>2 DEF clear_presence
<1>3. CASE update_presence(c)
  BY <1>1, <1>3 DEF update_presence
<1>4. CASE LeavePresence(c)
  BY <1>2, <1>4 DEF LeavePresence
<1>5. CASE Disconnect(c)
  BY <1>2, <1>5 DEF Disconnect
<1>6. CASE WriteBroadcast(c)
  BY <1>6 DEF WriteBroadcast
<1>7. CASE \/ Handshake(c) \/ Subscribe(c) \/ WriteWelcome(c) \/ Mint(c) \/ Drain(c)
           \/ ReadWelcome(c) \/ DrawCursors(c)
  BY <1>7 DEF Handshake, Subscribe, WriteWelcome, Mint, Drain, ReadWelcome, DrawCursors, connections
<1> QED BY <1>3, <1>4, <1>5, <1>6, <1>7 DEF Step

LEMMA BlankStep == TypeOK /\ NewIsBlank /\ [Next]_vars => NewIsBlank'
<1> SUFFICES ASSUME TypeOK, NewIsBlank, [Next]_vars, NEW d \in Client, phase'[d] = "new"
             PROVE  Blank(d)'
  BY DEF NewIsBlank
<1>1. ASSUME NEW c \in Client, Step(c), c # d PROVE Blank(d)'
  <2>1. Untouched(d)
    BY <1>1, StepsAreOwn
  <2>2. phase[d] = "new" /\ Blank(d)
    BY <2>1 DEF Untouched, NewIsBlank
  <2>3. casts'[d] = casts[d]
    BY <1>1, <2>2, CastsToLive
  <2> QED BY <2>1, <2>2, <2>3 DEF Untouched, Blank
<1>2. ASSUME Step(d) PROVE Blank(d)'
  <2>1. ~Handshake(d) /\ ~Disconnect(d) /\ ~Subscribe(d)
    BY DEF Handshake, Disconnect, Subscribe, TypeOK
  <2>2. CASE Mint(d)
    <3>1. phase[d] = "new" /\ Blank(d)
      BY <2>2 DEF Mint, connections, NewIsBlank
    <3>2. ids'[d].peer = ids[d].peer
      BY <2>2 DEF Mint, TypeOK
    <3>3. UNCHANGED <<inbox, outbox, casts, raw, typed, cursors, unread>>
      BY <2>2 DEF Mint, connections, screen
    <3> QED BY <3>1, <3>2, <3>3 DEF Blank
  <2>3. CASE DrawCursors(d)
    <3>1. phase[d] = "new" /\ Blank(d)
      BY <2>3 DEF DrawCursors, connections, NewIsBlank
    <3>2. Drawn(d) = EmptyMap
      BY <3>1 DEF Blank, Drawn, EmptyMap
    <3> QED BY <2>3, <3>1, <3>2 DEF DrawCursors, Blank
  <2>4. CASE Drain(d)
    <3>1. phase[d] = "new" /\ Blank(d)
      BY <2>4 DEF Drain, connections, NewIsBlank
    <3> QED BY <2>4, <3>1 DEF Drain, Blank
  <2>5. CASE ReadWelcome(d)
    <3>1. phase[d] = "new" /\ Blank(d)
      BY <2>5 DEF ReadWelcome, connections, NewIsBlank
    <3> QED BY <2>5, <3>1 DEF ReadWelcome, Blank
  <2>6. CASE WriteWelcome(d) \/ WriteBroadcast(d) \/ update_presence(d) \/ LeavePresence(d)
    BY <2>6 DEF WriteWelcome, WriteBroadcast, update_presence, LeavePresence
  <2> QED BY <1>2, <2>1, <2>2, <2>3, <2>4, <2>5, <2>6 DEF Step
<1>3. ASSUME Restart PROVE Blank(d)'
  BY <1>3, RestartEnds DEF NewIsBlank, Blank, Open
<1>4. ASSUME UNCHANGED vars PROVE Blank(d)'
  BY <1>4 DEF vars, connections, clients, screen, NewIsBlank, Blank
<1> QED BY <1>1, <1>2, <1>3, <1>4, Steps

\* A frame at the end of a sequence.
LEMMA OneMore ==
  ASSUME NEW s, s \in Seq(Frames), NEW m \in Frames
  PROVE  /\ Append(s, m) \in Seq(Frames)
         /\ \A k \in DOMAIN Append(s, m) :
              (k \in DOMAIN s /\ Append(s, m)[k] = s[k]) \/ Append(s, m)[k] = m
OBVIOUS

LEMMA ConcatOne ==
  ASSUME NEW s, s \in Seq(Frames), NEW t, t \in Seq(Welcomes), Len(t) = 1
  PROVE  t[1] \in Welcomes /\ s \o t = Append(s, t[1])
<1>1. t[1] \in Welcomes
  <2>1. 1 \in DOMAIN t
    OBVIOUS
  <2>2. \A k \in DOMAIN t : t[k] \in Welcomes
    BY ONLY t \in Seq(Welcomes)
  <2> QED BY <2>1, <2>2
<1>2. t = <<t[1]>>
  OBVIOUS
<1> DEFINE x == t[1]
<1>3. s \o <<x>> = Append(s, x)
  <2>1. x \in Frames
    BY <1>1, WelcomeKinds
  <2> HIDE DEF x
  <2> QED BY <2>1
<1> QED BY <1>1, <1>2, <1>3

\* A client hears one Welcome, of its own peer.
Welcomed(c) ==
    /\ outbox[c] # << >> => Len(outbox[c]) = 1 /\ outbox[c][1].peer = peer[c]
    /\ \A k \in DOMAIN inbox[c] : inbox[c][k].type = "Welcome" =>
         inbox[c][k].peer = peer[c] /\ outbox[c] = << >> /\ ids[c].peer = 0
    /\ ids[c].peer # 0 => ids[c].peer = peer[c] /\ outbox[c] = << >>
    /\ unread[c] => ids[c].peer # 0
OneWelcome == \A c \in Client : Welcomed(c)

\* What a client drains.
LEMMA DrainTakes ==
  ASSUME TypeOK, OneWelcome, NewIsBlank, Peering, NEW c \in Client, Drain(c)
  PROVE  /\ phase[c] # "new" /\ peer[c] # 0
         /\ \/ /\ \A k \in DOMAIN inbox[c] : inbox[c][k].type # "Welcome"
               /\ ids' = ids /\ unread' = unread
            \/ /\ \E k \in DOMAIN inbox[c] : inbox[c][k].type = "Welcome"
               /\ ids[c].peer = 0 /\ outbox[c] = << >>
               /\ ids' = [ids EXCEPT ![c] = [peer |-> peer[c], next |-> 0]]
               /\ unread'[c]
<1> DEFINE ws == {m \in Range(inbox[c]) : m.type = "Welcome"}
<1>1. phase[c] # "new" /\ peer[c] # 0
  <2>1. inbox[c] # << >>
    BY DEF Drain
  <2>2. phase[c] # "new"
    BY <2>1 DEF NewIsBlank, Blank
  <2> QED BY <2>2 DEF Peering, PeersAreGiven
<1>2. /\ \/ ws = {} /\ ids' = ids
         \/ \E m \in ws : ids' = [ids EXCEPT ![c] = [peer |-> m.peer, next |-> 0]]
      /\ unread' = [unread EXCEPT ![c] = unread[c] \/ ws # {}]
  BY DEF Drain, set_peer
<1>3. \A m \in ws : \E k \in DOMAIN inbox[c] : m = inbox[c][k] /\ inbox[c][k].type = "Welcome"
  BY DEF Range
<1>4. \A k \in DOMAIN inbox[c] : inbox[c][k].type = "Welcome" => inbox[c][k] \in ws
  BY DEF Range
<1> HIDE DEF ws
<1>5. CASE ws = {}
  <2>1. \A k \in DOMAIN inbox[c] : inbox[c][k].type # "Welcome"
    BY <1>4, <1>5
  <2>2. ids' = ids
    BY <1>2, <1>5
  <2>3. unread' = unread
    <3>1. unread[c] \in BOOLEAN /\ unread \in [Client -> BOOLEAN]
      BY DEF TypeOK
    <3>2. CASE unread[c]
      BY <1>2, <1>5, <3>1, <3>2
    <3>3. CASE ~unread[c]
      BY <1>2, <1>5, <3>1, <3>3
    <3> QED BY <3>2, <3>3
  <2> QED BY <1>1, <2>1, <2>2, <2>3
<1>6. CASE ws # {}
  <2>1. PICK m \in ws : ids' = [ids EXCEPT ![c] = [peer |-> m.peer, next |-> 0]]
    BY <1>2, <1>6
  <2>2. PICK k \in DOMAIN inbox[c] : m = inbox[c][k] /\ inbox[c][k].type = "Welcome"
    BY <1>3
  <2>3. m.peer = peer[c] /\ outbox[c] = << >> /\ ids[c].peer = 0
    BY <2>2 DEF OneWelcome, Welcomed
  <2>4. unread'[c]
    BY <1>2, <1>6 DEF TypeOK
  <2> QED BY <1>1, <2>1, <2>2, <2>3, <2>4
<1> QED BY <1>5, <1>6

LEMMA WelcomeStep == TypeOK /\ NewIsBlank /\ Peering /\ OneWelcome /\ [Next]_vars => OneWelcome'
<1> SUFFICES ASSUME TypeOK, NewIsBlank, Peering, OneWelcome, [Next]_vars, NEW d \in Client
             PROVE  Welcomed(d)'
  BY DEF OneWelcome
<1>0. Welcomed(d)
  BY DEF OneWelcome
<1>1. ASSUME NEW c \in Client, Step(c), c # d PROVE Welcomed(d)'
  <2>1. Untouched(d)
    BY <1>1, StepsAreOwn
  <2> QED BY <1>0, <2>1 DEF Untouched, Welcomed
<1>2. CASE Handshake(d)
  <2>1. Blank(d) /\ UNCHANGED <<inbox, ids, unread>>
    BY <1>2 DEF Handshake, clients, NewIsBlank
  <2>2. /\ outbox'[d] = <<[type |-> "Welcome", peer |-> next_peer, presence |-> presence]>>
        /\ peer'[d] = next_peer
    BY <1>2 DEF Handshake, TypeOK
  <2>3. Len(outbox'[d]) = 1 /\ outbox'[d][1].peer = peer'[d]
    BY <2>2
  <2> QED BY <2>1, <2>3 DEF Welcomed, Blank
<1>3. CASE WriteWelcome(d)
  <2>1. /\ outbox[d] # << >> /\ outbox'[d] = << >> /\ inbox'[d] = inbox[d] \o outbox[d]
        /\ UNCHANGED <<peer, ids, unread>>
    BY <1>3 DEF WriteWelcome, TypeOK
  <2>2. /\ Len(outbox[d]) = 1 /\ outbox[d][1].peer = peer[d] /\ ids[d].peer = 0
        /\ \A k \in DOMAIN inbox[d] : inbox[d][k].type # "Welcome"
    BY <1>0, <2>1 DEF Welcomed
  <2>3. /\ inbox[d] \in Seq(Frames) /\ outbox[d] \in Seq(Welcomes)
    BY DEF TypeOK
  <2>4. \A k \in DOMAIN inbox'[d] : inbox'[d][k].type = "Welcome" => inbox'[d][k].peer = peer[d]
    <3>1. outbox[d][1] \in Welcomes /\ inbox'[d] = Append(inbox[d], outbox[d][1])
      BY <2>1, <2>2, <2>3, ConcatOne
    <3>2. outbox[d][1] \in Frames
      BY <3>1, WelcomeKinds
    <3>3. ASSUME NEW k \in DOMAIN inbox'[d]
          PROVE  (k \in DOMAIN inbox[d] /\ inbox'[d][k] = inbox[d][k]) \/ inbox'[d][k] = outbox[d][1]
      BY <2>3, <3>1, <3>2, OneMore
    <3>4. ASSUME NEW k \in DOMAIN inbox'[d], inbox'[d][k].type = "Welcome"
          PROVE  inbox'[d][k].peer = peer[d]
      <4>1. CASE k \in DOMAIN inbox[d] /\ inbox'[d][k] = inbox[d][k]
        BY <2>2, <3>4, <4>1
      <4>2. CASE inbox'[d][k] = outbox[d][1]
        BY <2>2, <4>2
      <4> QED BY <3>3, <4>1, <4>2
    <3> QED BY <3>4
  <2> QED BY <1>0, <2>1, <2>2, <2>4 DEF Welcomed
<1>4. CASE WriteBroadcast(d)
  <2>1. /\ inbox'[d] = Append(inbox[d], Head(casts[d])) /\ UNCHANGED <<outbox, peer, ids, unread>>
    BY <1>4 DEF WriteBroadcast, TypeOK
  <2>2. Head(casts[d]) \in News /\ inbox[d] \in Seq(Frames)
    BY <1>4 DEF WriteBroadcast, TypeOK
  <2>3. Head(casts[d]).type # "Welcome"
    BY <2>2, NewsKinds
  <2>4. ASSUME NEW k \in DOMAIN inbox'[d], inbox'[d][k].type = "Welcome"
        PROVE  k \in DOMAIN inbox[d] /\ inbox'[d][k] = inbox[d][k]
    BY <2>1, <2>2, <2>3, <2>4
  <2> QED BY <1>0, <2>1, <2>4 DEF Welcomed
<1>5. CASE Disconnect(d)
  <2>1. /\ inbox'[d] = Append(inbox[d], [type |-> "Disconnected"]) /\ outbox'[d] = << >>
        /\ UNCHANGED <<peer, ids, unread>>
    BY <1>5 DEF Disconnect, Hangup, TypeOK
  <2>2. inbox[d] \in Seq(Frames)
    BY DEF TypeOK
  <2>3. ASSUME NEW k \in DOMAIN inbox'[d], inbox'[d][k].type = "Welcome"
        PROVE  k \in DOMAIN inbox[d] /\ inbox'[d][k] = inbox[d][k]
    BY <2>1, <2>2, <2>3
  <2> QED BY <1>0, <2>1, <2>3 DEF Welcomed
<1>6. CASE Mint(d)
  <2>1. ids'[d].peer = ids[d].peer /\ UNCHANGED <<inbox, outbox, peer, unread>>
    BY <1>6 DEF Mint, connections, TypeOK
  <2> QED BY <1>0, <2>1 DEF Welcomed
<1>7. CASE Drain(d)
  <2>1. inbox'[d] = << >> /\ UNCHANGED <<outbox, peer>>
    BY <1>7 DEF Drain, connections, TypeOK
  <2>2. CASE ids' = ids /\ unread' = unread
    BY <1>0, <2>1, <2>2 DEF Welcomed
  <2>3. CASE /\ outbox[d] = << >> /\ peer[d] # 0
             /\ ids' = [ids EXCEPT ![d] = [peer |-> peer[d], next |-> 0]]
    BY <2>1, <2>3 DEF Welcomed, TypeOK
  <2> QED BY <1>7, <2>2, <2>3, DrainTakes
<1>8. CASE ReadWelcome(d)
  <2>1. /\ unread[d] /\ ids'[d].peer = peer[d] /\ UNCHANGED <<inbox, outbox, peer>>
        /\ ~unread'[d]
    BY <1>8 DEF ReadWelcome, set_peer, connections, TypeOK
  <2>2. ids[d].peer # 0 /\ ids[d].peer = peer[d]
    BY <1>0, <2>1 DEF Welcomed
  <2> QED BY <1>0, <2>1, <2>2 DEF Welcomed
<1>9. CASE UNCHANGED <<inbox, outbox, peer, ids, unread>>
  BY <1>0, <1>9 DEF Welcomed
<1>10. Subscribe(d) \/ update_presence(d) \/ LeavePresence(d) \/ DrawCursors(d) \/ UNCHANGED vars
         => UNCHANGED <<inbox, outbox, peer, ids, unread>>
  BY DEF Subscribe, update_presence, LeavePresence, DrawCursors, vars, connections, clients
<1>11. CASE Restart
  <2>1. inbox[d] \in Seq(Frames)
    BY DEF TypeOK
  <2>2. ASSUME NEW k \in DOMAIN inbox'[d], inbox'[d][k].type = "Welcome"
        PROVE  k \in DOMAIN inbox[d] /\ inbox'[d][k] = inbox[d][k]
    <3>1. CASE ~Open(d)
      BY <1>11, <3>1, RestartEnds
    <3>2. CASE Open(d)
      <4> DEFINE m == [type |-> "Disconnected"]
      <4>1. inbox'[d] = Append(inbox[d], m) /\ m \in Frames /\ m.type # "Welcome"
        BY <1>11, <3>2, RestartEnds DEF Frames, Ends
      <4> HIDE DEF m
      <4>2. (k \in DOMAIN inbox[d] /\ inbox'[d][k] = inbox[d][k]) \/ inbox'[d][k] = m
        BY <2>1, <2>2, <4>1, OneMore
      <4> QED BY <2>2, <4>1, <4>2
    <3> QED BY <3>1, <3>2
  <2>3. outbox'[d] = << >> /\ UNCHANGED <<peer, ids, unread>>
    BY <1>11 DEF Restart
  <2> QED BY <1>0, <2>2, <2>3 DEF Welcomed
<1> QED BY <1>1, <1>2, <1>3, <1>4, <1>5, <1>6, <1>7, <1>8, <1>9, <1>10, <1>11, Steps DEF Step

\* An id minted under a peer is behind the count of its client, or the count
\* has started again since.
Old(m) ==
    m.id.peer # 0 =>
      /\ m.id.peer = peer[m.by] /\ m.epoch = born[m.by] /\ ids[m.by].peer # 0
      /\ unread[m.by] => m.unread
      /\ m.id.next < ids[m.by].next \/ (m.unread /\ ~unread[m.by])
MintsAreOld == \A i \in 1..Len(mints) : Old(mints[i])

Minted == [id : [peer : Nat, next : Nat], by : Client, epoch : Nat, unread : BOOLEAN]

LEMMA OldStays ==
  ASSUME TypeOK, NewIsBlank, Peering, OneWelcome, [Next]_vars, NEW m \in Minted, Old(m)
  PROVE  Old(m)'
<1> SUFFICES ASSUME m.id.peer # 0
             PROVE  /\ m.id.peer = peer'[m.by] /\ m.epoch = born'[m.by] /\ ids'[m.by].peer # 0
                    /\ unread'[m.by] => m.unread
                    /\ m.id.next < ids'[m.by].next \/ (m.unread /\ ~unread'[m.by])
  BY DEF Old
<1> DEFINE d == m.by
<1>0. /\ d \in Client /\ m.id.peer = peer[d] /\ m.epoch = born[d] /\ ids[d].peer # 0
      /\ unread[d] => m.unread
      /\ m.id.next < ids[d].next \/ (m.unread /\ ~unread[d])
      /\ m.id.next \in Nat
  BY DEF Old, Minted
<1> HIDE DEF d
<1>00. /\ ids[d].next \in Nat /\ ids[d] \in [peer : Nat, next : Nat] /\ unread[d] \in BOOLEAN
  BY <1>0 DEF TypeOK
<1>1. CASE UNCHANGED <<peer, born, ids, unread>>
  BY <1>0, <1>1 DEF d
<1>2. CASE Restart \/ UNCHANGED vars
  BY <1>1, <1>2 DEF Restart, vars, connections, clients
<1>3. ASSUME NEW c \in Client, Step(c), c # d
      PROVE  peer'[d] = peer[d] /\ born'[d] = born[d] /\ ids'[d] = ids[d] /\ unread'[d] = unread[d]
  BY <1>0, <1>3, StepsAreOwn DEF Untouched
<1>4. CASE Mint(d)
  <2>1. /\ ids'[d].peer = ids[d].peer /\ ids'[d].next = ids[d].next + 1
        /\ UNCHANGED <<peer, born, unread>>
    BY <1>0, <1>4 DEF Mint, connections, TypeOK
  <2>2. m.id.next < ids[d].next => m.id.next < ids'[d].next
    BY <1>0, <1>00, <2>1
  <2> QED BY <1>0, <2>1, <2>2 DEF d
<1>5. CASE Drain(d)
  <2>1. UNCHANGED <<peer, born, ids, unread>>
    BY <1>0, <1>5, DrainTakes DEF Drain, connections
  <2> QED BY <1>1, <2>1
<1>6. CASE ReadWelcome(d)
  <2>1. /\ unread[d] /\ ~unread'[d] /\ ids'[d].peer = peer[d] /\ UNCHANGED <<peer, born>>
    BY <1>0, <1>6 DEF ReadWelcome, set_peer, connections, TypeOK
  <2> QED BY <1>0, <2>1 DEF d
<1>7. ~Handshake(d)
  BY <1>0 DEF Handshake, NewIsBlank, Blank
<1>8. \/ Subscribe(d) \/ WriteWelcome(d) \/ WriteBroadcast(d) \/ update_presence(d)
      \/ LeavePresence(d) \/ Disconnect(d) \/ DrawCursors(d)
      => UNCHANGED <<peer, born, ids, unread>>
  BY DEF Subscribe, WriteWelcome, WriteBroadcast, update_presence, LeavePresence, Disconnect,
         DrawCursors, connections, clients
<1>9. CASE Step(d)
  BY <1>1, <1>4, <1>5, <1>6, <1>7, <1>8, <1>9 DEF Step
<1>10. ASSUME NEW c \in Client, Step(c), c # d
       PROVE  /\ m.id.peer = peer'[m.by] /\ m.epoch = born'[m.by] /\ ids'[m.by].peer # 0
              /\ unread'[m.by] => m.unread
              /\ m.id.next < ids'[m.by].next \/ (m.unread /\ ~unread'[m.by])
  BY <1>0, <1>3, <1>10 DEF d
<1> QED BY <1>0, <1>2, <1>9, <1>10, Steps

\* Ids are minted one at a time.
LEMMA MintsGrow ==
  ASSUME TypeOK, [Next]_vars
  PROVE  \/ mints' = mints
         \/ \E c \in Client : Mint(c) /\ mints' = Append(mints, [id |-> ids[c], by |-> c,
                                           epoch |-> born[c], unread |-> unread[c]])
<1>1. ASSUME NEW c \in Client, Mint(c)
      PROVE  mints' = Append(mints, [id |-> ids[c], by |-> c, epoch |-> born[c],
                                     unread |-> unread[c]])
  BY <1>1 DEF Mint
<1>2. ASSUME NEW c \in Client,
             \/ Handshake(c) \/ Subscribe(c) \/ WriteWelcome(c) \/ WriteBroadcast(c)
             \/ update_presence(c) \/ LeavePresence(c) \/ Disconnect(c)
             \/ Drain(c) \/ ReadWelcome(c) \/ DrawCursors(c)
      PROVE  mints' = mints
  BY <1>2 DEF Handshake, Subscribe, WriteWelcome, WriteBroadcast, update_presence, LeavePresence,
              Disconnect, Drain, ReadWelcome, DrawCursors
<1>3. Restart \/ UNCHANGED vars => mints' = mints
  BY DEF Restart, vars
<1> QED BY <1>1, <1>2, <1>3 DEF Next

\* A new id against one minted before.
LEMMA MintedApart ==
  ASSUME TypeOK, NewIsBlank, Peering, OneWelcome, NEW m \in Minted, Old(m),
         NEW c \in Client, m.id = ids[c], m.id.peer # 0, m.epoch = born[c]
  PROVE  m.by = c /\ m.unread
<1>1. m.by \in Client /\ m.id.next \in Nat
  BY DEF Minted
<1>2. /\ ids[c].peer = peer[c] /\ ids[m.by].peer # 0
      /\ m.id.peer = peer[m.by] /\ born[m.by] = born[c]
  BY DEF Old, OneWelcome, Welcomed
<1>3. phase[c] # "new" /\ phase[m.by] # "new"
  BY <1>1, <1>2 DEF NewIsBlank, Blank
<1>4. m.by = c
  BY <1>1, <1>2, <1>3 DEF Peering, PeersDiffer
<1>5. ~(m.id.next < ids[c].next)
  BY <1>1
<1> QED BY <1>4, <1>5 DEF Old

LEMMA MintsStep ==
  ASSUME TypeOK, NewIsBlank, Peering, OneWelcome, MintsAreOld, IdsCollideOnlyIf, [Next]_vars
  PROVE  MintsAreOld' /\ IdsCollideOnlyIf'
<1> DEFINE n == Len(mints)
<1>1. mints \in Seq(Minted) /\ n \in Nat
  BY DEF TypeOK, Minted
<1>2. \A i \in 1..n : mints[i] \in Minted
  BY ONLY <1>1
<1>3. \A i \in 1..n : Old(mints[i])
  BY DEF MintsAreOld
<1>4. ASSUME NEW m \in Minted, Old(m) PROVE Old(m)'
  BY <1>4, OldStays
<1>5. ASSUME NEW i \in 1..n, mints'[i] = mints[i] PROVE Old(mints[i])'
  <2>1. PICK m \in Minted : m = mints[i] /\ Old(m)
    BY <1>2, <1>3
  <2>2. Old(m)' /\ mints'[i] = m
    BY <1>4, <1>5, <2>1
  <2> QED BY <2>2 DEF Old
<1>6. CASE mints' = mints
  BY <1>5, <1>6 DEF MintsAreOld, IdsCollideOnlyIf
<1>7. ASSUME NEW c \in Client, Mint(c),
             mints' = Append(mints, [id |-> ids[c], by |-> c, epoch |-> born[c],
                                     unread |-> unread[c]])
      PROVE  MintsAreOld' /\ IdsCollideOnlyIf'
  <2>0. [id |-> ids[c], by |-> c, epoch |-> born[c], unread |-> unread[c]] \in Minted
    BY DEF Minted, TypeOK
  <2>1. PICK x \in Minted :
          x = [id |-> ids[c], by |-> c, epoch |-> born[c], unread |-> unread[c]]
    BY <2>0
  <2>2. mints' = Append(mints, x)
    BY <1>7, <2>1
  <2>3. Len(mints') = n + 1 /\ mints'[n+1] = x /\ \A i \in 1..n : mints'[i] = mints[i]
    BY ONLY <1>1, <2>1, <2>2
  <2>4. ASSUME NEW i \in Nat, i = n + 1 PROVE Old(mints[i])'
    <3>1. /\ x.id = ids[c] /\ x.by = c /\ x.epoch = born[c] /\ x.unread = unread[c]
      BY <2>1
    <3>2. /\ ids'[c].peer = ids[c].peer /\ ids'[c].next = ids[c].next + 1
          /\ UNCHANGED <<peer, born, unread>>
      BY <1>7 DEF Mint, connections, TypeOK
    <3>3. ids[c].peer # 0 => ids[c].peer = peer[c]
      BY DEF OneWelcome, Welcomed
    <3>4. ids[c].next < ids'[c].next
      <4>1. ids[c].next \in Nat
        BY DEF TypeOK
      <4> QED BY <3>2, <4>1
    <3>5. Old(x)'
      BY <3>1, <3>2, <3>3, <3>4 DEF Old
    <3>6. mints'[i] = x
      BY <2>3, <2>4
    <3> QED BY <3>5, <3>6 DEF Old
  <2>5. MintsAreOld'
    <3>1. ASSUME NEW i \in 1..Len(mints') PROVE Old(mints[i])'
      <4>1. i \in 1..n \/ i = n + 1
        BY <1>1, <2>3
      <4>2. CASE i \in 1..n
        BY <1>5, <2>3, <4>2
      <4>3. CASE i = n + 1
        BY <1>1, <2>4, <4>3
      <4> QED BY <4>1, <4>2, <4>3
    <3> QED BY <3>1 DEF MintsAreOld
  <2>6. ASSUME NEW i \in 1..Len(mints'), NEW j \in 1..Len(mints'),
               i < j, mints'[i].id = mints'[j].id,
               mints'[i].id.peer # 0, mints'[i].epoch = mints'[j].epoch
        PROVE  mints'[i].by = mints'[j].by /\ mints'[i].unread
    <3>1. i \in 1..n /\ (j \in 1..n \/ j = n + 1)
      BY <1>1, <2>3, <2>6
    <3>2. CASE j \in 1..n
      <4>1. mints'[i] = mints[i] /\ mints'[j] = mints[j]
        BY <2>3, <3>1, <3>2
      <4> QED BY <2>6, <3>1, <3>2, <4>1 DEF IdsCollideOnlyIf
    <3>3. CASE j = n + 1
      <4>1. PICK m \in Minted : m = mints[i] /\ Old(m)
        BY <1>2, <1>3, <3>1
      <4>2. mints'[i] = m /\ mints'[j] = x
        BY <2>3, <3>1, <3>3, <4>1
      <4>3. m.id = ids[c] /\ m.id.peer # 0 /\ m.epoch = born[c] /\ x.by = c
        BY <2>1, <2>6, <4>2
      <4>4. m.by = c /\ m.unread
        BY <4>1, <4>3, MintedApart
      <4> QED BY <4>2, <4>3, <4>4
    <3> QED BY <3>1, <3>2, <3>3
  <2>7. IdsCollideOnlyIf'
    BY <2>6 DEF IdsCollideOnlyIf
  <2> QED BY <2>5, <2>7
<1> QED BY <1>6, <1>7, MintsGrow

-----------------------------------------------------------------------------
(* Ghosts. *)

LEMMA GhostsStep ==
  ASSUME TypeOK, Peering, GhostsHaveCauses, [Next]_vars
  PROVE  GhostsHaveCauses'
<1> DEFINE Here == {peer[c] : c \in {x \in Client : phase[x] = "live" /\ born[x] = epoch}}
<1>0. DOMAIN presence \subseteq failed \cup Here
  BY DEF GhostsHaveCauses
<1> SUFFICES DOMAIN presence' \subseteq failed' \cup Here'
  BY DEF GhostsHaveCauses
<1>1. ASSUME NEW c \in Client, phase[c] = "live", UNCHANGED <<phase, peer, born, epoch, failed>>,
             DOMAIN presence' \subseteq DOMAIN presence \cup {peer[c]}
      PROVE  DOMAIN presence' \subseteq failed' \cup Here'
  <2>1. born[c] = epoch
    BY <1>1 DEF Peering, PeersAreGiven, Open
  <2>2. peer[c] \in Here /\ Here' = Here
    BY <1>1, <2>1
  <2> HIDE DEF Here
  <2> QED BY <1>0, <1>1, <2>2
<1>2. ASSUME NEW c \in Client, update_presence(c)
      PROVE  DOMAIN presence' \subseteq failed' \cup Here'
  BY <1>1, <1>2 DEF update_presence, Put
<1>3. ASSUME NEW c \in Client, LeavePresence(c)
      PROVE  DOMAIN presence' \subseteq failed' \cup Here'
  BY <1>1, <1>3, ClearKeeps DEF LeavePresence
<1>4. ASSUME NEW c \in Client, Disconnect(c)
      PROVE  DOMAIN presence' \subseteq failed' \cup Here'
  <2>1. /\ UNCHANGED <<epoch, peer, born>> /\ phase' = [phase EXCEPT ![c] = "closed"]
    BY <1>4 DEF Disconnect
  <2>2. Here \subseteq Here' \cup {peer[c]}
    BY <2>1 DEF TypeOK
  <2>3. \/ clear_presence(peer[c]) /\ failed' = failed
        \/ presence' = presence /\ failed' = failed \cup {peer[c]}
    BY <1>4 DEF Disconnect
  <2> HIDE DEF Here
  <2> QED BY <1>0, <2>2, <2>3, ClearKeeps
<1>5. ASSUME Restart PROVE DOMAIN presence' \subseteq failed' \cup Here'
  BY <1>5 DEF Restart, EmptyMap
<1>6. ASSUME NEW c \in Client, Handshake(c) PROVE DOMAIN presence' \subseteq failed' \cup Here'
  <2>1. /\ UNCHANGED <<epoch, presence, failed>> /\ phase[c] = "new"
        /\ phase' = [phase EXCEPT ![c] = "greeted"] /\ peer' = [peer EXCEPT ![c] = next_peer]
        /\ born' = [born EXCEPT ![c] = epoch]
    BY <1>6 DEF Handshake
  <2>2. Here \subseteq Here'
    BY <2>1 DEF TypeOK
  <2> HIDE DEF Here
  <2> QED BY <1>0, <2>1, <2>2
<1>7. ASSUME NEW c \in Client, Subscribe(c) PROVE DOMAIN presence' \subseteq failed' \cup Here'
  <2>1. /\ UNCHANGED <<epoch, presence, peer, born, failed>>
        /\ phase' = [phase EXCEPT ![c] = "live"]
    BY <1>7 DEF Subscribe, server
  <2>2. Here \subseteq Here'
    BY <2>1 DEF TypeOK
  <2> HIDE DEF Here
  <2> QED BY <1>0, <2>1, <2>2
<1>8. ASSUME NEW c \in Client,
             \/ WriteWelcome(c) \/ WriteBroadcast(c) \/ Mint(c) \/ Drain(c) \/ ReadWelcome(c)
             \/ DrawCursors(c)
      PROVE  UNCHANGED <<epoch, presence, phase, peer, born, failed>>
  BY <1>8 DEF WriteWelcome, WriteBroadcast, Mint, Drain, ReadWelcome, DrawCursors, server, connections
<1>9. ASSUME UNCHANGED vars PROVE UNCHANGED <<epoch, presence, phase, peer, born, failed>>
  BY <1>9 DEF vars, server, connections
<1>10. ASSUME UNCHANGED <<epoch, presence, phase, peer, born, failed>>
       PROVE  DOMAIN presence' \subseteq failed' \cup Here'
  BY <1>0, <1>10
<1> QED BY <1>2, <1>3, <1>4, <1>5, <1>6, <1>7, <1>8, <1>9, <1>10 DEF Next

-----------------------------------------------------------------------------
(* Presence. *)

\* What c will have of p once it has read all there is: the broadcasts are
\* read last, and a Welcome that is not written yet hides what came before.
Base(c, p) == IF outbox[c] = << >> THEN Told(Entry(raw[c], p), inbox[c], p)
              ELSE Entry(outbox[c][1].presence, p)
Heard(c, p) == Told(Base(c, p), casts[c], p)

\* It is what the room has, but for the peers whose news c can have missed.
Arrives(c) == \A p \in Nat \ missed[c] : Heard(c, p) = Entry(presence, p)
NewsArrives == \A c \in Client : Open(c) => Arrives(c)

\* While a connection lasts, both views of it are one.
OneView ==
    \A c \in Client : Open(c) =>
      /\ typed[c] = raw[c]
      /\ \A k \in DOMAIN inbox[c] : inbox[c][k].type # "Disconnected"

LEMMA NewsIsAbout ==
  ASSUME NEW m \in News, NEW p
  PROVE  About(m, p) <=> m.peer = p
BY DEF News, About

LEMMA SequencesTyped ==
  ASSUME TypeOK, NEW c \in Client
  PROVE  /\ inbox[c] \in Seq(Frames) /\ casts[c] \in Seq(News) /\ casts[c] \in Seq(Frames)
         /\ outbox[c] \in Seq(Welcomes)
         /\ raw[c] \in Presences /\ typed[c] \in Presences /\ peer[c] \in Nat
<1>1. inbox[c] \in Seq(Frames) /\ casts[c] \in Seq(News) /\ outbox[c] \in Seq(Welcomes)
  BY DEF TypeOK
<1>2. News \subseteq Frames
  BY DEF Frames
<1>3. casts[c] \in Seq(Frames)
  BY <1>1, <1>2
<1> QED BY <1>1, <1>3 DEF TypeOK

\* A broadcast of what changed reaches whoever is subscribed, and the others
\* are counted as having missed it.
LEMMA Announced ==
  ASSUME TypeOK, NEW q \in Nat, NEW msg \in News, msg.peer = q, Broadcast(msg),
         Entry(presence', q) = Says(msg, q),
         \A p \in Nat \ {q} : Entry(presence', p) = Entry(presence, p),
         NEW d \in Client, Open(d), Arrives(d),
         outbox'[d] = outbox[d], inbox'[d] = inbox[d], raw'[d] = raw[d]
  PROVE  Arrives(d)'
<1> SUFFICES ASSUME NEW p \in Nat, p \notin missed'[d]
             PROVE  Heard(d, p)' = Entry(presence', p)
  BY DEF Arrives
<1>1. Base(d, p)' = Base(d, p)
  BY DEF Base
<1>2. CASE phase[d] = "live"
  <2>1. casts'[d] = Append(casts[d], msg) /\ missed'[d] = missed[d]
    BY <1>2 DEF Broadcast
  <2>2. Heard(d, p) = Entry(presence, p)
    BY <2>1 DEF Arrives
  <2>3. Heard(d, p)' = IF About(msg, p) THEN Says(msg, p) ELSE Heard(d, p)
    <3> DEFINE b == Base(d, p)
               s == casts[d]
    <3>1. s \in Seq(Frames) /\ msg \in Frames
      BY SequencesTyped, NewsKinds
    <3>2. Heard(d, p)' = Told(b, Append(s, msg), p) /\ Heard(d, p) = Told(b, s, p)
      BY <1>1, <2>1 DEF Heard
    <3> HIDE DEF b, s
    <3>3. Told(b, Append(s, msg), p) = IF About(msg, p) THEN Says(msg, p) ELSE Told(b, s, p)
      BY <3>1, ToldAppend
    <3> QED BY <3>2, <3>3
  <2>4. About(msg, p) <=> p = q
    BY NewsIsAbout
  <2> QED BY <2>2, <2>3, <2>4
<1>3. CASE phase[d] = "greeted"
  <2>1. casts'[d] = casts[d] /\ missed'[d] = missed[d] \cup {q}
    BY <1>3 DEF Broadcast
  <2>2. Heard(d, p)' = Heard(d, p)
    BY <1>1, <2>1 DEF Heard
  <2> QED BY <2>1, <2>2 DEF Arrives
<1> QED BY <1>2, <1>3 DEF Open

LEMMA ClearAnnounced ==
  ASSUME TypeOK, NEW q \in Nat, clear_presence(q),
         NEW d \in Client, Open(d), Arrives(d),
         outbox'[d] = outbox[d], inbox'[d] = inbox[d], raw'[d] = raw[d]
  PROVE  Arrives(d)'
<1>1. CASE q \in DOMAIN presence
  <2> DEFINE msg == [type |-> "PresenceLeft", peer |-> q]
  <2>1. presence' = Without(presence, q) /\ Broadcast(msg)
    BY <1>1 DEF clear_presence
  <2>2. msg \in News /\ msg.peer = q /\ Says(msg, q) = {}
    BY DEF News, Says
  <2> HIDE DEF msg
  <2>3. /\ Entry(presence', q) = {}
        /\ \A p \in Nat \ {q} : Entry(presence', p) = Entry(presence, p)
    <3>1. presence \in Presences
      BY DEF TypeOK
    <3> QED BY <2>1, <3>1, WithoutEntries
  <2> QED BY <2>1, <2>2, <2>3, Announced
<1>2. CASE q \notin DOMAIN presence
  BY <1>2 DEF clear_presence, Arrives, Heard, Base
<1> QED BY <1>1, <1>2

LEMMA UpdateAnnounced ==
  ASSUME TypeOK, NEW c \in Client, update_presence(c), NEW d \in Client, Open(d), Arrives(d)
  PROVE  Arrives(d)'
<1>1. PICK state \in States :
        /\ presence' = Put(presence, peer[c], state)
        /\ Broadcast([type |-> "PresenceUpdate", peer |-> peer[c], state |-> state])
  BY DEF update_presence
<1>2. PICK q \in Nat : q = peer[c]
  BY DEF TypeOK
<1> DEFINE msg == [type |-> "PresenceUpdate", peer |-> q, state |-> state]
<1>3. msg \in News /\ msg.peer = q /\ Says(msg, q) = {state}
  BY DEF News, Says
<1>4. Broadcast(msg) /\ presence' = Put(presence, q, state)
  BY <1>1, <1>2
<1>5. outbox'[d] = outbox[d] /\ inbox'[d] = inbox[d] /\ raw'[d] = raw[d]
  BY DEF update_presence
<1> HIDE DEF msg
<1>6. /\ Entry(presence', q) = {state}
      /\ \A p \in Nat \ {q} : Entry(presence', p) = Entry(presence, p)
  <2>1. presence \in Presences
    BY DEF TypeOK
  <2> QED BY <1>4, <2>1, PutEntries
<1> QED BY <1>3, <1>4, <1>5, <1>6, Announced

\* The steps that change nothing of what another client hears.
LEMMA Unheard ==
  ASSUME TypeOK, NEW c \in Client, Step(c), NEW d \in Client, d # c,
         ~update_presence(c), ~LeavePresence(c), ~Disconnect(c)
  PROVE  casts'[d] = casts[d] /\ missed'[d] = missed[d] /\ presence' = presence
<1>1. CASE WriteBroadcast(c)
  BY <1>1 DEF WriteBroadcast, server, TypeOK
<1>2. CASE \/ Handshake(c) \/ Subscribe(c) \/ WriteWelcome(c) \/ Mint(c) \/ Drain(c)
           \/ ReadWelcome(c) \/ DrawCursors(c)
  BY <1>2 DEF Handshake, Subscribe, WriteWelcome, Mint, Drain, ReadWelcome, DrawCursors,
              connections, server
<1> QED BY <1>1, <1>2 DEF Step

LEMMA NewsStep ==
  ASSUME TypeOK, NewIsBlank, OneWelcome, NewsArrives, [Next]_vars
  PROVE  NewsArrives'
<1> SUFFICES ASSUME NEW d \in Client, Open(d)' PROVE Arrives(d)'
  BY DEF NewsArrives
<1>0. Open(d) => Arrives(d)
  BY DEF NewsArrives
<1>1. ASSUME NEW c \in Client, Step(c), c # d PROVE Arrives(d)'
  <2>1. Untouched(d)
    BY <1>1, StepsAreOwn
  <2>2. Open(d) /\ outbox'[d] = outbox[d] /\ inbox'[d] = inbox[d] /\ raw'[d] = raw[d]
    BY <2>1 DEF Untouched, Open
  <2>3. peer[c] \in Nat
    BY DEF TypeOK
  <2>4. CASE update_presence(c)
    BY <1>0, <2>2, <2>4, UpdateAnnounced
  <2>5. CASE clear_presence(peer[c])
    BY <1>0, <2>2, <2>3, <2>5, ClearAnnounced
  <2>6. CASE casts'[d] = casts[d] /\ missed'[d] = missed[d] /\ presence' = presence
    BY <1>0, <2>2, <2>6 DEF Arrives, Heard, Base
  <2>7. CASE LeavePresence(c)
    BY <2>5, <2>7 DEF LeavePresence
  <2>8. CASE Disconnect(c)
    BY <2>5, <2>6, <2>8 DEF Disconnect
  <2> QED BY <1>1, <2>4, <2>6, <2>7, <2>8, Unheard
<1>2. CASE Handshake(d)
  <2>1. Blank(d)
    BY <1>2 DEF Handshake, NewIsBlank
  <2> DEFINE w == [type |-> "Welcome", peer |-> next_peer, presence |-> presence]
  <2>2. outbox'[d] = <<w>> /\ UNCHANGED <<casts, presence, missed>>
    BY <1>2 DEF Handshake, TypeOK
  <2>3. outbox'[d] # << >> /\ outbox'[d][1].presence = presence
    BY <2>2
  <2> HIDE DEF w
  <2>4. ASSUME NEW p \in Nat PROVE Heard(d, p)' = Entry(presence', p)
    <3>1. Base(d, p)' = Entry(presence, p)
      BY <2>3 DEF Base
    <3>2. casts'[d] = << >>
      BY <2>1, <2>2 DEF Blank
    <3> QED BY <2>2, <3>1, <3>2, ToldNothing DEF Heard
  <2> QED BY <2>4 DEF Arrives
<1>3. CASE WriteWelcome(d)
  <2>1. /\ Open(d) /\ outbox[d] # << >> /\ outbox'[d] = << >>
        /\ inbox'[d] = inbox[d] \o outbox[d] /\ UNCHANGED <<casts, presence, missed, raw>>
    BY <1>3 DEF WriteWelcome, Open, server, TypeOK
  <2>2. Len(outbox[d]) = 1
    BY <2>1 DEF OneWelcome, Welcomed
  <2>3. inbox[d] \in Seq(Frames) /\ outbox[d] \in Seq(Welcomes)
    BY SequencesTyped
  <2>4. outbox[d][1] \in Welcomes /\ inbox'[d] = Append(inbox[d], outbox[d][1])
    BY <2>1, <2>2, <2>3, ConcatOne
  <2>5. ASSUME NEW p \in Nat PROVE Base(d, p)' = Base(d, p)
    <3>1. Base(d, p)' = Told(Entry(raw[d], p), Append(inbox[d], outbox[d][1]), p)
      BY <2>1, <2>4 DEF Base
    <3>2. Base(d, p) = Entry(outbox[d][1].presence, p)
      BY <2>1 DEF Base
    <3>3. /\ outbox[d][1] \in Frames /\ About(outbox[d][1], p)
          /\ Says(outbox[d][1], p) = Entry(outbox[d][1].presence, p)
      BY <2>4, WelcomeKinds DEF About, Says
    <3> DEFINE s == inbox[d]
               w == outbox[d][1]
               e == Entry(raw[d], p)
    <3>4. s \in Seq(Frames) /\ w \in Frames /\ About(w, p)
      BY <2>3, <3>3
    <3> HIDE DEF s, w, e
    <3>5. Told(e, Append(s, w), p) = Says(w, p)
      BY <3>4, ToldAppend
    <3> QED BY <3>1, <3>2, <3>3, <3>5 DEF s, w, e
  <2> QED BY <1>0, <2>1, <2>5 DEF Arrives, Heard
<1>4. CASE WriteBroadcast(d)
  <2>1. /\ Open(d) /\ casts[d] # << >> /\ casts'[d] = Tail(casts[d])
        /\ inbox'[d] = Append(inbox[d], Head(casts[d])) /\ UNCHANGED <<outbox, presence, raw>>
    BY <1>4 DEF WriteBroadcast, Open, server, TypeOK
  <2>2. /\ outbox[d] = << >> => missed'[d] = missed[d]
        /\ outbox[d] # << >> => missed'[d] = missed[d] \cup {Head(casts[d]).peer}
    BY <1>4 DEF WriteBroadcast, TypeOK
  <2>3. inbox[d] \in Seq(Frames) /\ casts[d] \in Seq(Frames) /\ casts[d] \in Seq(News)
    BY SequencesTyped
  <2>4. Head(casts[d]) \in News
    BY <2>1, <2>3
  <2> DEFINE s == inbox[d]
             t == casts[d]
             h == Head(casts[d])
  <2>5. ASSUME NEW p \in Nat, p \notin missed'[d] PROVE Heard(d, p)' = Heard(d, p)
    <3>0. h \in News /\ h \in Frames /\ s \in Seq(Frames) /\ t \in Seq(Frames) /\ t # << >>
      BY <2>1, <2>3, <2>4, NewsKinds
    <3>1. Heard(d, p) = Told(IF About(h, p) THEN Says(h, p) ELSE Base(d, p), Tail(t), p)
      <4> DEFINE b == Base(d, p)
      <4>1. Heard(d, p) = Told(b, t, p)
        BY DEF Heard
      <4> HIDE DEF b, t
      <4>2. Told(b, t, p) = Told(IF About(Head(t), p) THEN Says(Head(t), p) ELSE b, Tail(t), p)
        BY <3>0, ToldHead
      <4> QED BY <4>1, <4>2 DEF t, b
    <3>2. Heard(d, p)' = Told(Base(d, p)', Tail(t), p)
      BY <2>1 DEF Heard
    <3>3. CASE outbox[d] = << >>
      <4> DEFINE e == Entry(raw[d], p)
      <4>1. Base(d, p) = Told(e, s, p) /\ Base(d, p)' = Told(e, Append(s, h), p)
        BY <2>1, <3>3 DEF Base
      <4> HIDE DEF e, s, h
      <4>2. Told(e, Append(s, h), p) = IF About(h, p) THEN Says(h, p) ELSE Told(e, s, p)
        BY <3>0, ToldAppend
      <4> QED BY <3>1, <3>2, <4>1, <4>2
    <3>4. CASE outbox[d] # << >>
      <4>1. Base(d, p)' = Base(d, p)
        BY <2>1, <3>4 DEF Base
      <4>2. ~About(h, p)
        BY <2>2, <2>5, <3>0, <3>4, NewsIsAbout
      <4> QED BY <3>1, <3>2, <4>1, <4>2
    <3> QED BY <3>3, <3>4
  <2>6. \A p \in missed[d] : p \in missed'[d]
    BY <2>2
  <2> QED BY <1>0, <2>1, <2>5, <2>6 DEF Arrives
<1>5. CASE update_presence(d)
  BY <1>0, <1>5, UpdateAnnounced DEF update_presence, Open
<1>6. CASE LeavePresence(d)
  <2>1. /\ Open(d) /\ clear_presence(peer[d]) /\ peer[d] \in Nat
        /\ outbox'[d] = outbox[d] /\ inbox'[d] = inbox[d] /\ raw'[d] = raw[d]
    BY <1>6 DEF LeavePresence, Open, clients, TypeOK
  <2> QED BY <1>0, <2>1, ClearAnnounced
<1>7. CASE Drain(d)
  <2>1. Open(d) /\ UNCHANGED <<outbox, casts, presence, missed>> /\ inbox'[d] = << >>
    BY <1>7 DEF Drain, connections, server, Open, TypeOK
  <2> DEFINE s == inbox[d]
             b == raw[d]
             now == FoldLeft(Drained, b, s)
  <2>2. raw'[d] = now
    <3>1. raw' = [raw EXCEPT ![d] = now]
      BY <1>7, DrainTypes
    <3> HIDE DEF now
    <3> QED BY <3>1 DEF TypeOK
  <2>3. s \in Seq(Frames) /\ b \in Presences
    BY SequencesTyped
  <2>4. ASSUME NEW p \in Nat PROVE Base(d, p)' = Base(d, p)
    <3>1. CASE outbox[d] # << >>
      BY <2>1, <3>1 DEF Base
    <3>2. CASE outbox[d] = << >>
      <4>1. Base(d, p) = Told(Entry(b, p), s, p)
        BY <3>2 DEF Base
      <4>2. Base(d, p)' = Told(Entry(raw'[d], p), << >>, p)
        BY <2>1, <3>2 DEF Base
      <4>3. Base(d, p)' = Entry(raw'[d], p)
        BY <4>2, ToldNothing
      <4>4. Entry(now, p) = Told(Entry(b, p), s, p)
        <5> HIDE DEF s, b
        <5> QED BY <2>3, DrainedTells
      <4> QED BY <2>2, <4>1, <4>3, <4>4
    <3> QED BY <3>1, <3>2
  <2> HIDE DEF now, s, b
  <2> QED BY <1>0, <2>1, <2>4 DEF Arrives, Heard
<1>8. CASE Subscribe(d)
  BY <1>0, <1>8 DEF Subscribe, server, clients, Open, Arrives, Heard, Base
<1>9. CASE Mint(d) \/ ReadWelcome(d) \/ DrawCursors(d) \/ UNCHANGED vars
  <2>1. UNCHANGED <<phase, outbox, inbox, casts, raw, presence, missed>>
    BY <1>9 DEF Mint, ReadWelcome, DrawCursors, vars, server, connections, clients
  <2> QED BY <1>0, <2>1 DEF Open, Arrives, Heard, Base
<1>10. ~Disconnect(d) /\ ~Restart
  BY DEF Disconnect, Restart, Open, TypeOK
<1> QED BY <1>1, <1>2, <1>3, <1>4, <1>5, <1>6, <1>7, <1>8, <1>9, <1>10, Steps DEF Step

LEMMA ViewStep ==
  ASSUME TypeOK, NewIsBlank, OneWelcome, OneView, [Next]_vars
  PROVE  OneView'
<1> SUFFICES ASSUME NEW d \in Client, Open(d)'
             PROVE  /\ typed'[d] = raw'[d]
                    /\ \A k \in DOMAIN inbox'[d] : inbox'[d][k].type # "Disconnected"
  BY DEF OneView
<1> DEFINE Goal == /\ typed'[d] = raw'[d]
                   /\ \A k \in DOMAIN inbox'[d] : inbox'[d][k].type # "Disconnected"
<1> SUFFICES Goal
  OBVIOUS
<1>0. Open(d) => /\ typed[d] = raw[d]
                 /\ \A k \in DOMAIN inbox[d] : inbox[d][k].type # "Disconnected"
  BY DEF OneView
<1>1. ASSUME Open(d), typed'[d] = typed[d], raw'[d] = raw[d], inbox'[d] = inbox[d] PROVE Goal
  BY <1>0, <1>1
<1>2. ASSUME NEW c \in Client, Step(c), c # d PROVE Goal
  <2>1. Untouched(d)
    BY <1>2, StepsAreOwn
  <2> QED BY <1>1, <2>1 DEF Untouched, Open
<1>3. CASE Handshake(d)
  BY <1>3 DEF Handshake, clients, screen, NewIsBlank, Blank
<1>4. ASSUME NEW m \in Frames, m.type # "Disconnected", inbox'[d] = Append(inbox[d], m),
             Open(d), UNCHANGED <<raw, typed>>
      PROVE  Goal
  <2>1. inbox[d] \in Seq(Frames)
    BY DEF TypeOK
  <2>2. \A k \in DOMAIN inbox'[d] :
          (k \in DOMAIN inbox[d] /\ inbox'[d][k] = inbox[d][k]) \/ inbox'[d][k] = m
    BY <1>4, <2>1, OneMore
  <2> QED BY <1>0, <1>4, <2>2
<1>5. CASE WriteWelcome(d)
  <2>1. /\ Open(d) /\ outbox[d] # << >> /\ inbox'[d] = inbox[d] \o outbox[d] /\ UNCHANGED <<raw, typed>>
    BY <1>5 DEF WriteWelcome, Open, screen, TypeOK
  <2>2. Len(outbox[d]) = 1
    BY <2>1 DEF OneWelcome, Welcomed
  <2>3. inbox[d] \in Seq(Frames) /\ outbox[d] \in Seq(Welcomes)
    BY SequencesTyped
  <2>4. outbox[d][1] \in Welcomes /\ inbox'[d] = Append(inbox[d], outbox[d][1])
    BY <2>1, <2>2, <2>3, ConcatOne
  <2>5. outbox[d][1] \in Frames /\ outbox[d][1].type # "Disconnected"
    BY <2>4, WelcomeKinds
  <2> QED BY <1>4, <2>1, <2>4, <2>5
<1>6. CASE WriteBroadcast(d)
  <2>1. /\ Open(d) /\ casts[d] # << >> /\ inbox'[d] = Append(inbox[d], Head(casts[d]))
        /\ UNCHANGED <<raw, typed>>
    BY <1>6 DEF WriteBroadcast, Open, screen, TypeOK
  <2>2. Head(casts[d]) \in News
    BY <2>1, SequencesTyped
  <2>3. Head(casts[d]) \in Frames /\ Head(casts[d]).type # "Disconnected"
    BY <2>2, NewsKinds
  <2> QED BY <1>4, <2>1, <2>3
<1>7. CASE Drain(d)
  <2>1. Open(d) /\ inbox'[d] = << >>
    BY <1>7 DEF Drain, connections, Open, TypeOK
  <2> DEFINE s == inbox[d]
             b == raw[d]
             now == FoldLeft(Drained, b, s)
  <2>2. raw'[d] = now /\ typed'[d] = update_typed_presence(now, b, s)
    <3>1. raw' = [raw EXCEPT ![d] = now]
      BY <1>7, DrainTypes
    <3>2. typed' = [typed EXCEPT ![d] = update_typed_presence(now, typed[d], s)]
      BY <1>7, DrainTypes
    <3>3. typed[d] = b
      BY <1>0, <2>1
    <3> HIDE DEF now, s, b
    <3> QED BY <3>1, <3>2, <3>3 DEF TypeOK
  <2>3. s \in Seq(Frames) /\ b \in Presences
    BY SequencesTyped
  <2>4. \A k \in DOMAIN s : s[k].type # "Disconnected"
    BY <1>0, <2>1
  <2> HIDE DEF s, b
  <2>5. now \in Presences /\ \A p \in Nat : Entry(now, p) = Told(Entry(b, p), s, p)
    BY <2>3, DrainedTells
  <2> HIDE DEF now
  <2>6. update_typed_presence(now, b, s) = now
    BY <2>3, <2>4, <2>5, TypedTells
  <2> QED BY <2>1, <2>2, <2>6
<1>8. CASE \/ Subscribe(d) \/ update_presence(d) \/ LeavePresence(d) \/ Mint(d) \/ ReadWelcome(d)
           \/ DrawCursors(d) \/ UNCHANGED vars
  <2>1. Open(d) /\ UNCHANGED <<inbox, raw, typed>>
    BY <1>8 DEF Subscribe, update_presence, LeavePresence, Mint, ReadWelcome, DrawCursors, vars,
                connections, clients, screen, Open
  <2> QED BY <1>1, <2>1
<1>9. ~Disconnect(d) /\ ~Restart
  BY DEF Disconnect, Restart, Open, TypeOK
<1> QED BY <1>2, <1>3, <1>5, <1>6, <1>7, <1>8, <1>9, Steps DEF Step

\* A frame that says nothing of p.
Spares(m, p) == /\ m.type = "Welcome" => p \notin DOMAIN m.presence
                /\ m.type \in {"PresenceUpdate", "PresenceLeft"} => m.peer # p
AllSpare(s, p) == \A k \in DOMAIN s : Spares(s[k], p)

\* Nobody hears of itself before it is connected, and nobody draws itself.
Unheralded(c) ==
    /\ peer[c] \notin DOMAIN presence /\ peer[c] \notin DOMAIN raw[c]
    /\ AllSpare(inbox[c], peer[c]) /\ AllSpare(outbox[c], peer[c]) /\ AllSpare(casts[c], peer[c])
OwnUnseen ==
    \A c \in Client : Open(c) =>
      /\ peer[c] \notin DOMAIN cursors[c]
      /\ status[c] # "Connected" => Unheralded(c)

\* What the room tells of q leaves the others without news of themselves.
LEMMA OthersAnnounced ==
  ASSUME TypeOK, NEW d \in Client, NEW msg \in News, msg.peer # peer[d], Broadcast(msg),
         peer[d] \notin DOMAIN presence', Unheralded(d),
         outbox'[d] = outbox[d], inbox'[d] = inbox[d], raw'[d] = raw[d], peer'[d] = peer[d]
  PROVE  Unheralded(d)'
<1>1. Spares(msg, peer[d]) /\ msg \in Frames
  BY NewsKinds DEF Spares
<1>2. casts'[d] = casts[d] \/ casts'[d] = Append(casts[d], msg)
  BY DEF Broadcast
<1>3. AllSpare(casts'[d], peer[d])
  <2>1. \A k \in DOMAIN casts[d] : Spares(casts[d][k], peer[d])
    BY DEF Unheralded, AllSpare
  <2>2. casts[d] \in Seq(Frames)
    BY SequencesTyped
  <2>3. \A k \in DOMAIN casts'[d] :
          (k \in DOMAIN casts[d] /\ casts'[d][k] = casts[d][k]) \/ casts'[d][k] = msg
    <3> DEFINE s == casts[d]
               t == casts'[d]
    <3>1. s \in Seq(Frames) /\ (t = s \/ t = Append(s, msg))
      BY <1>2, <2>2
    <3> HIDE DEF s, t
    <3>2. \A k \in DOMAIN t : (k \in DOMAIN s /\ t[k] = s[k]) \/ t[k] = msg
      BY <1>1, <3>1, OneMore, ZenonT(40)
    <3> QED BY <3>2 DEF s, t
  <2> QED BY <1>1, <2>1, <2>3 DEF AllSpare
<1> QED BY <1>3 DEF Unheralded

LEMMA ClearSpares ==
  ASSUME TypeOK, NEW d \in Client, NEW q \in Nat, q # peer[d], clear_presence(q), Unheralded(d),
         outbox'[d] = outbox[d], inbox'[d] = inbox[d], raw'[d] = raw[d], peer'[d] = peer[d]
  PROVE  Unheralded(d)'
<1>1. CASE q \in DOMAIN presence
  <2> DEFINE msg == [type |-> "PresenceLeft", peer |-> q]
  <2>1. Broadcast(msg) /\ msg \in News /\ msg.peer = q
    BY <1>1 DEF clear_presence, News
  <2>2. peer[d] \notin DOMAIN presence'
    BY ClearKeeps DEF Unheralded
  <2> HIDE DEF msg
  <2> QED BY <2>1, <2>2, OthersAnnounced
<1>2. CASE q \notin DOMAIN presence
  BY <1>2 DEF clear_presence, Unheralded
<1> QED BY <1>1, <1>2

\* A Drain that leaves a client unconnected has read nothing about it.
LEMMA DrainSpares ==
  ASSUME TypeOK, OneView, NEW d \in Client, Open(d), Drain(d), status'[d] # "Connected",
         status[d] # "Connected" => Unheralded(d)
  PROVE  Unheralded(d)'
<1> DEFINE marks == {k \in DOMAIN inbox[d] : inbox[d][k].type \in {"Welcome", "Disconnected"}}
           s == inbox[d]
           p == peer[d]
<1>1. s \in Seq(Frames) /\ p \in Nat /\ raw[d] \in Presences
  BY SequencesTyped
<1>2. marks = {} /\ status'[d] = status[d]
  <2>1. status' = [status EXCEPT ![d] =
                     IF marks = {} THEN @
                     ELSE IF inbox[d][Max(marks)].type = "Welcome" THEN "Connected"
                     ELSE "Disconnected"]
    BY DEF Drain
  <2>2. marks # {} => Max(marks) \in marks
    <3>1. marks \in SUBSET Nat /\ Len(s) \in Nat /\ \A k \in marks : k <= Len(s)
      BY <1>1
    <3> HIDE DEF marks, s
    <3> QED BY <3>1, MaxOfBounded
  <2>3. \A k \in marks : inbox[d][k].type = "Welcome"
    BY DEF OneView
  <2> HIDE DEF marks
  <2> QED BY <2>1, <2>2, <2>3 DEF TypeOK
<1>3. Unheralded(d)
  BY <1>2
<1>4. \A k \in 1..Len(s) : ~About(s[k], p)
  <2>1. ASSUME NEW k \in 1..Len(s) PROVE ~About(s[k], p)
    <3>1. s[k] \in Frames /\ s[k].type \notin {"Welcome", "Disconnected"}
      BY <1>1, <1>2
    <3>2. Spares(s[k], p)
      BY <1>3 DEF Unheralded, AllSpare
    <3> HIDE DEF s
    <3>3. s[k].type \in {"PresenceUpdate", "PresenceLeft"}
      BY <3>1, FrameKinds
    <3> QED BY <3>1, <3>2, <3>3 DEF Spares, About
  <2> QED BY <2>1
<1>5. p \notin DOMAIN raw'[d]
  <2> DEFINE b == raw[d]
             now == FoldLeft(Drained, b, s)
  <2>1. raw'[d] = now
    <3>1. raw' = [raw EXCEPT ![d] = now]
      BY DrainTypes
    <3> HIDE DEF now
    <3> QED BY <3>1 DEF TypeOK
  <2>2. Entry(b, p) = {}
    BY <1>3 DEF Unheralded, Entry
  <2>3. Entry(now, p) = {}
    <3> HIDE DEF s, b, p
    <3>1. Entry(now, p) = Told(Entry(b, p), s, p)
      BY <1>1, DrainedTells DEF b
    <3>2. Told(Entry(b, p), s, p) = Entry(b, p)
      BY <1>1, <1>4, ToldIs
    <3> QED BY <2>2, <3>1, <3>2
  <2> HIDE DEF now
  <2> QED BY <2>1, <2>3 DEF Entry
<1>6. inbox'[d] = << >> /\ UNCHANGED <<outbox, casts, presence, peer>>
  BY DEF Drain, connections, server, TypeOK
<1> HIDE DEF marks, s, p
<1> QED BY <1>3, <1>5, <1>6 DEF Unheralded, AllSpare, p

LEMMA OwnStep ==
  ASSUME TypeOK, NewIsBlank, OneWelcome, Peering, OneView, OwnUnseen, [Next]_vars
  PROVE  OwnUnseen'
<1> SUFFICES ASSUME NEW d \in Client, Open(d)'
             PROVE  /\ peer'[d] \notin DOMAIN cursors'[d]
                    /\ status'[d] # "Connected" => Unheralded(d)'
  BY DEF OwnUnseen
<1> DEFINE Goal == /\ peer'[d] \notin DOMAIN cursors'[d]
                   /\ status'[d] # "Connected" => Unheralded(d)'
<1> SUFFICES Goal
  OBVIOUS
<1>0. Open(d) => /\ peer[d] \notin DOMAIN cursors[d]
                 /\ status[d] # "Connected" => Unheralded(d)
  BY DEF OwnUnseen
<1>1. ASSUME NEW c \in Client, Step(c), c # d PROVE Goal
  <2>1. Untouched(d)
    BY <1>1, StepsAreOwn
  <2>2. /\ Open(d) /\ outbox'[d] = outbox[d] /\ inbox'[d] = inbox[d] /\ raw'[d] = raw[d]
        /\ peer'[d] = peer[d] /\ cursors'[d] = cursors[d] /\ status'[d] = status[d]
    BY <2>1 DEF Untouched, Open
  <2>3. phase[c] = "live" => peer[c] # peer[d]
    BY <1>1, <2>2 DEF Peering, PeersAreGiven, PeersDiffer, Open
  <2>4. peer[c] \in Nat /\ peer[d] \in Nat
    BY DEF TypeOK
  <2> SUFFICES ASSUME Unheralded(d) PROVE Unheralded(d)'
    BY <1>0, <2>2
  <2>5. CASE update_presence(c)
    <3>1. PICK state \in States :
            /\ presence' = Put(presence, peer[c], state)
            /\ Broadcast([type |-> "PresenceUpdate", peer |-> peer[c], state |-> state])
      BY <2>5 DEF update_presence
    <3>2. peer[c] # peer[d]
      BY <2>3, <2>5 DEF update_presence
    <3>3. peer[d] \notin DOMAIN presence'
      BY <3>1, <3>2 DEF Unheralded, Put
    <3> DEFINE msg == [type |-> "PresenceUpdate", peer |-> peer[c], state |-> state]
    <3>4. msg \in News /\ msg.peer = peer[c] /\ Broadcast(msg)
      BY <2>4, <3>1 DEF News
    <3> HIDE DEF msg
    <3> QED BY <2>2, <3>2, <3>3, <3>4, OthersAnnounced
  <2>6. CASE phase[c] = "live" /\ clear_presence(peer[c])
    BY <2>2, <2>3, <2>4, <2>6, ClearSpares
  <2>7. CASE casts'[d] = casts[d] /\ presence' = presence
    BY <2>2, <2>7 DEF Unheralded
  <2>8. CASE LeavePresence(c)
    BY <2>6, <2>8 DEF LeavePresence
  <2>9. CASE Disconnect(c)
    BY <2>6, <2>7, <2>9 DEF Disconnect
  <2> QED BY <1>1, <2>5, <2>7, <2>8, <2>9, Unheard
<1>2. CASE Handshake(d)
  <2>1. Blank(d)
    BY <1>2 DEF Handshake, NewIsBlank
  <2> DEFINE w == [type |-> "Welcome", peer |-> next_peer, presence |-> presence]
  <2>2. /\ outbox'[d] = <<w>> /\ peer'[d] = next_peer
        /\ UNCHANGED <<casts, inbox, raw, cursors, presence>>
    BY <1>2 DEF Handshake, clients, screen, TypeOK
  <2>3. next_peer \notin DOMAIN presence
    <3>1. next_peer \in Nat /\ ~(next_peer < next_peer)
      BY DEF TypeOK
    <3> QED BY <3>1 DEF Peering, PresentAreGiven
  <2>4. Spares(w, next_peer)
    BY <2>3 DEF Spares
  <2> HIDE DEF w
  <2>5. AllSpare(outbox'[d], next_peer)
    BY <2>2, <2>4 DEF AllSpare
  <2>6. \A k : DOMAIN EmptyMap = {} /\ AllSpare(<< >>, k)
    BY DEF EmptyMap, AllSpare
  <2> QED BY <2>1, <2>2, <2>3, <2>5, <2>6 DEF Blank, Unheralded
<1>3. CASE WriteWelcome(d)
  <2>1. /\ Open(d) /\ outbox[d] # << >> /\ outbox'[d] = << >>
        /\ inbox'[d] = inbox[d] \o outbox[d]
        /\ UNCHANGED <<casts, presence, raw, cursors, peer, status>>
    BY <1>3 DEF WriteWelcome, Open, server, screen, TypeOK
  <2>2. Len(outbox[d]) = 1
    BY <2>1 DEF OneWelcome, Welcomed
  <2>3. inbox[d] \in Seq(Frames) /\ outbox[d] \in Seq(Welcomes)
    BY SequencesTyped
  <2>4. /\ outbox[d][1] \in Frames /\ inbox'[d] = Append(inbox[d], outbox[d][1])
        /\ 1 \in DOMAIN outbox[d]
    <3>1. outbox[d][1] \in Frames /\ inbox'[d] = Append(inbox[d], outbox[d][1])
      BY <2>1, <2>2, <2>3, ConcatOne, WelcomeKinds
    <3>2. 1 \in DOMAIN outbox[d]
      BY ONLY <2>2, <2>3
    <3> QED BY <3>1, <3>2
  <2>5. \A k \in DOMAIN inbox'[d] :
          (k \in DOMAIN inbox[d] /\ inbox'[d][k] = inbox[d][k]) \/ inbox'[d][k] = outbox[d][1]
    BY <2>3, <2>4, OneMore
  <2>6. \A k : AllSpare(<< >>, k)
    BY DEF AllSpare
  <2>7. Unheralded(d) => AllSpare(inbox'[d], peer[d])
    BY <2>4, <2>5 DEF Unheralded, AllSpare
  <2> QED BY <1>0, <2>1, <2>6, <2>7 DEF Unheralded
<1>4. CASE WriteBroadcast(d)
  <2>1. /\ Open(d) /\ casts[d] # << >> /\ casts'[d] = Tail(casts[d])
        /\ inbox'[d] = Append(inbox[d], Head(casts[d]))
        /\ UNCHANGED <<outbox, presence, raw, cursors, peer, status>>
    BY <1>4 DEF WriteBroadcast, Open, server, screen, TypeOK
  <2>2. inbox[d] \in Seq(Frames) /\ casts[d] \in Seq(Frames)
    BY SequencesTyped
  <2>3. /\ Head(casts[d]) \in Frames /\ Head(casts[d]) = casts[d][1] /\ 1 \in DOMAIN casts[d]
        /\ \A k \in DOMAIN casts'[d] : k + 1 \in DOMAIN casts[d] /\ casts'[d][k] = casts[d][k+1]
    BY <2>1, <2>2
  <2>4. \A k \in DOMAIN inbox'[d] :
          (k \in DOMAIN inbox[d] /\ inbox'[d][k] = inbox[d][k]) \/ inbox'[d][k] = Head(casts[d])
    BY <2>1, <2>2, <2>3, OneMore
  <2>5. Unheralded(d) => AllSpare(inbox'[d], peer[d]) /\ AllSpare(casts'[d], peer[d])
    BY <2>3, <2>4 DEF Unheralded, AllSpare
  <2> QED BY <1>0, <2>1, <2>5 DEF Unheralded
<1>5. CASE update_presence(d) \/ LeavePresence(d)
  BY <1>0, <1>5 DEF update_presence, LeavePresence, clients, screen, Open
<1>6. CASE Drain(d)
  <2>1. Open(d) /\ UNCHANGED <<peer, cursors>>
    BY <1>6 DEF Drain, connections, Open
  <2> QED BY <1>0, <1>6, <2>1, DrainSpares
<1>7. CASE DrawCursors(d)
  <2>1. /\ Open(d) /\ cursors'[d] = Drawn(d)
        /\ UNCHANGED <<outbox, inbox, casts, presence, raw, peer, status>>
    BY <1>7 DEF DrawCursors, connections, server, Open, TypeOK
  <2>2. typed[d] = raw[d]
    BY <2>1 DEF OneView
  <2>3. DOMAIN Drawn(d) = (DOMAIN typed[d] \ (IF status[d] = "Connected" THEN {peer[d]} ELSE {}))
                            \cup (DOMAIN typed[d] \cap DOMAIN cursors[d])
    BY DEF Drawn
  <2>4. peer[d] \notin DOMAIN Drawn(d)
    BY <1>0, <2>1, <2>2, <2>3 DEF Unheralded
  <2> QED BY <1>0, <2>1, <2>4 DEF Unheralded
<1>8. CASE Subscribe(d)
  BY <1>0, <1>8 DEF Subscribe, server, clients, screen, Open, Unheralded
<1>9. CASE Mint(d) \/ ReadWelcome(d) \/ UNCHANGED vars
  <2>1. UNCHANGED <<phase, outbox, inbox, casts, raw, presence, cursors, peer, status>>
    BY <1>9 DEF Mint, ReadWelcome, vars, server, connections, clients, screen
  <2> QED BY <1>0, <2>1 DEF Open, Unheralded
<1>10. ~Disconnect(d) /\ ~Restart
  BY DEF Disconnect, Restart, Open, TypeOK
<1> QED BY <1>1, <1>2, <1>3, <1>4, <1>5, <1>6, <1>7, <1>8, <1>9, <1>10, Steps DEF Step

-----------------------------------------------------------------------------
(* The session. *)

IInv ==
    /\ TypeOK /\ NewIsBlank /\ Peering /\ OneWelcome
    /\ MintsAreOld /\ IdsCollideOnlyIf
    /\ GhostsHaveCauses
    /\ NewsArrives /\ OneView /\ OwnUnseen

LEMMA InitHolds == Init => IInv
<1> SUFFICES ASSUME Init PROVE IInv
  OBVIOUS
<1>1. TypeOK
  BY InitTypes
<1>2. NewIsBlank
  BY DEF Init, NewIsBlank, Blank
<1>3. Peering
  BY DEF Init, Peering, PeersAreGiven, PeersDiffer, PresentAreGiven, Open, EmptyMap
<1>4. OneWelcome
  BY DEF Init, OneWelcome, Welcomed
<1>5. MintsAreOld /\ IdsCollideOnlyIf
  <2>1. Len(mints) = 0
    BY DEF Init
  <2> QED BY <2>1 DEF MintsAreOld, IdsCollideOnlyIf
<1>6. GhostsHaveCauses
  BY DEF Init, GhostsHaveCauses, EmptyMap
<1>7. \A c \in Client : ~Open(c)
  BY DEF Init, Open
<1> QED BY <1>1, <1>2, <1>3, <1>4, <1>5, <1>6, <1>7 DEF IInv, NewsArrives, OneView, OwnUnseen

LEMMA StepHolds == IInv /\ [Next]_vars => IInv'
<1> SUFFICES ASSUME IInv, [Next]_vars PROVE IInv'
  OBVIOUS
<1>1. TypeOK' /\ NewIsBlank' /\ Peering' /\ OneWelcome'
  BY TypesKept, BlankStep, PeeringStep, WelcomeStep DEF IInv
<1>2. MintsAreOld' /\ IdsCollideOnlyIf'
  BY MintsStep DEF IInv
<1>3. GhostsHaveCauses'
  BY GhostsStep DEF IInv
<1>4. NewsArrives' /\ OneView' /\ OwnUnseen'
  BY NewsStep, ViewStep, OwnStep DEF IInv
<1> QED BY <1>1, <1>2, <1>3, <1>4 DEF IInv

LEMMA SessionInvariant == Spec => []IInv
BY InitHolds, StepHolds, PTL DEF Spec

\* For any clients and any number of restarts: two minted ids are one only in
\* the three ways this code leaves open.
THEOREM IdsAreApart == Spec => []IdsCollideOnlyIf
<1>1. IInv => IdsCollideOnlyIf
  BY DEF IInv
<1> QED BY <1>1, SessionInvariant, PTL

\* For any clients: whoever is present is connected, or its release failed.
THEOREM PresentAreHere == Spec => []GhostsHaveCauses
<1>1. IInv => GhostsHaveCauses
  BY DEF IInv
<1> QED BY <1>1, SessionInvariant, PTL

\* What a settled client shows is what it has heard, which is what the room has.
LEMMA SettledAgrees == IInv => PresenceAgrees
<1> SUFFICES ASSUME IInv, NEW c \in Client, Settled(c)
             PROVE  /\ typed[c] = raw[c]
                    /\ \A p \in Peers \ missed[c] :
                         /\ p \in DOMAIN cursors[c] <=> p \in DOMAIN presence \ {peer[c]}
                         /\ p \in DOMAIN cursors[c] => cursors[c][p] = presence[p]
  BY DEF PresenceAgrees, IInv
<1>1. /\ Open(c) /\ outbox[c] = << >> /\ casts[c] = << >> /\ inbox[c] = << >>
      /\ cursors[c] = Drawn(c)
  BY DEF Settled, Open
<1>2. typed[c] = raw[c] /\ peer[c] \notin DOMAIN cursors[c]
  BY <1>1 DEF IInv, OneView, OwnUnseen
<1>3. ASSUME NEW p \in Peers, p \notin missed[c]
      PROVE  Entry(typed[c], p) = Entry(presence, p)
  <2>1. p \in Nat
    BY DEF Peers
  <2>2. Heard(c, p) = Entry(presence, p)
    BY <1>1, <1>3, <2>1 DEF IInv, NewsArrives, Arrives
  <2>3. Heard(c, p) = Entry(raw[c], p)
    BY <1>1, ToldNothing DEF Heard, Base
  <2> QED BY <1>2, <2>2, <2>3
<1>4. /\ \A p \in DOMAIN cursors[c] : p \in DOMAIN typed[c] /\ cursors[c][p] = typed[c][p]
      /\ \A p \in DOMAIN typed[c] : p # peer[c] => p \in DOMAIN cursors[c]
  <2> DEFINE own == IF status[c] = "Connected" THEN {peer[c]} ELSE {}
             D == (DOMAIN typed[c] \ own) \cup (DOMAIN typed[c] \cap DOMAIN cursors[c])
  <2>1. cursors[c] = [p \in D |-> typed[c][p]]
    BY <1>1 DEF Drawn
  <2>2. D \subseteq DOMAIN typed[c] /\ \A p \in DOMAIN typed[c] : p # peer[c] => p \in D
    OBVIOUS
  <2> HIDE DEF D
  <2> QED BY <2>1, <2>2
<1>5. ASSUME NEW p \in Peers, p \notin missed[c]
      PROVE  /\ p \in DOMAIN cursors[c] <=> p \in DOMAIN presence \ {peer[c]}
             /\ p \in DOMAIN cursors[c] => cursors[c][p] = presence[p]
  BY <1>2, <1>3, <1>4, <1>5 DEF Entry
<1> QED BY <1>2, <1>5

\* For any clients, states and interleaving of the writer's two channels: a
\* client that has all its frames draws who is present, as they last said.
THEOREM PresenceIsShown == Spec => []PresenceAgrees
BY SettledAgrees, SessionInvariant, PTL
=============================================================================
