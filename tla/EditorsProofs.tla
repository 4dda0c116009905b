--------------------------- MODULE EditorsProofs ---------------------------
(***************************************************************************)
(* Proofs about the editors (Editors).  The drags on the grid: the pointer,*)
(* the drag and the snap each read or write the messages of a frame in     *)
(* their own time, and the invariant says, between any two of them, what   *)
(* of the drag is still to be read, and of each part whether it lies where *)
(* the room has it or word of it is under way.  The layers: what is hidden *)
(* fits what the systems have seen, and the queue what the board has.  The *)
(* desktop client: what is in its streams (BusInv), what it tells of the   *)
(* scene (SceneInv), and where its queued commands lead the selection      *)
(* (ToolInv).                                                              *)
(***************************************************************************)
EXTENDS Editors, FoldProofs

-----------------------------------------------------------------------------
(* Drags: the inductive invariant. *)

PointerMsg == [kind : {"DragStart", "Drag", "DragEnd"}, entity : GridPart]

GridType ==
    /\ parts \subseteq GridPart
    /\ held \in GridPart \cup {NoPart}
    /\ messages \subseteq PointerMsg
    /\ Listed(flight) /\ Listed(arriving)

\* The camera is locked for what is held, and for nothing else.
LockedAlone == locked /\ held = NoPart => abandoned
LockedWhile == held \in parts => locked \/ hasty

\* Once the drag has run, it has read everything, and the camera is as it is
\* to be.
Read == messages = {} /\ LockedAlone /\ LockedWhile

\* Before, as it will be by what is still to be read: with no end to be read,
\* the start of what is held is, or was read before; with one, a start of what
\* is held since is.
ToRead ==
    /\ About("DragEnd") = {} /\ held = NoPart => About("DragStart") = {} /\ LockedAlone
    /\ About("DragEnd") = {} /\ held # NoPart /\ About("DragStart") = {} => LockedWhile
    /\ About("DragEnd") = {} /\ held # NoPart /\ About("DragStart") # {} => held \in About("DragStart")
    /\ About("DragEnd") # {} /\ held # NoPart => About("DragStart") # {}

Camera == IF "drag" \in turn THEN ToRead ELSE Read

\* Something of a stream is about a part.
Names(stream, n) == \E k \in 1..Len(stream) : n \in DOMAIN stream[k]

\* A part is where its document is, or one of the two is to change: it was
\* changed since the room's systems looked, or word of it is under way.
Comes(n) == \/ n \in fresh \/ place[n] = doc_place[n]
              \/ Names(flight, n) \/ Names(arriving, n)

\* The room's systems run in their order.
Ordered == /\ "room" \in turn => "detect" \in turn
           /\ "detect" \in turn => "project" \in turn

\* What came in is taken before the frame is over, and none came before.
Taken == "project" \notin turn \/ "room" \in turn => arriving = << >>

Stream == /\ Ordered /\ Taken
          /\ \A n \in parts : Comes(n)

\* A frame under way has all its systems before it when the pointer acts.
GridInv == GridType /\ Camera /\ Stream

-----------------------------------------------------------------------------
(* Drags: what each step does. *)

\* The messages of one kind once one more is written.
LEMMA AboutMore ==
    ASSUME NEW kind, NEW k, NEW e,
           messages' = messages \cup {[kind |-> k, entity |-> e]}
    PROVE  About(kind)' = IF kind = k THEN About(kind) \cup {e} ELSE About(kind)
  <1> DEFINE m == [kind |-> k, entity |-> e]
  <1>1. m.kind = k /\ m.entity = e /\ messages' = messages \cup {m}
    OBVIOUS
  <1> HIDE DEF m
  <1>2. \A x : x \in About(kind)' <=> \E n \in messages' : n.kind = kind /\ n.entity = x
    BY DEF About
  <1>3. \A x : x \in About(kind) <=> \E n \in messages : n.kind = kind /\ n.entity = x
    BY DEF About
  <1>4. \A x : x \in About(kind)' <=> x \in About(kind) \/ (kind = k /\ x = e)
    BY <1>1, <1>2, <1>3
  <1> QED  BY <1>4

\* No name for nothing is the name of a node.
LEMMA NoPartApart == NoPart \notin GridPart
  BY GridAssumption

\* What leaves the stream, its ends and the parts alone, but for parts that are
\* put down and are fresh then.
LEMMA StreamStays ==
    ASSUME GridInv, NEW them, \/ UNCHANGED placeVars
                              \/ \E where : them \subseteq GridPart /\ PutDown(them, where),
           Ordered', Taken'
    PROVE  Stream' /\ Listed(flight') /\ Listed(arriving') /\ parts' = parts
  <1>1. CASE UNCHANGED placeVars
    BY <1>1 DEF GridInv, GridType, Stream, Comes, Names, placeVars
  <1>2. ASSUME NEW where, them \subseteq GridPart, PutDown(them, where)
        PROVE  Stream' /\ Listed(flight') /\ Listed(arriving') /\ parts' = parts
    <2>1. /\ flight' = flight /\ arriving' = arriving /\ parts' = parts /\ doc_place' = doc_place
          /\ fresh' = fresh \cup them
          /\ place' = [n \in GridPart |-> IF n \in them THEN where[n] ELSE place[n]]
      BY <1>2 DEF PutDown
    <2>2. ASSUME NEW n \in parts PROVE Comes(n)'
      <3>1. n \in GridPart /\ Comes(n)
        BY DEF GridInv, GridType, Stream
      <3>2. n \in fresh' \/ place'[n] = place[n]
        BY <2>1, <3>1
      <3>3. Names(flight, n)' = Names(flight, n) /\ Names(arriving, n)' = Names(arriving, n)
        BY <2>1 DEF Names
      <3> QED  BY <2>1, <3>1, <3>2, <3>3 DEF Comes
    <2> QED  BY <2>1, <2>2 DEF GridInv, GridType, Stream
  <1> QED  BY <1>1, <1>2

LEMMA GridInitially ==
    ASSUME GridInit
    PROVE  GridInv
  <1>1. GridType
    BY DEF GridInit, GridType, Listed
  <1>2. Camera
    BY NoPartApart DEF GridInit, Camera, Read, LockedAlone, LockedWhile
  <1>3. Stream
    BY DEF GridInit, Stream, Ordered, Taken, Comes
  <1> QED  BY <1>1, <1>2, <1>3 DEF GridInv

LEMMA NewFrameKeeps ==
    ASSUME GridInv, NewFrame
    PROVE  GridInv'
  <1>0. /\ UNCHANGED <<placeVars, begun, held, messages, locked, abandoned, hasty>>
        /\ turn = {} /\ turn' = GridSystem
    BY DEF NewFrame
  <1>s. messages = {} /\ Read
    BY <1>0 DEF GridInv, Camera, Read
  <1>t. \A kind : About(kind)' = {}
    BY <1>s, <1>0 DEF About
  <1>1. arriving = << >>
    BY <1>0 DEF GridInv, Stream, Taken
  <1>2. Ordered' /\ Taken'
    BY <1>0, <1>1 DEF placeVars, GridSystem, Ordered, Taken
  <1>3. Stream' /\ Listed(flight') /\ Listed(arriving') /\ parts' = parts
    BY <1>0, <1>2, StreamStays
  <1>4. GridType'
    BY <1>0, <1>3 DEF GridInv, GridType
  <1>5. Camera'
    BY <1>s, <1>t, <1>0, <1>3 DEF GridSystem, Camera, Read, ToRead, LockedAlone, LockedWhile
  <1> QED  BY <1>3, <1>4, <1>5 DEF GridInv

\* What the pointer does has nothing to do with places.
LEMMA PointLeaves ==
    ASSUME GridInv, Point
    PROVE  /\ Stream' /\ Listed(flight') /\ Listed(arriving') /\ parts' = parts
           /\ turn = GridSystem /\ turn' = turn /\ "drag" \in turn
           /\ locked' = locked /\ abandoned' = abandoned /\ hasty' = hasty
  <1>0. /\ UNCHANGED placeVars /\ turn = GridSystem /\ turn' = turn
        /\ locked' = locked /\ abandoned' = abandoned /\ hasty' = hasty
    BY DEF Point
  <1>1. "drag" \in turn /\ Ordered' /\ Taken'
    BY <1>0 DEF GridSystem, GridInv, Stream, Ordered, Taken, placeVars
  <1>2. Stream' /\ Listed(flight') /\ Listed(arriving') /\ parts' = parts
    BY <1>0, <1>1, StreamStays
  <1> QED  BY <1>0, <1>1, <1>2

LEMMA PressKeeps ==
    ASSUME GridInv, Press
    PROVE  GridInv'
  <1>0. PICK n \in parts : held' = n /\ messages' = messages \cup {[kind |-> "DragStart", entity |-> n]}
    BY DEF Press
  <1>p. Point /\ held = NoPart
    BY DEF Press
  <1>n. n \in GridPart /\ n # NoPart
    BY NoPartApart DEF GridInv, GridType
  <1>t. /\ Stream' /\ Listed(flight') /\ Listed(arriving') /\ parts' = parts
        /\ turn' = turn /\ "drag" \in turn
        /\ locked' = locked /\ abandoned' = abandoned /\ hasty' = hasty
    BY <1>p, PointLeaves
  <1>a. /\ About("DragStart")' = About("DragStart") \cup {n}
        /\ About("DragEnd")' = About("DragEnd")
    BY <1>0, AboutMore
  <1>1. GridType'
    BY <1>0, <1>n, <1>t DEF GridInv, GridType, PointerMsg
  <1>2. Camera'
    BY <1>0, <1>a, <1>t, <1>n DEF GridInv, Camera, ToRead
  <1> QED  BY <1>1, <1>2, <1>t DEF GridInv

LEMMA GlideKeeps ==
    ASSUME GridInv, Glide
    PROVE  GridInv'
  <1>0. messages' = messages \cup {[kind |-> "Drag", entity |-> held]} /\ held' = held /\ Point
    BY DEF Glide
  <1>n. held \in GridPart
    BY DEF Glide, GridInv, GridType
  <1>t. /\ Stream' /\ Listed(flight') /\ Listed(arriving') /\ parts' = parts
        /\ turn' = turn /\ "drag" \in turn
        /\ locked' = locked /\ abandoned' = abandoned /\ hasty' = hasty
    BY <1>0, PointLeaves
  <1>a. /\ About("DragStart")' = About("DragStart")
        /\ About("DragEnd")' = About("DragEnd")
    BY <1>0, AboutMore
  <1>1. GridType'
    BY <1>0, <1>n, <1>t DEF GridInv, GridType, PointerMsg
  <1>2. Camera'
    BY <1>0, <1>a, <1>t DEF GridInv, Camera, ToRead, LockedAlone, LockedWhile
  <1> QED  BY <1>1, <1>2, <1>t DEF GridInv

LEMMA ReleaseKeeps ==
    ASSUME GridInv, Release
    PROVE  GridInv'
  <1>0. /\ messages' = messages \cup {[kind |-> "DragEnd", entity |-> held]}
        /\ held' = NoPart /\ held # NoPart /\ Point
    BY DEF Release
  <1>n. held \in GridPart
    BY <1>0 DEF GridInv, GridType
  <1>t. /\ Stream' /\ Listed(flight') /\ Listed(arriving') /\ parts' = parts
        /\ turn' = turn /\ "drag" \in turn
    BY <1>0, PointLeaves
  <1>a. About("DragEnd")' = About("DragEnd") \cup {held}
    BY <1>0, AboutMore
  <1>1. GridType'
    BY <1>0, <1>n, <1>t DEF GridInv, GridType, PointerMsg
  <1>2. Camera'
    BY <1>0, <1>a, <1>t DEF Camera, ToRead
  <1> QED  BY <1>1, <1>2, <1>t DEF GridInv

LEMMA DragKeeps ==
    ASSUME GridInv, pointer_drag_3d_system
    PROVE  GridInv'
  <1> DEFINE B == About("DragStart")
             E == About("DragEnd")
             moved == About("Drag") \cap parts \cap (begun \cup (B \cap parts))
  <1>0. /\ "drag" \in turn /\ turn' = turn \ {"drag"} /\ messages' = {}
        /\ locked' = Lock(B \cap parts, E \cap parts)
        /\ abandoned' = (IF E = {} THEN abandoned ELSE (E \cap parts) = {})
        /\ hasty' = (IF E # {} THEN B # {} ELSE hasty)
        /\ held' = held
        /\ \E where : PutDown(moved, where)
    BY DEF pointer_drag_3d_system, Turn
  <1>p. parts \subseteq GridPart /\ NoPart \notin parts /\ moved \subseteq GridPart
    BY NoPartApart DEF GridInv, GridType
  <1>q. Ordered' /\ Taken'
    BY <1>0 DEF GridInv, Stream, Ordered, Taken, PutDown
  <1>t. Stream' /\ Listed(flight') /\ Listed(arriving') /\ parts' = parts
    <2> HIDE DEF moved
    <2> QED  BY <1>0, <1>p, <1>q, StreamStays
  <1>c. ToRead
    BY <1>0 DEF GridInv, Camera
  <1>1. GridType'
    BY <1>0, <1>t DEF GridInv, GridType
  <1>2. Camera'
    <2>1. LockedAlone'
      <3>1. CASE E = {}
        BY <3>1, <1>0, <1>c DEF ToRead, Lock, LockedAlone
      <3>2. CASE E # {}
        BY <3>2, <1>0 DEF Lock, LockedAlone
      <3> QED  BY <3>1, <3>2
    <2>2. LockedWhile'
      <3>1. CASE E = {} /\ B = {}
        BY <3>1, <1>0, <1>c, <1>p, <1>t DEF ToRead, Lock, LockedWhile
      <3>2. CASE E = {} /\ B # {}
        BY <3>2, <1>0, <1>c, <1>p, <1>t DEF ToRead, Lock, LockedWhile
      <3>3. CASE E # {}
        BY <3>3, <1>0, <1>c, <1>p, <1>t DEF ToRead, LockedWhile
      <3> QED  BY <3>1, <3>2, <3>3
    <2> QED  BY <2>1, <2>2, <1>0 DEF Camera, Read
  <1> QED  BY <1>1, <1>2, <1>t DEF GridInv

\* What has nothing to do with the camera.
CameraVars == <<held, messages, locked, abandoned, hasty>>

LEMMA CameraStays ==
    ASSUME GridInv, UNCHANGED CameraVars, parts' \subseteq parts,
           "drag" \in turn' <=> "drag" \in turn, Listed(flight'), Listed(arriving')
    PROVE  GridType' /\ Camera'
  <1>0. /\ held' = held /\ messages' = messages /\ locked' = locked /\ abandoned' = abandoned
        /\ hasty' = hasty
    BY DEF CameraVars
  <1>s. \A kind : About(kind)' = About(kind)
    BY <1>0 DEF About
  <1>1. GridType'
    BY <1>0 DEF GridInv, GridType
  <1>2. Camera'
    BY <1>0, <1>s DEF GridInv, Camera, ToRead, Read, LockedAlone, LockedWhile
  <1> QED  BY <1>1, <1>2

LEMMA SnapKeeps ==
    ASSUME GridInv, snap_on_drag_end
    PROVE  GridInv'
  <1> DEFINE ends == {m.entity : m \in drag_ends} \cap parts
  <1>0. /\ turn' = turn \ {"snap"} /\ UNCHANGED CameraVars
        /\ UNCHANGED placeVars \/ \E where : PutDown(ends, where)
    BY DEF snap_on_drag_end, Turn, CameraVars
  <1>p. ends \subseteq GridPart
    BY DEF GridInv, GridType
  <1>q. Ordered' /\ Taken'
    BY <1>0 DEF GridInv, Stream, Ordered, Taken, PutDown, placeVars
  <1> HIDE DEF ends
  <1>t. Stream' /\ Listed(flight') /\ Listed(arriving') /\ parts' = parts
    BY <1>0, <1>p, <1>q, StreamStays
  <1> QED  BY <1>0, <1>t, CameraStays DEF GridInv

LEMMA HotkeyKeeps ==
    ASSUME GridInv, snap_hotkey
    PROVE  GridInv'
  <1>0. turn' = turn \ {"key"} /\ UNCHANGED CameraVars /\ UNCHANGED placeVars
    BY DEF snap_hotkey, Turn, CameraVars
  <1>q. Ordered' /\ Taken'
    BY <1>0 DEF GridInv, Stream, Ordered, Taken, placeVars
  <1>t. Stream' /\ Listed(flight') /\ Listed(arriving') /\ parts' = parts
    BY <1>0, <1>q, StreamStays
  <1> QED  BY <1>0, <1>t, CameraStays DEF GridInv

LEMMA HearKeeps ==
    ASSUME GridInv, hear_room
    PROVE  GridInv'
  <1>0. /\ "room" \in turn /\ turn' = turn \ {"room"} /\ UNCHANGED CameraVars
        /\ UNCHANGED <<parts, place, doc_place, fresh>>
    BY DEF hear_room, Turn, CameraVars, dragVars
  <1>1. PICK came \in 0..Len(flight) :
            /\ arriving' = SubSeq(flight, 1, came)
            /\ \/ flight' = SubSeq(flight, came + 1, Len(flight))
               \/ \E e : flight' = Append(SubSeq(flight, came + 1, Len(flight)), e)
    BY DEF hear_room
  <1> DEFINE rest == SubSeq(flight, came + 1, Len(flight))
  <1>2. /\ Len(flight) \in Nat /\ came \in Nat /\ came <= Len(flight) /\ Listed(flight)
        /\ Len(flight) - (came + 1) + 1 = Len(flight) - came /\ came - 1 + 1 = came
    BY DEF GridInv, GridType, Listed
  <1>3. /\ Listed(arriving') /\ Len(arriving') = came
        /\ \A k \in 1..came : arriving'[k] = flight[k]
    BY <1>1, <1>2, SubSeqOf
  <1>4. /\ Listed(rest) /\ Len(rest) = Len(flight) - came
        /\ \A k \in 1..Len(flight) - came : rest[k] = flight[k + came]
    <2> DEFINE m == came + 1
    <2>1. m \in 1..Len(flight) + 1 /\ Len(flight) \in (m - 1)..Len(flight)
      BY <1>2
    <2>2. Len(flight) - m + 1 = Len(flight) - came /\ \A k \in 1..Len(flight) - came : m + k - 1 = k + came
      BY <1>2
    <2> HIDE DEF m
    <2>3. /\ Listed(SubSeq(flight, m, Len(flight))) /\ Len(SubSeq(flight, m, Len(flight))) = Len(flight) - m + 1
          /\ \A k \in 1..Len(flight) - m + 1 : SubSeq(flight, m, Len(flight))[k] = flight[m + k - 1]
      BY <2>1, <1>2, SubSeqOf
    <2>4. rest = SubSeq(flight, m, Len(flight))
      BY DEF m
    <2> HIDE DEF rest
    <2> QED  BY <2>2, <2>3, <2>4
  <1>r. flight' = rest \/ \E e : flight' = Append(rest, e)
    BY <1>1
  <1> HIDE DEF rest
  <1>5. /\ Listed(flight') /\ Len(flight') \in Nat /\ Len(flight') >= Len(flight) - came
        /\ \A k \in 1..Len(flight) - came : flight'[k] = flight[k + came]
    <2>1. CASE flight' = rest
      BY <2>1, <1>2, <1>4
    <2>2. ASSUME NEW e, flight' = Append(rest, e)
          PROVE  /\ Listed(flight') /\ Len(flight') = Len(rest) + 1
                 /\ \A k \in 1..Len(rest) : flight'[k] = rest[k]
      BY <2>2, <1>4, AppendOf
    <2> QED  BY <1>r, <1>2, <1>4, <2>1, <2>2
  <1>6. ASSUME NEW n \in parts PROVE Comes(n)'
    <2>1. Comes(n) /\ ~ Names(arriving, n)
      BY <1>0 DEF GridInv, Stream, Taken, Names
    <2>2. ASSUME Names(flight, n) PROVE Names(flight', n) \/ Names(arriving', n)
      <3>1. PICK k \in 1..Len(flight) : n \in DOMAIN flight[k]
        BY <2>2 DEF Names
      <3>2. CASE k <= came
        BY <3>1, <3>2, <1>2, <1>3 DEF Names
      <3>3. CASE k > came
        <4>1. k - came \in 1..Len(flight) - came /\ (k - came) + came = k
          BY <3>1, <3>3, <1>2
        <4>2. flight'[k - came] = flight[k] /\ k - came \in 1..Len(flight')
          BY <4>1, <1>2, <1>5
        <4> QED  BY <3>1, <4>2 DEF Names
      <3> QED  BY <3>1, <3>2, <3>3, <1>2
    <2> QED  BY <2>1, <2>2, <1>0 DEF Comes, Names
  <1>7. Stream'
    <2>1. "project" \in turn' /\ "room" \notin turn' /\ Ordered'
      BY <1>0 DEF GridInv, Stream, Ordered, Taken
    <2> QED  BY <1>0, <1>6, <2>1 DEF Stream, Taken
  <1> QED  BY <1>0, <1>3, <1>5, <1>7, CameraStays DEF GridInv

LEMMA UnplugKeeps ==
    ASSUME GridInv, unplug
    PROVE  GridInv'
  <1>0. /\ UNCHANGED CameraVars /\ UNCHANGED <<place, doc_place, flight, arriving, turn>>
        /\ \E n \in parts : parts' = parts \ {n} /\ fresh' = fresh \ {n}
    BY DEF unplug, CameraVars
  <1>1. /\ parts' \subseteq parts
        /\ \A n \in parts' : n \in fresh => n \in fresh'
    BY <1>0
  <1>2. Listed(flight') /\ Listed(arriving')
    BY <1>0 DEF GridInv, GridType
  <1>3. Stream'
    BY <1>0, <1>1 DEF GridInv, Stream, Ordered, Taken, Comes, Names
  <1> QED  BY <1>0, <1>1, <1>2, <1>3, CameraStays DEF GridInv

LEMMA DetectKeeps ==
    ASSUME GridInv, detect_local_changes
    PROVE  GridInv'
  <1> DEFINE moved == {n \in fresh : place[n] # doc_place[n]}
             batch == [n \in moved |-> place[n]]
  <1>0. /\ "detect" \in turn /\ "room" \notin turn /\ turn' = turn \ {"detect"}
        /\ flight' = (IF moved = {} THEN flight ELSE Append(flight, batch))
        /\ UNCHANGED CameraVars /\ UNCHANGED <<parts, place, doc_place, arriving>>
    BY DEF detect_local_changes, Turn, CameraVars, dragVars
  <1>1. Listed(flight) /\ Listed(arriving) /\ Len(flight) \in Nat
    BY DEF GridInv, GridType, Listed
  <1>b. DOMAIN batch = moved
    OBVIOUS
  <1>m. \A n \in fresh : n \in moved \/ place[n] = doc_place[n]
    OBVIOUS
  <1> HIDE DEF batch, moved
  <1>2. /\ Listed(flight') /\ Len(flight') \in Nat /\ Len(flight') >= Len(flight)
        /\ \A k \in 1..Len(flight) : flight'[k] = flight[k]
        /\ \A n \in moved : Names(flight', n)
    <2>1. CASE moved = {}
      BY <2>1, <1>0, <1>1
    <2>2. CASE moved # {}
      <3>1. /\ Listed(flight') /\ Len(flight') = Len(flight) + 1
            /\ \A k \in 1..Len(flight) : flight'[k] = flight[k]
            /\ flight'[Len(flight) + 1] = batch
        BY <2>2, <1>0, <1>1, AppendOf
      <3>2. Len(flight) + 1 \in 1..Len(flight')
        BY <3>1, <1>1
      <3>3. ASSUME NEW n \in moved PROVE Names(flight', n)
        BY <3>1, <3>2, <1>b DEF Names
      <3> QED  BY <3>1, <3>3, <1>1
    <2> QED  BY <2>1, <2>2
  <1>3. \A n : Names(flight, n) => Names(flight', n)
    <2> SUFFICES ASSUME NEW n, NEW k \in 1..Len(flight), n \in DOMAIN flight[k]
                 PROVE  Names(flight', n)
      BY DEF Names
    <2>1. k \in 1..Len(flight') /\ flight'[k] = flight[k]
      BY <1>1, <1>2
    <2> QED  BY <2>1 DEF Names
  <1>4. ASSUME NEW n \in parts PROVE Comes(n)'
    <2>1. Comes(n)
      BY DEF GridInv, Stream
    <2>2. Names(flight, n)' = Names(flight', n) /\ Names(arriving, n)' = Names(arriving, n)
      BY <1>0 DEF Names
    <2>3. n \in fresh => place[n] = doc_place[n] \/ Names(flight', n)
      BY <1>m, <1>2
    <2> QED  BY <2>1, <2>2, <2>3, <1>0, <1>3 DEF Comes
  <1>5. Stream'
    BY <1>0, <1>4 DEF GridInv, Stream, Ordered, Taken
  <1>6. Listed(arriving')
    BY <1>0, <1>1
  <1>7. parts' \subseteq parts /\ ("drag" \in turn' <=> "drag" \in turn)
    BY <1>0
  <1>8. GridType' /\ Camera'
    BY <1>0, <1>2, <1>6, <1>7, CameraStays
  <1> QED  BY <1>2, <1>5, <1>8 DEF GridInv

LEMMA ProjectKeeps ==
    ASSUME GridInv, project_to_components
    PROVE  GridInv'
  <1> DEFINE them == IF arriving = << >> THEN {} ELSE Written(parts)
  <1>0. /\ "project" \in turn /\ "detect" \notin turn /\ turn' = turn \ {"project"}
        /\ doc_place' = [n \in GridPart |-> Told(n)]
        /\ place' = [n \in GridPart |-> IF n \in them THEN Told(n) ELSE place[n]]
        /\ fresh' = fresh \cup them /\ arriving' = << >>
        /\ UNCHANGED CameraVars /\ UNCHANGED <<parts, flight>>
    BY DEF project_to_components, Turn, CameraVars, dragVars
  <1>1. Listed(flight') /\ Listed(arriving')
    BY <1>0 DEF GridInv, GridType, Listed
  <1>2. ASSUME NEW n \in parts PROVE Comes(n)'
    <2>1. n \in GridPart /\ Comes(n)
      BY DEF GridInv, GridType, Stream
    <2>2. CASE arriving # << >>
      <3>1. n \in them
        BY <2>2 DEF Written
      <3> HIDE DEF them
      <3>2. place'[n] = doc_place'[n]
        BY <3>1, <2>1, <1>0
      <3> QED  BY <3>2 DEF Comes
    <2>3. CASE arriving = << >>
      <3>1. Told(n) = doc_place[n] /\ ~ Names(arriving, n)
        BY <2>3 DEF Told, Names
      <3>2. place'[n] = place[n] /\ doc_place'[n] = doc_place[n] /\ (n \in fresh => n \in fresh')
        BY <3>1, <2>3, <2>1, <1>0
      <3>3. Names(flight, n)' = Names(flight, n)
        BY <1>0 DEF Names
      <3> QED  BY <3>1, <3>2, <3>3, <2>1 DEF Comes
    <2> QED  BY <2>2, <2>3
  <1>3. Stream'
    BY <1>0, <1>2 DEF GridInv, Stream, Ordered, Taken
  <1>4. parts' \subseteq parts /\ ("drag" \in turn' <=> "drag" \in turn)
    BY <1>0
  <1>5. GridType' /\ Camera'
    BY <1>0, <1>1, <1>4, CameraStays
  <1> QED  BY <1>3, <1>5 DEF GridInv

LEMMA GridStutters ==
    ASSUME GridInv, UNCHANGED gridVars
    PROVE  GridInv'
  <1>0. UNCHANGED placeVars /\ UNCHANGED CameraVars /\ turn' = turn
    BY DEF gridVars, dragVars, CameraVars
  <1>1. Stream' /\ Listed(flight') /\ Listed(arriving') /\ parts' = parts
    BY <1>0 DEF GridInv, GridType, Stream, Ordered, Taken, Comes, Names, placeVars
  <1> QED  BY <1>0, <1>1, CameraStays DEF GridInv

LEMMA GridSteps ==
    ASSUME GridInv, [EditorsNext]_<<running, vars, layerVars, gridVars>>
    PROVE  GridInv'
  <1>1. CASE UNCHANGED gridVars
    BY <1>1, GridStutters
  <1>2. CASE GridNext
    BY <1>2, NewFrameKeeps, PressKeeps, GlideKeeps, ReleaseKeeps, DragKeeps, SnapKeeps,
       HotkeyKeeps, HearKeeps, UnplugKeeps, DetectKeeps, ProjectKeeps DEF GridNext
  <1> QED  BY <1>1, <1>2 DEF EditorsNext, Desktop, Layers, Grid

-----------------------------------------------------------------------------
(* Drags: the theorems. *)

\* Whatever the pointer, the frames, the snap, the room and other clients do,
\* and in whatever order the systems of a frame run, the invariant of the drags
\* holds (three_d.rs, grid_manager.rs, component_sync.rs).
THEOREM GridInvHolds == EditorsSpec => []GridInv
  <1>1. EditorsInit => GridInv
    BY GridInitially DEF EditorsInit
  <1>2. GridInv /\ [EditorsNext]_<<running, vars, layerVars, gridVars>> => GridInv'
    BY GridSteps
  <1> QED  BY <1>1, <1>2, PTL DEF EditorsSpec

\* Between two frames the camera is locked just while something is dragged, but
\* for a drag that was cut short by a removal and one that followed on another
\* within a frame (three_d.rs).
THEOREM DragsDoEnd == EditorsSpec => []DragsEnd
  <1>1. GridInv => DragsEnd
    <2> SUFFICES ASSUME GridInv, turn = {} PROVE DragsEnd
      BY DEF DragsEnd
    <2>1. LockedAlone /\ LockedWhile
      BY DEF GridInv, Camera, Read
    <2> QED  BY <2>1 DEF DragsEnd, LockedAlone, LockedWhile
  <1> QED  BY <1>1, GridInvHolds, PTL

\* Between two frames a part lies where the room has it, unless its change is
\* yet to be looked at or word of it is on its way back: however drags, snaps,
\* echoes and the moves of others come between one another
\* (component_sync.rs:282-447, kyoso_circuit/src/plugin.rs).
THEOREM PartsDoLie == EditorsSpec => []PartsLieAsTold
  <1>1. GridInv => PartsLieAsTold
    <2> SUFFICES ASSUME GridInv, turn = {}, NEW n \in parts \ fresh, place[n] # doc_place[n]
                 PROVE  \E k \in DOMAIN flight : n \in DOMAIN flight[k]
      BY DEF PartsLieAsTold
    <2>1. Comes(n) /\ arriving = << >>
      BY DEF GridInv, Stream, Taken
    <2>2. Names(flight, n)
      BY <2>1 DEF Comes, Names
    <2>3. DOMAIN flight = 1..Len(flight)
      BY DEF GridInv, GridType, Listed
    <2> QED  BY <2>2, <2>3 DEF Names
  <1> QED  BY <1>1, GridInvHolds, PTL
-----------------------------------------------------------------------------
(* Layers: the inductive invariant. *)

IsMap(f) == f = [x \in DOMAIN f |-> f[x]]

\* What commands touch of the board, with layers and ends of X.
Boards(X) ==
    [on_layer : UNION {[S -> X] : S \in SUBSET Nat}, wires : UNION {[S -> X] : S \in SUBSET Nat},
     minted : Nat, hidden : SUBSET Nat, changed : SUBSET Nat, forgotten : SUBSET Nat,
     unread : SUBSET Nat]

\* An entity is a node, or an edge, or gone, and was minted.
Apart(b) ==
    /\ b.changed \subseteq DOMAIN b.on_layer
    /\ DOMAIN b.on_layer \cap DOMAIN b.wires = {}
    /\ b.forgotten \cap DOMAIN b.on_layer = {} /\ b.forgotten \cap DOMAIN b.wires = {}
    /\ \A e \in DOMAIN b.on_layer \cup DOMAIN b.wires \cup b.forgotten : e <= b.minted

Rests(b, n) == n \in DOMAIN b.on_layer \ b.changed /\ b.on_layer[n] # Unassigned

NodesShown(b) ==
    "nodes" \notin due => \A n \in Nat : Rests(b, n) => (n \in b.hidden <=> ~visible[b.on_layer[n]])

EdgesShown(b) ==
    "edges" \notin due =>
       \A w \in DOMAIN b.wires \ b.unread :
          b.wires[w] # <<>> /\ (\A n \in Range(b.wires[w]) : Rests(b, n)) =>
             (w \in b.hidden <=> \E n \in Range(b.wires[w]) : ~visible[b.on_layer[n]])

\* What the index has is alive or about to be forgotten; and of what rests it
\* has the layer.
IndexFits(b) ==
    /\ DOMAIN layer_by_entity \subseteq DOMAIN b.on_layer \cup b.forgotten
    /\ \A n \in Nat : Rests(b, n) =>
          n \in DOMAIN layer_by_entity /\ layer_by_entity[n] = b.on_layer[n]

Fits(b) == Apart(b) /\ NodesShown(b) /\ EdgesShown(b) /\ IndexFits(b)

MapsAgree ==
    /\ IsMap(layer_by_entity) /\ IsMap(entities_by_layer) /\ DOMAIN entities_by_layer = Layer
    /\ \A l \in Layer : entities_by_layer[l] = {n \in DOMAIN layer_by_entity : layer_by_entity[n] = l}

Kinds == {"SpawnComponent", "Connect", "Remove"}

OrdersFit ==
    /\ Listed(orders) /\ \A i \in 1..Len(orders) : orders[i].order \in Kinds \cup {"SetActiveLayer"}
    /\ Listed(queue) /\ \A i \in 1..Len(queue) : queue[i].order \in Kinds

LayersInv == (\E X : Board \in Boards(X)) /\ Fits(Board) /\ MapsAgree /\ OrdersFit

-----------------------------------------------------------------------------
(* Layers: what commands do to the board. *)

LEMMA BoardsOf ==
    ASSUME NEW X, NEW b \in Boards(X)
    PROVE  /\ b.on_layer \in [DOMAIN b.on_layer -> X] /\ DOMAIN b.on_layer \subseteq Nat
           /\ b.wires \in [DOMAIN b.wires -> X] /\ DOMAIN b.wires \subseteq Nat
           /\ b.minted \in Nat /\ b.hidden \subseteq Nat /\ b.changed \subseteq Nat
           /\ b.forgotten \subseteq Nat /\ b.unread \subseteq Nat
<1>1. b.on_layer \in UNION {[S -> X] : S \in SUBSET Nat} /\ b.wires \in UNION {[S -> X] : S \in SUBSET Nat}
  BY DEF Boards
<1>2. PICK S \in SUBSET Nat : b.on_layer \in [S -> X]
  BY <1>1
<1>3. PICK T \in SUBSET Nat : b.wires \in [T -> X]
  BY <1>1
<1>4. /\ b.minted \in Nat /\ b.hidden \subseteq Nat /\ b.changed \subseteq Nat
      /\ b.forgotten \subseteq Nat /\ b.unread \subseteq Nat
  BY DEF Boards
<1> QED BY <1>2, <1>3, <1>4

LEMMA MapsOf ==
    ASSUME NEW X, NEW S \in SUBSET Nat, NEW f \in [S -> X]
    PROVE  f \in UNION {[T -> X] : T \in SUBSET Nat}
  OBVIOUS

LEMMA MakesBoard ==
    ASSUME NEW X, NEW S \in SUBSET Nat, NEW f \in [S -> X], NEW T \in SUBSET Nat, NEW g \in [T -> X],
           NEW m \in Nat, NEW h \in SUBSET Nat, NEW c \in SUBSET Nat, NEW r \in SUBSET Nat,
           NEW u \in SUBSET Nat
    PROVE  [on_layer |-> f, wires |-> g, minted |-> m, hidden |-> h, changed |-> c,
            forgotten |-> r, unread |-> u] \in Boards(X)
<1> DEFINE M == UNION {[R -> X] : R \in SUBSET Nat}
<1>1. f \in M /\ g \in M
  BY MapsOf
<1> HIDE DEF M
<1>2. [on_layer |-> f, wires |-> g, minted |-> m, hidden |-> h, changed |-> c,
       forgotten |-> r, unread |-> u]
      \in [on_layer : M, wires : M, minted : Nat, hidden : SUBSET Nat, changed : SUBSET Nat,
           forgotten : SUBSET Nat, unread : SUBSET Nat]
  BY <1>1
<1> QED BY <1>2 DEF Boards, M

\* Records of a board are equal to the record of their fields.
LEMMA BoardIsRecord ==
    ASSUME NEW X, NEW b \in Boards(X)
    PROVE  b = [on_layer |-> b.on_layer, wires |-> b.wires, minted |-> b.minted,
                hidden |-> b.hidden, changed |-> b.changed, forgotten |-> b.forgotten,
                unread |-> b.unread]
<1> DEFINE M == UNION {[R -> X] : R \in SUBSET Nat}
<1>1. b \in [on_layer : M, wires : M, minted : Nat, hidden : SUBSET Nat, changed : SUBSET Nat,
             forgotten : SUBSET Nat, unread : SUBSET Nat]
  BY DEF Boards
<1> HIDE DEF M
<1> QED BY <1>1

\* Gone, field by field.
IsGone(b, es, c) ==
    /\ c.on_layer = [n \in DOMAIN b.on_layer \ es |-> b.on_layer[n]]
    /\ c.wires = [w \in DOMAIN b.wires \ es |->
                    IF Range(b.wires[w]) \cap es = {} THEN b.wires[w] ELSE <<>>]
    /\ c.minted = b.minted
    /\ c.hidden = b.hidden \ es /\ c.changed = b.changed \ es /\ c.unread = b.unread \ es
    /\ c.forgotten = b.forgotten \cup (es \cap DOMAIN b.on_layer)

LEMMA GoneIs ==
    ASSUME NEW X, <<>> \in X, NEW b \in Boards(X), NEW es
    PROVE  Gone(b, es) \in Boards(X) /\ IsGone(b, es, Gone(b, es))
<1> DEFINE f == [n \in DOMAIN b.on_layer \ es |-> b.on_layer[n]]
           g == [w \in DOMAIN b.wires \ es |->
                    IF Range(b.wires[w]) \cap es = {} THEN b.wires[w] ELSE <<>>]
           r == b.forgotten \cup (es \cap DOMAIN b.on_layer)
           c == [on_layer |-> f, wires |-> g, minted |-> b.minted, hidden |-> b.hidden \ es,
                 changed |-> b.changed \ es, forgotten |-> r, unread |-> b.unread \ es]
<1>0. b = [on_layer |-> b.on_layer, wires |-> b.wires, minted |-> b.minted,
           hidden |-> b.hidden, changed |-> b.changed, forgotten |-> b.forgotten,
           unread |-> b.unread]
  BY BoardIsRecord
<1>1. /\ f \in [DOMAIN b.on_layer \ es -> X] /\ DOMAIN b.on_layer \ es \in SUBSET Nat
      /\ g \in [DOMAIN b.wires \ es -> X] /\ DOMAIN b.wires \ es \in SUBSET Nat
      /\ b.minted \in Nat /\ b.hidden \ es \in SUBSET Nat /\ b.changed \ es \in SUBSET Nat
      /\ r \in SUBSET Nat /\ b.unread \ es \in SUBSET Nat
  BY BoardsOf
<1>2. Gone(b, es) = [b EXCEPT !.on_layer = f, !.wires = g, !.hidden = b.hidden \ es,
                              !.changed = b.changed \ es, !.unread = b.unread \ es,
                              !.forgotten = r]
  BY DEF Gone
<1>3. r = b.forgotten \cup (es \cap DOMAIN b.on_layer)
  OBVIOUS
<1>4. /\ f = [n \in DOMAIN b.on_layer \ es |-> b.on_layer[n]]
      /\ g = [w \in DOMAIN b.wires \ es |->
                    IF Range(b.wires[w]) \cap es = {} THEN b.wires[w] ELSE <<>>]
  OBVIOUS
<1> HIDE DEF f, g, r
<1>5. Gone(b, es) = c
  BY <1>0, <1>2
<1>6. c \in Boards(X)
  BY <1>1, MakesBoard
<1>7. IsGone(b, es, c)
  BY <1>3, <1>4 DEF IsGone
<1> HIDE DEF c
<1> QED BY <1>5, <1>6, <1>7

LEMMA GoneFits ==
    ASSUME NEW X, <<>> \in X, NEW b \in Boards(X), Fits(b), NEW es
    PROVE  Gone(b, es) \in Boards(X) /\ Fits(Gone(b, es))
<1> DEFINE c == Gone(b, es)
<1>1. c \in Boards(X) /\ IsGone(b, es, c)
  BY GoneIs
<1> HIDE DEF c
<1>2. /\ DOMAIN c.on_layer = DOMAIN b.on_layer \ es
      /\ \A n \in DOMAIN c.on_layer : c.on_layer[n] = b.on_layer[n]
      /\ DOMAIN c.wires = DOMAIN b.wires \ es
      /\ \A w \in DOMAIN c.wires :
            c.wires[w] = IF Range(b.wires[w]) \cap es = {} THEN b.wires[w] ELSE <<>>
      /\ c.minted = b.minted
      /\ c.hidden = b.hidden \ es /\ c.changed = b.changed \ es /\ c.unread = b.unread \ es
      /\ c.forgotten = b.forgotten \cup (es \cap DOMAIN b.on_layer)
  BY <1>1 DEF IsGone
<1>3. \A n : n \notin es => (Rests(c, n) <=> Rests(b, n))
  BY <1>2 DEF Rests
<1>4. \A n : Rests(c, n) => n \notin es /\ Rests(b, n) /\ c.on_layer[n] = b.on_layer[n]
  BY <1>2 DEF Rests
<1>5. Apart(c)
  BY <1>2 DEF Fits, Apart
<1>6. NodesShown(c)
  BY <1>2, <1>4 DEF Fits, NodesShown
<1>7. EdgesShown(c)
  <2> SUFFICES ASSUME "edges" \notin due, NEW w \in DOMAIN c.wires \ c.unread, c.wires[w] # <<>>,
                      \A n \in Range(c.wires[w]) : Rests(c, n)
               PROVE  w \in c.hidden <=> \E n \in Range(c.wires[w]) : ~visible[c.on_layer[n]]
    BY DEF EdgesShown
  <2>1. w \in DOMAIN b.wires \ b.unread /\ w \notin es /\ c.wires[w] = b.wires[w]
    BY <1>2
  <2>2. \A n \in Range(b.wires[w]) : Rests(b, n) /\ c.on_layer[n] = b.on_layer[n]
    BY <1>4, <2>1
  <2>3. w \in b.hidden <=> \E n \in Range(b.wires[w]) : ~visible[b.on_layer[n]]
    BY <2>1, <2>2 DEF Fits, EdgesShown
  <2> QED BY <1>2, <2>1, <2>2, <2>3
<1>8. IndexFits(c)
  BY <1>2, <1>4 DEF Fits, IndexFits
<1> QED BY <1>1, <1>5, <1>6, <1>7, <1>8 DEF Fits, c

\* The board with one more node, and with one more edge.
Placed(b, l) ==
    [b EXCEPT !.minted = b.minted + 1, !.changed = @ \cup {b.minted + 1},
              !.on_layer = [n \in DOMAIN @ \cup {b.minted + 1} |->
                              IF n = b.minted + 1 THEN l ELSE @[n]]]

Wired(b, ends) ==
    [b EXCEPT !.minted = b.minted + 1, !.unread = @ \cup {b.minted + 1},
              !.wires = [w \in DOMAIN @ \cup {b.minted + 1} |->
                           IF w = b.minted + 1 THEN ends ELSE @[w]]]

\* What is new is a node that has changed, or an edge that is unread.
LEMMA SpawnFits ==
    ASSUME NEW X, NEW b \in Boards(X), Fits(b), NEW l \in X
    PROVE  Placed(b, l) \in Boards(X) /\ Fits(Placed(b, l))
<1> DEFINE c == Placed(b, l)
           e == b.minted + 1
           f == [n \in DOMAIN b.on_layer \cup {e} |-> IF n = e THEN l ELSE b.on_layer[n]]
<1>0. b = [on_layer |-> b.on_layer, wires |-> b.wires, minted |-> b.minted,
           hidden |-> b.hidden, changed |-> b.changed, forgotten |-> b.forgotten,
           unread |-> b.unread]
  BY BoardIsRecord
<1>1. e \in Nat /\ e = b.minted + 1
  BY BoardsOf
<1>2. e \notin DOMAIN b.on_layer /\ e \notin DOMAIN b.wires /\ e \notin b.forgotten
  BY <1>1, BoardsOf DEF Fits, Apart
<1> HIDE DEF e
<1>3. f \in [DOMAIN b.on_layer \cup {e} -> X] /\ DOMAIN f = DOMAIN b.on_layer \cup {e}
      /\ f[e] = l /\ \A n \in DOMAIN b.on_layer : f[n] = b.on_layer[n]
  BY <1>2, BoardsOf
<1>4. c = [b EXCEPT !.minted = e, !.changed = b.changed \cup {e}, !.on_layer = f]
  BY DEF e, Placed
<1> HIDE DEF f, c
<1>5. c = [on_layer |-> f, wires |-> b.wires, minted |-> e, hidden |-> b.hidden,
           changed |-> b.changed \cup {e}, forgotten |-> b.forgotten, unread |-> b.unread]
  BY <1>0, <1>4
<1>6. c \in Boards(X)
  <2>1. /\ DOMAIN b.on_layer \cup {e} \in SUBSET Nat /\ b.changed \cup {e} \in SUBSET Nat
        /\ b.wires \in [DOMAIN b.wires -> X] /\ DOMAIN b.wires \in SUBSET Nat
        /\ b.hidden \in SUBSET Nat /\ b.forgotten \in SUBSET Nat /\ b.unread \in SUBSET Nat
    BY <1>1, BoardsOf
  <2> QED BY <1>1, <1>3, <1>5, <2>1, MakesBoard
<1>7. /\ c.on_layer = f /\ c.wires = b.wires /\ c.minted = e /\ c.hidden = b.hidden
      /\ c.changed = b.changed \cup {e} /\ c.forgotten = b.forgotten /\ c.unread = b.unread
  BY <1>5
<1>8. \A n : Rests(c, n) => Rests(b, n) /\ c.on_layer[n] = b.on_layer[n]
  BY <1>3, <1>7 DEF Rests
<1>9. \A n : Rests(b, n) => Rests(c, n)
  BY <1>2, <1>3, <1>7 DEF Rests
<1>10. Apart(c)
  BY <1>1, <1>2, <1>3, <1>7, BoardsOf DEF Fits, Apart
<1>11. NodesShown(c)
  BY <1>7, <1>8 DEF Fits, NodesShown
<1>12. EdgesShown(c)
  BY <1>7, <1>8 DEF Fits, EdgesShown
<1>13. IndexFits(c)
  BY <1>3, <1>7, <1>8 DEF Fits, IndexFits
<1> QED BY <1>6, <1>10, <1>11, <1>12, <1>13 DEF Fits, c

LEMMA ConnectFits ==
    ASSUME NEW X, NEW b \in Boards(X), Fits(b), NEW ends \in X
    PROVE  Wired(b, ends) \in Boards(X) /\ Fits(Wired(b, ends))
<1> DEFINE c == Wired(b, ends)
           e == b.minted + 1
           g == [w \in DOMAIN b.wires \cup {e} |-> IF w = e THEN ends ELSE b.wires[w]]
<1>0. b = [on_layer |-> b.on_layer, wires |-> b.wires, minted |-> b.minted,
           hidden |-> b.hidden, changed |-> b.changed, forgotten |-> b.forgotten,
           unread |-> b.unread]
  BY BoardIsRecord
<1>1. e \in Nat /\ e = b.minted + 1
  BY BoardsOf
<1>2. e \notin DOMAIN b.on_layer /\ e \notin DOMAIN b.wires /\ e \notin b.forgotten
  BY <1>1, BoardsOf DEF Fits, Apart
<1> HIDE DEF e
<1>3. g \in [DOMAIN b.wires \cup {e} -> X] /\ DOMAIN g = DOMAIN b.wires \cup {e}
      /\ \A w \in DOMAIN b.wires : g[w] = b.wires[w]
  BY <1>2, BoardsOf
<1>4. c = [b EXCEPT !.minted = e, !.unread = b.unread \cup {e}, !.wires = g]
  BY DEF e, Wired
<1> HIDE DEF g, c
<1>5. c = [on_layer |-> b.on_layer, wires |-> g, minted |-> e, hidden |-> b.hidden,
           changed |-> b.changed, forgotten |-> b.forgotten, unread |-> b.unread \cup {e}]
  BY <1>0, <1>4
<1>6. c \in Boards(X)
  <2>1. /\ DOMAIN b.wires \cup {e} \in SUBSET Nat /\ b.unread \cup {e} \in SUBSET Nat
        /\ b.on_layer \in [DOMAIN b.on_layer -> X] /\ DOMAIN b.on_layer \in SUBSET Nat
        /\ b.hidden \in SUBSET Nat /\ b.forgotten \in SUBSET Nat /\ b.changed \in SUBSET Nat
    BY <1>1, BoardsOf
  <2> QED BY <1>1, <1>3, <1>5, <2>1, MakesBoard
<1>7. /\ c.on_layer = b.on_layer /\ c.wires = g /\ c.minted = e /\ c.hidden = b.hidden
      /\ c.changed = b.changed /\ c.forgotten = b.forgotten /\ c.unread = b.unread \cup {e}
  BY <1>5
<1>8. \A n : Rests(c, n) <=> Rests(b, n)
  BY <1>7 DEF Rests
<1>9. \A w \in DOMAIN c.wires \ c.unread : w \in DOMAIN b.wires \ b.unread /\ c.wires[w] = b.wires[w]
  BY <1>3, <1>7
<1>10. Apart(c)
  BY <1>1, <1>2, <1>3, <1>7, BoardsOf DEF Fits, Apart
<1>11. NodesShown(c)
  BY <1>7, <1>8 DEF Fits, NodesShown
<1>12. EdgesShown(c)
  BY <1>7, <1>8, <1>9 DEF Fits, EdgesShown
<1>13. IndexFits(c)
  BY <1>7, <1>8 DEF Fits, IndexFits
<1> QED BY <1>6, <1>10, <1>11, <1>12, <1>13 DEF Fits, c

LEMMA ObeyedFits ==
    ASSUME NEW X, <<>> \in X, NEW b \in Boards(X), Fits(b),
           NEW o, o.order \in Kinds, o.what \in X
    PROVE  Obeyed(b, o) \in Boards(X) /\ Fits(Obeyed(b, o))
<1>1. CASE o.order = "SpawnComponent"
  <2> DEFINE c == Obeyed(b, o)
             l == o.what
  <2>1. c = Placed(b, l)
    BY <1>1 DEF Obeyed, Placed
  <2>2. l \in X
    OBVIOUS
  <2> HIDE DEF c, l
  <2>3. c \in Boards(X) /\ Fits(c)
    BY <2>1, <2>2, SpawnFits
  <2> QED BY <2>3 DEF c
<1>2. CASE o.order = "Connect"
  <2> DEFINE c == Obeyed(b, o)
             ends == IF Range(o.what) \subseteq DOMAIN b.on_layer THEN o.what ELSE <<>>
  <2>1. c = Wired(b, ends)
    BY <1>2 DEF Obeyed, Wired
  <2>2. ends \in X
    OBVIOUS
  <2> HIDE DEF c, ends
  <2>3. c \in Boards(X) /\ Fits(c)
    BY <2>1, <2>2, ConnectFits
  <2> QED BY <2>3 DEF c
<1>3. CASE o.order = "Remove"
  <2>1. Obeyed(b, o) = Gone(b, {o.what})
    BY <1>3 DEF Obeyed
  <2> QED BY <2>1, GoneFits
<1> QED BY <1>1, <1>2, <1>3 DEF Kinds

\* What the commands keep of a board, or a command of the queue, the fold keeps.
LEMMA ObeyedStays ==
  ASSUME NEW D, NEW b \in D, NEW s, Listed(s),
         \A d \in D, i \in 1..Len(s) : Obeyed(d, s[i]) \in D
  PROVE  FoldLeft(Obeyed, b, s) \in D
<1> DEFINE n == Len(s)
           Folds(f) == f = [S \in SUBSET (1..n) |->
                              IF S = {} THEN b ELSE Obeyed(f[S \ {Max(S)}], s[Max(S)])]
           iter == CHOOSE f : Folds(f)
           step == [x \in D \X (1..n) |-> Obeyed(x[1], s[x[2]])]
<1>1. n \in Nat /\ DOMAIN s = 1..n
  BY DEF Listed
<1>2. FoldLeft(Obeyed, b, s) = iter[1..n]
  BY <1>1 DEF FoldLeft, MapThenFoldSet, Max
<1>3. step \in [D \X (1..n) -> D]
  BY <1>1
<1> HIDE DEF n
<1>4. PICK f \in [SUBSET (1..n) -> D] : Iterated(f, step, b, n)
  BY <1>1, <1>3, Iterates
<1>5. ASSUME NEW S \in SUBSET (1..n), S # {}
      PROVE  step[<<f[S \ {Max(S)}], Max(S)>>] = Obeyed(f[S \ {Max(S)}], s[Max(S)])
  <2>1. S \in SUBSET Nat /\ \A x \in S : x <= n
    BY <1>1
  <2>2. Max(S) \in S
    BY <1>1, <1>5, <2>1, MaxOfBounded
  <2>3. <<f[S \ {Max(S)}], Max(S)>> \in D \X (1..n)
    BY <2>2
  <2> QED BY <2>3
<1> HIDE DEF step
<1>6. Folds(f)
  BY <1>4, <1>5 DEF Iterated
<1>7. Folds(iter)
  <2> HIDE DEF Folds
  <2> QED BY <1>6
<1> HIDE DEF iter
<1>8. iter[1..0] = b
  <2>1. 1..0 = {} /\ {} \in SUBSET (1..n)
    OBVIOUS
  <2> QED BY <1>7, <2>1
<1>9. ASSUME NEW k \in 1..n PROVE iter[1..k] = Obeyed(iter[1..(k-1)], s[k])
  <2>1. 1..k # {} /\ 1..k \in SUBSET (1..n) /\ Max(1..k) = k /\ (1..k) \ {k} = 1..(k-1)
    BY <1>1, Prefix
  <2> QED BY <1>7, <2>1
<1> HIDE DEF Folds
<1>10. \A k \in 0..n : iter[1..k] \in D
  <2> DEFINE T == {k \in 0..n : iter[1..k] \in D}
  <2>1. 0 \in T
    BY <1>1, <1>8
  <2>2. ASSUME NEW k \in 0..n-1, k \in T PROVE k + 1 \in T
    <3>1. k + 1 \in 1..n /\ (k + 1) - 1 = k
      BY <1>1
    <3>2. iter[1..(k+1)] = Obeyed(iter[1..k], s[k+1])
      BY <1>1, <1>9, <3>1
    <3>3. iter[1..(k+1)] \in D
      BY <2>2, <3>1, <3>2 DEF n
    <3> QED BY <1>1, <3>1, <3>3
  <2> HIDE DEF T
  <2>3. \A k \in 0..n : k \in T
    BY <1>1, <2>1, <2>2, UpTo
  <2> QED BY <2>3 DEF T
<1>11. n \in 0..n
  BY <1>1
<1> QED BY <1>2, <1>10, <1>11

LEMMA QueuedStays ==
  ASSUME NEW D, NEW b \in D, NEW s, Listed(s),
         \A d \in D, i \in 1..Len(s) : Queued(d, s[i]) \in D
  PROVE  FoldLeft(Queued, b, s) \in D
<1> DEFINE n == Len(s)
           Folds(f) == f = [S \in SUBSET (1..n) |->
                              IF S = {} THEN b ELSE Queued(f[S \ {Max(S)}], s[Max(S)])]
           iter == CHOOSE f : Folds(f)
           step == [x \in D \X (1..n) |-> Queued(x[1], s[x[2]])]
<1>1. n \in Nat /\ DOMAIN s = 1..n
  BY DEF Listed
<1>2. FoldLeft(Queued, b, s) = iter[1..n]
  BY <1>1 DEF FoldLeft, MapThenFoldSet, Max
<1>3. step \in [D \X (1..n) -> D]
  BY <1>1
<1> HIDE DEF n
<1>4. PICK f \in [SUBSET (1..n) -> D] : Iterated(f, step, b, n)
  BY <1>1, <1>3, Iterates
<1>5. ASSUME NEW S \in SUBSET (1..n), S # {}
      PROVE  step[<<f[S \ {Max(S)}], Max(S)>>] = Queued(f[S \ {Max(S)}], s[Max(S)])
  <2>1. S \in SUBSET Nat /\ \A x \in S : x <= n
    BY <1>1
  <2>2. Max(S) \in S
    BY <1>1, <1>5, <2>1, MaxOfBounded
  <2>3. <<f[S \ {Max(S)}], Max(S)>> \in D \X (1..n)
    BY <2>2
  <2> QED BY <2>3
<1> HIDE DEF step
<1>6. Folds(f)
  BY <1>4, <1>5 DEF Iterated
<1>7. Folds(iter)
  <2> HIDE DEF Folds
  <2> QED BY <1>6
<1> HIDE DEF iter
<1>8. iter[1..0] = b
  <2>1. 1..0 = {} /\ {} \in SUBSET (1..n)
    OBVIOUS
  <2> QED BY <1>7, <2>1
<1>9. ASSUME NEW k \in 1..n PROVE iter[1..k] = Queued(iter[1..(k-1)], s[k])
  <2>1. 1..k # {} /\ 1..k \in SUBSET (1..n) /\ Max(1..k) = k /\ (1..k) \ {k} = 1..(k-1)
    BY <1>1, Prefix
  <2> QED BY <1>7, <2>1
<1> HIDE DEF Folds
<1>10. \A k \in 0..n : iter[1..k] \in D
  <2> DEFINE T == {k \in 0..n : iter[1..k] \in D}
  <2>1. 0 \in T
    BY <1>1, <1>8
  <2>2. ASSUME NEW k \in 0..n-1, k \in T PROVE k + 1 \in T
    <3>1. k + 1 \in 1..n /\ (k + 1) - 1 = k
      BY <1>1
    <3>2. iter[1..(k+1)] = Queued(iter[1..k], s[k+1])
      BY <1>1, <1>9, <3>1
    <3>3. iter[1..(k+1)] \in D
      BY <2>2, <3>1, <3>2 DEF n
    <3> QED BY <1>1, <3>1, <3>3
  <2> HIDE DEF T
  <2>3. \A k \in 0..n : k \in T
    BY <1>1, <2>1, <2>2, UpTo
  <2> QED BY <2>3 DEF T
<1>11. n \in 0..n
  BY <1>1
<1> QED BY <1>2, <1>10, <1>11

-----------------------------------------------------------------------------
(* Layers: what each step does. *)

LEMMA BoardsMore ==
    ASSUME NEW X, NEW Y, X \subseteq Y, NEW b \in Boards(X)
    PROVE  b \in Boards(Y)
<1>1. /\ DOMAIN b.on_layer \in SUBSET Nat /\ b.on_layer \in [DOMAIN b.on_layer -> Y]
      /\ DOMAIN b.wires \in SUBSET Nat /\ b.wires \in [DOMAIN b.wires -> Y]
      /\ b.minted \in Nat /\ b.hidden \in SUBSET Nat /\ b.changed \in SUBSET Nat
      /\ b.forgotten \in SUBSET Nat /\ b.unread \in SUBSET Nat
  BY BoardsOf
<1>2. [on_layer |-> b.on_layer, wires |-> b.wires, minted |-> b.minted,
       hidden |-> b.hidden, changed |-> b.changed, forgotten |-> b.forgotten,
       unread |-> b.unread] \in Boards(Y)
  BY <1>1, MakesBoard
<1> QED BY <1>2, BoardIsRecord

LEMMA BoardFields ==
    /\ Board.on_layer = on_layer /\ Board.wires = wires /\ Board.minted = minted
    /\ Board.hidden = hidden /\ Board.changed = changed /\ Board.forgotten = forgotten
    /\ Board.unread = unread
    /\ Board'.on_layer = on_layer' /\ Board'.wires = wires' /\ Board'.minted = minted'
    /\ Board'.hidden = hidden' /\ Board'.changed = changed' /\ Board'.forgotten = forgotten'
    /\ Board'.unread = unread'
  BY DEF Board

\* A board that fits is put in the place of the old one.
LEMMA SettlesFits ==
    ASSUME NEW X, NEW b \in Boards(X), Fits(b), Settles(b), UNCHANGED manager
    PROVE  (\E Y : Board' \in Boards(Y)) /\ Fits(Board)'
<1>1. Board' = b
  <2>1. Board' = [on_layer |-> b.on_layer, wires |-> b.wires, minted |-> b.minted,
                  hidden |-> b.hidden, changed |-> b.changed, forgotten |-> b.forgotten,
                  unread |-> b.unread]
    BY DEF Settles, Board
  <2> QED BY <2>1, BoardIsRecord
<1>2. UNCHANGED <<due, visible, layer_by_entity>>
  BY DEF manager
<1>3. Fits(Board)'
  BY <1>1, <1>2 DEF Fits, Apart, NodesShown, EdgesShown, IndexFits, Rests
<1> QED BY <1>1, <1>3

LEMMA MapsSame ==
    ASSUME MapsAgree, UNCHANGED <<layer_by_entity, entities_by_layer>>
    PROVE  MapsAgree'
  BY DEF MapsAgree, IsMap

LEMMA OrdersSame ==
    ASSUME OrdersFit, UNCHANGED <<orders, queue>>
    PROVE  OrdersFit'
  BY DEF OrdersFit, Listed

LEMMA BoardSame ==
    ASSUME LayersInv, UNCHANGED board
    PROVE  (\E X : Board' \in Boards(X)) /\ Board' = Board
<1>1. Board' = Board
  BY DEF board, Board
<1> QED BY <1>1 DEF LayersInv

\* While no system is to see that the layer manager was written, nothing of it
\* that is shown was.
LEMMA DueFits ==
    ASSUME LayersInv, UNCHANGED <<board, layer_by_entity>>,
           UNCHANGED <<visible, due>> \/ due' = {"nodes", "edges"}
    PROVE  (\E X : Board' \in Boards(X)) /\ Fits(Board)'
<1>1. Board' = Board /\ \E X : Board' \in Boards(X)
  BY BoardSame
<1>2. Apart(Board)' /\ IndexFits(Board)'
  BY <1>1 DEF LayersInv, Fits, Apart, IndexFits, Rests
<1>3. NodesShown(Board)' /\ EdgesShown(Board)'
  <2>1. CASE UNCHANGED <<visible, due>>
    BY <2>1, <1>1 DEF LayersInv, Fits, NodesShown, EdgesShown, Rests
  <2>2. CASE due' = {"nodes", "edges"}
    BY <2>2 DEF NodesShown, EdgesShown
  <2> QED BY <2>1, <2>2
<1> QED BY <1>1, <1>2, <1>3 DEF Fits

LEMMA OrderKeeps ==
    ASSUME LayersInv, Order
    PROVE  LayersInv'
<1>1. UNCHANGED <<manager, board, queue>>
  BY DEF Order
<1>2. UNCHANGED <<board, layer_by_entity, visible, due, entities_by_layer>>
  BY <1>1 DEF manager
<1>3. PICK o \in Orders : orders' = Append(orders, o)
  BY DEF Order
<1>4. o.order \in Kinds \cup {"SetActiveLayer"}
  BY DEF Orders, Kinds
<1>5. OrdersFit'
  <2>1. Listed(orders) /\ Listed(queue) /\ queue' = queue
    BY <1>1 DEF LayersInv, OrdersFit
  <2>2. /\ Listed(orders') /\ Len(orders') = Len(orders) + 1
        /\ \A n \in 1..Len(orders) : orders'[n] = orders[n]
        /\ orders'[Len(orders) + 1] = o
    BY <2>1, <1>3, AppendOf
  <2>3. Len(orders) \in Nat
    BY <2>1 DEF Listed
  <2>4. ASSUME NEW i \in 1..Len(orders') PROVE orders'[i].order \in Kinds \cup {"SetActiveLayer"}
    <3>1. i \in 1..Len(orders) \/ i = Len(orders) + 1
      BY <2>2, <2>3
    <3> QED BY <3>1, <2>2, <1>4 DEF LayersInv, OrdersFit
  <2>5. /\ Listed(queue)' /\ \A i \in 1..Len(queue') : queue'[i].order \in Kinds
    BY <2>1 DEF LayersInv, OrdersFit, Listed
  <2>6. Listed(orders)'
    BY <2>2 DEF Listed
  <2> QED BY <2>4, <2>5, <2>6 DEF OrdersFit
<1> QED BY <1>2, <1>5, DueFits, MapsSame DEF LayersInv

LEMMA LayerFrameKeeps ==
    ASSUME LayersInv, NextFrame
    PROVE  LayersInv'
<1>1. UNCHANGED <<board, layer_by_entity, visible, due, entities_by_layer, orders, queue>>
  BY DEF NextFrame, manager
<1> QED BY <1>1, DueFits, MapsSame, OrdersSame DEF LayersInv

\* What dispatch queues are commands of the three kinds.
LEMMA QueueFits ==
    ASSUME OrdersFit
    PROVE  /\ Listed(FoldLeft(Queued, queue, orders))
           /\ \A i \in 1..Len(FoldLeft(Queued, queue, orders)) :
                 FoldLeft(Queued, queue, orders)[i].order \in Kinds
<1> DEFINE S == {queue[n] : n \in DOMAIN queue}
           E == S \cup {o \in {orders[i] : i \in 1..Len(orders)} : o.order \in Kinds}
           q == FoldLeft(Queued, queue, orders)
<1>1. \A e \in E : e.order \in Kinds
  BY DEF OrdersFit, Listed
<1>2. queue \in Seq(E)
  <2>1. queue \in Seq(S) /\ S \subseteq E
    BY ListedIsSeq DEF OrdersFit
  <2> HIDE DEF S, E
  <2> QED BY <2>1, SeqOfMore
<1>3. ASSUME NEW d \in Seq(E), NEW i \in 1..Len(orders) PROVE Queued(d, orders[i]) \in Seq(E)
  <2>1. orders[i].order = "SetActiveLayer" \/ orders[i] \in E
    BY DEF OrdersFit
  <2> HIDE DEF E
  <2> QED BY <2>1 DEF Queued
<1>4. Listed(orders)
  BY DEF OrdersFit
<1> DEFINE D == Seq(E)
<1>5. q \in D
  <2>1. queue \in D /\ \A d \in D, i \in 1..Len(orders) : Queued(d, orders[i]) \in D
    BY <1>2, <1>3
  <2> HIDE DEF D, q
  <2>a. queue \in D
    BY <2>1
  <2>b. \A d \in D, i \in 1..Len(orders) : Queued(d, orders[i]) \in D
    BY <2>1
  <2>c. FoldLeft(Queued, queue, orders) \in D
    BY <2>a, <2>b, <1>4, QueuedStays
  <2> QED BY <2>c DEF q
<1> HIDE DEF E, q
<1>6. Listed(q) /\ \A i \in 1..Len(q) : q[i] \in E
  BY <1>5, ListedOf
<1> QED BY <1>1, <1>6 DEF q

LEMMA DispatchKeeps ==
    ASSUME LayersInv, dispatch
    PROVE  LayersInv'
<1>1. /\ UNCHANGED <<board, layer_by_entity, entities_by_layer, visible>>
      /\ due' = due \/ due' = {"nodes", "edges"}
      /\ orders' = <<>> /\ queue' = FoldLeft(Queued, queue, orders)
  BY DEF dispatch, Touched
<1>2. OrdersFit'
  <2> DEFINE q == FoldLeft(Queued, queue, orders)
  <2>1. Listed(q) /\ \A i \in 1..Len(q) : q[i].order \in Kinds
    BY QueueFits DEF LayersInv
  <2> HIDE DEF q
  <2>2. queue' = q
    BY <1>1 DEF q
  <2>3. Len(orders') = 0 /\ Listed(orders)'
    BY <1>1 DEF Listed
  <2> QED BY <2>1, <2>2, <2>3 DEF OrdersFit, Listed
<1> QED BY <1>1, <1>2, DueFits, MapsSame DEF LayersInv

LEMMA ApplyKeeps ==
    ASSUME LayersInv, Apply
    PROVE  LayersInv'
<1> DEFINE c == FoldLeft(Obeyed, Board, queue)
<1>1. UNCHANGED manager /\ orders' = orders /\ queue' = <<>> /\ Settles(c)
  BY DEF Apply
<1>2. PICK X : Board \in Boards(X)
  BY DEF LayersInv
<1> DEFINE Y == X \cup {<<>>} \cup {queue[i].what : i \in 1..Len(queue)}
           D == {b \in Boards(Y) : Fits(b)}
<1>3. <<>> \in Y /\ X \subseteq Y /\ \A i \in 1..Len(queue) : queue[i].what \in Y
  OBVIOUS
<1> HIDE DEF Y
<1>4. Board \in D
  BY <1>2, <1>3, BoardsMore DEF LayersInv
<1>5. ASSUME NEW b \in D, NEW i \in 1..Len(queue) PROVE Obeyed(b, queue[i]) \in D
  <2>1. queue[i].order \in Kinds
    BY DEF LayersInv, OrdersFit
  <2> QED BY <1>3, <2>1, ObeyedFits
<1>6. Listed(queue)
  BY DEF LayersInv, OrdersFit
<1>7. c \in D
  <2> HIDE DEF D, c
  <2>a. \A b \in D, i \in 1..Len(queue) : Obeyed(b, queue[i]) \in D
    BY <1>5
  <2>b. FoldLeft(Obeyed, Board, queue) \in D
    BY <1>4, <2>a, <1>6, ObeyedStays
  <2> QED BY <2>b DEF c
<1> HIDE DEF c
<1>8. (\E Z : Board' \in Boards(Z)) /\ Fits(Board)'
  BY <1>1, <1>7, SettlesFits
<1>9. MapsAgree'
  BY <1>1, MapsSame DEF LayersInv, manager
<1>10. OrdersFit'
  <2>1. Len(queue') = 0 /\ Listed(queue)'
    BY <1>1 DEF Listed
  <2>2. Listed(orders)' /\ \A i \in 1..Len(orders') : orders'[i].order \in Kinds \cup {"SetActiveLayer"}
    BY <1>1 DEF LayersInv, OrdersFit, Listed
  <2> QED BY <2>1, <2>2 DEF OrdersFit
<1> QED BY <1>8, <1>9, <1>10 DEF LayersInv

\* A node is assigned to a layer.
LEMMA AssignFits ==
    ASSUME NEW X, NEW b \in Boards(X), Fits(b), NEW n \in DOMAIN b.on_layer, NEW l \in X
    PROVE  LET c == [b EXCEPT !.on_layer[n] = l, !.changed = @ \cup {n}]
           IN  c \in Boards(X) /\ Fits(c)
<1> DEFINE f == [b.on_layer EXCEPT ![n] = l]
           c == [b EXCEPT !.on_layer[n] = l, !.changed = @ \cup {n}]
<1>0. b = [on_layer |-> b.on_layer, wires |-> b.wires, minted |-> b.minted,
           hidden |-> b.hidden, changed |-> b.changed, forgotten |-> b.forgotten,
           unread |-> b.unread]
  BY BoardIsRecord
<1>1. /\ f \in [DOMAIN b.on_layer -> X] /\ DOMAIN f = DOMAIN b.on_layer
      /\ \A m \in DOMAIN b.on_layer : m # n => f[m] = b.on_layer[m]
  BY BoardsOf
<1>2. c = [b EXCEPT !.on_layer = f, !.changed = b.changed \cup {n}]
  OBVIOUS
<1> HIDE DEF f, c
<1>3. c = [on_layer |-> f, wires |-> b.wires, minted |-> b.minted, hidden |-> b.hidden,
           changed |-> b.changed \cup {n}, forgotten |-> b.forgotten, unread |-> b.unread]
  BY <1>0, <1>2
<1>4. c \in Boards(X)
  <2>1. /\ DOMAIN b.on_layer \in SUBSET Nat /\ b.changed \cup {n} \in SUBSET Nat /\ b.minted \in Nat
        /\ b.wires \in [DOMAIN b.wires -> X] /\ DOMAIN b.wires \in SUBSET Nat
        /\ b.hidden \in SUBSET Nat /\ b.forgotten \in SUBSET Nat /\ b.unread \in SUBSET Nat
    BY BoardsOf
  <2> QED BY <1>1, <1>3, <2>1, MakesBoard
<1>5. /\ c.on_layer = f /\ c.wires = b.wires /\ c.minted = b.minted /\ c.hidden = b.hidden
      /\ c.changed = b.changed \cup {n} /\ c.forgotten = b.forgotten /\ c.unread = b.unread
  BY <1>3
<1>6. \A m : Rests(c, m) => Rests(b, m) /\ c.on_layer[m] = b.on_layer[m]
  BY <1>1, <1>5 DEF Rests
<1>7. Apart(c)
  BY <1>1, <1>5 DEF Fits, Apart
<1>8. NodesShown(c)
  BY <1>5, <1>6 DEF Fits, NodesShown
<1>9. EdgesShown(c)
  BY <1>5, <1>6 DEF Fits, EdgesShown
<1>10. IndexFits(c)
  BY <1>1, <1>5, <1>6 DEF Fits, IndexFits
<1> QED BY <1>4, <1>7, <1>8, <1>9, <1>10 DEF Fits, c

LEMMA InboundKeeps ==
    ASSUME LayersInv, inbound
    PROVE  LayersInv'
<1>1. UNCHANGED <<manager, orders, queue>>
  BY DEF inbound
<1>2. MapsAgree' /\ OrdersFit'
  BY <1>1, MapsSame, OrdersSame DEF LayersInv, manager
<1>3. PICK X : Board \in Boards(X)
  BY DEF LayersInv
<1> DEFINE Y == X \cup {<<>>} \cup Layer \cup {Unassigned}
<1>4. <<>> \in Y /\ X \subseteq Y /\ Layer \cup {Unassigned} \subseteq Y
  OBVIOUS
<1> HIDE DEF Y
<1>5. Board \in Boards(Y) /\ Fits(Board)
  BY <1>3, <1>4, BoardsMore DEF LayersInv
<1>6. CASE UNCHANGED <<board, acts>>
  <2>1. UNCHANGED <<board, layer_by_entity, visible, due>>
    BY <1>1, <1>6 DEF manager
  <2> QED BY <1>2, <2>1, DueFits DEF LayersInv
<1>7. ASSUME NEW n \in Parts, NEW l \in Layer \cup {Unassigned},
             Settles([Board EXCEPT !.on_layer[n] = l, !.changed = @ \cup {n}])
      PROVE  LayersInv'
  <2> DEFINE b == Board
             c == [b EXCEPT !.on_layer[n] = l, !.changed = @ \cup {n}]
  <2>1. n \in DOMAIN b.on_layer
    BY BoardFields DEF Parts
  <2>2. b \in Boards(Y) /\ Fits(b) /\ l \in Y /\ Settles(c)
    BY <1>4, <1>5, <1>7
  <2> HIDE DEF b
  <2>3. c \in Boards(Y) /\ Fits(c)
    BY <2>1, <2>2, AssignFits
  <2> HIDE DEF c
  <2> QED BY <1>1, <1>2, <2>2, <2>3, SettlesFits DEF LayersInv
<1>8. ASSUME NEW es, Settles(Gone(Board, es)) PROVE LayersInv'
  <2>1. Gone(Board, es) \in Boards(Y) /\ Fits(Gone(Board, es))
    BY <1>4, <1>5, GoneFits
  <2> QED BY <1>1, <1>2, <1>8, <2>1, SettlesFits DEF LayersInv
<1> QED BY <1>6, <1>7, <1>8 DEF inbound

LEMMA IndexKeeps ==
    ASSUME LayersInv, index_node_layers
    PROVE  LayersInv'
<1>1. /\ UNCHANGED <<visible, on_layer, wires, minted, hidden, forgotten, unread, orders, queue>>
      /\ changed' = {} /\ Indexed
      /\ IF Assigned = {} THEN UNCHANGED due ELSE due' = {"nodes", "edges"}
  BY DEF index_node_layers, Touched
<1>2. PICK X : Board \in Boards(X)
  BY DEF LayersInv
<1>3. Board' \in Boards(X)
  <2> DEFINE b == Board
  <2>1. /\ b.on_layer \in [DOMAIN b.on_layer -> X] /\ DOMAIN b.on_layer \in SUBSET Nat
        /\ b.wires \in [DOMAIN b.wires -> X] /\ DOMAIN b.wires \in SUBSET Nat
        /\ b.minted \in Nat /\ b.hidden \in SUBSET Nat
        /\ b.forgotten \in SUBSET Nat /\ b.unread \in SUBSET Nat
    BY <1>2, BoardsOf
  <2>2. Board' = [on_layer |-> b.on_layer, wires |-> b.wires, minted |-> b.minted,
                  hidden |-> b.hidden, changed |-> {}, forgotten |-> b.forgotten,
                  unread |-> b.unread]
    BY <1>1 DEF Board
  <2>3. {} \in SUBSET Nat
    OBVIOUS
  <2> HIDE DEF b
  <2> QED BY <2>1, <2>2, <2>3, MakesBoard
<1>f. /\ Apart(Board) /\ NodesShown(Board) /\ EdgesShown(Board) /\ IndexFits(Board)
      /\ DOMAIN on_layer \subseteq Nat
  BY <1>2, BoardsOf, BoardFields DEF LayersInv, Fits
<1>4. Assigned \subseteq DOMAIN on_layer
  BY <1>f, BoardFields DEF Apart, Assigned
<1>5. /\ DOMAIN layer_by_entity' = DOMAIN layer_by_entity \cup Assigned
      /\ \A n \in DOMAIN layer_by_entity' :
            layer_by_entity'[n] = IF n \in Assigned THEN on_layer[n] ELSE layer_by_entity[n]
      /\ IsMap(layer_by_entity')
  BY <1>1 DEF Indexed, IsMap
<1>6. /\ DOMAIN entities_by_layer' = Layer /\ IsMap(entities_by_layer')
      /\ \A l \in Layer : entities_by_layer'[l] =
            (entities_by_layer[l] \ Assigned) \cup {n \in Assigned : on_layer[n] = l}
  BY <1>1 DEF Indexed, IsMap
<1>7. MapsAgree'
  <2>1. ASSUME NEW l \in Layer
        PROVE  entities_by_layer'[l] = {n \in DOMAIN layer_by_entity' : layer_by_entity'[n] = l}
    <3>1. entities_by_layer[l] = {n \in DOMAIN layer_by_entity : layer_by_entity[n] = l}
      BY DEF LayersInv, MapsAgree
    <3> QED BY <3>1, <1>5, <1>6
  <2>2. IsMap(layer_by_entity)' /\ IsMap(entities_by_layer)'
    BY <1>5, <1>6 DEF IsMap
  <2> QED BY <2>1, <2>2, <1>6 DEF MapsAgree
<1>8. Apart(Board)'
  BY <1>1, <1>f, BoardFields DEF Apart
<1>9. \A n : Rests(Board', n) => Rests(Board, n) \/ n \in Assigned
  BY <1>1, <1>f, BoardFields DEF Rests, Assigned
<1>10. NodesShown(Board)' /\ EdgesShown(Board)'
  <2>1. CASE Assigned = {}
    <3>1. \A n : Rests(Board', n) => Rests(Board, n)
      BY <1>9, <2>1
    <3>2. due' = due
      BY <1>1, <2>1
    <3>3. NodesShown(Board)'
      BY <1>1, <1>f, <3>1, <3>2, BoardFields DEF NodesShown, Rests
    <3>4. EdgesShown(Board)'
      BY <1>1, <1>f, <3>1, <3>2, BoardFields DEF EdgesShown, Rests
    <3> QED BY <3>3, <3>4
  <2>2. CASE Assigned # {}
    BY <1>1, <2>2 DEF NodesShown, EdgesShown
  <2> QED BY <2>1, <2>2
<1>11. IndexFits(Board)'
  <2>1. DOMAIN layer_by_entity' \subseteq DOMAIN on_layer' \cup forgotten'
    BY <1>1, <1>f, <1>4, <1>5, BoardFields DEF IndexFits
  <2>2. ASSUME NEW n \in Nat, Rests(Board', n)
        PROVE  n \in DOMAIN layer_by_entity' /\ layer_by_entity'[n] = on_layer'[n]
    <3>1. Rests(Board, n) => n \in DOMAIN layer_by_entity /\ layer_by_entity[n] = on_layer[n]
      BY <1>f, BoardFields DEF IndexFits
    <3>2. Rests(Board, n) \/ n \in Assigned
      BY <1>9, <2>2
    <3> QED BY <1>1, <1>5, <3>1, <3>2
  <2> QED BY <2>1, <2>2, BoardFields DEF IndexFits, Rests
<1>12. OrdersFit'
  BY <1>1, OrdersSame DEF LayersInv
<1> QED BY <1>3, <1>7, <1>8, <1>10, <1>11, <1>12 DEF LayersInv, Fits

\* A node that is alive is not forgotten.
LEMMA ForgetKeeps ==
    ASSUME LayersInv, forget_removed_nodes
    PROVE  LayersInv'
<1>1. /\ UNCHANGED <<visible, on_layer, wires, minted, hidden, changed, unread, orders, queue>>
      /\ layer_by_entity' = [n \in DOMAIN layer_by_entity \ forgotten |-> layer_by_entity[n]]
      /\ entities_by_layer' = [l \in Layer |-> entities_by_layer[l] \ forgotten]
      /\ forgotten' = {} /\ (due' = due \/ due' = {"nodes", "edges"})
  BY DEF forget_removed_nodes, Touched
<1>2. PICK X : Board \in Boards(X)
  BY DEF LayersInv
<1>3. Board' \in Boards(X)
  <2> DEFINE b == Board
  <2>1. /\ b.on_layer \in [DOMAIN b.on_layer -> X] /\ DOMAIN b.on_layer \in SUBSET Nat
        /\ b.wires \in [DOMAIN b.wires -> X] /\ DOMAIN b.wires \in SUBSET Nat
        /\ b.minted \in Nat /\ b.hidden \in SUBSET Nat
        /\ b.changed \in SUBSET Nat /\ b.unread \in SUBSET Nat
    BY <1>2, BoardsOf
  <2>2. Board' = [on_layer |-> b.on_layer, wires |-> b.wires, minted |-> b.minted,
                  hidden |-> b.hidden, changed |-> b.changed, forgotten |-> {},
                  unread |-> b.unread]
    BY <1>1 DEF Board
  <2>3. {} \in SUBSET Nat
    OBVIOUS
  <2> HIDE DEF b
  <2> QED BY <2>1, <2>2, <2>3, MakesBoard
<1>f. Apart(Board) /\ NodesShown(Board) /\ EdgesShown(Board) /\ IndexFits(Board)
  BY DEF LayersInv, Fits
<1>4. MapsAgree'
  <2>1. ASSUME NEW l \in Layer
        PROVE  entities_by_layer'[l] = {n \in DOMAIN layer_by_entity' : layer_by_entity'[n] = l}
    <3>1. entities_by_layer[l] = {n \in DOMAIN layer_by_entity : layer_by_entity[n] = l}
      BY DEF LayersInv, MapsAgree
    <3> QED BY <3>1, <1>1
  <2>2. /\ IsMap(layer_by_entity)' /\ IsMap(entities_by_layer)' /\ DOMAIN entities_by_layer' = Layer
    BY <1>1 DEF IsMap
  <2> QED BY <2>1, <2>2 DEF MapsAgree
<1>5. Apart(Board)'
  BY <1>1, <1>f, BoardFields DEF Apart
<1>6. \A n : Rests(Board', n) <=> Rests(Board, n)
  BY <1>1, BoardFields DEF Rests
<1>7. NodesShown(Board)' /\ EdgesShown(Board)'
  <2>1. CASE due' = due
    <3>1. NodesShown(Board)'
      BY <1>1, <1>f, <1>6, <2>1, BoardFields DEF NodesShown, Rests
    <3>2. EdgesShown(Board)'
      BY <1>1, <1>f, <1>6, <2>1, BoardFields DEF EdgesShown, Rests
    <3> QED BY <3>1, <3>2
  <2>2. CASE due' = {"nodes", "edges"}
    BY <2>2 DEF NodesShown, EdgesShown
  <2> QED BY <1>1, <2>1, <2>2
<1>8. IndexFits(Board)'
  <2>1. DOMAIN layer_by_entity' \subseteq DOMAIN on_layer'
    BY <1>1, <1>f, BoardFields DEF IndexFits
  <2>2. ASSUME NEW n \in Nat, Rests(Board', n)
        PROVE  n \in DOMAIN layer_by_entity' /\ layer_by_entity'[n] = on_layer'[n]
    <3>1. n \in DOMAIN layer_by_entity /\ layer_by_entity[n] = on_layer[n]
      BY <1>f, <1>6, <2>2, BoardFields DEF IndexFits
    <3>2. n \notin forgotten
      BY <1>f, <1>6, <2>2, BoardFields DEF Apart, Rests
    <3> QED BY <1>1, <3>1, <3>2
  <2> QED BY <2>1, <2>2, BoardFields DEF IndexFits, Rests
<1>9. OrdersFit'
  BY <1>1, OrdersSame DEF LayersInv
<1> QED BY <1>3, <1>4, <1>5, <1>7, <1>8, <1>9 DEF LayersInv, Fits

LEMMA HotkeysKeep ==
    ASSUME LayersInv, layer_hotkeys
    PROVE  LayersInv'
<1>1. /\ UNCHANGED <<board, layer_by_entity, entities_by_layer, orders, queue>>
      /\ UNCHANGED <<visible, due>> \/ due' = {"nodes", "edges"}
  BY DEF layer_hotkeys, Touched
<1> QED BY <1>1, DueFits, MapsSame, OrdersSame DEF LayersInv

\* What a visibility system leaves of the board.
LEMMA HiddenBoard ==
    ASSUME LayersInv, UNCHANGED <<on_layer, wires, minted, changed, forgotten>>,
           hidden' \subseteq hidden \cup DOMAIN on_layer \cup DOMAIN wires, unread' \subseteq unread
    PROVE  (\E X : Board' \in Boards(X)) /\ DOMAIN on_layer \subseteq Nat
<1>1. PICK X : Board \in Boards(X)
  BY DEF LayersInv
<1> DEFINE b == Board
<1>2. /\ b.on_layer \in [DOMAIN b.on_layer -> X] /\ DOMAIN b.on_layer \in SUBSET Nat
      /\ b.wires \in [DOMAIN b.wires -> X] /\ DOMAIN b.wires \in SUBSET Nat
      /\ b.minted \in Nat /\ b.changed \in SUBSET Nat
      /\ b.forgotten \in SUBSET Nat
  BY <1>1, BoardsOf
<1>3. Board' = [on_layer |-> b.on_layer, wires |-> b.wires, minted |-> b.minted,
                hidden |-> hidden', changed |-> b.changed, forgotten |-> b.forgotten,
                unread |-> unread']
  BY DEF Board
<1>4. hidden' \in SUBSET Nat /\ unread' \in SUBSET Nat
  BY <1>1, <1>2, BoardsOf, BoardFields
<1>5. DOMAIN on_layer \subseteq Nat
  BY <1>2, BoardFields
<1> HIDE DEF b
<1> QED BY <1>2, <1>3, <1>4, <1>5, MakesBoard

LEMMA NodesKeep ==
    ASSUME LayersInv, apply_node_visibility
    PROVE  LayersInv'
<1> DEFINE known == {n \in Parts : on_layer[n] # Unassigned}
<1>1. /\ UNCHANGED <<visible, layer_by_entity, entities_by_layer, on_layer, wires, minted,
                     changed, forgotten, unread, orders, queue>>
      /\ due' = due \ {"nodes"}
      /\ hidden' = IF "nodes" \in due
                   THEN (hidden \ known) \cup {n \in known : ~visible[on_layer[n]]}
                   ELSE hidden
  BY DEF apply_node_visibility
<1>2. (\E X : Board' \in Boards(X)) /\ DOMAIN on_layer \subseteq Nat
  <2>1. hidden' \subseteq hidden \cup DOMAIN on_layer \cup DOMAIN wires
    BY <1>1 DEF Parts
  <2> QED BY <1>1, <2>1, HiddenBoard
<1>f. Apart(Board) /\ NodesShown(Board) /\ EdgesShown(Board) /\ IndexFits(Board)
  BY DEF LayersInv, Fits
<1>3. \A n : Rests(Board', n) <=> Rests(Board, n)
  BY <1>1, BoardFields DEF Rests
<1>4. Apart(Board)'
  BY <1>1, <1>f, BoardFields DEF Apart
<1>5. NodesShown(Board)'
  <2>1. ASSUME NEW n \in Nat, Rests(Board, n) PROVE n \in hidden' <=> ~visible[on_layer[n]]
    <3>1. n \in known
      BY <2>1, BoardFields DEF Rests, Parts
    <3>2. CASE "nodes" \in due
      BY <1>1, <3>1, <3>2
    <3>3. CASE "nodes" \notin due
      BY <1>1, <1>f, <2>1, <3>3, BoardFields DEF NodesShown
    <3> QED BY <3>2, <3>3
  <2> QED BY <1>1, <1>3, <2>1, BoardFields DEF NodesShown, Rests
<1>6. EdgesShown(Board)'
  <2>1. \A w \in DOMAIN wires : w \in hidden' <=> w \in hidden
    BY <1>1, <1>f, BoardFields DEF Apart, Parts
  <2> QED BY <1>1, <1>f, <1>3, <2>1, BoardFields DEF EdgesShown, Rests
<1>7. IndexFits(Board)'
  BY <1>1, <1>f, <1>3, BoardFields DEF IndexFits, Rests
<1>8. MapsAgree' /\ OrdersFit'
  BY <1>1, MapsSame, OrdersSame DEF LayersInv
<1> QED BY <1>2, <1>4, <1>5, <1>6, <1>7, <1>8 DEF LayersInv, Fits

\* What the index has of an end that rests is its layer.
LEMMA EdgesKeep ==
    ASSUME LayersInv, apply_edge_visibility
    PROVE  LayersInv'
<1> DEFINE whole == {w \in DOMAIN wires : wires[w] # <<>>}
<1>1. /\ UNCHANGED <<visible, layer_by_entity, entities_by_layer, on_layer, wires, minted,
                     changed, forgotten, orders, queue>>
      /\ due' = due \ {"edges"}
      /\ IF "edges" \in due
         THEN /\ hidden' = (hidden \ whole) \cup {w \in whole : \E n \in Range(wires[w]) : ~Shown(n)}
              /\ unread' = unread \ whole
         ELSE UNCHANGED <<hidden, unread>>
  BY DEF apply_edge_visibility
<1>2. (\E X : Board' \in Boards(X)) /\ DOMAIN on_layer \subseteq Nat
  <2>1. hidden' \subseteq hidden \cup DOMAIN on_layer \cup DOMAIN wires /\ unread' \subseteq unread
    BY <1>1
  <2> QED BY <1>1, <2>1, HiddenBoard
<1>f. Apart(Board) /\ NodesShown(Board) /\ EdgesShown(Board) /\ IndexFits(Board)
  BY DEF LayersInv, Fits
<1>3. \A n : Rests(Board', n) <=> Rests(Board, n)
  BY <1>1, BoardFields DEF Rests
<1>4. Apart(Board)'
  BY <1>1, <1>f, BoardFields DEF Apart
<1>5. NodesShown(Board)'
  <2>1. \A n \in DOMAIN on_layer : n \in hidden' <=> n \in hidden
    BY <1>1, <1>f, BoardFields DEF Apart
  <2> QED BY <1>1, <1>f, <1>3, <2>1, BoardFields DEF NodesShown, Rests
<1>6. EdgesShown(Board)'
  <2>1. ASSUME NEW w \in DOMAIN wires \ unread', wires[w] # <<>>,
               \A n \in Range(wires[w]) : Rests(Board, n)
        PROVE  w \in hidden' <=> \E n \in Range(wires[w]) : ~visible[on_layer[n]]
    <3>1. CASE "edges" \in due
      <4>1. w \in whole
        BY <2>1
      <4>2. w \in hidden' <=> \E n \in Range(wires[w]) : ~Shown(n)
        BY <1>1, <3>1, <4>1
      <4>3. \A n \in Range(wires[w]) :
               n \in DOMAIN layer_by_entity /\ layer_by_entity[n] = on_layer[n]
        BY <1>2, <1>f, <2>1, BoardFields DEF IndexFits, Rests
      <4> QED BY <4>2, <4>3 DEF Shown
    <3>2. CASE "edges" \notin due
      BY <1>1, <1>f, <2>1, <3>2, BoardFields DEF EdgesShown
    <3> QED BY <3>1, <3>2
  <2> QED BY <1>1, <1>3, <2>1, BoardFields DEF EdgesShown, Rests
<1>7. IndexFits(Board)'
  BY <1>1, <1>f, <1>3, BoardFields DEF IndexFits, Rests
<1>8. MapsAgree' /\ OrdersFit'
  BY <1>1, MapsSame, OrdersSame DEF LayersInv
<1> QED BY <1>2, <1>4, <1>5, <1>6, <1>7, <1>8 DEF LayersInv, Fits

\* A finite set of naturals has a bound.
LEMMA FiniteBounded ==
    ASSUME NEW S \in SUBSET Nat, IsFiniteSet(S)
    PROVE  \E m \in Nat : \A x \in S : x <= m
<1> DEFINE P == {T \in SUBSET S : \E m \in Nat : \A x \in T : x <= m}
<1>1. ASSUME NEW T \in SUBSET S, \A x \in T : T \ {x} \in P PROVE T \in P
  <2>1. CASE T = {}
    BY <2>1
  <2>2. CASE T # {}
    <3>1. PICK y \in T : TRUE
      BY <2>2
    <3>2. PICK m \in Nat : \A x \in T \ {y} : x <= m
      BY <1>1, <3>1
    <3>3. y \in Nat /\ m + y \in Nat /\ \A x \in T : x <= m + y
      <4>1. y \in Nat
        BY <3>1
      <4>2. ASSUME NEW x \in T PROVE x <= m + y
        <5>1. x \in Nat /\ (x = y \/ x <= m)
          BY <3>2
        <5> QED BY <4>1, <5>1
      <4> QED BY <4>1, <4>2
    <3> QED BY <3>3
  <2> QED BY <2>1, <2>2
<1> HIDE DEF P
<1>2. S \in P
  BY <1>1, SubsetInduction
<1> QED BY <1>2 DEF P

LEMMA LayersInitially ==
    ASSUME LayersInit
    PROVE  LayersInv
<1> DEFINE N == DOMAIN Part
           W == DOMAIN Wire
           X == {on_layer[n] : n \in N} \cup {wires[w] : w \in W}
<1>1. N \in SUBSET Nat /\ W \in SUBSET Nat /\ N \cap W = {}
  BY LayersAssumption
<1>2. /\ on_layer = Part /\ wires = Wire /\ layer_by_entity = Part
      /\ minted = Max(N \cup W \cup {0})
      /\ entities_by_layer = [l \in Layer |-> {n \in N : Part[n] = l}]
      /\ hidden = {n \in N : ~visible[Part[n]]} \cup {w \in W : \E n \in Range(Wire[w]) : ~visible[Part[n]]}
      /\ changed = {} /\ forgotten = {} /\ due = {} /\ unread = {} /\ orders = <<>> /\ queue = <<>>
  BY DEF LayersInit
<1>3. minted \in Nat /\ \A e \in N \cup W : e <= minted
  <2> DEFINE S == N \cup W \cup {0}
  <2>1. S \in SUBSET Nat /\ S # {} /\ IsFiniteSet(S)
    <3>1. IsFiniteSet(N \cup W)
      BY LayersAssumption, FS_Union
    <3>2. IsFiniteSet({0})
      BY FS_Singleton
    <3>3. IsFiniteSet(S)
      BY <3>1, <3>2, FS_Union
    <3> QED BY <1>1, <3>3
  <2>2. N \cup W \subseteq S
    OBVIOUS
  <2> HIDE DEF S
  <2>3. PICK m \in Nat : \A x \in S : x <= m
    BY <2>1, FiniteBounded
  <2>4. Max(S) \in S /\ \A x \in S : x <= Max(S)
    BY <2>1, <2>3, MaxOfBounded
  <2> QED BY <1>2, <2>1, <2>2, <2>4 DEF S
<1>m. IsMap(Part) /\ IsMap(Wire)
  BY LayersAssumption DEF IsMap
<1>4. Board \in Boards(X)
  <2>1. on_layer \in [N -> X]
    BY <1>2, <1>m DEF IsMap
  <2>2. wires \in [W -> X]
    BY <1>2, <1>m DEF IsMap
  <2>3. hidden \in SUBSET Nat /\ changed \in SUBSET Nat /\ forgotten \in SUBSET Nat /\ unread \in SUBSET Nat
    BY <1>1, <1>2
  <2> HIDE DEF N, W, X
  <2> QED BY <1>1, <1>3, <2>1, <2>2, <2>3, MakesBoard DEF Board
<1>5. Apart(Board)
  BY <1>1, <1>2, <1>3, BoardFields DEF Apart
<1>6. \A n : Rests(Board, n) => n \in N
  BY <1>2, BoardFields DEF Rests
<1>7. NodesShown(Board)
  BY <1>1, <1>2, <1>6, BoardFields DEF NodesShown
<1>8. EdgesShown(Board)
  BY <1>1, <1>2, BoardFields DEF EdgesShown
<1>9. IndexFits(Board)
  BY <1>2, <1>6, BoardFields DEF IndexFits
<1>10. MapsAgree
  BY <1>2, <1>m DEF MapsAgree, IsMap
<1>11. OrdersFit
  BY <1>2 DEF OrdersFit, Listed
<1> QED BY <1>4, <1>5, <1>7, <1>8, <1>9, <1>10, <1>11 DEF LayersInv, Fits

LEMMA LayersStutter ==
    ASSUME LayersInv, UNCHANGED layerVars
    PROVE  LayersInv'
<1>1. UNCHANGED <<board, layer_by_entity, entities_by_layer, visible, due, orders, queue>>
  BY DEF layerVars, manager
<1> QED BY <1>1, DueFits, MapsSame, OrdersSame DEF LayersInv

LEMMA LayersSteps ==
    ASSUME LayersInv, [EditorsNext]_<<running, vars, layerVars, gridVars>>
    PROVE  LayersInv'
<1>1. CASE UNCHANGED layerVars
  BY <1>1, LayersStutter
<1>2. CASE LayersNext
  BY <1>2, OrderKeeps, LayerFrameKeeps, DispatchKeeps, ApplyKeeps, InboundKeeps, IndexKeeps,
     ForgetKeeps, HotkeysKeep, NodesKeep, EdgesKeep DEF LayersNext
<1> QED BY <1>1, <1>2 DEF EditorsNext, Desktop, Layers, Grid

-----------------------------------------------------------------------------
(* Layers: the theorems. *)

\* Whatever commands, keys and other clients do, and in whatever order the
\* systems run, the index, the queue and what is hidden fit the board
\* (layer_manager.rs).
THEOREM LayersInvHolds == EditorsSpec => []LayersInv
<1>1. EditorsInit => LayersInv
  BY LayersInitially DEF EditorsInit
<1>2. LayersInv /\ [EditorsNext]_<<running, vars, layerVars, gridVars>> => LayersInv'
  BY LayersSteps
<1> QED BY <1>1, <1>2, PTL DEF EditorsSpec

\* What the systems have seen is shown or hidden as its layer is, the edges
\* with their ends; and the two maps of the index agree
\* (layer_manager.rs:8-19, :234-237).
THEOREM LayersDoShow == EditorsSpec => []LayersAreShown
<1>1. LayersInv => LayersAreShown
  <2> SUFFICES ASSUME LayersInv PROVE LayersAreShown
    OBVIOUS
  <2>0. DOMAIN on_layer \subseteq Nat
    <3>1. PICK X : Board \in Boards(X)
      BY DEF LayersInv
    <3> QED BY <3>1, BoardsOf, BoardFields
  <2>1. \A n \in Parts : Resting(n) <=> Rests(Board, n)
    BY BoardFields DEF Resting, Rests, Parts
  <2>2. \A n : Rests(Board, n) => n \in Parts
    BY BoardFields DEF Rests, Parts
  <2>r. \A n : Resting(n) => Rests(Board, n)
    BY BoardFields DEF Resting, Rests, Parts
  <2>f. NodesShown(Board) /\ EdgesShown(Board) /\ IndexFits(Board)
    BY DEF LayersInv, Fits
  <2>3. "nodes" \notin due =>
          \A n \in Parts : Resting(n) => (n \in hidden <=> ~visible[on_layer[n]])
    BY <2>0, <2>1, <2>f, BoardFields DEF NodesShown, Parts
  <2>4. "edges" \notin due =>
          \A w \in DOMAIN wires \ unread :
             wires[w] # <<>> /\ (\A n \in Range(wires[w]) : Resting(n)) =>
                (w \in hidden <=> \E n \in Range(wires[w]) : ~visible[on_layer[n]])
    BY <2>r, <2>f, BoardFields DEF EdgesShown
  <2>5. DOMAIN layer_by_entity \subseteq Parts \cup forgotten
    BY <2>f, BoardFields DEF IndexFits, Parts
  <2> QED BY <2>3, <2>4, <2>5 DEF LayersAreShown, LayersInv, MapsAgree
<1> QED BY <1>1, LayersInvHolds, PTL

-----------------------------------------------------------------------------
(* Commands: what the streams and the queue are made of. *)

\* Commands that do not mark what is selected, and all of them.
PlainOp == {"despawn", "spawn node", "spawn edge"}
Op == PlainOp \cup {"insert", "remove"}

Queues(s, ops) == Listed(s) /\ \A i \in 1..Len(s) : s[i].op \in ops

SelectsFit(s) == Listed(s) /\ \A i \in 1..Len(s) : s[i].cmd \in SelectKind

Worded == Listed(app) /\ SelectsFit(select) /\ Queues(buffer, Op)

LEMMA QueueOf ==
    ASSUME NEW op, NEW e, NEW ops, op \in ops
    PROVE  Queues(Queue(op, e), ops) /\ Len(Queue(op, e)) = 1 /\ Queue(op, e)[1] = [op |-> op, entity |-> e]
<1> DEFINE c == [op |-> op, entity |-> e]
<1>1. c.op = op /\ Queue(op, e) = <<c>>
  BY DEF Queue
<1>2. c = [op |-> op, entity |-> e]
  OBVIOUS
<1> HIDE DEF c
<1>3. Len(<<c>>) = 1 /\ <<c>>[1] = c /\ Listed(<<c>>)
  BY DEF Listed
<1> QED BY <1>1, <1>2, <1>3 DEF Queues

LEMMA QueuesNone ==
    ASSUME NEW ops
    PROVE  Queues(<<>>, ops) /\ Len(<<>>) = 0
  BY DEF Queues, Listed

LEMMA QueuesMore ==
    ASSUME NEW ops, NEW s, NEW t, Queues(s, ops), Queues(t, ops)
    PROVE  Queues(s \o t, ops)
<1>1. /\ Listed(s \o t) /\ Len(s \o t) = Len(s) + Len(t)
      /\ \A n \in 1..Len(s) : (s \o t)[n] = s[n]
      /\ \A n \in 1..Len(t) : (s \o t)[Len(s) + n] = t[n]
  BY ConcatOf DEF Queues
<1>2. Len(s) \in Nat /\ Len(t) \in Nat
  BY DEF Queues, Listed
<1>3. ASSUME NEW i \in 1..Len(s \o t) PROVE (s \o t)[i].op \in ops
  <2>1. CASE i \in 1..Len(s)
    BY <1>1, <2>1 DEF Queues
  <2>2. CASE i \notin 1..Len(s)
    <3> DEFINE j == i - Len(s)
    <3>1. j \in 1..Len(t) /\ i = Len(s) + j
      BY <1>1, <1>2, <2>2
    <3> HIDE DEF j
    <3>2. (s \o t)[i] = t[j]
      BY <1>1, <3>1
    <3> QED BY <3>1, <3>2 DEF Queues
  <2> QED BY <2>1, <2>2
<1> QED BY <1>1, <1>3 DEF Queues

LEMMA QueuesWider ==
    ASSUME NEW ops, NEW more, ops \subseteq more, NEW s, Queues(s, ops)
    PROVE  Queues(s, more)
  BY DEF Queues

LEMMA GraphCommandsFit ==
    ASSUME NEW cmd
    PROVE  Queues(GraphCommands(cmd), PlainOp)
<1>1. "despawn" \in PlainOp /\ "spawn edge" \in PlainOp
  BY DEF PlainOp
<1>2. GraphCommands(cmd) = <<>> \/ (\E e : GraphCommands(cmd) = Queue("despawn", e))
                                \/ (\E e : GraphCommands(cmd) = Queue("spawn edge", e))
  BY DEF GraphCommands
<1> QED BY <1>1, <1>2, QueueOf, QueuesNone

LEMMA SelectCommandsFit ==
    ASSUME NEW cmd, cmd.cmd \in SelectKind
    PROVE  /\ Queues(SelectCommands(cmd), Op)
           /\ cmd.cmd = "DeleteTargets" => Queues(SelectCommands(cmd), PlainOp)
<1>1. /\ "despawn" \in PlainOp /\ "despawn" \in Op /\ "insert" \in Op /\ "remove" \in Op
  BY DEF PlainOp, Op
<1>2. CASE cmd.cmd = "Select"
  <2>1. SelectCommands(cmd) = Queue("remove", selected) \o Queue("insert", {cmd.target})
    BY <1>2 DEF SelectCommands
  <2>2. Queues(Queue("remove", selected), Op) /\ Queues(Queue("insert", {cmd.target}), Op)
    BY <1>1, QueueOf
  <2> QED BY <1>2, <2>1, <2>2, QueuesMore
<1>3. CASE cmd.cmd = "Toggle" /\ cmd.target \in selected
  <2>1. SelectCommands(cmd) = Queue("remove", {cmd.target})
    BY <1>3 DEF SelectCommands
  <2>2. Queues(Queue("remove", {cmd.target}), Op)
    BY <1>1, QueueOf
  <2> QED BY <1>3, <2>1, <2>2
<1>4. CASE cmd.cmd = "Toggle" /\ cmd.target \notin selected
  <2>1. SelectCommands(cmd) = Queue("insert", {cmd.target})
    BY <1>4 DEF SelectCommands
  <2>2. Queues(Queue("insert", {cmd.target}), Op)
    BY <1>1, QueueOf
  <2> QED BY <1>4, <2>1, <2>2
<1>5. CASE cmd.cmd = "ClearSelection"
  <2>1. SelectCommands(cmd) = Queue("remove", selected)
    BY <1>5 DEF SelectCommands
  <2> QED BY <1>1, <1>5, <2>1, QueueOf
<1>6. CASE cmd.cmd = "DeleteTargets"
  <2>1. SelectCommands(cmd) = Queue("despawn", cmd.target \cap index)
    BY <1>6 DEF SelectCommands
  <2>2. Queues(Queue("despawn", cmd.target \cap index), Op)
    BY <1>1, QueueOf
  <2>3. Queues(Queue("despawn", cmd.target \cap index), PlainOp)
    BY <1>1, QueueOf
  <2> QED BY <2>1, <2>2, <2>3
<1> QED BY <1>2, <1>3, <1>4, <1>5, <1>6 DEF SelectKind

LEMMA HandledStays ==
  ASSUME NEW D, NEW b \in D, NEW s, Listed(s),
         \A d \in D, i \in 1..Len(s) : Handled(d, s[i]) \in D
  PROVE  FoldLeft(Handled, b, s) \in D
<1> DEFINE n == Len(s)
           Folds(f) == f = [S \in SUBSET (1..n) |->
                              IF S = {} THEN b ELSE Handled(f[S \ {Max(S)}], s[Max(S)])]
           iter == CHOOSE f : Folds(f)
           step == [x \in D \X (1..n) |-> Handled(x[1], s[x[2]])]
<1>1. n \in Nat /\ DOMAIN s = 1..n
  BY DEF Listed
<1>2. FoldLeft(Handled, b, s) = iter[1..n]
  BY <1>1 DEF FoldLeft, MapThenFoldSet, Max
<1>3. step \in [D \X (1..n) -> D]
  BY <1>1
<1> HIDE DEF n
<1>4. PICK f \in [SUBSET (1..n) -> D] : Iterated(f, step, b, n)
  BY <1>1, <1>3, Iterates
<1>5. ASSUME NEW S \in SUBSET (1..n), S # {}
      PROVE  step[<<f[S \ {Max(S)}], Max(S)>>] = Handled(f[S \ {Max(S)}], s[Max(S)])
  <2>1. S \in SUBSET Nat /\ \A x \in S : x <= n
    BY <1>1
  <2>2. Max(S) \in S
    BY <1>1, <1>5, <2>1, MaxOfBounded
  <2>3. <<f[S \ {Max(S)}], Max(S)>> \in D \X (1..n)
    BY <2>2
  <2> QED BY <2>3
<1> HIDE DEF step
<1>6. Folds(f)
  BY <1>4, <1>5 DEF Iterated
<1>7. Folds(iter)
  <2> HIDE DEF Folds
  <2> QED BY <1>6
<1> HIDE DEF iter
<1>8. iter[1..0] = b
  <2>1. 1..0 = {} /\ {} \in SUBSET (1..n)
    OBVIOUS
  <2> QED BY <1>7, <2>1
<1>9. ASSUME NEW k \in 1..n PROVE iter[1..k] = Handled(iter[1..(k-1)], s[k])
  <2>1. 1..k # {} /\ 1..k \in SUBSET (1..n) /\ Max(1..k) = k /\ (1..k) \ {k} = 1..(k-1)
    BY <1>1, Prefix
  <2> QED BY <1>7, <2>1
<1> HIDE DEF Folds
<1>10. \A k \in 0..n : iter[1..k] \in D
  <2> DEFINE T == {k \in 0..n : iter[1..k] \in D}
  <2>1. 0 \in T
    BY <1>1, <1>8
  <2>2. ASSUME NEW k \in 0..n-1, k \in T PROVE k + 1 \in T
    <3>1. k + 1 \in 1..n /\ (k + 1) - 1 = k
      BY <1>1
    <3>2. iter[1..(k+1)] = Handled(iter[1..k], s[k+1])
      BY <1>1, <1>9, <3>1
    <3>3. iter[1..(k+1)] \in D
      BY <2>2, <3>1, <3>2 DEF n
    <3> QED BY <1>1, <3>1, <3>3
  <2> HIDE DEF T
  <2>3. \A k \in 0..n : k \in T
    BY <1>1, <2>1, <2>2, UpTo
  <2> QED BY <2>3 DEF T
<1>11. n \in 0..n
  BY <1>1
<1> QED BY <1>2, <1>10, <1>11

LEMMA ToSelectStays ==
  ASSUME NEW D, NEW b \in D, NEW s, Listed(s),
         \A d \in D, i \in 1..Len(s) : ToSelect(d, s[i]) \in D
  PROVE  FoldLeft(ToSelect, b, s) \in D
<1> DEFINE n == Len(s)
           Folds(f) == f = [S \in SUBSET (1..n) |->
                              IF S = {} THEN b ELSE ToSelect(f[S \ {Max(S)}], s[Max(S)])]
           iter == CHOOSE f : Folds(f)
           step == [x \in D \X (1..n) |-> ToSelect(x[1], s[x[2]])]
<1>1. n \in Nat /\ DOMAIN s = 1..n
  BY DEF Listed
<1>2. FoldLeft(ToSelect, b, s) = iter[1..n]
  BY <1>1 DEF FoldLeft, MapThenFoldSet, Max
<1>3. step \in [D \X (1..n) -> D]
  BY <1>1
<1> HIDE DEF n
<1>4. PICK f \in [SUBSET (1..n) -> D] : Iterated(f, step, b, n)
  BY <1>1, <1>3, Iterates
<1>5. ASSUME NEW S \in SUBSET (1..n), S # {}
      PROVE  step[<<f[S \ {Max(S)}], Max(S)>>] = ToSelect(f[S \ {Max(S)}], s[Max(S)])
  <2>1. S \in SUBSET Nat /\ \A x \in S : x <= n
    BY <1>1
  <2>2. Max(S) \in S
    BY <1>1, <1>5, <2>1, MaxOfBounded
  <2>3. <<f[S \ {Max(S)}], Max(S)>> \in D \X (1..n)
    BY <2>2
  <2> QED BY <2>3
<1> HIDE DEF step
<1>6. Folds(f)
  BY <1>4, <1>5 DEF Iterated
<1>7. Folds(iter)
  <2> HIDE DEF Folds
  <2> QED BY <1>6
<1> HIDE DEF iter
<1>8. iter[1..0] = b
  <2>1. 1..0 = {} /\ {} \in SUBSET (1..n)
    OBVIOUS
  <2> QED BY <1>7, <2>1
<1>9. ASSUME NEW k \in 1..n PROVE iter[1..k] = ToSelect(iter[1..(k-1)], s[k])
  <2>1. 1..k # {} /\ 1..k \in SUBSET (1..n) /\ Max(1..k) = k /\ (1..k) \ {k} = 1..(k-1)
    BY <1>1, Prefix
  <2> QED BY <1>7, <2>1
<1> HIDE DEF Folds
<1>10. \A k \in 0..n : iter[1..k] \in D
  <2> DEFINE T == {k \in 0..n : iter[1..k] \in D}
  <2>1. 0 \in T
    BY <1>1, <1>8
  <2>2. ASSUME NEW k \in 0..n-1, k \in T PROVE k + 1 \in T
    <3>1. k + 1 \in 1..n /\ (k + 1) - 1 = k
      BY <1>1
    <3>2. iter[1..(k+1)] = ToSelect(iter[1..k], s[k+1])
      BY <1>1, <1>9, <3>1
    <3>3. iter[1..(k+1)] \in D
      BY <2>2, <3>1, <3>2 DEF n
    <3> QED BY <1>1, <3>1, <3>3
  <2> HIDE DEF T
  <2>3. \A k \in 0..n : k \in T
    BY <1>1, <2>1, <2>2, UpTo
  <2> QED BY <2>3 DEF T
<1>11. n \in 0..n
  BY <1>1
<1> QED BY <1>2, <1>10, <1>11

LEMMA SelectingStays ==
  ASSUME NEW D, NEW b \in D, NEW s, Listed(s),
         \A d \in D, i \in 1..Len(s) : Selecting(d, s[i]) \in D
  PROVE  FoldLeft(Selecting, b, s) \in D
<1> DEFINE n == Len(s)
           Folds(f) == f = [S \in SUBSET (1..n) |->
                              IF S = {} THEN b ELSE Selecting(f[S \ {Max(S)}], s[Max(S)])]
           iter == CHOOSE f : Folds(f)
           step == [x \in D \X (1..n) |-> Selecting(x[1], s[x[2]])]
<1>1. n \in Nat /\ DOMAIN s = 1..n
  BY DEF Listed
<1>2. FoldLeft(Selecting, b, s) = iter[1..n]
  BY <1>1 DEF FoldLeft, MapThenFoldSet, Max
<1>3. step \in [D \X (1..n) -> D]
  BY <1>1
<1> HIDE DEF n
<1>4. PICK f \in [SUBSET (1..n) -> D] : Iterated(f, step, b, n)
  BY <1>1, <1>3, Iterates
<1>5. ASSUME NEW S \in SUBSET (1..n), S # {}
      PROVE  step[<<f[S \ {Max(S)}], Max(S)>>] = Selecting(f[S \ {Max(S)}], s[Max(S)])
  <2>1. S \in SUBSET Nat /\ \A x \in S : x <= n
    BY <1>1
  <2>2. Max(S) \in S
    BY <1>1, <1>5, <2>1, MaxOfBounded
  <2>3. <<f[S \ {Max(S)}], Max(S)>> \in D \X (1..n)
    BY <2>2
  <2> QED BY <2>3
<1> HIDE DEF step
<1>6. Folds(f)
  BY <1>4, <1>5 DEF Iterated
<1>7. Folds(iter)
  <2> HIDE DEF Folds
  <2> QED BY <1>6
<1> HIDE DEF iter
<1>8. iter[1..0] = b
  <2>1. 1..0 = {} /\ {} \in SUBSET (1..n)
    OBVIOUS
  <2> QED BY <1>7, <2>1
<1>9. ASSUME NEW k \in 1..n PROVE iter[1..k] = Selecting(iter[1..(k-1)], s[k])
  <2>1. 1..k # {} /\ 1..k \in SUBSET (1..n) /\ Max(1..k) = k /\ (1..k) \ {k} = 1..(k-1)
    BY <1>1, Prefix
  <2> QED BY <1>7, <2>1
<1> HIDE DEF Folds
<1>10. \A k \in 0..n : iter[1..k] \in D
  <2> DEFINE T == {k \in 0..n : iter[1..k] \in D}
  <2>1. 0 \in T
    BY <1>1, <1>8
  <2>2. ASSUME NEW k \in 0..n-1, k \in T PROVE k + 1 \in T
    <3>1. k + 1 \in 1..n /\ (k + 1) - 1 = k
      BY <1>1
    <3>2. iter[1..(k+1)] = Selecting(iter[1..k], s[k+1])
      BY <1>1, <1>9, <3>1
    <3>3. iter[1..(k+1)] \in D
      BY <2>2, <3>1, <3>2 DEF n
    <3> QED BY <1>1, <3>1, <3>3
  <2> HIDE DEF T
  <2>3. \A k \in 0..n : k \in T
    BY <1>1, <2>1, <2>2, UpTo
  <2> QED BY <2>3 DEF T
<1>11. n \in 0..n
  BY <1>1
<1> QED BY <1>2, <1>10, <1>11

\* Sequences are in a set of sequences of their elements.
LEMMA InSeq ==
    ASSUME NEW s, Listed(s), NEW E, \A i \in 1..Len(s) : s[i] \in E
    PROVE  s \in Seq(E)
<1> DEFINE S == {s[n] : n \in DOMAIN s}
<1>1. s \in Seq(S)
  BY ListedIsSeq
<1>2. S \subseteq E
  BY DEF Listed
<1> HIDE DEF S
<1> QED BY <1>1, <1>2, SeqOfMore

\* A set that the sequences and elements at hand are in.
Stock(S) == UNION {{s[n] : n \in 1..Len(s)} : s \in S}

LEMMA StockHas ==
    ASSUME NEW S, NEW s \in S, NEW n \in 1..Len(s)
    PROVE  s[n] \in Stock(S)
  BY DEF Stock

\* What the graph commands of the frame add to a queue.
LEMMA HandledFit ==
    ASSUME NEW ops, PlainOp \subseteq ops, Queues(buffer, ops), Listed(app)
    PROVE  Queues(FoldLeft(Handled, buffer, app), ops)
<1> DEFINE A == Stock({buffer} \cup {GraphCommands(app[i]) : i \in 1..Len(app)})
           E == {c \in A : c.op \in ops}
           D == Seq(E)
           q == FoldLeft(Handled, buffer, app)
<1>1. buffer \in D
  <2>1. \A i \in 1..Len(buffer) : buffer[i] \in A
    BY StockHas
  <2>2. \A i \in 1..Len(buffer) : buffer[i] \in E
    BY <2>1 DEF Queues
  <2> HIDE DEF E
  <2> QED BY <2>2, InSeq DEF Queues
<1>2. ASSUME NEW d \in D, NEW i \in 1..Len(app) PROVE Handled(d, app[i]) \in D
  <2> DEFINE g == GraphCommands(app[i])
  <2>1. Queues(g, ops)
    BY GraphCommandsFit, QueuesWider
  <2>2. \A n \in 1..Len(g) : g[n] \in A
    BY StockHas
  <2>3. Handled(d, app[i]) = d \o g
    BY DEF Handled
  <2> HIDE DEF g
  <2>4. \A n \in 1..Len(g) : g[n] \in E
    BY <2>1, <2>2 DEF Queues
  <2> HIDE DEF E
  <2>5. g \in Seq(E)
    BY <2>1, <2>4, InSeq DEF Queues
  <2> QED BY <2>3, <2>5
<1>3. \A e \in E : e.op \in ops
  OBVIOUS
<1> HIDE DEF E, q
<1>4. q \in D
  <2> HIDE DEF D
  <2>1. \A d \in D, i \in 1..Len(app) : Handled(d, app[i]) \in D
    BY <1>2
  <2>2. FoldLeft(Handled, buffer, app) \in D
    BY <1>1, <2>1, HandledStays
  <2> QED BY <2>2 DEF q
<1>5. Listed(q) /\ \A i \in 1..Len(q) : q[i] \in E
  BY <1>4, ListedOf
<1> QED BY <1>3, <1>5 DEF Queues, q

LEMMA ToSelectFit ==
    ASSUME SelectsFit(select), Listed(app)
    PROVE  SelectsFit(FoldLeft(ToSelect, select, app))
<1> DEFINE A == Stock({select, app})
           E == {c \in A : c.cmd \in SelectKind}
           D == Seq(E)
           q == FoldLeft(ToSelect, select, app)
<1>1. select \in D
  <2>1. \A i \in 1..Len(select) : select[i] \in A
    BY StockHas
  <2>2. \A i \in 1..Len(select) : select[i] \in E
    BY <2>1 DEF SelectsFit
  <2> HIDE DEF E
  <2> QED BY <2>2, InSeq DEF SelectsFit
<1>2. ASSUME NEW d \in D, NEW i \in 1..Len(app) PROVE ToSelect(d, app[i]) \in D
  <2>1. app[i] \in A
    BY StockHas
  <2>2. app[i].cmd \in SelectKind => app[i] \in E
    BY <2>1
  <2> HIDE DEF E
  <2> QED BY <2>2 DEF ToSelect
<1>3. \A e \in E : e.cmd \in SelectKind
  OBVIOUS
<1> HIDE DEF E, q
<1>4. q \in D
  <2> HIDE DEF D
  <2>1. \A d \in D, i \in 1..Len(app) : ToSelect(d, app[i]) \in D
    BY <1>2
  <2>2. FoldLeft(ToSelect, select, app) \in D
    BY <1>1, <2>1, ToSelectStays
  <2> QED BY <2>2 DEF q
<1>5. Listed(q) /\ \A i \in 1..Len(q) : q[i] \in E
  BY <1>4, ListedOf
<1> QED BY <1>3, <1>5 DEF SelectsFit, q

\* What the selection commands of the frame add to a queue.
LEMMA SelectingFit ==
    ASSUME Queues(buffer, Op), SelectsFit(select)
    PROVE  Queues(FoldLeft(Selecting, buffer, select), Op)
<1> DEFINE A == Stock({buffer} \cup {SelectCommands(select[i]) : i \in 1..Len(select)})
           E == {c \in A : c.op \in Op}
           D == Seq(E)
           q == FoldLeft(Selecting, buffer, select)
<1>1. buffer \in D
  <2>1. \A i \in 1..Len(buffer) : buffer[i] \in A
    BY StockHas
  <2>2. \A i \in 1..Len(buffer) : buffer[i] \in E
    BY <2>1 DEF Queues
  <2> HIDE DEF E
  <2> QED BY <2>2, InSeq DEF Queues
<1>2. ASSUME NEW d \in D, NEW i \in 1..Len(select) PROVE Selecting(d, select[i]) \in D
  <2> DEFINE g == SelectCommands(select[i])
  <2>1. Queues(g, Op)
    BY SelectCommandsFit DEF SelectsFit
  <2>2. \A n \in 1..Len(g) : g[n] \in A
    BY StockHas
  <2>3. Selecting(d, select[i]) = d \/ Selecting(d, select[i]) = d \o g
    BY DEF Selecting
  <2> HIDE DEF g
  <2>4. \A n \in 1..Len(g) : g[n] \in E
    BY <2>1, <2>2 DEF Queues
  <2> HIDE DEF E
  <2>5. g \in Seq(E)
    BY <2>1, <2>4, InSeq DEF Queues
  <2>6. d \o g \in Seq(E) /\ d \in Seq(E)
    BY <2>5
  <2> QED BY <2>3, <2>6
<1>3. \A e \in E : e.op \in Op
  OBVIOUS
<1> HIDE DEF E, q
<1>4. q \in D
  <2> HIDE DEF D
  <2>0. Listed(select)
    BY DEF SelectsFit
  <2>1. \A d \in D, i \in 1..Len(select) : Selecting(d, select[i]) \in D
    BY <1>2
  <2>2. FoldLeft(Selecting, buffer, select) \in D
    BY <1>1, <2>0, <2>1, SelectingStays
  <2> QED BY <2>2 DEF q
<1>5. Listed(q) /\ \A i \in 1..Len(q) : q[i] \in E
  BY <1>4, ListedOf
<1> QED BY <1>3, <1>5 DEF Queues, q

\* The nodes that are to be created.
Spawns(n) == [k \in 1..n |-> Queue("spawn node", None)[1]]

LEMMA SpawnsFit ==
    ASSUME NEW n \in Nat
    PROVE  Queues(Spawns(n), {"spawn node"})
<1> DEFINE c == Queue("spawn node", None)[1]
<1>1. c.op = "spawn node"
  BY DEF Queue
<1> HIDE DEF c
<1>2. Spawns(n) = [k \in 1..n |-> c]
  BY DEF Spawns, c
<1>3. Spawns(n) \in Seq({c}) /\ Len(Spawns(n)) = n /\ \A k \in 1..n : Spawns(n)[k] = c
  BY <1>2
<1>4. Listed(Spawns(n))
  BY <1>3, ListedOf
<1> QED BY <1>1, <1>3, <1>4 DEF Queues

-----------------------------------------------------------------------------
(* The create commands. *)

Mark == BOOLEAN \X BOOLEAN

\* The tool of the next frame.
Upcoming == IF next_tool = None THEN tool ELSE next_tool

\* What is due and has a frame behind it is read in this one; what is due and
\* has not, in the next.
CreateInv ==
    /\ create \in [Mark -> Nat] /\ owed = Due(create)
    /\ "dispatch" \in waiting => create[<<FALSE, TRUE>>] = 0
    /\ create[<<FALSE, TRUE>>] # 0 => Upcoming = "Create"
    /\ create[<<TRUE, TRUE>>] # 0 => "create" \in waiting /\ tool = "Create"

LEMMA MarksAre ==
    /\ <<FALSE, TRUE>> \in Mark /\ <<TRUE, TRUE>> \in Mark
    /\ <<FALSE, FALSE>> \in Mark /\ <<TRUE, FALSE>> \in Mark
    /\ <<FALSE, TRUE>> # <<TRUE, TRUE>> /\ <<FALSE, TRUE>> # <<FALSE, FALSE>>
    /\ <<FALSE, TRUE>>[1] = FALSE /\ <<TRUE, TRUE>>[1] = TRUE
    /\ <<FALSE, TRUE>>[2] = TRUE /\ <<TRUE, TRUE>>[2] = TRUE
  BY DEF Mark

\* A count that goes up leaves the others.
LEMMA Bumped ==
    ASSUME NEW S, NEW f \in [S -> Nat], NEW x \in S, NEW n \in Nat, NEW g,
           g = [f EXCEPT ![x] = @ + n]
    PROVE  g \in [S -> Nat] /\ g[x] = f[x] + n /\ \A y \in S : y # x => g[y] = f[y]
  OBVIOUS

LEMMA SentIsNat ==
    ASSUME Listed(app)
    PROVE  Sent \in Nat
<1> DEFINE S == {k \in DOMAIN app : app[k].cmd = "Create"}
<1>1. DOMAIN app = 1..Len(app) /\ Len(app) \in Nat
  BY DEF Listed
<1>2. IsFiniteSet(1..Len(app))
  BY <1>1, FS_Interval
<1>3. S \subseteq 1..Len(app)
  BY <1>1
<1> HIDE DEF S
<1>4. IsFiniteSet(S)
  BY <1>2, <1>3, FS_Subset
<1> QED BY <1>4, FS_CardinalityType DEF Sent, S

LEMMA CreateInitially ==
    ASSUME Init
    PROVE  CreateInv
<1>1. create = [m \in Mark |-> 0] /\ owed = 0 /\ waiting = {}
  BY DEF Init, Mark
<1> QED BY <1>1, MarksAre DEF CreateInv, Due

LEMMA CreateSame ==
    ASSUME CreateInv, UNCHANGED <<create, owed, tool, next_tool>>, waiting' \subseteq waiting,
           "create" \in waiting => "create" \in waiting'
    PROVE  CreateInv'
  BY DEF CreateInv, Upcoming, Due

LEMMA CreateFrames ==
    ASSUME CreateInv, BeginFrame
    PROVE  CreateInv'
<1> DEFINE a == <<FALSE, TRUE>>
           b == <<TRUE, TRUE>>
<1>1. /\ waiting = {} /\ waiting' = System /\ owed' = owed
      /\ create' = [m \in Mark |-> IF m[1] THEN create[<<FALSE, m[2]>>] ELSE 0]
      /\ tool' = Upcoming
      /\ IF next_tool = None THEN next_tool' = next_tool ELSE next_tool' = None
  BY DEF BeginFrame, StateTransition, Leave, tools, bus, Mark, Upcoming
<1>2. create \in [Mark -> Nat] /\ create[b] = 0 /\ owed = create[a]
  <2>1. create[b] = 0 /\ owed = create[a] + create[b] /\ create \in [Mark -> Nat]
    BY <1>1 DEF CreateInv, Due
  <2> QED BY <2>1, MarksAre
<1>3. create' \in [Mark -> Nat]
  <2>1. ASSUME NEW m \in Mark PROVE (IF m[1] THEN create[<<FALSE, m[2]>>] ELSE 0) \in Nat
    <3>1. <<FALSE, m[2]>> \in Mark
      BY DEF Mark
    <3> QED BY <1>2, <3>1
  <2> QED BY <1>1, <2>1
<1>4. create'[b] = create[a]
  BY <1>1, MarksAre
<1>5. create'[a] = 0
  BY <1>1, MarksAre
<1>6. "create" \in System
  BY DEF System
<1>7. owed' = create'[a] + create'[b]
  BY <1>1, <1>2, <1>4, <1>5, MarksAre
<1>8. create[a] # 0 => Upcoming = "Create"
  BY DEF CreateInv
<1> HIDE DEF a, b
<1> QED BY <1>1, <1>3, <1>4, <1>5, <1>6, <1>7, <1>8 DEF CreateInv, Due, a, b

LEMMA CreateDispatched ==
    ASSUME CreateInv, Listed(app), dispatch_app_commands
    PROVE  CreateInv'
<1> DEFINE a == <<FALSE, TRUE>>
           b == <<TRUE, TRUE>>
           t == ToolAfter = "Create"
<1>1. /\ "dispatch" \in waiting /\ waiting' = waiting \ {"dispatch"}
      /\ next_tool' = NextTool /\ tool' = tool
      /\ create' = [create EXCEPT ![<<FALSE, t>>] = @ + Sent]
      /\ owed' = IF t THEN owed + Sent ELSE owed
  BY DEF dispatch_app_commands, Runs, Forward
<1>2. Upcoming' = ToolAfter
  BY <1>1 DEF Upcoming, ToolAfter
<1>3. /\ create \in [Mark -> Nat] /\ create[a] = 0 /\ owed = create[b] /\ create[b] \in Nat
      /\ create[b] # 0 => "create" \in waiting /\ tool = "Create"
  <2>1. create \in [Mark -> Nat] /\ create[a] = 0 /\ owed = create[a] + create[b]
    BY <1>1 DEF CreateInv, Due
  <2> QED BY <2>1, MarksAre DEF CreateInv
<1>4. Sent \in Nat
  BY SentIsNat
<1>5. CASE t
  <2>1. <<FALSE, t>> = a
    BY <1>5
  <2>2. create' = [create EXCEPT ![a] = @ + Sent]
    BY <1>1, <2>1
  <2>0. a \in Mark /\ b \in Mark /\ b # a
    BY MarksAre
  <2>5. create'[a] # 0 => Upcoming' = "Create"
    BY <1>2, <1>5
  <2>6. owed' = owed + Sent
    BY <1>1, <1>5
  <2> HIDE DEF a, b, t
  <2>3. create' \in [Mark -> Nat] /\ create'[a] = create[a] + Sent /\ create'[b] = create[b]
    BY <1>3, <1>4, <2>0, <2>2, Bumped
  <2>4. owed' = create'[a] + create'[b]
    BY <1>3, <1>4, <2>6, <2>3
  <2> QED BY <1>1, <1>3, <2>3, <2>4, <2>5 DEF CreateInv, Due, a, b
<1>6. CASE ~ t
  <2> DEFINE o == <<FALSE, FALSE>>
  <2>1. <<FALSE, t>> = o
    BY <1>6
  <2>2. create' = [create EXCEPT ![o] = @ + Sent]
    BY <1>1, <2>1
  <2>0. o \in Mark /\ o # a /\ o # b /\ a \in Mark /\ b \in Mark
    BY MarksAre
  <2>6. owed' = owed
    BY <1>1, <1>6
  <2> HIDE DEF a, b, t, o
  <2>3. create' \in [Mark -> Nat] /\ create'[a] = create[a] /\ create'[b] = create[b]
    BY <1>3, <1>4, <2>0, <2>2, Bumped
  <2>4. owed' = create'[a] + create'[b]
    BY <1>3, <2>6, <2>3
  <2> QED BY <1>1, <1>3, <2>3, <2>4 DEF CreateInv, Due, a, b
<1> QED BY <1>5, <1>6

LEMMA CreateHandled ==
    ASSUME CreateInv, handle_create_commands
    PROVE  CreateInv'
<1>1. /\ waiting' = waiting \ {"create"} /\ UNCHANGED <<tool, next_tool>>
      /\ IF tool = "Create"
         THEN create' = [m \in DOMAIN create |-> 0] /\ owed' = owed - Due(create)
         ELSE UNCHANGED <<create, owed>>
  BY DEF handle_create_commands, Runs, tools
<1>2. CASE tool = "Create"
  <2>1. create \in [Mark -> Nat] /\ owed = Due(create) /\ Due(create) \in Nat
    BY MarksAre DEF CreateInv, Due
  <2>2. create' = [m \in Mark |-> 0] /\ owed' = 0
    BY <1>1, <1>2, <2>1
  <2>3. create' \in [Mark -> Nat] /\ create'[<<FALSE, TRUE>>] = 0 /\ create'[<<TRUE, TRUE>>] = 0
    BY <2>2, MarksAre
  <2> QED BY <2>2, <2>3 DEF CreateInv, Due
<1>3. CASE tool # "Create"
  <2>1. UNCHANGED <<create, owed, tool, next_tool, Upcoming>>
    BY <1>1, <1>3 DEF Upcoming
  <2>2. create[<<TRUE, TRUE>>] = 0
    BY <1>3 DEF CreateInv
  <2> QED BY <1>1, <2>1, <2>2 DEF CreateInv, Due
<1> QED BY <1>2, <1>3

-----------------------------------------------------------------------------
(* The scene: what commands do to the world. *)

Ends == [1..2 -> Nat \cup {None}] \cup (Frame \X Frame)

EdgeMaps == UNION {[S -> Ends] : S \in SUBSET Nat}

Meanings == (SUBSET Nat) \cup {None}

Worlds ==
    [nodes : SUBSET Nat, edges : EdgeMaps, own : SUBSET Nat, spawned : Nat,
     selected : SUBSET Nat, meant : Meanings, unnamed : SUBSET Nat,
     unseen : SUBSET Nat, removed : SUBSET Nat]

LEMMA WorldsAre ==
    ASSUME NEW w \in Worlds
    PROVE  /\ w.nodes \in SUBSET Nat /\ w.edges \in EdgeMaps /\ w.own \in SUBSET Nat
           /\ w.spawned \in Nat /\ w.selected \in SUBSET Nat /\ w.meant \in Meanings
           /\ w.unnamed \in SUBSET Nat /\ w.unseen \in SUBSET Nat /\ w.removed \in SUBSET Nat
           /\ w = [nodes |-> w.nodes, edges |-> w.edges, own |-> w.own, spawned |-> w.spawned,
                   selected |-> w.selected, meant |-> w.meant, unnamed |-> w.unnamed,
                   unseen |-> w.unseen, removed |-> w.removed]
  BY DEF Worlds

LEMMA MakesWorld ==
    ASSUME NEW n \in SUBSET Nat, NEW e \in EdgeMaps, NEW o \in SUBSET Nat, NEW s \in Nat,
           NEW l \in SUBSET Nat, NEW m \in Meanings, NEW u \in SUBSET Nat,
           NEW v \in SUBSET Nat, NEW r \in SUBSET Nat
    PROVE  [nodes |-> n, edges |-> e, own |-> o, spawned |-> s, selected |-> l, meant |-> m,
            unnamed |-> u, unseen |-> v, removed |-> r] \in Worlds
  BY DEF Worlds

LEMMA EdgeMapsAre ==
    ASSUME NEW f \in EdgeMaps
    PROVE  DOMAIN f \in SUBSET Nat /\ f \in [DOMAIN f -> Ends]
<1>1. PICK S \in SUBSET Nat : f \in [S -> Ends]
  BY DEF EdgeMaps
<1> QED BY <1>1

LEMMA MakesEdgeMap ==
    ASSUME NEW S \in SUBSET Nat, NEW f \in [S -> Ends]
    PROVE  f \in EdgeMaps
  BY DEF EdgeMaps

\* An end is a node or none.
LEMMA EndsAre ==
    ASSUME NEW p \in Ends, NEW k \in 1..2
    PROVE  p[k] \in Nat \cup {None}
<1>1. CASE p \in [1..2 -> Nat \cup {None}]
  BY <1>1
<1>2. CASE p \in Frame \X Frame
  <2>1. p[1] \in Frame /\ p[2] \in Frame
    BY <1>2
  <2>2. k = 1 \/ k = 2
    OBVIOUS
  <2> QED BY <2>1, <2>2, EditorAssumption
<1> QED BY <1>1, <1>2 DEF Ends

Cut(f, es) == [e \in DOMAIN f \ es |-> [k \in 1..2 |-> IF f[e][k] \in es THEN None ELSE f[e][k]]]

LEMMA CutIs ==
    ASSUME NEW f \in EdgeMaps, NEW es
    PROVE  Cut(f, es) \in EdgeMaps /\ DOMAIN Cut(f, es) = DOMAIN f \ es
<1>1. DOMAIN f \in SUBSET Nat /\ \A e \in DOMAIN f : f[e] \in Ends
  BY EdgeMapsAre
<1>2. ASSUME NEW e \in DOMAIN f
      PROVE  [k \in 1..2 |-> IF f[e][k] \in es THEN None ELSE f[e][k]] \in Ends
  <2>1. \A k \in 1..2 : f[e][k] \in Nat \cup {None}
    BY <1>1, EndsAre
  <2>2. [k \in 1..2 |-> IF f[e][k] \in es THEN None ELSE f[e][k]] \in [1..2 -> Nat \cup {None}]
    BY <2>1
  <2> QED BY <2>2 DEF Ends
<1> DEFINE S == DOMAIN f \ es
<1>3. Cut(f, es) \in [S -> Ends]
  BY <1>2 DEF Cut
<1>4. S \in SUBSET Nat
  BY <1>1
<1> QED BY <1>3, <1>4, MakesEdgeMap

Unmeant(m, es) == IF m = None THEN None ELSE m \ es

\* Despawned, field by field.
LEMMA DespawnedIs ==
    ASSUME NEW w \in Worlds, NEW es
    PROVE  LET v == Despawned(w, es)
           IN  /\ v \in Worlds
               /\ v.nodes = w.nodes \ es /\ v.own = w.own \ es /\ v.edges = Cut(w.edges, es)
               /\ v.spawned = w.spawned /\ v.selected = w.selected \ es
               /\ v.meant = Unmeant(w.meant, es)
               /\ v.unnamed = w.unnamed \ es /\ v.unseen = w.unseen \ es
               /\ v.removed = w.removed \cup (w.own \cap es)
<1> DEFINE c == Cut(w.edges, es)
           m == Unmeant(w.meant, es)
           v == [nodes |-> w.nodes \ es, edges |-> c, own |-> w.own \ es, spawned |-> w.spawned,
                 selected |-> w.selected \ es, meant |-> m, unnamed |-> w.unnamed \ es,
                 unseen |-> w.unseen \ es, removed |-> w.removed \cup (w.own \cap es)]
<1>1. /\ w.nodes \in SUBSET Nat /\ w.edges \in EdgeMaps /\ w.own \in SUBSET Nat
      /\ w.spawned \in Nat /\ w.selected \in SUBSET Nat /\ w.meant \in Meanings
      /\ w.unnamed \in SUBSET Nat /\ w.unseen \in SUBSET Nat /\ w.removed \in SUBSET Nat
      /\ w = [nodes |-> w.nodes, edges |-> w.edges, own |-> w.own, spawned |-> w.spawned,
              selected |-> w.selected, meant |-> w.meant, unnamed |-> w.unnamed,
              unseen |-> w.unseen, removed |-> w.removed]
  BY WorldsAre
<1>2. c \in EdgeMaps
  BY <1>1, CutIs
<1>3. m \in Meanings
  BY <1>1 DEF Unmeant, Meanings
<1>4. Despawned(w, es) = [w EXCEPT !.nodes = w.nodes \ es, !.own = w.own \ es, !.edges = c,
                                   !.selected = w.selected \ es, !.meant = m,
                                   !.unnamed = w.unnamed \ es, !.unseen = w.unseen \ es,
                                   !.removed = w.removed \cup (w.own \cap es)]
  BY DEF Despawned, Cut, Unmeant
<1>5. /\ c = Cut(w.edges, es) /\ m = Unmeant(w.meant, es)
  OBVIOUS
<1> HIDE DEF c, m
<1>6. Despawned(w, es) = v
  BY <1>1, <1>4
<1>7. /\ w.nodes \ es \in SUBSET Nat /\ w.own \ es \in SUBSET Nat /\ w.selected \ es \in SUBSET Nat
      /\ w.unnamed \ es \in SUBSET Nat /\ w.unseen \ es \in SUBSET Nat
      /\ w.removed \cup (w.own \cap es) \in SUBSET Nat
  BY <1>1
<1>8. v \in Worlds
  BY <1>1, <1>2, <1>3, <1>7, MakesWorld
<1> QED BY <1>5, <1>6, <1>8

\* What a selection command does.
LEMMA MarkedIs ==
    ASSUME NEW w \in Worlds, NEW l \in SUBSET Nat
    PROVE  LET v == [w EXCEPT !.selected = l]
           IN  /\ v \in Worlds /\ v.nodes = w.nodes /\ v.own = w.own /\ v.edges = w.edges
               /\ v.spawned = w.spawned /\ v.selected = l /\ v.meant = w.meant
               /\ v.unnamed = w.unnamed /\ v.unseen = w.unseen /\ v.removed = w.removed
<1> DEFINE v == [nodes |-> w.nodes, edges |-> w.edges, own |-> w.own, spawned |-> w.spawned,
                 selected |-> l, meant |-> w.meant, unnamed |-> w.unnamed,
                 unseen |-> w.unseen, removed |-> w.removed]
<1>1. v \in Worlds
  BY WorldsAre, MakesWorld
<1>2. [w EXCEPT !.selected = l] = v
  BY WorldsAre
<1> QED BY <1>1, <1>2

\* What is spawned is new: a node, ...
LEMMA NodeSpawnedIs ==
    ASSUME NEW w \in Worlds
    PROVE  LET v == [Spawned(w) EXCEPT !.nodes = @ \cup {w.spawned + 1}]
               e == w.spawned + 1
           IN  /\ v \in Worlds /\ v.nodes = w.nodes \cup {e} /\ v.own = w.own \cup {e}
               /\ v.edges = w.edges /\ v.spawned = e /\ v.selected = w.selected
               /\ v.meant = w.meant /\ v.unnamed = w.unnamed \cup {e}
               /\ v.unseen = w.unseen \cup {e} /\ v.removed = w.removed
<1> DEFINE e == w.spawned + 1
           x == Spawned(w)
           v == [nodes |-> w.nodes \cup {e}, edges |-> w.edges, own |-> w.own \cup {e}, spawned |-> e,
                 selected |-> w.selected, meant |-> w.meant, unnamed |-> w.unnamed \cup {e},
                 unseen |-> w.unseen \cup {e}, removed |-> w.removed]
<1>0. w = [nodes |-> w.nodes, edges |-> w.edges, own |-> w.own, spawned |-> w.spawned,
           selected |-> w.selected, meant |-> w.meant, unnamed |-> w.unnamed,
           unseen |-> w.unseen, removed |-> w.removed]
  BY WorldsAre
<1>1. e \in Nat /\ e = w.spawned + 1
  BY WorldsAre
<1>2. x = [w EXCEPT !.spawned = e, !.own = w.own \cup {e}, !.unnamed = w.unnamed \cup {e},
                    !.unseen = w.unseen \cup {e}]
  BY DEF Spawned
<1> HIDE DEF e, x
<1>3. x = [nodes |-> w.nodes, edges |-> w.edges, own |-> w.own \cup {e}, spawned |-> e,
           selected |-> w.selected, meant |-> w.meant, unnamed |-> w.unnamed \cup {e},
           unseen |-> w.unseen \cup {e}, removed |-> w.removed]
  BY <1>0, <1>2
<1>4. [x EXCEPT !.nodes = @ \cup {e}] = v
  BY <1>3, SMTT(30)
<1>5. /\ w.nodes \cup {e} \in SUBSET Nat /\ w.own \cup {e} \in SUBSET Nat
      /\ w.unnamed \cup {e} \in SUBSET Nat /\ w.unseen \cup {e} \in SUBSET Nat
      /\ w.edges \in EdgeMaps /\ w.selected \in SUBSET Nat /\ w.meant \in Meanings
      /\ w.removed \in SUBSET Nat
  BY <1>1, WorldsAre
<1>6. v \in Worlds
  BY <1>1, <1>5, MakesWorld
<1> QED BY <1>4, <1>6 DEF e, x

\* ... or an edge.
LEMMA EdgeSpawnedIs ==
    ASSUME NEW w \in Worlds, NEW ends \in [1..2 -> Nat \cup {None}]
    PROVE  LET v == [Spawned(w) EXCEPT !.edges = [i \in DOMAIN @ \cup {w.spawned + 1} |->
                                                    IF i \in DOMAIN @ THEN @[i] ELSE ends]]
               e == w.spawned + 1
           IN  /\ v \in Worlds /\ v.nodes = w.nodes /\ v.own = w.own \cup {e}
               /\ DOMAIN v.edges = DOMAIN w.edges \cup {e} /\ v.spawned = e
               /\ v.selected = w.selected /\ v.meant = w.meant /\ v.unnamed = w.unnamed \cup {e}
               /\ v.unseen = w.unseen \cup {e} /\ v.removed = w.removed
<1> DEFINE e == w.spawned + 1
           x == Spawned(w)
           f == [i \in DOMAIN w.edges \cup {e} |-> IF i \in DOMAIN w.edges THEN w.edges[i] ELSE ends]
           v == [nodes |-> w.nodes, edges |-> f, own |-> w.own \cup {e}, spawned |-> e,
                 selected |-> w.selected, meant |-> w.meant, unnamed |-> w.unnamed \cup {e},
                 unseen |-> w.unseen \cup {e}, removed |-> w.removed]
<1>0. w = [nodes |-> w.nodes, edges |-> w.edges, own |-> w.own, spawned |-> w.spawned,
           selected |-> w.selected, meant |-> w.meant, unnamed |-> w.unnamed,
           unseen |-> w.unseen, removed |-> w.removed]
  BY WorldsAre
<1>1. e \in Nat /\ e = w.spawned + 1
  BY WorldsAre
<1>2. x = [w EXCEPT !.spawned = e, !.own = w.own \cup {e}, !.unnamed = w.unnamed \cup {e},
                    !.unseen = w.unseen \cup {e}]
  BY DEF Spawned
<1> HIDE DEF e, x
<1>3. x = [nodes |-> w.nodes, edges |-> w.edges, own |-> w.own \cup {e}, spawned |-> e,
           selected |-> w.selected, meant |-> w.meant, unnamed |-> w.unnamed \cup {e},
           unseen |-> w.unseen \cup {e}, removed |-> w.removed]
  BY <1>0, <1>2
<1>4. x.edges = w.edges
  BY <1>3
<1>5. [x EXCEPT !.edges = [i \in DOMAIN @ \cup {e} |-> IF i \in DOMAIN @ THEN @[i] ELSE ends]]
      = [x EXCEPT !.edges = f]
  BY <1>4
<1>6. f \in EdgeMaps /\ DOMAIN f = DOMAIN w.edges \cup {e}
  <2>1. w.edges \in [DOMAIN w.edges -> Ends] /\ DOMAIN w.edges \in SUBSET Nat
    BY WorldsAre, EdgeMapsAre
  <2>2. ends \in Ends
    BY DEF Ends
  <2>3. f \in [DOMAIN w.edges \cup {e} -> Ends] /\ DOMAIN w.edges \cup {e} \in SUBSET Nat
    BY <1>1, <2>1, <2>2
  <2> QED BY <2>3, MakesEdgeMap
<1> HIDE DEF f
<1>7. [x EXCEPT !.edges = f] = v
  BY <1>3, SMTT(30)
<1>8. /\ w.nodes \in SUBSET Nat /\ w.own \cup {e} \in SUBSET Nat
      /\ w.unnamed \cup {e} \in SUBSET Nat /\ w.unseen \cup {e} \in SUBSET Nat
      /\ w.selected \in SUBSET Nat /\ w.meant \in Meanings /\ w.removed \in SUBSET Nat
  BY <1>1, WorldsAre
<1>9. v \in Worlds
  BY <1>1, <1>6, <1>8, MakesWorld, ZenonT(40)
<1> QED BY <1>5, <1>6, <1>7, <1>9 DEF e, x

-----------------------------------------------------------------------------
(* The streams and the queue keep to their words. *)

LEMMA NothingIsListed == Listed(<<>>) /\ SelectsFit(<<>>) /\ Queues(<<>>, Op)
<1>1. Len(<<>>) = 0 /\ Listed(<<>>)
  BY QueuesNone DEF Queues
<1> QED BY <1>1, QueuesNone DEF SelectsFit

LEMMA WordedInitially ==
    ASSUME Init
    PROVE  Worded
<1>1. app = <<>> /\ select = <<>> /\ buffer = <<>>
  BY DEF Init
<1> QED BY <1>1, NothingIsListed DEF Worded

LEMMA WordedSame ==
    ASSUME Worded, UNCHANGED <<app, select, buffer>>
    PROVE  Worded'
  BY DEF Worded, SelectsFit, Queues

\* Another command on the bus.
LEMMA WordedSent ==
    ASSUME Worded, NEW cmd, Send(cmd), UNCHANGED <<select, buffer>>
    PROVE  Worded'
<1>1. Listed(app')
  BY AppendOf DEF Worded, Send
<1> QED BY <1>1 DEF Worded, SelectsFit, Queues

LEMMA WordedExternal ==
    ASSUME Worded, External
    PROVE  Worded'
<1>1. PICK cmd \in AppCommand : Send(cmd)
  BY DEF External
<1>2. UNCHANGED <<select, buffer>>
  BY DEF External
<1> QED BY <1>1, <1>2, WordedSent

LEMMA WordedClick ==
    ASSUME Worded, Click
    PROVE  Worded'
<1>1. PICK e \in nodes : ClickForSelect(e) \/ ClickForConnect(e)
  BY DEF Click
<1>2. UNCHANGED <<select, buffer>>
  BY DEF Click
<1>3. UNCHANGED app \/ \E cmd : Send(cmd)
  BY <1>1 DEF ClickForSelect, ClickForConnect
<1>4. CASE UNCHANGED app
  BY <1>2, <1>4, WordedSame
<1>5. CASE \E cmd : Send(cmd)
  BY <1>2, <1>5, WordedSent
<1> QED BY <1>3, <1>4, <1>5

LEMMA WordedDelete ==
    ASSUME Worded, handle_delete_key
    PROVE  Worded'
<1>1. UNCHANGED <<select, buffer>>
  BY DEF handle_delete_key
<1>2. UNCHANGED app \/ \E cmd : Send(cmd)
  BY DEF handle_delete_key
<1> QED BY <1>1, <1>2, WordedSame, WordedSent

LEMMA WordedSync ==
    ASSUME Worded, SyncPoint
    PROVE  Worded'
<1>1. UNCHANGED <<app, select>> /\ buffer' = <<>>
  BY DEF SyncPoint, bus
<1> QED BY <1>1, NothingIsListed DEF Worded, SelectsFit

LEMMA WordedDispatch ==
    ASSUME Worded, dispatch_app_commands
    PROVE  Worded'
<1>1. /\ app' = <<>> /\ select' = FoldLeft(ToSelect, select, app)
      /\ buffer' = FoldLeft(Handled, buffer, app)
  BY DEF dispatch_app_commands
<1>2. PlainOp \subseteq Op
  BY DEF Op
<1>3. Queues(FoldLeft(Handled, buffer, app), Op)
  BY <1>2, HandledFit DEF Worded
<1>4. SelectsFit(FoldLeft(ToSelect, select, app))
  BY ToSelectFit DEF Worded
<1> QED BY <1>1, <1>3, <1>4, NothingIsListed DEF Worded

LEMMA WordedSelect ==
    ASSUME Worded, handle_select_commands
    PROVE  Worded'
<1>1. app' = app /\ select' = <<>> /\ buffer' = FoldLeft(Selecting, buffer, select)
  BY DEF handle_select_commands
<1>2. Queues(FoldLeft(Selecting, buffer, select), Op)
  BY SelectingFit DEF Worded
<1> QED BY <1>1, <1>2, NothingIsListed DEF Worded

LEMMA WordedCreate ==
    ASSUME Worded, create \in [Mark -> Nat], handle_create_commands
    PROVE  Worded'
<1>1. UNCHANGED <<app, select>>
  BY DEF handle_create_commands
<1>2. CASE tool # "Create"
  <2>1. UNCHANGED buffer
    BY <1>2 DEF handle_create_commands
  <2> QED BY <1>1, <2>1, WordedSame
<1>3. CASE tool = "Create"
  <2>1. Unread \in Nat
    BY MarksAre DEF Unread, Due
  <2>2. buffer' = buffer \o Spawns(Unread)
    BY <1>3 DEF handle_create_commands, Spawns
  <2>3. {"spawn node"} \subseteq Op
    BY DEF Op, PlainOp
  <2>4. Queues(Spawns(Unread), {"spawn node"})
    BY <2>1, SpawnsFit
  <2>5. Queues(Spawns(Unread), Op)
    BY <2>3, <2>4, QueuesWider
  <2>6. Queues(buffer \o Spawns(Unread), Op)
    BY <2>5, QueuesMore DEF Worded
  <2> QED BY <1>1, <2>2, <2>6 DEF Worded, SelectsFit
<1> QED BY <1>2, <1>3

LEMMA WordedSteps ==
    ASSUME Worded, create \in [Mark -> Nat], Next
    PROVE  Worded'
<1>1. CASE Cancel \/ BeginFrame \/ emit_appeared \/ emit_removed \/ sync
  <2>1. UNCHANGED <<app, select, buffer>>
    BY <1>1 DEF Cancel, BeginFrame, emit_appeared, emit_removed, sync, bus
  <2> QED BY <2>1, WordedSame
<1> QED BY <1>1, WordedExternal, WordedClick, WordedDelete, WordedSync, WordedDispatch,
           WordedSelect, WordedCreate DEF Next

LEMMA CreateSteps ==
    ASSUME CreateInv, Worded, Next
    PROVE  CreateInv'
<1>1. CASE External \/ Click \/ Cancel
  <2>1. UNCHANGED <<create, owed, tool, next_tool, waiting>>
    BY <1>1 DEF External, Click, Cancel, tools, bus
  <2> QED BY <2>1, CreateSame
<1>2. CASE SyncPoint
  <2>1. UNCHANGED <<create, owed, tool, next_tool, waiting>>
    BY <1>2 DEF SyncPoint, bus
  <2> QED BY <2>1, CreateSame
<1>3. CASE handle_select_commands \/ handle_delete_key
  <2>1. UNCHANGED <<create, owed, tool, next_tool>>
    BY <1>3 DEF handle_select_commands, handle_delete_key, tools
  <2>2. waiting' = waiting \ {"select"} \/ waiting' = waiting \ {"delete"}
    BY <1>3 DEF handle_select_commands, handle_delete_key, Runs
  <2> QED BY <2>1, <2>2, CreateSame
<1>4. CASE emit_appeared \/ emit_removed \/ sync
  <2>1. UNCHANGED <<create, owed, tool, next_tool>>
    BY <1>4 DEF emit_appeared, emit_removed, sync, tools, bus
  <2>2. waiting' = waiting \ {"appeared"} \/ waiting' = waiting \ {"removed"}
          \/ waiting' = waiting \ {"sync"}
    BY <1>4 DEF emit_appeared, emit_removed, sync, Runs
  <2> QED BY <2>1, <2>2, CreateSame
<1>5. CASE dispatch_app_commands
  BY <1>5, CreateDispatched DEF Worded
<1> QED BY <1>1, <1>2, <1>3, <1>4, <1>5, CreateFrames, CreateHandled DEF Next

\* What is in the streams and in the queue.
BusInv == Worded /\ CreateInv

LEMMA BusSteps ==
    ASSUME BusInv, [EditorsNext]_<<running, vars, layerVars, gridVars>>
    PROVE  BusInv'
<1>1. CASE UNCHANGED vars
  <2>1. UNCHANGED <<app, select, buffer, create, owed, tool, next_tool, waiting>>
    BY <1>1 DEF vars, bus, tools
  <2> QED BY <2>1, WordedSame, CreateSame DEF BusInv
<1>2. CASE Next
  <2>1. create \in [Mark -> Nat]
    BY DEF BusInv, CreateInv
  <2> QED BY <1>2, <2>1, WordedSteps, CreateSteps DEF BusInv
<1> QED BY <1>1, <1>2 DEF EditorsNext, Desktop, Layers, Grid

-----------------------------------------------------------------------------
(* The bus: the theorems. *)

\* Whatever is sent, in whatever order the systems of a frame run, the streams
\* hold what their readers expect, and what is due is due to the tool that is
\* or is about to be (handlers.rs, app_command.rs).
THEOREM BusInvHolds == EditorsSpec => []BusInv
<1>1. EditorsInit => BusInv
  BY WordedInitially, CreateInitially DEF EditorsInit, BusInv
<1>2. BusInv /\ [EditorsNext]_<<running, vars, layerVars, gridVars>> => BusInv'
  BY BusSteps
<1> QED BY <1>1, <1>2, PTL DEF EditorsSpec

\* A create command sent together with the change to its tool, in either order,
\* is not lost: it is carried out or still in its stream (handlers.rs:19-23).
THEOREM CommandsDoReach == EditorsSpec => []CommandsReachTheirTool
<1>1. BusInv => CommandsReachTheirTool
  BY DEF BusInv, CreateInv, CommandsReachTheirTool
<1> QED BY <1>1, BusInvHolds, PTL

\* What lives in a world; and what is so of every world, ...
Alive(w) == w.nodes \cup DOMAIN w.edges

WorldFits(w) ==
    /\ w.own \subseteq Alive(w) /\ w.unseen \subseteq w.own /\ w.selected \subseteq w.nodes
    /\ w.removed \cap Alive(w) = {}
    /\ \A e \in Alive(w) \cup w.removed : e <= w.spawned
    /\ w.meant # None => \A e \in w.meant : e <= w.spawned

\* ... with t what the observer was told, and m what was passed over.
ToldFits(w, t, m) ==
    /\ t \subseteq Alive(w) \cup w.removed /\ t \cap Alive(w) \subseteq w.own
    /\ w.own \ t \subseteq w.unseen \cup m

Sound(w, t, m) == w \in Worlds /\ WorldFits(w) /\ ToldFits(w, t, m)

LEMMA AliveAre ==
    ASSUME NEW w \in Worlds
    PROVE  Alive(w) \in SUBSET Nat /\ w.nodes \subseteq Alive(w)
  BY WorldsAre, EdgeMapsAre DEF Alive

LEMMA NoneIsNoSet ==
    ASSUME NEW m \in Meanings, m # None
    PROVE  m \in SUBSET Nat
  BY DEF Meanings

LEMMA DespawnSound ==
    ASSUME NEW t, NEW m, NEW w, Sound(w, t, m), NEW es
    PROVE  Sound(Despawned(w, es), t, m)
<1> DEFINE v == Despawned(w, es)
<1>1. w \in Worlds /\ WorldFits(w) /\ ToldFits(w, t, m)
  BY DEF Sound
<1>2. /\ v \in Worlds
      /\ v.nodes = w.nodes \ es /\ v.own = w.own \ es /\ v.edges = Cut(w.edges, es)
      /\ v.spawned = w.spawned /\ v.selected = w.selected \ es
      /\ v.meant = Unmeant(w.meant, es) /\ v.unseen = w.unseen \ es
      /\ v.removed = w.removed \cup (w.own \cap es)
  BY <1>1, DespawnedIs
<1>3. DOMAIN v.edges = DOMAIN w.edges \ es
  BY <1>1, <1>2, CutIs, WorldsAre, ZenonT(40)
<1> HIDE DEF v
<1>4. Alive(v) = Alive(w) \ es
  BY <1>2, <1>3 DEF Alive
<1>5. v.meant # None => w.meant # None /\ v.meant \subseteq w.meant
  BY <1>2 DEF Unmeant
<1>6. WorldFits(v)
  <2>1. v.own \subseteq Alive(v) /\ v.unseen \subseteq v.own /\ v.selected \subseteq v.nodes
    BY <1>1, <1>2, <1>4 DEF WorldFits
  <2>2. v.removed \cap Alive(v) = {}
    BY <1>1, <1>2, <1>4 DEF WorldFits
  <2>3. Alive(v) \cup v.removed \subseteq Alive(w) \cup w.removed
    BY <1>1, <1>2, <1>4 DEF WorldFits
  <2> QED BY <1>1, <1>2, <1>5, <2>1, <2>2, <2>3 DEF WorldFits
<1>7. ToldFits(v, t, m)
  BY <1>1, <1>2, <1>4 DEF ToldFits
<1> QED BY <1>2, <1>6, <1>7 DEF Sound, v

LEMMA MarkSound ==
    ASSUME NEW t, NEW m, NEW w, Sound(w, t, m), NEW l, l \subseteq w.nodes
    PROVE  Sound([w EXCEPT !.selected = l], t, m)
<1> DEFINE v == [w EXCEPT !.selected = l]
<1>1. w \in Worlds /\ WorldFits(w) /\ ToldFits(w, t, m)
  BY DEF Sound
<1>2. l \in SUBSET Nat
  BY <1>1, WorldsAre
<1>3. /\ v \in Worlds /\ v.nodes = w.nodes /\ v.own = w.own /\ v.edges = w.edges
      /\ v.spawned = w.spawned /\ v.selected = l /\ v.meant = w.meant
      /\ v.unseen = w.unseen /\ v.removed = w.removed
  BY <1>1, <1>2, MarkedIs
<1> HIDE DEF v
<1>4. Alive(v) = Alive(w)
  BY <1>3 DEF Alive
<1>5. WorldFits(v)
  BY <1>1, <1>3, <1>4 DEF WorldFits
<1>6. ToldFits(v, t, m)
  BY <1>1, <1>3, <1>4 DEF ToldFits
<1> QED BY <1>3, <1>5, <1>6 DEF Sound, v

\* A world with something new.
LEMMA MoreSound ==
    ASSUME NEW t, NEW m, NEW w, Sound(w, t, m), NEW v \in Worlds,
           LET e == w.spawned + 1
           IN  /\ Alive(v) = Alive(w) \cup {e} /\ v.own = w.own \cup {e} /\ v.spawned = e
               /\ w.nodes \subseteq v.nodes /\ v.selected = w.selected /\ v.meant = w.meant
               /\ v.unseen = w.unseen \cup {e} /\ v.removed = w.removed
    PROVE  Sound(v, t, m)
<1> DEFINE e == w.spawned + 1
<1>1. w \in Worlds /\ WorldFits(w) /\ ToldFits(w, t, m)
  BY DEF Sound
<1>2. e \in Nat /\ w.spawned \in Nat /\ e = w.spawned + 1
  BY <1>1, WorldsAre
<1>3. /\ Alive(v) = Alive(w) \cup {e} /\ v.own = w.own \cup {e} /\ v.spawned = e
      /\ w.nodes \subseteq v.nodes /\ v.selected = w.selected /\ v.meant = w.meant
      /\ v.unseen = w.unseen \cup {e} /\ v.removed = w.removed
  OBVIOUS
<1> HIDE DEF e
<1>4. Alive(w) \cup w.removed \subseteq Nat
  BY <1>1, AliveAre, WorldsAre
<1>5. e \notin Alive(w) \cup w.removed
  BY <1>1, <1>2, <1>4 DEF WorldFits
<1>6. WorldFits(v)
  <2>1. \A x \in Alive(v) \cup v.removed : x <= v.spawned
    BY <1>1, <1>2, <1>3, <1>4 DEF WorldFits
  <2>2. v.meant # None => \A x \in v.meant : x <= v.spawned
    <3>1. w.meant # None => w.meant \in SUBSET Nat
      BY <1>1, WorldsAre, NoneIsNoSet
    <3> QED BY <1>1, <1>2, <1>3, <3>1 DEF WorldFits
  <2> QED BY <1>1, <1>3, <1>5, <2>1, <2>2 DEF WorldFits
<1>7. ToldFits(v, t, m)
  BY <1>1, <1>3, <1>5 DEF ToldFits
<1> QED BY <1>6, <1>7 DEF Sound

LEMMA CommandSound ==
    ASSUME NEW t, NEW m, NEW w, Sound(w, t, m), NEW c, c.op \in Op
    PROVE  Sound(ApplyCommand(w, c), t, m)
<1>0. w \in Worlds /\ w.selected \subseteq w.nodes
  BY DEF Sound, WorldFits
<1>1. CASE c.op = "despawn"
  <2>1. ApplyCommand(w, c) = Despawned(w, c.entity)
    BY <1>1 DEF ApplyCommand
  <2> QED BY <2>1, DespawnSound
<1>2. CASE c.op = "insert"
  <2> DEFINE l == w.selected \cup (c.entity \cap w.nodes)
  <2>1. ApplyCommand(w, c) = [w EXCEPT !.selected = l]
    BY <1>2 DEF ApplyCommand
  <2>2. l \subseteq w.nodes
    BY <1>0
  <2> HIDE DEF l
  <2> QED BY <2>1, <2>2, MarkSound
<1>3. CASE c.op = "remove"
  <2> DEFINE l == w.selected \ c.entity
  <2>1. ApplyCommand(w, c) = [w EXCEPT !.selected = l]
    BY <1>3 DEF ApplyCommand
  <2>2. l \subseteq w.nodes
    BY <1>0
  <2> HIDE DEF l
  <2> QED BY <2>1, <2>2, MarkSound
<1>4. CASE c.op = "spawn node"
  <2> DEFINE v == [Spawned(w) EXCEPT !.nodes = @ \cup {w.spawned + 1}]
  <2>1. ApplyCommand(w, c) = v
    BY <1>4 DEF ApplyCommand
  <2>2. /\ v \in Worlds /\ v.nodes = w.nodes \cup {w.spawned + 1}
        /\ v.own = w.own \cup {w.spawned + 1}
        /\ v.edges = w.edges /\ v.spawned = w.spawned + 1 /\ v.selected = w.selected
        /\ v.meant = w.meant
        /\ v.unseen = w.unseen \cup {w.spawned + 1} /\ v.removed = w.removed
    BY <1>0, NodeSpawnedIs
  <2> HIDE DEF v
  <2>3. Alive(v) = Alive(w) \cup {w.spawned + 1}
    BY <2>2 DEF Alive
  <2> QED BY <2>1, <2>2, <2>3, MoreSound
<1>5. CASE c.op = "spawn edge"
  <2> DEFINE ends == [k \in 1..2 |-> IF c.entity[k] \in w.nodes THEN c.entity[k] ELSE None]
             v == [Spawned(w) EXCEPT !.edges = [e \in DOMAIN @ \cup {w.spawned + 1} |->
                                                  IF e \in DOMAIN @ THEN @[e] ELSE ends]]
  <2>1. ApplyCommand(w, c) = v
    BY <1>5 DEF ApplyCommand
  <2>2. ends \in [1..2 -> Nat \cup {None}]
    BY <1>0, WorldsAre
  <2> HIDE DEF ends
  <2>3. /\ v \in Worlds /\ v.nodes = w.nodes /\ v.own = w.own \cup {w.spawned + 1}
        /\ DOMAIN v.edges = DOMAIN w.edges \cup {w.spawned + 1} /\ v.spawned = w.spawned + 1
        /\ v.selected = w.selected /\ v.meant = w.meant
        /\ v.unseen = w.unseen \cup {w.spawned + 1} /\ v.removed = w.removed
    BY <1>0, <2>2, EdgeSpawnedIs
  <2> HIDE DEF v
  <2>4. Alive(v) = Alive(w) \cup {w.spawned + 1}
    BY <2>3 DEF Alive
  <2> QED BY <2>1, <2>3, <2>4, MoreSound
<1> QED BY <1>1, <1>2, <1>3, <1>4, <1>5 DEF Op, PlainOp

LEMMA CommandGrows ==
    ASSUME NEW w \in Worlds, NEW c, c.op \in Op
    PROVE  ApplyCommand(w, c).spawned >= w.spawned
<1>0. w.spawned \in Nat
  BY WorldsAre
<1>1. CASE c.op = "despawn"
  BY <1>0, <1>1, DespawnedIs DEF ApplyCommand
<1>2. CASE c.op = "insert"
  <2> DEFINE l == w.selected \cup (c.entity \cap w.nodes)
  <2>1. ApplyCommand(w, c) = [w EXCEPT !.selected = l]
    BY <1>2 DEF ApplyCommand
  <2>2. l \in SUBSET Nat
    BY WorldsAre
  <2> HIDE DEF l
  <2> QED BY <1>0, <2>1, <2>2, MarkedIs
<1>3. CASE c.op = "remove"
  <2> DEFINE l == w.selected \ c.entity
  <2>1. ApplyCommand(w, c) = [w EXCEPT !.selected = l]
    BY <1>3 DEF ApplyCommand
  <2>2. l \in SUBSET Nat
    BY WorldsAre
  <2> HIDE DEF l
  <2> QED BY <1>0, <2>1, <2>2, MarkedIs
<1>4. CASE c.op = "spawn node"
  <2> DEFINE v == [Spawned(w) EXCEPT !.nodes = @ \cup {w.spawned + 1}]
  <2>1. ApplyCommand(w, c) = v
    BY <1>4 DEF ApplyCommand
  <2>2. v.spawned = w.spawned + 1
    BY NodeSpawnedIs
  <2> HIDE DEF v
  <2> QED BY <1>0, <2>1, <2>2
<1>5. CASE c.op = "spawn edge"
  <2> DEFINE ends == [k \in 1..2 |-> IF c.entity[k] \in w.nodes THEN c.entity[k] ELSE None]
             v == [Spawned(w) EXCEPT !.edges = [e \in DOMAIN @ \cup {w.spawned + 1} |->
                                                  IF e \in DOMAIN @ THEN @[e] ELSE ends]]
  <2>1. ApplyCommand(w, c) = v
    BY <1>5 DEF ApplyCommand
  <2>2. ends \in [1..2 -> Nat \cup {None}]
    BY WorldsAre
  <2> HIDE DEF ends
  <2>3. v.spawned = w.spawned + 1
    BY <2>2, EdgeSpawnedIs
  <2> QED BY <1>0, <2>1, <2>3
<1> QED BY <1>1, <1>2, <1>3, <1>4, <1>5 DEF Op, PlainOp

\* What another client spawns, ...
LEMMA ForeignSound ==
    ASSUME NEW t, NEW m, NEW w, Sound(w, t, m)
    PROVE  Sound([w EXCEPT !.spawned = @ + 1, !.nodes = @ \cup {w.spawned + 1}], t, m)
<1> DEFINE e == w.spawned + 1
           v == [nodes |-> w.nodes \cup {e}, edges |-> w.edges, own |-> w.own, spawned |-> e,
                 selected |-> w.selected, meant |-> w.meant, unnamed |-> w.unnamed,
                 unseen |-> w.unseen, removed |-> w.removed]
<1>1. w \in Worlds /\ WorldFits(w) /\ ToldFits(w, t, m)
  BY DEF Sound
<1>2. e \in Nat /\ w.spawned \in Nat /\ e = w.spawned + 1
  BY <1>1, WorldsAre
<1> HIDE DEF e
<1>0. w = [nodes |-> w.nodes, edges |-> w.edges, own |-> w.own, spawned |-> w.spawned,
           selected |-> w.selected, meant |-> w.meant, unnamed |-> w.unnamed,
           unseen |-> w.unseen, removed |-> w.removed]
  BY <1>1, WorldsAre
<1>3. [w EXCEPT !.spawned = @ + 1, !.nodes = @ \cup {w.spawned + 1}] = v
  <2>1. [w EXCEPT !.spawned = @ + 1, !.nodes = @ \cup {w.spawned + 1}]
        = [w EXCEPT !.spawned = e, !.nodes = w.nodes \cup {e}]
    BY <1>2
  <2> DEFINE x == [w EXCEPT !.spawned = e, !.nodes = w.nodes \cup {e}]
  <2>2. x = [w EXCEPT !.spawned = e, !.nodes = w.nodes \cup {e}]
    OBVIOUS
  <2> HIDE DEF x
  <2>3. x = v
    BY <1>0, <2>2
  <2> QED BY <2>1, <2>2, <2>3
<1>4. w.nodes \cup {e} \in SUBSET Nat /\ w.edges \in EdgeMaps
  BY <1>1, <1>2, WorldsAre
<1>5. v \in Worlds
  BY <1>1, <1>2, <1>4, WorldsAre, MakesWorld
<1>6. /\ v.nodes = w.nodes \cup {e} /\ v.edges = w.edges /\ v.own = w.own /\ v.spawned = e
      /\ v.selected = w.selected /\ v.meant = w.meant /\ v.unseen = w.unseen /\ v.removed = w.removed
  OBVIOUS
<1> HIDE DEF v
<1>7. Alive(v) = Alive(w) \cup {e}
  BY <1>6 DEF Alive
<1>8. Alive(w) \cup w.removed \subseteq Nat
  BY <1>1, AliveAre, WorldsAre
<1>9. e \notin Alive(w) \cup w.removed
  BY <1>1, <1>2, <1>8 DEF WorldFits
<1>10. WorldFits(v)
  <2>1. \A x \in Alive(v) \cup v.removed : x <= v.spawned
    BY <1>1, <1>2, <1>6, <1>7, <1>8 DEF WorldFits
  <2>2. v.meant # None => \A x \in v.meant : x <= v.spawned
    <3>1. w.meant # None => w.meant \in SUBSET Nat
      BY <1>1, WorldsAre, NoneIsNoSet
    <3> QED BY <1>1, <1>2, <1>6, <3>1 DEF WorldFits
  <2> QED BY <1>1, <1>6, <1>7, <1>9, <2>1, <2>2 DEF WorldFits
<1>11. ToldFits(v, t, m)
  BY <1>1, <1>6, <1>7, <1>9 DEF ToldFits
<1> QED BY <1>3, <1>5, <1>10, <1>11 DEF Sound

\* ... and a world whose entities have their ids.
LEMMA NamedSound ==
    ASSUME NEW t, NEW m, NEW w, Sound(w, t, m)
    PROVE  Sound([w EXCEPT !.unnamed = {}], t, m)
<1> DEFINE v == [nodes |-> w.nodes, edges |-> w.edges, own |-> w.own, spawned |-> w.spawned,
                 selected |-> w.selected, meant |-> w.meant, unnamed |-> {},
                 unseen |-> w.unseen, removed |-> w.removed]
<1>1. w \in Worlds /\ WorldFits(w) /\ ToldFits(w, t, m)
  BY DEF Sound
<1>0. w = [nodes |-> w.nodes, edges |-> w.edges, own |-> w.own, spawned |-> w.spawned,
           selected |-> w.selected, meant |-> w.meant, unnamed |-> w.unnamed,
           unseen |-> w.unseen, removed |-> w.removed]
  BY <1>1, WorldsAre
<1>3. [w EXCEPT !.unnamed = {}] = v
  BY <1>0
<1>4. {} \in SUBSET Nat
  OBVIOUS
<1>5. v \in Worlds
  BY <1>1, <1>4, WorldsAre, MakesWorld
<1>6. /\ v.nodes = w.nodes /\ v.edges = w.edges /\ v.own = w.own /\ v.spawned = w.spawned
      /\ v.selected = w.selected /\ v.meant = w.meant /\ v.unseen = w.unseen /\ v.removed = w.removed
  OBVIOUS
<1> HIDE DEF v
<1>7. Alive(v) = Alive(w)
  BY <1>6 DEF Alive
<1>8. WorldFits(v)
  BY <1>1, <1>6, <1>7 DEF WorldFits
<1>9. ToldFits(v, t, m)
  BY <1>1, <1>6, <1>7 DEF ToldFits
<1> QED BY <1>3, <1>5, <1>8, <1>9 DEF Sound

LEMMA ApplyCommandStays ==
  ASSUME NEW D, NEW b \in D, NEW s, Listed(s),
         \A d \in D, i \in 1..Len(s) : ApplyCommand(d, s[i]) \in D
  PROVE  FoldLeft(ApplyCommand, b, s) \in D
<1> DEFINE n == Len(s)
           Folds(f) == f = [S \in SUBSET (1..n) |->
                              IF S = {} THEN b ELSE ApplyCommand(f[S \ {Max(S)}], s[Max(S)])]
           iter == CHOOSE f : Folds(f)
           step == [x \in D \X (1..n) |-> ApplyCommand(x[1], s[x[2]])]
<1>1. n \in Nat /\ DOMAIN s = 1..n
  BY DEF Listed
<1>2. FoldLeft(ApplyCommand, b, s) = iter[1..n]
  BY <1>1 DEF FoldLeft, MapThenFoldSet, Max
<1>3. step \in [D \X (1..n) -> D]
  BY <1>1
<1> HIDE DEF n
<1>4. PICK f \in [SUBSET (1..n) -> D] : Iterated(f, step, b, n)
  BY <1>1, <1>3, Iterates
<1>5. ASSUME NEW S \in SUBSET (1..n), S # {}
      PROVE  step[<<f[S \ {Max(S)}], Max(S)>>] = ApplyCommand(f[S \ {Max(S)}], s[Max(S)])
  <2>1. S \in SUBSET Nat /\ \A x \in S : x <= n
    BY <1>1
  <2>2. Max(S) \in S
    BY <1>1, <1>5, <2>1, MaxOfBounded
  <2>3. <<f[S \ {Max(S)}], Max(S)>> \in D \X (1..n)
    BY <2>2
  <2> QED BY <2>3
<1> HIDE DEF step
<1>6. Folds(f)
  BY <1>4, <1>5 DEF Iterated
<1>7. Folds(iter)
  <2> HIDE DEF Folds
  <2> QED BY <1>6
<1> HIDE DEF iter
<1>8. iter[1..0] = b
  <2>1. 1..0 = {} /\ {} \in SUBSET (1..n)
    OBVIOUS
  <2> QED BY <1>7, <2>1
<1>9. ASSUME NEW k \in 1..n PROVE iter[1..k] = ApplyCommand(iter[1..(k-1)], s[k])
  <2>1. 1..k # {} /\ 1..k \in SUBSET (1..n) /\ Max(1..k) = k /\ (1..k) \ {k} = 1..(k-1)
    BY <1>1, Prefix
  <2> QED BY <1>7, <2>1
<1> HIDE DEF Folds
<1>10. \A k \in 0..n : iter[1..k] \in D
  <2> DEFINE T == {k \in 0..n : iter[1..k] \in D}
  <2>1. 0 \in T
    BY <1>1, <1>8
  <2>2. ASSUME NEW k \in 0..n-1, k \in T PROVE k + 1 \in T
    <3>1. k + 1 \in 1..n /\ (k + 1) - 1 = k
      BY <1>1
    <3>2. iter[1..(k+1)] = ApplyCommand(iter[1..k], s[k+1])
      BY <1>1, <1>9, <3>1
    <3>3. iter[1..(k+1)] \in D
      BY <2>2, <3>1, <3>2 DEF n
    <3> QED BY <1>1, <3>1, <3>3
  <2> HIDE DEF T
  <2>3. \A k \in 0..n : k \in T
    BY <1>1, <2>1, <2>2, UpTo
  <2> QED BY <2>3 DEF T
<1>11. n \in 0..n
  BY <1>1
<1> QED BY <1>2, <1>10, <1>11

-----------------------------------------------------------------------------
(* The scene and what is told of it: the invariant. *)

SceneInv ==
    /\ Sound(World, told, missed) /\ cache = told
    /\ \A e \in index : e \in Nat /\ e <= spawned

LEMMA WorldIs ==
    /\ World.nodes = nodes /\ World.edges = edges /\ World.own = own /\ World.spawned = spawned
    /\ World.selected = selected /\ World.meant = meant /\ World.unnamed = unnamed
    /\ World.unseen = unseen /\ World.removed = removed
  BY DEF World

LEMMA BecomesWorld ==
    ASSUME NEW w \in Worlds, Becomes(w)
    PROVE  World' = w
<1>1. World' = [nodes |-> w.nodes, edges |-> w.edges, own |-> w.own, spawned |-> w.spawned,
                selected |-> w.selected, meant |-> w.meant, unnamed |-> w.unnamed,
                unseen |-> w.unseen, removed |-> w.removed]
  BY DEF Becomes, World
<1> QED BY <1>1, WorldsAre

LEMMA SceneInitially ==
    ASSUME Init
    PROVE  SceneInv
<1> DEFINE L == Frame \cup DOMAIN Edge
<1>1. /\ nodes = Frame /\ edges = Edge /\ own = L /\ index = L /\ cache = L /\ told = L
      /\ spawned = Max(L \cup {0}) /\ selected = {} /\ meant = {}
      /\ unnamed = {} /\ unseen = {} /\ removed = {} /\ missed = {}
  BY DEF Init, Living
<1>2. L \in SUBSET Nat /\ IsFiniteSet(L)
  BY EditorAssumption, FS_Union
<1>3. spawned \in Nat /\ \A e \in L : e <= spawned
  <2> DEFINE S == L \cup {0}
  <2>0. IsFiniteSet({0})
    BY FS_Singleton
  <2>1. S \in SUBSET Nat /\ S # {} /\ IsFiniteSet(S) /\ L \subseteq S /\ spawned = Max(S)
    <3> HIDE DEF L
    <3>1. IsFiniteSet(S)
      BY <1>2, <2>0, FS_Union
    <3> QED BY <1>1, <1>2, <3>1
  <2> HIDE DEF S
  <2>2. PICK m \in Nat : \A x \in S : x <= m
    BY <2>1, FiniteBounded
  <2>3. Max(S) \in S /\ \A x \in S : x <= Max(S)
    BY <2>1, <2>2, MaxOfBounded
  <2> QED BY <2>1, <2>3
<1>4. Edge \in EdgeMaps /\ DOMAIN Edge \in SUBSET Nat
  <2>1. DOMAIN Edge \in SUBSET Nat /\ Edge \in [DOMAIN Edge -> Frame \X Frame]
    BY EditorAssumption
  <2>2. Edge \in [DOMAIN Edge -> Ends]
    BY <2>1 DEF Ends
  <2> QED BY <2>1, <2>2, MakesEdgeMap
<1>5. World \in Worlds
  <2>1. {} \in SUBSET Nat /\ {} \in Meanings /\ Frame \in SUBSET Nat
    BY EditorAssumption DEF Meanings
  <2> HIDE DEF L
  <2> QED BY <1>1, <1>2, <1>3, <1>4, <2>1, MakesWorld DEF World
<1>6. Alive(World) = L
  BY <1>1, WorldIs DEF Alive
<1> HIDE DEF L
<1>7. WorldFits(World)
  BY <1>1, <1>3, <1>6, WorldIs DEF WorldFits
<1>8. ToldFits(World, told, missed)
  BY <1>1, <1>6, WorldIs DEF ToldFits
<1> QED BY <1>1, <1>2, <1>3, <1>5, <1>7, <1>8 DEF SceneInv, Sound

\* A step that at most marks.
LEMMA SceneMarked ==
    ASSUME SceneInv,
           UNCHANGED <<nodes, edges, own, spawned, unnamed, unseen, removed, index, cache, told, missed>>,
           selected' \subseteq nodes, meant' \in Meanings,
           meant' # None => \A e \in meant' : e <= spawned
    PROVE  SceneInv'
<1>1. World \in Worlds /\ WorldFits(World) /\ ToldFits(World, told, missed)
  BY DEF SceneInv, Sound
<1>2. /\ nodes \in SUBSET Nat /\ edges \in EdgeMaps /\ own \in SUBSET Nat /\ spawned \in Nat
      /\ unnamed \in SUBSET Nat /\ unseen \in SUBSET Nat /\ removed \in SUBSET Nat
  BY <1>1, WorldsAre, WorldIs
<1>3. World' = [nodes |-> nodes, edges |-> edges, own |-> own, spawned |-> spawned,
                selected |-> selected', meant |-> meant', unnamed |-> unnamed,
                unseen |-> unseen, removed |-> removed]
  BY DEF World
<1>4. World' \in Worlds
  <2>1. selected' \in SUBSET Nat
    BY <1>2
  <2> QED BY <1>2, <1>3, <2>1, MakesWorld
<1>5. /\ World'.nodes = World.nodes /\ World'.edges = World.edges /\ World'.own = World.own
      /\ World'.spawned = World.spawned /\ World'.selected = selected' /\ World'.meant = meant'
      /\ World'.unseen = World.unseen /\ World'.removed = World.removed
  BY <1>3, WorldIs
<1>6. Alive(World') = Alive(World)
  BY <1>5 DEF Alive
<1>7. WorldFits(World')
  BY <1>1, <1>5, <1>6, WorldIs DEF WorldFits
<1>8. ToldFits(World', told, missed)
  BY <1>1, <1>5, <1>6 DEF ToldFits
<1>9. Sound(World', told', missed')
  BY <1>4, <1>7, <1>8 DEF Sound
<1> QED BY <1>9 DEF SceneInv

LEMMA SceneSame ==
    ASSUME SceneInv, UNCHANGED <<scene, selected, meant, unnamed, unseen, removed, cache, told, missed>>
    PROVE  SceneInv'
<1>1. selected \subseteq nodes /\ meant \in Meanings /\ (meant # None => \A e \in meant : e <= spawned)
  BY WorldIs, WorldsAre DEF SceneInv, Sound, WorldFits
<1> QED BY <1>1, SceneMarked DEF scene

LEMMA SceneFrames ==
    ASSUME SceneInv, BeginFrame
    PROVE  SceneInv'
<1>1. selected \subseteq nodes /\ meant \in Meanings /\ (meant # None => \A e \in meant : e <= spawned)
  BY WorldIs, WorldsAre DEF SceneInv, Sound, WorldFits
<1>2. UNCHANGED <<scene, views>>
  BY DEF BeginFrame
<1>3. UNCHANGED <<selected, meant>> \/ (selected' = {} /\ meant' = {})
  BY DEF BeginFrame, StateTransition, Leave, tools
<1>4. selected' \subseteq nodes /\ meant' \in Meanings /\ (meant' # None => \A e \in meant' : e <= spawned)
  BY <1>1, <1>3 DEF Meanings
<1> QED BY <1>2, <1>4, SceneMarked DEF scene, views

LEMMA SceneFlushed ==
    ASSUME SceneInv, Worded, SyncPoint
    PROVE  SceneInv'
<1> DEFINE D == {w \in Worlds : Sound(w, told, missed) /\ w.spawned >= spawned}
<1>1. World \in D
  BY WorldIs, WorldsAre DEF SceneInv, Sound
<1>2. ASSUME NEW w \in D, NEW i \in 1..Len(buffer) PROVE ApplyCommand(w, buffer[i]) \in D
  <2>1. Sound(ApplyCommand(w, buffer[i]), told, missed)
    BY CommandSound DEF Worded, Queues
  <2>2. ApplyCommand(w, buffer[i]).spawned >= w.spawned
    BY CommandGrows DEF Worded, Queues
  <2>3. ApplyCommand(w, buffer[i]) \in Worlds /\ w.spawned \in Nat /\ spawned \in Nat
        /\ ApplyCommand(w, buffer[i]).spawned \in Nat
    BY <2>1, WorldsAre, WorldIs DEF Sound, SceneInv
  <2> QED BY <2>1, <2>2, <2>3
<1>3. Flushed \in D
  <2> HIDE DEF D
  <2>1. \A w \in D, i \in 1..Len(buffer) : ApplyCommand(w, buffer[i]) \in D
    BY <1>2
  <2> QED BY <1>1, <2>1, ApplyCommandStays DEF Flushed, Worded, Queues
<1>4. World' = Flushed
  <2>1. Becomes(Flushed)
    BY DEF SyncPoint
  <2> QED BY <1>3, <2>1, BecomesWorld
<1>5. /\ spawned' = Flushed.spawned /\ spawned' \in Nat /\ spawned \in Nat
      /\ UNCHANGED <<told, missed, cache, index>>
  BY <1>1, <1>3, <1>4, WorldsAre, WorldIs DEF SyncPoint, Becomes
<1>6. spawned' >= spawned /\ Sound(Flushed, told, missed)
  BY <1>3, <1>5
<1> QED BY <1>4, <1>5, <1>6 DEF SceneInv

\* An emitter changes what is told, and forgets what it has read.
LEMMA SceneEmitted ==
    ASSUME SceneInv, UNCHANGED <<nodes, edges, own, spawned, selected, meant, unnamed, index>>,
           unseen' \subseteq unseen, removed' \subseteq removed, cache' = told',
           ToldFits(World', told', missed')
    PROVE  SceneInv'
<1>1. World \in Worlds /\ WorldFits(World)
  BY DEF SceneInv, Sound
<1>2. /\ nodes \in SUBSET Nat /\ edges \in EdgeMaps /\ own \in SUBSET Nat /\ spawned \in Nat
      /\ selected \in SUBSET Nat /\ meant \in Meanings
      /\ unnamed \in SUBSET Nat /\ unseen \in SUBSET Nat /\ removed \in SUBSET Nat
  BY <1>1, WorldsAre, WorldIs
<1>3. World' = [nodes |-> nodes, edges |-> edges, own |-> own, spawned |-> spawned,
                selected |-> selected, meant |-> meant, unnamed |-> unnamed,
                unseen |-> unseen', removed |-> removed']
  BY DEF World
<1>4. World' \in Worlds
  <2>1. unseen' \in SUBSET Nat /\ removed' \in SUBSET Nat
    BY <1>2
  <2> QED BY <1>2, <1>3, <2>1, MakesWorld
<1>5. /\ World'.nodes = World.nodes /\ World'.edges = World.edges /\ World'.own = World.own
      /\ World'.spawned = World.spawned /\ World'.selected = World.selected
      /\ World'.meant = World.meant
      /\ World'.unseen \subseteq World.unseen /\ World'.removed \subseteq World.removed
  BY <1>3, WorldIs
<1>6. Alive(World') = Alive(World)
  BY <1>5 DEF Alive
<1>7. WorldFits(World')
  BY <1>1, <1>5, <1>6 DEF WorldFits
<1>8. Sound(World', told', missed')
  BY <1>4, <1>7 DEF Sound
<1> QED BY <1>8 DEF SceneInv

\* The fields of the world of the next state.
LEMMA NextWorldIs ==
    /\ World'.nodes = nodes' /\ World'.edges = edges' /\ World'.own = own'
    /\ World'.unseen = unseen' /\ World'.removed = removed'
  BY DEF World

LEMMA SceneAppeared ==
    ASSUME SceneInv, emit_appeared
    PROVE  SceneInv'
<1> DEFINE a == {e \in unseen : HasIds(e)}
<1>1. /\ UNCHANGED <<nodes, edges, own, spawned, selected, meant, unnamed, index, removed>>
      /\ unseen' = {} /\ cache' = cache \cup a /\ told' = told \cup a
      /\ missed' = missed \cup (unseen \ a)
  BY DEF emit_appeared, scene, tools
<1>2. a \subseteq unseen
  OBVIOUS
<1> HIDE DEF a
<1>3. WorldFits(World) /\ ToldFits(World, told, missed) /\ cache = told
  BY DEF SceneInv, Sound
<1>4. Alive(World') = Alive(World)
  BY <1>1, WorldIs, NextWorldIs DEF Alive
<1>5. ToldFits(World', told', missed')
  BY <1>1, <1>2, <1>3, <1>4, WorldIs, NextWorldIs DEF ToldFits, WorldFits
<1> QED BY <1>1, <1>3, <1>5, SceneEmitted

LEMMA SceneRemoved ==
    ASSUME SceneInv, emit_removed
    PROVE  SceneInv'
<1>1. /\ UNCHANGED <<nodes, edges, own, spawned, selected, meant, unnamed, index, unseen, missed>>
      /\ removed' = {} /\ cache' = cache \ (removed \cap cache)
      /\ told' = told \ (removed \cap cache)
  BY DEF emit_removed, scene, tools, CachedIds
<1>3. WorldFits(World) /\ ToldFits(World, told, missed) /\ cache = told
  BY DEF SceneInv, Sound
<1>4. Alive(World') = Alive(World)
  BY <1>1, WorldIs, NextWorldIs DEF Alive
<1>5. ToldFits(World', told', missed')
  BY <1>1, <1>3, <1>4, WorldIs, NextWorldIs DEF ToldFits, WorldFits
<1> QED BY <1>1, <1>3, <1>5, SceneEmitted

LEMMA SceneSynced ==
    ASSUME SceneInv, sync
    PROVE  SceneInv'
<1> DEFINE w == [World EXCEPT !.unnamed = {}]
<1>1. PICK b : \E n \in Remote(w, b) : /\ Becomes(n.world)
                                       /\ index' = n.index \cap (n.world.nodes \cup DOMAIN n.world.edges)
  BY DEF sync
<1>2. PICK n \in Remote(w, b) : /\ Becomes(n.world)
                                /\ index' = n.index \cap (n.world.nodes \cup DOMAIN n.world.edges)
  BY <1>1
<1>3. Sound(w, told, missed)
  BY NamedSound DEF SceneInv
<1> HIDE DEF w
<1> DEFINE f == [w EXCEPT !.spawned = @ + 1, !.nodes = @ \cup {w.spawned + 1}]
           Cuts(e) == Despawned(w, {e} \cup {x \in DOMAIN w.edges : e \in Range(w.edges[x])})
<1>f. Sound(f, told, missed)
  BY <1>3, ForeignSound
<1>r. \/ n \in {[world |-> w, index |-> b]}
      \/ n \in {[world |-> f, index |-> b \cup {w.spawned + 1}]}
      \/ n \in {[world |-> Cuts(e), index |-> b] : e \in b \cap (w.nodes \cup DOMAIN w.edges)}
  <2>1. Remote(w, b) \subseteq
          {[world |-> w, index |-> b]}
          \cup {[world |-> f, index |-> b \cup {w.spawned + 1}]}
          \cup {[world |-> Cuts(e), index |-> b] : e \in b \cap (w.nodes \cup DOMAIN w.edges)}
    BY Zenon DEF Remote
  <2> HIDE DEF f, Cuts
  <2> QED BY <1>2, <2>1
<1>c. \A e : \E es : Cuts(e) = Despawned(w, es)
  OBVIOUS
<1> HIDE DEF f, Cuts
<1>4. n.world = w \/ n.world = f \/ \E es : n.world = Despawned(w, es)
  <2>1. CASE n \in {[world |-> w, index |-> b]}
    BY <2>1
  <2>2. CASE n \in {[world |-> f, index |-> b \cup {w.spawned + 1}]}
    BY <2>2
  <2>3. CASE n \in {[world |-> Cuts(e), index |-> b] : e \in b \cap (w.nodes \cup DOMAIN w.edges)}
    <3>1. PICK e : n.world = Cuts(e)
      BY <2>3
    <3> QED BY <1>c, <3>1
  <2> QED BY <1>r, <2>1, <2>2, <2>3
<1>5. Sound(n.world, told, missed)
  <2>1. CASE n.world = w
    BY <1>3, <2>1
  <2>2. CASE n.world = f
    BY <1>f, <2>2
  <2>3. CASE \E es : n.world = Despawned(w, es)
    BY <1>3, <2>3, DespawnSound
  <2> QED BY <1>4, <2>1, <2>2, <2>3
<1> DEFINE v == n.world
<1>6. v \in Worlds /\ WorldFits(v) /\ Becomes(v) /\ index' \subseteq v.nodes \cup DOMAIN v.edges
  BY <1>2, <1>5 DEF Sound
<1>7. Sound(v, told, missed)
  BY <1>5
<1> HIDE DEF v
<1>8. World' = v /\ spawned' = v.spawned
  BY <1>6, BecomesWorld DEF Becomes
<1>9. index' \subseteq Alive(v) /\ Alive(v) \in SUBSET Nat
  BY <1>6, AliveAre DEF Alive
<1>10. \A e \in index' : e \in Nat /\ e <= spawned'
  BY <1>6, <1>8, <1>9 DEF WorldFits
<1>11. UNCHANGED <<told, missed, cache>>
  BY DEF sync
<1> QED BY <1>7, <1>8, <1>10, <1>11 DEF SceneInv

\* What a command means is a set of frames that there are or were.
LEMMA MeaningFits ==
    ASSUME SceneInv, NEW cmd, Answerable(cmd)
    PROVE  LET m == Meaning(cmd, meant)
           IN  m \in Meanings /\ (m # None => \A e \in m : e <= spawned)
<1>1. meant \in Meanings /\ (meant # None => \A e \in meant : e <= spawned)
  BY WorldIs, WorldsAre DEF SceneInv, Sound, WorldFits
<1>2. CASE cmd.cmd = "Select"
  <2>1. Meaning(cmd, meant) = {cmd.target} /\ cmd.target \in index
    BY <1>2 DEF Meaning, Answerable
  <2> QED BY <2>1 DEF SceneInv, Meanings
<1>3. CASE cmd.cmd = "Toggle" /\ meant # None
  <2> DEFINE m == SymDiff(meant, {cmd.target})
  <2>1. Meaning(cmd, meant) = m /\ cmd.target \in index
    BY <1>3 DEF Meaning, Answerable
  <2>2. m \subseteq meant \cup {cmd.target}
    BY DEF SymDiff
  <2> HIDE DEF m
  <2>3. meant \in SUBSET Nat
    BY <1>1, <1>3, NoneIsNoSet
  <2>4. m \in SUBSET Nat /\ \A e \in m : e <= spawned
    BY <1>1, <1>3, <2>1, <2>2, <2>3 DEF SceneInv
  <2> QED BY <2>1, <2>4 DEF Meanings
<1>4. CASE cmd.cmd = "ClearSelection"
  <2>1. Meaning(cmd, meant) = {}
    BY <1>4 DEF Meaning
  <2> QED BY <2>1 DEF Meanings
<1>5. CASE ~ (cmd.cmd = "Select") /\ ~ (cmd.cmd = "Toggle" /\ meant # None) /\ ~ (cmd.cmd = "ClearSelection")
  <2>1. Meaning(cmd, meant) = meant
    BY <1>5 DEF Meaning
  <2> QED BY <1>1, <2>1
<1> QED BY <1>2, <1>3, <1>4, <1>5

LEMMA SceneSelected ==
    ASSUME SceneInv, handle_select_commands
    PROVE  SceneInv'
<1>1. selected \subseteq nodes /\ meant \in Meanings /\ (meant # None => \A e \in meant : e <= spawned)
  BY WorldIs, WorldsAre DEF SceneInv, Sound, WorldFits
<1>2. UNCHANGED <<scene, selected, views>>
  BY DEF handle_select_commands
<1>3. meant' \in Meanings /\ (meant' # None => \A e \in meant' : e <= spawned)
  <2>1. CASE UNCHANGED meant
    BY <1>1, <2>1
  <2>2. CASE meant' = None
    BY <2>2 DEF Meanings
  <2>3. CASE \E k \in Marking : meant' = Meaning(select[k], meant)
    <3>1. PICK k \in Marking : meant' = Meaning(select[k], meant)
      BY <2>3
    <3>2. Answerable(select[k])
      BY DEF Marking
    <3> QED BY <3>1, <3>2, MeaningFits
  <2> QED BY <2>1, <2>2, <2>3 DEF handle_select_commands
<1> QED BY <1>1, <1>2, <1>3, SceneMarked DEF scene, views

LEMMA SceneSteps ==
    ASSUME SceneInv, BusInv, [EditorsNext]_<<running, vars, layerVars, gridVars>>
    PROVE  SceneInv'
<1>1. CASE UNCHANGED vars
  BY <1>1, SceneSame DEF vars, tools, views
<1>2. CASE External \/ Click \/ Cancel \/ dispatch_app_commands \/ handle_delete_key
           \/ handle_create_commands
  <2>1. UNCHANGED <<scene, selected, meant, views>>
    BY <1>2 DEF External, Click, Cancel, dispatch_app_commands, handle_delete_key,
                handle_create_commands, tools
  <2> QED BY <2>1, SceneSame DEF views
<1>3. CASE Next
  BY <1>2, <1>3, SceneFrames, SceneFlushed, SceneSelected, SceneAppeared, SceneRemoved, SceneSynced
     DEF Next, BusInv
<1> QED BY <1>1, <1>3 DEF EditorsNext, Desktop, Layers, Grid

-----------------------------------------------------------------------------
(* The scene: the theorems. *)

\* Whatever this client, its users and others spawn, remove and select, in
\* whatever order the systems and the sync points run, the entities, the
\* selection and what is still to be told fit each other (scene.rs, select.rs).
THEOREM SceneInvHolds == EditorsSpec => []SceneInv
<1>1. EditorsInit => SceneInv
  BY SceneInitially DEF EditorsInit
<1>2. SceneInv /\ BusInv /\ [EditorsNext]_<<running, vars, layerVars, gridVars>> => SceneInv'
  BY SceneSteps
<1> QED BY <1>1, <1>2, BusInvHolds, PTL DEF EditorsSpec

\* What an observer was told appeared and not removed is there, or its removal
\* is about to be told; and it was told of all that this client spawned, but
\* for what an emitter met before it had an id (scene.rs, ExternalIdCache).
THEOREM EventsDoTell == EditorsSpec => []EventsTellTheScene
<1>1. SceneInv => EventsTellTheScene
  <2> SUFFICES ASSUME SceneInv PROVE EventsTellTheScene
    OBVIOUS
  <2>1. ToldFits(World, told, missed)
    BY DEF SceneInv, Sound
  <2> QED BY <2>1, WorldIs DEF ToldFits, Alive, EventsTellTheScene, Living
<1> QED BY <1>1, SceneInvHolds, PTL

-----------------------------------------------------------------------------
(* The selection: where the queue leads it. *)

\* What a command makes of a selection, whatever lives.
Drawn(x, c) ==
    CASE c.op = "insert" -> x \cup c.entity
      [] c.op = "remove" -> x \ c.entity
      [] OTHER -> x

Trail(X, s, x, y, n) ==
    /\ X \in [0..Len(s) -> SUBSET (0..n)] /\ X[0] = x /\ X[Len(s)] = y
    /\ \A k \in 1..Len(s) : X[k] = Drawn(X[k-1], s[k])

\* The commands s lead from the selection x to y.
Leads(s, x, y, n) == \E X : Trail(X, s, x, y, n)

LEMMA LeadsNowhere ==
    ASSUME NEW n, NEW x \in SUBSET (0..n), NEW s, Queues(s, PlainOp)
    PROVE  Leads(s, x, x, n)
<1> DEFINE X == [k \in 0..Len(s) |-> x]
<1>1. Len(s) \in Nat
  BY DEF Queues, Listed
<1>2. X \in [0..Len(s) -> SUBSET (0..n)] /\ X[0] = x /\ X[Len(s)] = x
  BY <1>1
<1>3. ASSUME NEW k \in 1..Len(s) PROVE X[k] = Drawn(X[k-1], s[k])
  <2>1. k \in 0..Len(s) /\ k - 1 \in 0..Len(s)
    BY <1>1
  <2>2. X[k] = x /\ X[k-1] = x
    BY <2>1
  <2>3. s[k].op \in PlainOp
    BY DEF Queues
  <2> HIDE DEF X
  <2> QED BY <2>2, <2>3 DEF Drawn, PlainOp
<1> HIDE DEF X
<1>4. Trail(X, s, x, x, n)
  BY <1>2, <1>3 DEF Trail
<1> QED BY <1>4 DEF Leads

LEMMA LeadsStraight ==
    ASSUME NEW n, NEW x, NEW y, Leads(<<>>, x, y, n)
    PROVE  x = y
<1>1. Len(<<>>) = 0
  OBVIOUS
<1> QED BY <1>1 DEF Leads, Trail

LEMMA LeadsOn ==
    ASSUME NEW n, NEW s, NEW t, Listed(s), Listed(t), NEW x, NEW y, NEW z,
           Leads(s, x, y, n), Leads(t, y, z, n)
    PROVE  Leads(s \o t, x, z, n)
<1> DEFINE a == Len(s)
           b == Len(t)
           q == s \o t
<1>1. PICK X : Trail(X, s, x, y, n)
  BY DEF Leads
<1>2. PICK Y : Trail(Y, t, y, z, n)
  BY DEF Leads
<1> DEFINE Z == [k \in 0..(a + b) |-> IF k <= a THEN X[k] ELSE Y[k - a]]
<1>3. a \in Nat /\ b \in Nat
  BY DEF Listed
<1>4. /\ Len(q) = a + b /\ \A k \in 1..a : q[k] = s[k]
      /\ \A k \in 1..b : q[a + k] = t[k]
  BY ConcatOf
<1>5. /\ X \in [0..a -> SUBSET (0..n)] /\ X[0] = x /\ X[a] = y
      /\ \A k \in 1..a : X[k] = Drawn(X[k-1], s[k])
  BY <1>1 DEF Trail
<1>6. /\ Y \in [0..b -> SUBSET (0..n)] /\ Y[0] = y /\ Y[b] = z
      /\ \A k \in 1..b : Y[k] = Drawn(Y[k-1], t[k])
  BY <1>2 DEF Trail
<1> HIDE DEF a, b, q
<1>7. Z \in [0..(a + b) -> SUBSET (0..n)] /\ Z[0] = x
  BY <1>3, <1>5, <1>6
<1>8. \A k \in 0..b : Z[a + k] = Y[k]
  <2> TAKE k \in 0..b
  <2>1. CASE k = 0
    BY <1>3, <1>5, <1>6, <2>1
  <2>2. CASE k # 0
    <3>1. a + k \in 0..(a + b) /\ ~ (a + k <= a) /\ (a + k) - a = k
      BY <1>3, <2>2
    <3> QED BY <3>1
  <2> QED BY <2>1, <2>2
<1>9. \A k \in 0..a : Z[k] = X[k]
  BY <1>3
<1> HIDE DEF Z
<1>10. Z[a + b] = z
  BY <1>3, <1>6, <1>8
<1>11. ASSUME NEW k \in 1..(a + b) PROVE Z[k] = Drawn(Z[k-1], q[k])
  <2>1. CASE k <= a
    <3>1. k \in 1..a /\ k \in 0..a /\ k - 1 \in 0..a
      BY <1>3, <2>1
    <3> QED BY <1>4, <1>5, <1>9, <3>1
  <2>2. CASE ~ (k <= a)
    <3> DEFINE j == k - a
    <3>1. j \in 1..b /\ j \in 0..b /\ j - 1 \in 0..b /\ k = a + j /\ k - 1 = a + (j - 1)
      BY <1>3, <2>2
    <3> HIDE DEF j
    <3>2. Z[k] = Y[j] /\ Z[k - 1] = Y[j - 1] /\ q[k] = t[j]
      BY <1>4, <1>8, <3>1
    <3> QED BY <1>6, <3>1, <3>2
  <2> QED BY <2>1, <2>2
<1>12. Trail(Z, q, x, z, n)
  BY <1>4, <1>7, <1>10, <1>11 DEF Trail
<1> QED BY <1>12 DEF Leads, q

LEMMA LeadsOne ==
    ASSUME NEW n, NEW x \in SUBSET (0..n), NEW y \in SUBSET (0..n), NEW op, NEW e,
           y = Drawn(x, [op |-> op, entity |-> e])
    PROVE  Leads(Queue(op, e), x, y, n)
<1> DEFINE s == Queue(op, e)
           X == [k \in 0..1 |-> IF k = 0 THEN x ELSE y]
<1>1. Len(s) = 1 /\ s[1] = [op |-> op, entity |-> e]
  <2>1. op \in {op}
    OBVIOUS
  <2> QED BY <2>1, QueueOf
<1> HIDE DEF s
<1>2. X \in [0..1 -> SUBSET (0..n)] /\ X[0] = x /\ X[1] = y
  OBVIOUS
<1> HIDE DEF X
<1>3. \A k \in 1..1 : X[k] = Drawn(X[k-1], s[k])
  <2> TAKE k \in 1..1
  <2>1. k = 1 /\ k - 1 = 0
    OBVIOUS
  <2> QED BY <1>1, <1>2, <2>1
<1>4. Trail(X, s, x, y, n)
  BY <1>1, <1>2, <1>3 DEF Trail
<1> QED BY <1>4 DEF Leads, s

\* The commands s lead from the selection x to what m means among the nodes N.
Aims(s, x, m, N, n) ==
    m # None => \E y \in SUBSET (0..n) : Leads(s, x, y, n) /\ y \cap N = m \cap N

LEMMA AimsOn ==
    ASSUME NEW n, NEW x, NEW m, NEW N, NEW s, NEW t, Listed(s), Queues(t, PlainOp), Aims(s, x, m, N, n)
    PROVE  Aims(s \o t, x, m, N, n)
<1> SUFFICES ASSUME m # None
             PROVE  \E y \in SUBSET (0..n) : Leads(s \o t, x, y, n) /\ y \cap N = m \cap N
  BY DEF Aims
<1>1. PICK y \in SUBSET (0..n) : Leads(s, x, y, n) /\ y \cap N = m \cap N
  BY DEF Aims
<1>2. Leads(t, y, y, n)
  BY LeadsNowhere
<1>3. Leads(s \o t, x, y, n)
  BY <1>1, <1>2, LeadsOn DEF Queues
<1> QED BY <1>1, <1>3

LEMMA AimsAtRest ==
    ASSUME NEW n, NEW x \in SUBSET (0..n), NEW m, NEW N, NEW s, Queues(s, PlainOp), x \subseteq N,
           m # None => x = m \cap N
    PROVE  Aims(s, x, m, N, n)
<1>1. Leads(s, x, x, n)
  BY LeadsNowhere
<1> QED BY <1>1 DEF Aims

LEMMA RestsWhereAimed ==
    ASSUME NEW n, NEW x, NEW m, NEW N, x \subseteq N, Aims(<<>>, x, m, N, n), m # None
    PROVE  x = m \cap N
<1>1. PICK y \in SUBSET (0..n) : Leads(<<>>, x, y, n) /\ y \cap N = m \cap N
  BY DEF Aims
<1>2. x = y
  BY <1>1, LeadsStraight
<1> QED BY <1>1, <1>2

\* The commands that a marking command queues lead to what it means.
LEMMA MarkingAims ==
    ASSUME NEW n, NEW N, NEW x \in SUBSET (0..n), x = selected, x \subseteq N, N \subseteq 0..n,
           meant # None => x = meant \cap N /\ meant \subseteq 0..n,
           NEW cmd, cmd.cmd \in SelectKind, cmd.cmd # "DeleteTargets",
           cmd.cmd \in {"Select", "Toggle"} => cmd.target \in 0..n
    PROVE  Aims(SelectCommands(cmd), x, Meaning(cmd, meant), N, n)
<1> DEFINE m == Meaning(cmd, meant)
           e == cmd.target
<1>1. CASE cmd.cmd = "Select"
  <2>1. m = {e} /\ e \in 0..n
    BY <1>1 DEF Meaning
  <2>2. SelectCommands(cmd) = Queue("remove", x) \o Queue("insert", {e})
    BY <1>1 DEF SelectCommands
  <2> HIDE DEF m, e
  <2>3. {} \in SUBSET (0..n) /\ {e} \in SUBSET (0..n)
    BY <2>1
  <2>4. {} = Drawn(x, [op |-> "remove", entity |-> x])
    BY DEF Drawn
  <2>5. {e} = Drawn({}, [op |-> "insert", entity |-> {e}])
    BY DEF Drawn
  <2>6. Leads(Queue("remove", x), x, {}, n)
    BY <2>3, <2>4, LeadsOne
  <2>7. Leads(Queue("insert", {e}), {}, {e}, n)
    BY <2>3, <2>5, LeadsOne
  <2>8. Listed(Queue("remove", x)) /\ Listed(Queue("insert", {e}))
    <3>1. "remove" \in Op /\ "insert" \in Op
      BY DEF Op
    <3> QED BY <3>1, QueueOf DEF Queues
  <2>9. Leads(SelectCommands(cmd), x, {e}, n)
    BY <2>2, <2>6, <2>7, <2>8, LeadsOn
  <2> QED BY <2>1, <2>3, <2>9 DEF Aims, m
<1>2. CASE cmd.cmd = "Toggle" /\ meant = None
  <2>1. m = None
    BY <1>2 DEF Meaning
  <2> QED BY <2>1 DEF Aims
<1>3. CASE cmd.cmd = "Toggle" /\ meant # None /\ e \in x
  <2>1. m = SymDiff(meant, {e}) /\ SelectCommands(cmd) = Queue("remove", {e})
    BY <1>3 DEF Meaning, SelectCommands
  <2> DEFINE y == x \ {e}
  <2>2. y = Drawn(x, [op |-> "remove", entity |-> {e}]) /\ y \in SUBSET (0..n)
    BY DEF Drawn
  <2>3. y \cap N = m \cap N
    BY <1>3, <2>1 DEF SymDiff
  <2> HIDE DEF y, m, e
  <2>4. Leads(SelectCommands(cmd), x, y, n)
    BY <2>1, <2>2, LeadsOne
  <2> QED BY <2>2, <2>3, <2>4 DEF Aims, m
<1>4. CASE cmd.cmd = "Toggle" /\ meant # None /\ e \notin x
  <2>1. m = SymDiff(meant, {e}) /\ SelectCommands(cmd) = Queue("insert", {e}) /\ e \in 0..n
    BY <1>4 DEF Meaning, SelectCommands
  <2> DEFINE y == x \cup {e}
  <2>2. y = Drawn(x, [op |-> "insert", entity |-> {e}])
    BY DEF Drawn
  <2>5. y \in SUBSET (0..n)
    BY <2>1
  <2>3. y \cap N = m \cap N
    BY <1>4, <2>1 DEF SymDiff
  <2> HIDE DEF y, m, e
  <2>4. Leads(SelectCommands(cmd), x, y, n)
    BY <2>1, <2>2, <2>5, LeadsOne
  <2> QED BY <2>5, <2>3, <2>4 DEF Aims, m
<1>5. CASE cmd.cmd = "ClearSelection"
  <2>1. m = {} /\ SelectCommands(cmd) = Queue("remove", x)
    BY <1>5 DEF Meaning, SelectCommands
  <2>2. {} = Drawn(x, [op |-> "remove", entity |-> x]) /\ {} \in SUBSET (0..n)
    BY DEF Drawn
  <2>4. Leads(SelectCommands(cmd), x, {}, n)
    BY <2>1, <2>2, LeadsOne
  <2> HIDE DEF m
  <2> QED BY <2>1, <2>2, <2>4 DEF Aims, m
<1> QED BY <1>1, <1>2, <1>3, <1>4, <1>5 DEF SelectKind


LEMMA ApplyCommandGoes ==
  ASSUME NEW U, NEW b \in U, NEW s, Listed(s),
         \A u \in U, i \in 1..Len(s) : ApplyCommand(u, s[i]) \in U,
         NEW D, b \in D[0],
         \A k \in 1..Len(s) : \A u \in U : u \in D[k-1] => ApplyCommand(u, s[k]) \in D[k]
  PROVE  FoldLeft(ApplyCommand, b, s) \in U /\ FoldLeft(ApplyCommand, b, s) \in D[Len(s)]
<1> DEFINE n == Len(s)
           Folds(f) == f = [S \in SUBSET (1..n) |->
                              IF S = {} THEN b ELSE ApplyCommand(f[S \ {Max(S)}], s[Max(S)])]
           iter == CHOOSE f : Folds(f)
           step == [x \in U \X (1..n) |-> ApplyCommand(x[1], s[x[2]])]
<1>1. n \in Nat /\ DOMAIN s = 1..n
  BY DEF Listed
<1>2. FoldLeft(ApplyCommand, b, s) = iter[1..n]
  BY <1>1 DEF FoldLeft, MapThenFoldSet, Max
<1>3. step \in [U \X (1..n) -> U]
  BY <1>1
<1>d. \A k \in 1..n : \A u \in U : u \in D[k-1] => ApplyCommand(u, s[k]) \in D[k]
  OBVIOUS
<1> HIDE DEF n
<1>4. PICK f \in [SUBSET (1..n) -> U] : Iterated(f, step, b, n)
  BY <1>1, <1>3, Iterates
<1>5. ASSUME NEW S \in SUBSET (1..n), S # {}
      PROVE  step[<<f[S \ {Max(S)}], Max(S)>>] = ApplyCommand(f[S \ {Max(S)}], s[Max(S)])
  <2>1. S \in SUBSET Nat /\ \A x \in S : x <= n
    BY <1>1
  <2>2. Max(S) \in S
    BY <1>1, <1>5, <2>1, MaxOfBounded
  <2>3. <<f[S \ {Max(S)}], Max(S)>> \in U \X (1..n)
    BY <2>2
  <2> QED BY <2>3
<1> HIDE DEF step
<1>6. Folds(f)
  BY <1>4, <1>5 DEF Iterated
<1>7. Folds(iter)
  <2> HIDE DEF Folds
  <2> QED BY <1>6
<1> HIDE DEF iter
<1>8. iter[1..0] = b
  <2>1. 1..0 = {} /\ {} \in SUBSET (1..n)
    OBVIOUS
  <2> QED BY <1>7, <2>1
<1>9. ASSUME NEW k \in 1..n PROVE iter[1..k] = ApplyCommand(iter[1..(k-1)], s[k])
  <2>1. 1..k # {} /\ 1..k \in SUBSET (1..n) /\ Max(1..k) = k /\ (1..k) \ {k} = 1..(k-1)
    BY <1>1, Prefix
  <2> QED BY <1>7, <2>1
<1> HIDE DEF Folds
<1>10. \A k \in 0..n : iter[1..k] \in U /\ iter[1..k] \in D[k]
  <2> DEFINE T == {k \in 0..n : iter[1..k] \in U /\ iter[1..k] \in D[k]}
  <2>1. 0 \in T
    BY <1>1, <1>8
  <2>2. ASSUME NEW k \in 0..n-1, k \in T PROVE k + 1 \in T
    <3>1. k + 1 \in 1..n /\ (k + 1) - 1 = k
      BY <1>1
    <3>2. iter[1..(k+1)] = ApplyCommand(iter[1..k], s[k+1])
      BY <1>1, <1>9, <3>1
    <3>3. iter[1..k] \in U /\ iter[1..k] \in D[k]
      BY <2>2
    <3>4. iter[1..(k+1)] \in U
      BY <3>1, <3>2, <3>3 DEF n
    <3>5. iter[1..(k+1)] \in D[k+1]
      <4> DEFINE j == k + 1
      <4>1. j \in 1..n /\ j - 1 = k
        BY <3>1
      <4>2. iter[1..k] \in D[j - 1] /\ iter[1..j] = ApplyCommand(iter[1..k], s[j])
        BY <3>2, <3>3, <4>1
      <4> HIDE DEF j
      <4>3. iter[1..j] \in D[j]
        BY <1>d, <3>3, <4>1, <4>2
      <4> QED BY <4>3 DEF j
    <3> QED BY <1>1, <3>1, <3>4, <3>5
  <2> HIDE DEF T
  <2>3. \A k \in 0..n : k \in T
    BY <1>1, <2>1, <2>2, UpTo
  <2> QED BY <2>3 DEF T
<1>11. n \in 0..n
  BY <1>1
<1>12. iter[1..n] \in U /\ iter[1..n] \in D[n]
  BY <1>10, <1>11
<1> QED BY <1>2, <1>12 DEF n

LEMMA SelectingGoes ==
  ASSUME NEW U, NEW b \in U, NEW s, Listed(s),
         \A u \in U, i \in 1..Len(s) : Selecting(u, s[i]) \in U,
         NEW D, b \in D[0],
         \A k \in 1..Len(s) : \A u \in U : u \in D[k-1] => Selecting(u, s[k]) \in D[k]
  PROVE  FoldLeft(Selecting, b, s) \in U /\ FoldLeft(Selecting, b, s) \in D[Len(s)]
<1> DEFINE n == Len(s)
           Folds(f) == f = [S \in SUBSET (1..n) |->
                              IF S = {} THEN b ELSE Selecting(f[S \ {Max(S)}], s[Max(S)])]
           iter == CHOOSE f : Folds(f)
           step == [x \in U \X (1..n) |-> Selecting(x[1], s[x[2]])]
<1>1. n \in Nat /\ DOMAIN s = 1..n
  BY DEF Listed
<1>2. FoldLeft(Selecting, b, s) = iter[1..n]
  BY <1>1 DEF FoldLeft, MapThenFoldSet, Max
<1>3. step \in [U \X (1..n) -> U]
  BY <1>1
<1>d. \A k \in 1..n : \A u \in U : u \in D[k-1] => Selecting(u, s[k]) \in D[k]
  OBVIOUS
<1> HIDE DEF n
<1>4. PICK f \in [SUBSET (1..n) -> U] : Iterated(f, step, b, n)
  BY <1>1, <1>3, Iterates
<1>5. ASSUME NEW S \in SUBSET (1..n), S # {}
      PROVE  step[<<f[S \ {Max(S)}], Max(S)>>] = Selecting(f[S \ {Max(S)}], s[Max(S)])
  <2>1. S \in SUBSET Nat /\ \A x \in S : x <= n
    BY <1>1
  <2>2. Max(S) \in S
    BY <1>1, <1>5, <2>1, MaxOfBounded
  <2>3. <<f[S \ {Max(S)}], Max(S)>> \in U \X (1..n)
    BY <2>2
  <2> QED BY <2>3
<1> HIDE DEF step
<1>6. Folds(f)
  BY <1>4, <1>5 DEF Iterated
<1>7. Folds(iter)
  <2> HIDE DEF Folds
  <2> QED BY <1>6
<1> HIDE DEF iter
<1>8. iter[1..0] = b
  <2>1. 1..0 = {} /\ {} \in SUBSET (1..n)
    OBVIOUS
  <2> QED BY <1>7, <2>1
<1>9. ASSUME NEW k \in 1..n PROVE iter[1..k] = Selecting(iter[1..(k-1)], s[k])
  <2>1. 1..k # {} /\ 1..k \in SUBSET (1..n) /\ Max(1..k) = k /\ (1..k) \ {k} = 1..(k-1)
    BY <1>1, Prefix
  <2> QED BY <1>7, <2>1
<1> HIDE DEF Folds
<1>10. \A k \in 0..n : iter[1..k] \in U /\ iter[1..k] \in D[k]
  <2> DEFINE T == {k \in 0..n : iter[1..k] \in U /\ iter[1..k] \in D[k]}
  <2>1. 0 \in T
    BY <1>1, <1>8
  <2>2. ASSUME NEW k \in 0..n-1, k \in T PROVE k + 1 \in T
    <3>1. k + 1 \in 1..n /\ (k + 1) - 1 = k
      BY <1>1
    <3>2. iter[1..(k+1)] = Selecting(iter[1..k], s[k+1])
      BY <1>1, <1>9, <3>1
    <3>3. iter[1..k] \in U /\ iter[1..k] \in D[k]
      BY <2>2
    <3>4. iter[1..(k+1)] \in U
      BY <3>1, <3>2, <3>3 DEF n
    <3>5. iter[1..(k+1)] \in D[k+1]
      <4> DEFINE j == k + 1
      <4>1. j \in 1..n /\ j - 1 = k
        BY <3>1
      <4>2. iter[1..k] \in D[j - 1] /\ iter[1..j] = Selecting(iter[1..k], s[j])
        BY <3>2, <3>3, <4>1
      <4> HIDE DEF j
      <4>3. iter[1..j] \in D[j]
        BY <1>d, <3>3, <4>1, <4>2
      <4> QED BY <4>3 DEF j
    <3> QED BY <1>1, <3>1, <3>4, <3>5
  <2> HIDE DEF T
  <2>3. \A k \in 0..n : k \in T
    BY <1>1, <2>1, <2>2, UpTo
  <2> QED BY <2>3 DEF T
<1>11. n \in 0..n
  BY <1>1
<1>12. iter[1..n] \in U /\ iter[1..n] \in D[n]
  BY <1>10, <1>11
<1> QED BY <1>2, <1>12 DEF n

\* On the way from the world now to the one flushed, the selection is to be x.
Base(w, x) ==
    /\ w.selected = x \cap w.nodes
    /\ w.meant # None => w.meant \cap w.nodes = meant \cap w.nodes
    /\ spawned <= w.spawned /\ \A e \in w.nodes : e \in nodes \/ e > spawned

LEMMA BaseKept ==
    ASSUME NEW w \in Worlds, WorldFits(w), spawned \in Nat, NEW x \in SUBSET (0..spawned), Base(w, x),
           meant \subseteq 0..spawned, NEW c, c.op \in Op
    PROVE  Base(ApplyCommand(w, c), Drawn(x, c))
<1> DEFINE v == ApplyCommand(w, c)
<1>0. w.spawned \in Nat /\ w.nodes \in SUBSET Nat
  BY WorldsAre
<1>1. CASE c.op = "despawn"
  <2>1. /\ v.nodes = w.nodes \ c.entity /\ v.spawned = w.spawned
        /\ v.selected = w.selected \ c.entity /\ v.meant = Unmeant(w.meant, c.entity)
    BY <1>1, DespawnedIs DEF ApplyCommand
  <2>2. v.meant # None => w.meant # None /\ v.meant = w.meant \ c.entity
    BY <2>1 DEF Unmeant
  <2>4. Drawn(x, c) = x
    BY <1>1 DEF Drawn
  <2> HIDE DEF v
  <2> QED BY <2>1, <2>2, <2>4 DEF Base, v
<1>2. CASE c.op = "insert"
  <2> DEFINE l == w.selected \cup (c.entity \cap w.nodes)
  <2>1. v = [w EXCEPT !.selected = l]
    BY <1>2 DEF ApplyCommand
  <2>2. l \in SUBSET Nat /\ l = w.selected \cup (c.entity \cap w.nodes)
    BY WorldsAre
  <2> HIDE DEF l
  <2>3. v.nodes = w.nodes /\ v.spawned = w.spawned /\ v.selected = l /\ v.meant = w.meant
    BY <2>1, <2>2, MarkedIs
  <2>4. Drawn(x, c) = x \cup c.entity
    BY <1>2 DEF Drawn
  <2> HIDE DEF v
  <2> QED BY <2>2, <2>3, <2>4 DEF Base, v
<1>3. CASE c.op = "remove"
  <2> DEFINE l == w.selected \ c.entity
  <2>1. v = [w EXCEPT !.selected = l]
    BY <1>3 DEF ApplyCommand
  <2>2. l \in SUBSET Nat /\ l = w.selected \ c.entity
    BY WorldsAre
  <2> HIDE DEF l
  <2>3. v.nodes = w.nodes /\ v.spawned = w.spawned /\ v.selected = l /\ v.meant = w.meant
    BY <2>1, <2>2, MarkedIs
  <2>4. Drawn(x, c) = x \ c.entity
    BY <1>3 DEF Drawn
  <2> HIDE DEF v
  <2> QED BY <2>2, <2>3, <2>4 DEF Base, v
<1>4. CASE c.op = "spawn node"
  <2> DEFINE u == [Spawned(w) EXCEPT !.nodes = @ \cup {w.spawned + 1}]
             e == w.spawned + 1
  <2>1. v = u
    BY <1>4 DEF ApplyCommand
  <2>2. /\ u.nodes = w.nodes \cup {e} /\ u.spawned = e /\ u.selected = w.selected
        /\ u.meant = w.meant
    BY NodeSpawnedIs
  <2>3. e \in Nat /\ e > w.spawned
    BY <1>0
  <2> HIDE DEF u, e
  <2>4. Drawn(x, c) = x
    BY <1>4 DEF Drawn
  <2>5. e > spawned
    BY <1>0, <2>3 DEF Base
  <2>6. e \notin x /\ e \notin meant
    BY <2>3, <2>5
  <2>7. w.meant # None => e \notin w.meant
    BY <1>0, <2>3 DEF Base, WorldFits
  <2>8. spawned <= e
    BY <2>3, <2>5
  <2> HIDE DEF v
  <2> QED BY <2>1, <2>2, <2>4, <2>5, <2>6, <2>7, <2>8 DEF Base, v
<1>5. CASE c.op = "spawn edge"
  <2> DEFINE ends == [k \in 1..2 |-> IF c.entity[k] \in w.nodes THEN c.entity[k] ELSE None]
             u == [Spawned(w) EXCEPT !.edges = [e \in DOMAIN @ \cup {w.spawned + 1} |->
                                                  IF e \in DOMAIN @ THEN @[e] ELSE ends]]
  <2>1. v = u
    BY <1>5 DEF ApplyCommand
  <2>2. ends \in [1..2 -> Nat \cup {None}]
    BY WorldsAre
  <2> HIDE DEF ends
  <2>3. u.nodes = w.nodes /\ u.spawned = w.spawned + 1 /\ u.selected = w.selected /\ u.meant = w.meant
    BY <2>2, EdgeSpawnedIs
  <2> HIDE DEF u
  <2>4. Drawn(x, c) = x
    BY <1>5 DEF Drawn
  <2>5. spawned <= w.spawned + 1
    BY <1>0 DEF Base
  <2> HIDE DEF v
  <2> QED BY <2>1, <2>3, <2>4, <2>5 DEF Base, v
<1> QED BY <1>1, <1>2, <1>3, <1>4, <1>5 DEF Op, PlainOp

\* A meaning that is lost stays lost.
LEMMA LostStaysLost ==
    ASSUME NEW w \in Worlds, w.meant = None, NEW c, c.op \in Op
    PROVE  ApplyCommand(w, c).meant = None
<1> DEFINE v == ApplyCommand(w, c)
<1>1. CASE c.op = "despawn"
  BY <1>1, DespawnedIs DEF ApplyCommand, Unmeant
<1>2. CASE c.op = "insert"
  <2> DEFINE l == w.selected \cup (c.entity \cap w.nodes)
  <2>1. v = [w EXCEPT !.selected = l]
    BY <1>2 DEF ApplyCommand
  <2>2. l \in SUBSET Nat
    BY WorldsAre
  <2> HIDE DEF l
  <2> QED BY <2>1, <2>2, MarkedIs
<1>3. CASE c.op = "remove"
  <2> DEFINE l == w.selected \ c.entity
  <2>1. v = [w EXCEPT !.selected = l]
    BY <1>3 DEF ApplyCommand
  <2>2. l \in SUBSET Nat
    BY WorldsAre
  <2> HIDE DEF l
  <2> QED BY <2>1, <2>2, MarkedIs
<1>4. CASE c.op = "spawn node"
  <2> DEFINE u == [Spawned(w) EXCEPT !.nodes = @ \cup {w.spawned + 1}]
  <2>1. v = u
    BY <1>4 DEF ApplyCommand
  <2>2. u.meant = w.meant
    BY NodeSpawnedIs
  <2> HIDE DEF u
  <2> QED BY <2>1, <2>2
<1>5. CASE c.op = "spawn edge"
  <2> DEFINE ends == [k \in 1..2 |-> IF c.entity[k] \in w.nodes THEN c.entity[k] ELSE None]
             u == [Spawned(w) EXCEPT !.edges = [e \in DOMAIN @ \cup {w.spawned + 1} |->
                                                  IF e \in DOMAIN @ THEN @[e] ELSE ends]]
  <2>1. v = u
    BY <1>5 DEF ApplyCommand
  <2>2. ends \in [1..2 -> Nat \cup {None}]
    BY WorldsAre
  <2> HIDE DEF ends
  <2>3. u.meant = w.meant
    BY <2>2, EdgeSpawnedIs
  <2> HIDE DEF u
  <2> QED BY <2>1, <2>3
<1> QED BY <1>1, <1>2, <1>3, <1>4, <1>5 DEF Op, PlainOp

\* What is flushed is selected as it is meant.
LEMMA FlushedAsMeant ==
    ASSUME SceneInv, Worded, Aims(buffer, selected, meant, nodes, spawned), Flushed.meant # None
    PROVE  Flushed.selected = Flushed.meant \cap Flushed.nodes
<1> DEFINE U == {w \in Worlds : Sound(w, told, missed)}
           n == Len(buffer)
<1>1. World \in U
  BY DEF SceneInv, Sound
<1>2. \A w \in U, i \in 1..n : ApplyCommand(w, buffer[i]) \in U
  <2> TAKE w \in U, i \in 1..n
  <2>1. Sound(ApplyCommand(w, buffer[i]), told, missed)
    BY CommandSound DEF Worded, Queues
  <2> QED BY <2>1 DEF Sound
<1>3. Listed(buffer) /\ n \in Nat /\ \A i \in 1..n : buffer[i].op \in Op
  BY DEF Worded, Queues, Listed
<1>4. meant # None
  <2> SUFFICES ASSUME meant = None PROVE FALSE
    OBVIOUS
  <2> DEFINE D == {w \in Worlds : w.meant = None /\ w \in U}
  <2>1. World \in D
    BY <1>1, WorldIs
  <2>2. ASSUME NEW w \in D, NEW i \in 1..n PROVE ApplyCommand(w, buffer[i]) \in D
    <3>1. ApplyCommand(w, buffer[i]) \in U /\ w \in Worlds /\ w.meant = None
      BY <1>2, <2>2
    <3>2. ApplyCommand(w, buffer[i]).meant = None
      BY <1>3, <3>1, LostStaysLost
    <3> QED BY <3>1, <3>2
  <2> HIDE DEF D
  <2>3. Flushed \in D
    BY <1>3, <2>1, <2>2, ApplyCommandStays DEF Flushed
  <2> QED BY <2>3 DEF D
<1>5. /\ selected \subseteq nodes /\ spawned \in Nat /\ nodes \in SUBSET Nat /\ meant \in SUBSET Nat
      /\ \A e \in nodes \cup meant : e <= spawned
  <2>1. World \in Worlds /\ WorldFits(World)
    BY DEF SceneInv, Sound
  <2>2. nodes \subseteq Alive(World)
    BY WorldIs DEF Alive
  <2> QED BY <1>4, <2>1, <2>2, WorldIs, WorldsAre, NoneIsNoSet DEF WorldFits
<1>s. selected = selected \cap nodes /\ spawned <= spawned
  <2>1. selected \subseteq nodes /\ spawned \in Nat
    BY <1>5
  <2>2. selected = selected \cap nodes
    BY <2>1, Zenon
  <2>3. \A i \in Nat : i <= i
    OBVIOUS
  <2> QED BY <2>1, <2>2, <2>3
<1>6. PICK y \in SUBSET (0..spawned) : Leads(buffer, selected, y, spawned) /\ y \cap nodes = meant \cap nodes
  BY <1>4 DEF Aims
<1>7. PICK X : Trail(X, buffer, selected, y, spawned)
  BY <1>6 DEF Leads
<1>8. /\ X \in [0..n -> SUBSET (0..spawned)] /\ X[0] = selected /\ X[n] = y
      /\ \A k \in 1..n : X[k] = Drawn(X[k-1], buffer[k])
  BY <1>7 DEF Trail
<1> DEFINE D == [k \in 0..n |-> {w \in U : Base(w, X[k])}]
<1>9. World \in D[0]
  <2> DEFINE w == World
  <2>w. w.selected = selected /\ w.meant = meant /\ w.nodes = nodes /\ w.spawned = spawned
    BY WorldIs
  <2> HIDE DEF w
  <2>1. Base(w, selected)
    BY <1>s, <2>w DEF Base
  <2> QED BY <1>1, <1>3, <1>8, <2>1 DEF w
<1>10. ASSUME NEW k \in 1..n, NEW w \in U, w \in D[k-1] PROVE ApplyCommand(w, buffer[k]) \in D[k]
  <2>1. k \in 0..n /\ k - 1 \in 0..n
    BY <1>3
  <2>2. Base(w, X[k-1]) /\ X[k-1] \in SUBSET (0..spawned) /\ X[k] = Drawn(X[k-1], buffer[k])
    BY <1>8, <1>10, <2>1
  <2>3. w \in Worlds /\ WorldFits(w)
    BY DEF Sound
  <2>4. meant \subseteq 0..spawned
    BY <1>5
  <2>5. Base(ApplyCommand(w, buffer[k]), X[k])
    BY <1>3, <1>5, <2>2, <2>3, <2>4, BaseKept
  <2>6. ApplyCommand(w, buffer[k]) \in U
    BY <1>2
  <2> HIDE DEF U
  <2> QED BY <2>1, <2>5, <2>6
<1>11. Flushed \in U /\ Flushed \in D[n]
  <2> HIDE DEF U, D
  <2>1. \A k \in 1..n : \A w \in U : w \in D[k-1] => ApplyCommand(w, buffer[k]) \in D[k]
    BY <1>10
  <2> QED BY <1>1, <1>2, <1>3, <1>9, <2>1, ApplyCommandGoes DEF Flushed
<1>12. Base(Flushed, y)
  <2>1. n \in 0..n
    BY <1>3
  <2> HIDE DEF U
  <2> QED BY <1>8, <1>11, <2>1
<1> DEFINE v == Flushed
<1>13. /\ v.selected = y \cap v.nodes /\ v.meant \cap v.nodes = meant \cap v.nodes
       /\ \A e \in v.nodes : e \in nodes \/ e > spawned
  BY <1>12 DEF Base
<1> HIDE DEF v
<1>14. \A e \in y \cup meant : e \in Nat /\ ~ (e > spawned)
  BY <1>5
<1>15. y \cap v.nodes = meant \cap v.nodes
  BY <1>6, <1>13, <1>14
<1> QED BY <1>13, <1>15 DEF v

-----------------------------------------------------------------------------
(* The tools: the invariant. *)

AsMeant == meant # None => selected = meant \cap nodes

\* What is queued leads to what is meant; and until the selection commands of
\* the frame were read, nothing queued is about the selection.
ToolInv ==
    /\ armed # None => tool = "Connect"
    /\ Aims(buffer, selected, meant, nodes, spawned)
    /\ "select" \in waiting => Queues(buffer, PlainOp) /\ AsMeant

LEMMA SceneFacts ==
    ASSUME SceneInv
    PROVE  /\ selected \subseteq nodes /\ spawned \in Nat /\ nodes \subseteq 0..spawned
           /\ selected \in SUBSET (0..spawned) /\ index \subseteq 0..spawned
           /\ meant # None => meant \subseteq 0..spawned
<1>1. World \in Worlds /\ WorldFits(World)
  BY DEF SceneInv, Sound
<1>2. nodes \subseteq Alive(World)
  BY WorldIs DEF Alive
<1>3. /\ selected \subseteq nodes /\ spawned \in Nat /\ nodes \in SUBSET Nat
      /\ \A e \in nodes : e <= spawned
  BY <1>1, <1>2, WorldIs, WorldsAre DEF WorldFits
<1>4. meant # None => meant \in SUBSET Nat /\ \A e \in meant : e <= spawned
  BY <1>1, WorldIs, WorldsAre, NoneIsNoSet DEF WorldFits
<1>5. nodes \subseteq 0..spawned
  BY <1>3
<1>6. index \subseteq 0..spawned
  BY <1>3 DEF SceneInv
<1>7. meant # None => meant \subseteq 0..spawned
  BY <1>3, <1>4
<1> QED BY <1>3, <1>5, <1>6, <1>7

LEMMA ToolInitially ==
    ASSUME Init, SceneInv
    PROVE  ToolInv
<1>1. armed = None /\ selected = {} /\ meant = {} /\ buffer = <<>> /\ waiting = {}
  BY DEF Init
<1>2. Queues(<<>>, PlainOp)
  BY QueuesNone
<1>3. Aims(<<>>, {}, {}, nodes, spawned)
  <2>1. {} \in SUBSET (0..spawned) /\ {} \subseteq nodes /\ {} = {} \cap nodes
    OBVIOUS
  <2> QED BY <1>2, <2>1, AimsAtRest
<1> QED BY <1>1, <1>3 DEF ToolInv

LEMMA ToolSame ==
    ASSUME ToolInv, UNCHANGED <<buffer, selected, meant, nodes, spawned>>, waiting' \subseteq waiting,
           armed' # None => tool' = "Connect"
    PROVE  ToolInv'
<1>1. Aims(buffer', selected', meant', nodes', spawned')
  BY DEF ToolInv
<1>2. "select" \in waiting' => Queues(buffer', PlainOp) /\ AsMeant'
  BY DEF ToolInv, AsMeant
<1> QED BY <1>1, <1>2 DEF ToolInv

\* A system that queues nothing about the selection.
LEMMA ToolQueued ==
    ASSUME ToolInv, UNCHANGED <<selected, meant, nodes, spawned, armed, tool>>,
           waiting' \subseteq waiting,
           Aims(buffer', selected, meant, nodes, spawned),
           "select" \in waiting => Queues(buffer', PlainOp)
    PROVE  ToolInv'
<1>1. Aims(buffer', selected', meant', nodes', spawned')
  OBVIOUS
<1>2. "select" \in waiting' => Queues(buffer', PlainOp) /\ AsMeant'
  BY DEF ToolInv, AsMeant
<1> QED BY <1>1, <1>2 DEF ToolInv

\* With nothing queued, what is selected is what is meant.
LEMMA AtRest ==
    ASSUME ToolInv, SceneInv, buffer = <<>>
    PROVE  AsMeant
  BY SceneFacts, RestsWhereAimed DEF ToolInv, AsMeant

\* Nothing is queued, and the selection is as it is meant.
LEMMA ToolRests ==
    ASSUME SceneInv', buffer' = <<>>, AsMeant', armed' # None => tool' = "Connect"
    PROVE  ToolInv'
<1>1. selected' \in SUBSET (0..spawned') /\ selected' \subseteq nodes'
  <2> DEFINE w == World'
  <2>1. w \in Worlds /\ WorldFits(w)
    BY DEF SceneInv, Sound
  <2>2. w.selected = selected' /\ w.nodes = nodes' /\ w.spawned = spawned'
    BY DEF World
  <2> HIDE DEF w
  <2>3. w.selected \subseteq w.nodes /\ w.nodes \subseteq Alive(w) /\ Alive(w) \subseteq Nat
        /\ w.spawned \in Nat /\ \A e \in Alive(w) : e <= w.spawned
    BY <2>1, AliveAre, WorldsAre DEF WorldFits
  <2>4. \A e \in w.selected : e \in 0..w.spawned
    BY <2>3
  <2> QED BY <2>2, <2>3, <2>4
<1>2. Queues(<<>>, PlainOp)
  BY QueuesNone
<1>3. meant' # None => selected' = meant' \cap nodes'
  BY DEF AsMeant
<1>4. Aims(<<>>, selected', meant', nodes', spawned')
  BY <1>1, <1>2, <1>3, AimsAtRest
<1> QED BY <1>2, <1>4 DEF ToolInv

LEMMA ToolInput ==
    ASSUME ToolInv, External \/ Click \/ Cancel
    PROVE  ToolInv'
<1>1. UNCHANGED <<buffer, selected, meant, nodes, spawned, waiting, tool>>
  BY DEF External, Click, Cancel, Input, tools, scene
<1>2. armed' # None => tool' = "Connect"
  BY <1>1 DEF External, Click, Cancel, ClickForSelect, ClickForConnect, tools, ToolInv
<1> QED BY <1>1, <1>2, ToolSame

LEMMA ToolFrames ==
    ASSUME ToolInv, SceneInv, SceneInv', BeginFrame
    PROVE  ToolInv'
<1>1. buffer = <<>> /\ buffer' = <<>> /\ UNCHANGED <<nodes, spawned>>
  BY DEF BeginFrame, scene
<1>2. AsMeant
  BY <1>1, AtRest
<1>3. CASE next_tool = None
  <2>1. UNCHANGED <<tool, selected, armed, meant>>
    BY <1>3 DEF BeginFrame, tools
  <2>2. AsMeant'
    BY <1>1, <1>2, <2>1 DEF AsMeant
  <2> QED BY <1>1, <2>1, <2>2, ToolRests DEF ToolInv
<1>4. CASE next_tool # None
  <2>1. Leave
    BY <1>4 DEF BeginFrame, StateTransition
  <2>2. AsMeant'
    BY <1>1, <1>2, <2>1 DEF AsMeant, Leave
  <2>3. armed' = None
    BY <2>1 DEF Leave, ToolInv
  <2> QED BY <1>1, <2>2, <2>3, ToolRests
<1> QED BY <1>3, <1>4

LEMMA ToolFlushed ==
    ASSUME ToolInv, SceneInv, SceneInv', Worded, SyncPoint
    PROVE  ToolInv'
<1>1. buffer' = <<>> /\ UNCHANGED <<tool, armed>> /\ Becomes(Flushed)
  BY DEF SyncPoint
<1>2. Flushed.meant # None => Flushed.selected = Flushed.meant \cap Flushed.nodes
  BY FlushedAsMeant DEF ToolInv
<1>3. AsMeant'
  BY <1>1, <1>2 DEF AsMeant, Becomes
<1> QED BY <1>1, <1>3, ToolRests DEF ToolInv

LEMMA HandledAims ==
    ASSUME Worded, Aims(buffer, selected, meant, nodes, spawned)
    PROVE  Aims(FoldLeft(Handled, buffer, app), selected, meant, nodes, spawned)
<1> DEFINE A == Stock({buffer} \cup {GraphCommands(app[i]) : i \in 1..Len(app)})
           D == {q \in Seq(A) : Aims(q, selected, meant, nodes, spawned)}
<1>1. buffer \in D
  <2>1. \A i \in 1..Len(buffer) : buffer[i] \in A
    BY StockHas
  <2> HIDE DEF A
  <2> QED BY <2>1, InSeq DEF Worded, Queues
<1>2. ASSUME NEW d \in D, NEW i \in 1..Len(app) PROVE Handled(d, app[i]) \in D
  <2> DEFINE g == GraphCommands(app[i])
  <2>1. Queues(g, PlainOp)
    BY GraphCommandsFit
  <2>2. \A n \in 1..Len(g) : g[n] \in A
    BY StockHas
  <2>3. Handled(d, app[i]) = d \o g
    BY DEF Handled
  <2> HIDE DEF g, A
  <2>5. g \in Seq(A)
    BY <2>1, <2>2, InSeq DEF Queues
  <2>6. d \o g \in Seq(A)
    BY <2>5
  <2>7. Aims(d \o g, selected, meant, nodes, spawned)
    BY <2>1, AimsOn, ListedOf
  <2> QED BY <2>3, <2>6, <2>7
<1> HIDE DEF D
<1>3. FoldLeft(Handled, buffer, app) \in D
  BY <1>1, <1>2, HandledStays DEF Worded
<1> QED BY <1>3 DEF D

LEMMA ToolDispatched ==
    ASSUME ToolInv, Worded, dispatch_app_commands
    PROVE  ToolInv'
<1>1. /\ UNCHANGED <<selected, meant, nodes, spawned, armed, tool>>
      /\ waiting' \subseteq waiting /\ buffer' = FoldLeft(Handled, buffer, app)
  BY DEF dispatch_app_commands, Runs, scene
<1>2. Aims(buffer', selected, meant, nodes, spawned)
  BY <1>1, HandledAims DEF ToolInv
<1>3. "select" \in waiting => Queues(buffer', PlainOp)
  BY <1>1, HandledFit DEF ToolInv, Worded
<1> QED BY <1>1, <1>2, <1>3, ToolQueued

LEMMA ToolCreated ==
    ASSUME ToolInv, BusInv, handle_create_commands
    PROVE  ToolInv'
<1>1. UNCHANGED <<selected, meant, nodes, spawned, armed, tool>> /\ waiting' \subseteq waiting
  BY DEF handle_create_commands, Runs, scene, tools
<1>2. CASE tool # "Create"
  <2>1. UNCHANGED buffer
    BY <1>2 DEF handle_create_commands
  <2> QED BY <1>1, <2>1, ToolSame DEF ToolInv
<1>3. CASE tool = "Create"
  <2>1. Unread \in Nat
    BY MarksAre DEF Unread, Due, BusInv, CreateInv
  <2>2. buffer' = buffer \o Spawns(Unread)
    BY <1>3 DEF handle_create_commands, Spawns
  <2>3. {"spawn node"} \subseteq PlainOp
    BY DEF PlainOp
  <2>4. Queues(Spawns(Unread), {"spawn node"})
    BY <2>1, SpawnsFit
  <2>5. Queues(Spawns(Unread), PlainOp)
    BY <2>3, <2>4, QueuesWider
  <2>6. Aims(buffer', selected, meant, nodes, spawned)
    BY <2>2, <2>5, AimsOn DEF ToolInv, BusInv, Worded, Queues
  <2>7. "select" \in waiting => Queues(buffer', PlainOp)
    BY <2>2, <2>5, QueuesMore DEF ToolInv
  <2> QED BY <1>1, <2>6, <2>7, ToolQueued
<1> QED BY <1>2, <1>3

\* Other clients unselect what they remove, and what they spawn is not meant.
LEMMA ToolSynced ==
    ASSUME ToolInv, SceneInv, SceneInv', sync
    PROVE  ToolInv'
<1> DEFINE w == [World EXCEPT !.unnamed = {}]
<1>1. PICK b : \E n \in Remote(w, b) : Becomes(n.world)
  BY DEF sync
<1>2. PICK n \in Remote(w, b) : Becomes(n.world)
  BY <1>1
<1>3. w \in Worlds /\ w.nodes = nodes /\ w.selected = selected /\ w.meant = meant /\ w.spawned = spawned
  <2>1. Sound(w, told, missed)
    BY NamedSound DEF SceneInv
  <2>2. World.nodes = w.nodes /\ World.selected = w.selected /\ World.meant = w.meant
        /\ World.spawned = w.spawned
    BY DEF World
  <2> QED BY <2>1, <2>2, WorldIs DEF Sound
<1>4. /\ buffer = <<>> /\ buffer' = <<>> /\ UNCHANGED <<tool, armed>>
  BY DEF sync
<1>5. AsMeant
  BY <1>4, AtRest
<1> HIDE DEF w
<1> DEFINE f == [w EXCEPT !.spawned = @ + 1, !.nodes = @ \cup {w.spawned + 1}]
           Cuts(e) == Despawned(w, {e} \cup {x \in DOMAIN w.edges : e \in Range(w.edges[x])})
<1>f. f.nodes = w.nodes \cup {w.spawned + 1} /\ f.selected = w.selected /\ f.meant = w.meant
  BY <1>3, WorldsAre
<1>r. \/ n \in {[world |-> w, index |-> b]}
      \/ n \in {[world |-> f, index |-> b \cup {w.spawned + 1}]}
      \/ n \in {[world |-> Cuts(e), index |-> b] : e \in b \cap (w.nodes \cup DOMAIN w.edges)}
  <2>1. Remote(w, b) \subseteq
          {[world |-> w, index |-> b]}
          \cup {[world |-> f, index |-> b \cup {w.spawned + 1}]}
          \cup {[world |-> Cuts(e), index |-> b] : e \in b \cap (w.nodes \cup DOMAIN w.edges)}
    BY Zenon DEF Remote
  <2> HIDE DEF f, Cuts
  <2> QED BY <1>2, <2>1
<1>c. \A e : \E es : Cuts(e) = Despawned(w, es)
  OBVIOUS
<1> HIDE DEF f, Cuts
<1>s. spawned \in Nat /\ (meant # None => meant \subseteq 0..spawned) /\ selected \subseteq nodes
  BY SceneFacts
<1>6. AsMeant'
  <2> SUFFICES ASSUME n.world.meant # None
               PROVE  n.world.selected = n.world.meant \cap n.world.nodes
    BY <1>2 DEF AsMeant, Becomes
  <2>1. CASE n \in {[world |-> w, index |-> b]}
    BY <1>3, <1>5, <2>1 DEF AsMeant
  <2>2. CASE n \in {[world |-> f, index |-> b \cup {w.spawned + 1}]}
    <3>1. n.world = f
      BY <2>2
    <3>2. meant # None => spawned + 1 \notin meant
      BY <1>s
    <3> QED BY <1>3, <1>5, <1>f, <3>1, <3>2 DEF AsMeant
  <2>3. CASE n \in {[world |-> Cuts(e), index |-> b] : e \in b \cap (w.nodes \cup DOMAIN w.edges)}
    <3>1. PICK e : n.world = Cuts(e)
      BY <2>3
    <3>2. PICK es : n.world = Despawned(w, es)
      BY <1>c, <3>1
    <3>3. /\ n.world.nodes = w.nodes \ es /\ n.world.selected = w.selected \ es
          /\ n.world.meant = Unmeant(w.meant, es)
      BY <1>3, <3>2, DespawnedIs
    <3>4. w.meant # None /\ n.world.meant = w.meant \ es
      BY <3>3 DEF Unmeant
    <3> QED BY <1>3, <1>5, <3>3, <3>4 DEF AsMeant
  <2> QED BY <1>r, <2>1, <2>2, <2>3
<1> QED BY <1>4, <1>6, ToolRests DEF ToolInv

\* A command that does not mark queues nothing about the selection.
LEMMA SelectingPlain ==
    ASSUME NEW cmd, cmd.cmd \in SelectKind, ~ Answerable(cmd) \/ cmd.cmd = "DeleteTargets", NEW q
    PROVE  Selecting(q, cmd) = q \/ \E g : Queues(g, PlainOp) /\ Selecting(q, cmd) = q \o g
                                              /\ g = SelectCommands(cmd)
<1>1. CASE ~ Answerable(cmd)
  BY <1>1 DEF Selecting
<1>2. CASE Answerable(cmd) /\ cmd.cmd = "DeleteTargets"
  <2>1. Queues(SelectCommands(cmd), PlainOp)
    BY <1>2, SelectCommandsFit
  <2> QED BY <1>2, <2>1 DEF Selecting
<1> QED BY <1>1, <1>2

\* A frame with no marking command, ...
LEMMA NoneMarks ==
    ASSUME Worded, Queues(buffer, PlainOp), Marking = {}
    PROVE  Queues(FoldLeft(Selecting, buffer, select), PlainOp)
<1> DEFINE A == Stock({buffer} \cup {SelectCommands(select[i]) : i \in 1..Len(select)})
           D == {q \in Seq(A) : Queues(q, PlainOp)}
<1>1. buffer \in D
  <2>1. \A i \in 1..Len(buffer) : buffer[i] \in A
    BY StockHas
  <2> HIDE DEF A
  <2> QED BY <2>1, InSeq DEF Queues
<1>2. ASSUME NEW d \in D, NEW i \in 1..Len(select) PROVE Selecting(d, select[i]) \in D
  <2> DEFINE g == SelectCommands(select[i])
  <2>1. ~ Answerable(select[i]) \/ select[i].cmd = "DeleteTargets"
    BY DEF Marking, Worded, SelectsFit, Listed
  <2>2. select[i].cmd \in SelectKind
    BY DEF Worded, SelectsFit
  <2>3. Selecting(d, select[i]) = d \/ (Queues(g, PlainOp) /\ Selecting(d, select[i]) = d \o g)
    BY <2>1, <2>2, SelectingPlain
  <2>4. \A n \in 1..Len(g) : g[n] \in A
    BY StockHas
  <2> HIDE DEF g, A
  <2>5. CASE Queues(g, PlainOp) /\ Selecting(d, select[i]) = d \o g
    <3>1. g \in Seq(A)
      BY <2>4, <2>5, InSeq DEF Queues
    <3>2. d \o g \in Seq(A) /\ Queues(d \o g, PlainOp)
      BY <2>5, <3>1, QueuesMore
    <3> QED BY <2>5, <3>2
  <2> QED BY <2>3, <2>5
<1> HIDE DEF D
<1>3. FoldLeft(Selecting, buffer, select) \in D
  BY <1>1, <1>2, SelectingStays DEF Worded, SelectsFit
<1> QED BY <1>3 DEF D

\* ... and one with a single one.
LEMMA OneMarks ==
    ASSUME Worded, SceneInv, Queues(buffer, PlainOp), AsMeant,
           NEW k \in Marking, Marking = {k}
    PROVE  Aims(FoldLeft(Selecting, buffer, select), selected, Meaning(select[k], meant), nodes, spawned)
<1> DEFINE A == Stock({buffer} \cup {SelectCommands(select[i]) : i \in 1..Len(select)})
           U == Seq(A)
           n == Len(select)
           m == Meaning(select[k], meant)
           G(q) == Aims(q, selected, m, nodes, spawned)
           D == [j \in 0..n |-> IF j < k THEN {q \in U : Queues(q, PlainOp)} ELSE {q \in U : G(q)}]
<1>1. /\ n \in Nat /\ DOMAIN select = 1..n /\ k \in 1..n /\ Answerable(select[k])
      /\ select[k].cmd # "DeleteTargets" /\ \A i \in 1..n : select[i].cmd \in SelectKind
      /\ Listed(select)
  BY DEF Marking, Worded, SelectsFit, Listed
<1>2. buffer \in U
  <2>1. \A i \in 1..Len(buffer) : buffer[i] \in A
    BY StockHas
  <2> HIDE DEF A
  <2> QED BY <2>1, InSeq DEF Queues
<1>g. ASSUME NEW i \in 1..n PROVE SelectCommands(select[i]) \in U
  <2> DEFINE g == SelectCommands(select[i])
  <2>1. Queues(g, Op)
    BY <1>1, SelectCommandsFit
  <2>2. \A j \in 1..Len(g) : g[j] \in A
    BY StockHas
  <2> HIDE DEF g, A
  <2>3. g \in Seq(A)
    BY <2>1, <2>2, InSeq DEF Queues
  <2> QED BY <2>3 DEF g
<1> HIDE DEF A
<1>3. ASSUME NEW u \in U, NEW i \in 1..n PROVE Selecting(u, select[i]) \in U
  <2> DEFINE g == SelectCommands(select[i])
  <2>1. g \in Seq(A) /\ u \in Seq(A)
    BY <1>g
  <2>2. Selecting(u, select[i]) = u \/ Selecting(u, select[i]) = u \o g
    BY DEF Selecting
  <2> HIDE DEF g, D, G, m
  <2>3. u \o g \in Seq(A)
    BY <2>1
  <2> QED BY <2>1, <2>2, <2>3
<1>4. buffer \in D[0]
  <2>1. 0 \in 0..n /\ 0 < k
    BY <1>1
  <2> HIDE DEF U
  <2> QED BY <1>2, <2>1
<1>5. \A u \in U : Listed(u)
  BY ListedOf
<1>m. ASSUME NEW q \in U, Queues(q, PlainOp) PROVE G(Selecting(q, select[k]))
  <2> DEFINE c == select[k]
             g == SelectCommands(c)
  <2>1. Selecting(q, c) = q \o g
    BY <1>1 DEF Selecting
  <2>2. /\ selected \in SUBSET (0..spawned) /\ selected \subseteq nodes /\ nodes \subseteq 0..spawned
        /\ index \subseteq 0..spawned /\ (meant # None => meant \subseteq 0..spawned)
    BY SceneFacts
  <2>3. c.cmd \in SelectKind /\ c.cmd # "DeleteTargets" /\ (c.cmd \in {"Select", "Toggle"} => c.target \in 0..spawned)
    BY <1>1, <2>2 DEF Answerable
  <2>4. Aims(g, selected, m, nodes, spawned)
    <3> HIDE DEF c
    <3>1. meant # None => selected = meant \cap nodes /\ meant \subseteq 0..spawned
      BY <2>2 DEF AsMeant
    <3>2. m = Meaning(c, meant)
      BY DEF c
    <3> HIDE DEF m
    <3> QED BY <2>2, <2>3, <3>1, <3>2, MarkingAims
  <2>5. Listed(g)
    BY <1>5, <1>g, <1>1
  <2>6. Leads(q, selected, selected, spawned)
    BY <1>m, <2>2, LeadsNowhere
  <2> HIDE DEF g, m, c
  <2>7. Aims(q \o g, selected, m, nodes, spawned)
    <3> SUFFICES ASSUME m # None
                 PROVE  \E y \in SUBSET (0..spawned) :
                          Leads(q \o g, selected, y, spawned) /\ y \cap nodes = m \cap nodes
      BY DEF Aims
    <3>1. PICK y \in SUBSET (0..spawned) : Leads(g, selected, y, spawned) /\ y \cap nodes = m \cap nodes
      BY <2>4 DEF Aims
    <3>2. Leads(q \o g, selected, y, spawned)
      BY <1>5, <2>5, <2>6, <3>1, LeadsOn
    <3> QED BY <3>1, <3>2
  <2> QED BY <2>1, <2>7 DEF c
<1>o. ASSUME NEW i \in 1..n, i # k, NEW q \in U
      PROVE  \/ Selecting(q, select[i]) = q
             \/ \E g : Queues(g, PlainOp) /\ Selecting(q, select[i]) = q \o g
  <2>1. ~ Answerable(select[i]) \/ select[i].cmd = "DeleteTargets"
    BY <1>1, <1>o DEF Marking
  <2> QED BY <1>1, <2>1, SelectingPlain
<1>6. ASSUME NEW j \in 1..n, NEW u \in U, u \in D[j-1] PROVE Selecting(u, select[j]) \in D[j]
  <2> DEFINE v == Selecting(u, select[j])
  <2>0. v \in U /\ j \in 0..n /\ j - 1 \in 0..n
    BY <1>1, <1>3
  <2> HIDE DEF U, m
  <2>1. CASE j < k
    <3>1. Queues(u, PlainOp) /\ j # k
      BY <1>1, <1>6, <2>0, <2>1
    <3>2. Queues(v, PlainOp)
      BY <1>o, <3>1, QueuesMore
    <3> QED BY <2>0, <2>1, <3>2
  <2>2. CASE j = k
    <3>1. Queues(u, PlainOp)
      BY <1>1, <1>6, <2>0, <2>2
    <3>2. G(v)
      BY <1>m, <2>2, <3>1
    <3> QED BY <1>1, <2>0, <2>2, <3>2
  <2>3. CASE j > k
    <3>1. G(u) /\ j # k /\ Listed(u)
      BY <1>1, <1>5, <1>6, <2>0, <2>3
    <3>2. G(v)
      <4>1. CASE v = u
        BY <3>1, <4>1
      <4>2. CASE \E g : Queues(g, PlainOp) /\ v = u \o g
        <5>1. PICK g : Queues(g, PlainOp) /\ v = u \o g
          BY <4>2
        <5> QED BY <3>1, <5>1, AimsOn
      <4> QED BY <1>o, <3>1, <4>1, <4>2
    <3> QED BY <1>1, <2>0, <2>3, <3>2
  <2> QED BY <1>1, <2>1, <2>2, <2>3
<1>7. FoldLeft(Selecting, buffer, select) \in D[n]
  <2> HIDE DEF U, D
  <2>1. \A j \in 1..n : \A u \in U : u \in D[j-1] => Selecting(u, select[j]) \in D[j]
    BY <1>6
  <2>2. \A u \in U, i \in 1..n : Selecting(u, select[i]) \in U
    BY <1>3
  <2> QED BY <1>1, <1>2, <1>4, <2>1, <2>2, SelectingGoes
<1>8. n \in 0..n /\ ~ (n < k)
  BY <1>1
<1> HIDE DEF U, n
<1> QED BY <1>7, <1>8

LEMMA ToolSelected ==
    ASSUME ToolInv, SceneInv, Worded, handle_select_commands
    PROVE  ToolInv'
<1>1. /\ "select" \in waiting /\ "select" \notin waiting'
      /\ UNCHANGED <<nodes, spawned, selected, armed, tool>>
      /\ buffer' = FoldLeft(Selecting, buffer, select)
  BY DEF handle_select_commands, Runs, scene
<1>2. Queues(buffer, PlainOp) /\ AsMeant
  BY <1>1 DEF ToolInv
<1>3. Aims(buffer', selected, meant', nodes, spawned)
  <2>1. CASE Marking = {} /\ UNCHANGED meant
    <3>1. Queues(buffer', PlainOp)
      BY <1>1, <1>2, <2>1, NoneMarks
    <3> QED BY <1>2, <2>1, <3>1, SceneFacts, AimsAtRest DEF AsMeant
  <2>2. CASE \E k \in Marking : Marking = {k} /\ meant' = Meaning(select[k], meant)
    BY <1>1, <1>2, <2>2, OneMarks
  <2>3. CASE meant' = None
    BY <2>3 DEF Aims
  <2> QED BY <2>1, <2>2, <2>3 DEF handle_select_commands
<1>4. Aims(buffer', selected', meant', nodes', spawned')
  BY <1>1, <1>3
<1> QED BY <1>1, <1>4 DEF ToolInv

LEMMA ToolSteps ==
    ASSUME ToolInv, SceneInv, SceneInv', BusInv, [EditorsNext]_<<running, vars, layerVars, gridVars>>
    PROVE  ToolInv'
<1>0. Worded
  BY DEF BusInv
<1>1. CASE UNCHANGED vars
  <2>1. UNCHANGED <<buffer, selected, meant, nodes, spawned, waiting, armed, tool>>
    BY <1>1 DEF vars, scene, tools
  <2> QED BY <2>1, ToolSame DEF ToolInv
<1>2. CASE handle_delete_key \/ emit_appeared \/ emit_removed
  <2>1. UNCHANGED <<buffer, selected, meant, nodes, spawned, armed, tool>> /\ waiting' \subseteq waiting
    BY <1>2 DEF handle_delete_key, emit_appeared, emit_removed, Runs, scene, tools
  <2> QED BY <2>1, ToolSame DEF ToolInv
<1>3. CASE Next
  BY <1>0, <1>2, <1>3, ToolInput, ToolFrames, ToolFlushed, ToolDispatched, ToolSelected, ToolCreated,
     ToolSynced DEF Next
<1> QED BY <1>1, <1>3 DEF EditorsNext, Desktop, Layers, Grid

-----------------------------------------------------------------------------
(* The tools: the theorems. *)

\* Whatever is queued, and whenever it is applied, it leads to the selection
\* that was meant; and no tool but Connect has a first click (select.rs,
\* connect.rs).
THEOREM ToolInvHolds == EditorsSpec => []ToolInv
<1>1. EditorsInit => ToolInv
  BY ToolInitially, SceneInitially DEF EditorsInit
<1>2. ToolInv /\ SceneInv /\ SceneInv' /\ BusInv /\ [EditorsNext]_<<running, vars, layerVars, gridVars>>
        => ToolInv'
  BY ToolSteps
<1> QED BY <1>1, <1>2, SceneInvHolds, BusInvHolds, PTL DEF EditorsSpec

\* The frames selected are those that the commands handled one after the other
\* mean, with any tool, when no frame had several of them; and a first click
\* waits for a second only while the tool is Connect (select.rs, connect.rs).
THEOREM ToolStateDoesMean == EditorsSpec => []ToolStateIsMeant
<1>1. ToolInv /\ SceneInv => ToolStateIsMeant
  BY AtRest DEF ToolInv, AsMeant, ToolStateIsMeant
<1> QED BY <1>1, ToolInvHolds, SceneInvHolds, PTL
=============================================================================
