--------------------------- MODULE AnteroomProofs ---------------------------
(* Theorems about Anteroom for every set of identifiers and every load.     *)
EXTENDS Anteroom, FiniteSetTheorems, TLAPS

(* The rooms after each operation, described by their indices.              *)
RoomsInv == NoEmptyRoom /\ ReloadIsFirst /\ WaitsOnce

IInv == TypeOK /\ RoomsInv

LEMMA CardinalityIsNat == \A S \in SUBSET Zids : Cardinality(S) \in Nat
  BY FS_Subset, FS_CardinalityType, ZidsAssumption

LEMMA FilledRoom ==
  ASSUME NEW room \in Room, NEW z \in Zids
  PROVE  /\ Filled(room, z) \in Room
         /\ Filled(room, z).waiting = room.waiting \union {z}
         /\ Filled(room, z).reload = room.reload
<1>1. room.curLoad + 1 \in Nat /\ room.waiting \union {z} \in SUBSET Zids
  BY DEF Room
<1> QED
  BY <1>1 DEF Room, Filled

LEMMA AppendRooms ==
  ASSUME TypeOK, NEW z \in Zids, EnqueueNew(z)
  PROVE  /\ rooms' \in Seq(Room)
         /\ Len(rooms') = Len(rooms) + 1
         /\ \A i \in 1 .. Len(rooms) : rooms'[i] = rooms[i]
         /\ rooms'[Len(rooms) + 1] = makeAnteroom(z)
<1>1. makeAnteroom(z) \in Room
  BY DEF makeAnteroom, Room
<1> QED
  BY <1>1 DEF TypeOK, EnqueueNew

LEMMA TailRooms ==
  ASSUME TypeOK, rooms # <<>>, rooms' = Tail(rooms)
  PROVE  /\ rooms' \in Seq(Room)
         /\ Len(rooms') = Len(rooms) - 1
         /\ \A i \in 1 .. Len(rooms') : rooms'[i] = rooms[i + 1]
  BY DEF TypeOK

(* Only the first room can be a reload room, so Reload keeps all others.    *)
LEMMA ReloadRooms ==
  ASSUME IInv, NEW S \in SUBSET Zids, Reload(S), S # {}
  PROVE  /\ rooms' \in Seq(Room)
         /\ Len(rooms') >= 1
         /\ rooms'[1] = ReloadRoom(S)
         /\ \E k \in {0, 1} :
              /\ k = 1 <=> rooms # <<>> /\ rooms[1].reload
              /\ Len(rooms') = Len(rooms) - k + 1
              /\ \A i \in 2 .. Len(rooms') : rooms'[i] = rooms[i + k - 1]
<1>1. PICK k \in 0 .. Len(rooms) :
        /\ \A i \in 1 .. k : rooms[i].reload
        /\ k < Len(rooms) => ~rooms[k + 1].reload
        /\ rooms' = <<ReloadRoom(S)>> \o SubSeq(rooms, k + 1, Len(rooms))
  BY DEF Reload, deleteReloadedRooms
<1>2. k \in {0, 1}
  BY <1>1 DEF IInv, RoomsInv, ReloadIsFirst, TypeOK
<1>3. ReloadRoom(S) \in Room
  BY CardinalityIsNat DEF ReloadRoom, Room
<1>4. /\ SubSeq(rooms, k + 1, Len(rooms)) \in Seq(Room)
      /\ Len(SubSeq(rooms, k + 1, Len(rooms))) = Len(rooms) - k
      /\ \A i \in 1 .. Len(rooms) - k :
            SubSeq(rooms, k + 1, Len(rooms))[i] = rooms[i + k]
  BY <1>2 DEF IInv, TypeOK
<1>5. k = 1 <=> rooms # <<>> /\ rooms[1].reload
  BY <1>1, <1>2 DEF IInv, TypeOK
<1>6. rooms' \in Seq(Room) /\ Len(rooms') = Len(rooms) - k + 1 /\ rooms'[1] = ReloadRoom(S)
  BY <1>1, <1>2, <1>3, <1>4 DEF IInv, TypeOK
<1>7. \A i \in 2 .. Len(rooms') : rooms'[i] = rooms[i + k - 1]
  BY <1>1, <1>2, <1>3, <1>4, <1>6 DEF IInv, TypeOK
<1>8. Len(rooms') >= 1
  BY <1>2, <1>6 DEF IInv, TypeOK
<1> QED
  BY <1>2, <1>5, <1>6, <1>7, <1>8

-----------------------------------------------------------------------------

LEMMA InitIInv == Init => IInv
<1> SUFFICES ASSUME Init PROVE IInv
  OBVIOUS
<1>1. rooms \in Seq(Room) /\ DOMAIN rooms = {}
  BY DEF Init
<1>2. TypeOK
  BY <1>1 DEF Init, TypeOK, Answers
<1> QED
  BY <1>1, <1>2 DEF IInv, RoomsInv, NoEmptyRoom, ReloadIsFirst, WaitsOnce

LEMMA EnqueueIInv ==
  ASSUME IInv, NEW z \in Zids, EnqueueZettel(z)
  PROVE  IInv'
<1>1. CASE EnqueueNew(z)
  <2>1. /\ rooms' \in Seq(Room)
        /\ Len(rooms') = Len(rooms) + 1
        /\ \A i \in 1 .. Len(rooms) : rooms'[i] = rooms[i]
        /\ rooms'[Len(rooms) + 1] = makeAnteroom(z)
    BY <1>1, AppendRooms DEF IInv
  <2>2. TypeOK'
    BY <2>1 DEF EnqueueZettel, IInv, TypeOK
  <2>3. NoEmptyRoom' /\ ReloadIsFirst'
    <3>1. \A i \in DOMAIN rooms' : i \in DOMAIN rooms \/ i = Len(rooms) + 1
      BY <2>1 DEF IInv, TypeOK
    <3>2. \A i \in DOMAIN rooms : rooms'[i] = rooms[i]
      BY <2>1 DEF IInv, TypeOK
    <3>3. /\ rooms'[Len(rooms) + 1].waiting # {}
          /\ ~rooms'[Len(rooms) + 1].reload
      BY <2>1 DEF makeAnteroom
    <3> QED
      BY <3>1, <3>2, <3>3 DEF IInv, RoomsInv, NoEmptyRoom, ReloadIsFirst
  <2>4. WaitsOnce'
    BY <2>1 DEF IInv, RoomsInv, TypeOK, WaitsOnce, makeAnteroom, EnqueueZettel, IsWaiting
  <2> QED
    BY <2>2, <2>3, <2>4 DEF IInv, RoomsInv
<1>2. CASE EnqueueLast(z)
  <2> DEFINE last == rooms[Len(rooms)]
  <2>1. /\ rooms # <<>> /\ Len(rooms) \in 1 .. Len(rooms)
        /\ last \in Room /\ ~last.reload
    BY <1>2 DEF IInv, TypeOK, EnqueueLast, LastHasSpace
  <2> DEFINE filled == Filled(last, z)
  <2>2. /\ filled \in Room
        /\ filled.waiting = last.waiting \union {z}
        /\ filled.reload = last.reload
    BY <2>1, FilledRoom
  <2>3. /\ rooms' \in Seq(Room)
        /\ Len(rooms') = Len(rooms)
        /\ \A i \in 1 .. Len(rooms) :
              rooms'[i] = IF i = Len(rooms) THEN filled ELSE rooms[i]
    BY <1>2, <2>1, <2>2 DEF IInv, TypeOK, EnqueueLast
  <2> HIDE DEF last, filled
  <2>4. TypeOK'
    BY <2>3 DEF EnqueueZettel, IInv, TypeOK
  <2>5. NoEmptyRoom' /\ ReloadIsFirst'
    BY <2>1, <2>2, <2>3 DEF IInv, RoomsInv, TypeOK, NoEmptyRoom, ReloadIsFirst, last
  <2>6. WaitsOnce'
    BY <2>1, <2>2, <2>3 DEF IInv, RoomsInv, TypeOK, WaitsOnce, EnqueueZettel, IsWaiting, last
  <2> QED
    BY <2>4, <2>5, <2>6 DEF IInv, RoomsInv
<1> QED
  BY <1>1, <1>2 DEF EnqueueZettel

LEMMA ResetIInv ==
  ASSUME IInv, Reset
  PROVE  IInv'
<1> DEFINE request == [waiting |-> {}, curLoad |-> 0, reload |-> TRUE]
<1>1. request \in Room
  BY DEF Room
<1>2. rooms' \in Seq(Room) /\ Len(rooms') = 1 /\ rooms'[1] = request
  BY <1>1 DEF Reset
<1> QED
  BY <1>2 DEF IInv, RoomsInv, TypeOK, NoEmptyRoom, ReloadIsFirst, WaitsOnce, Reset

LEMMA ReloadIInv ==
  ASSUME IInv, NEW S \in SUBSET Zids, Reload(S)
  PROVE  IInv'
<1>1. CASE S = {}
  <2>1. rooms' = <<>> /\ fetching' = FALSE /\ answer' = answer
    BY <1>1 DEF Reload
  <2>2. rooms' \in Seq(Room) /\ DOMAIN rooms' = {}
    BY <2>1
  <2> QED
    BY <2>1, <2>2 DEF IInv, RoomsInv, TypeOK, NoEmptyRoom, ReloadIsFirst, WaitsOnce
<1>2. CASE S # {}
  <2>1. rooms' \in Seq(Room) /\ Len(rooms') >= 1 /\ rooms'[1] = ReloadRoom(S)
    BY <1>2, ReloadRooms
  <2>2. PICK k \in {0, 1} :
          /\ k = 1 <=> rooms # <<>> /\ rooms[1].reload
          /\ Len(rooms') = Len(rooms) - k + 1
          /\ \A i \in 2 .. Len(rooms') : rooms'[i] = rooms[i + k - 1]
    BY <1>2, ReloadRooms
  <2>3. \A i \in 2 .. Len(rooms') : i + k - 1 \in 1 .. Len(rooms)
    BY <2>2 DEF IInv, TypeOK
  <2>4. \A i \in 2 .. Len(rooms') : ~rooms'[i].reload
    BY <2>2, <2>3 DEF IInv, RoomsInv, ReloadIsFirst, TypeOK
  <2>5. TypeOK'
    BY <2>1 DEF Reload, IInv, TypeOK
  <2>6. NoEmptyRoom' /\ ReloadIsFirst'
    <3>1. \A i \in DOMAIN rooms' : i = 1 \/ i \in 2 .. Len(rooms')
      BY <2>1
    <3>2. rooms'[1].waiting # {}
      BY <1>2, <2>1 DEF ReloadRoom
    <3>3. ASSUME NEW i \in 2 .. Len(rooms')
          PROVE  rooms'[i].waiting # {}
      <4>1. i + k - 1 \in DOMAIN rooms /\ rooms'[i] = rooms[i + k - 1]
        BY <2>2, <2>3 DEF IInv, TypeOK
      <4>2. ~rooms[i + k - 1].reload
        BY <2>4, <4>1
      <4> QED
        BY <4>1, <4>2 DEF IInv, RoomsInv, NoEmptyRoom
    <3> QED
      BY <2>4, <3>1, <3>2, <3>3 DEF NoEmptyRoom, ReloadIsFirst
  <2>7. ASSUME NEW i \in DOMAIN rooms', NEW j \in DOMAIN rooms',
               i # j, ~rooms'[i].reload, ~rooms'[j].reload
        PROVE  rooms'[i].waiting \cap rooms'[j].waiting = {}
    <3>1. i # 1 /\ j # 1
      BY <2>1, <2>7 DEF ReloadRoom
    <3>2. i \in 2 .. Len(rooms') /\ j \in 2 .. Len(rooms')
      BY <2>1, <3>1
    <3>3. /\ i + k - 1 \in DOMAIN rooms /\ j + k - 1 \in DOMAIN rooms
          /\ i + k - 1 # j + k - 1
      BY <2>3, <2>7, <3>2 DEF IInv, TypeOK
    <3> QED
      BY <2>2, <2>7, <3>2, <3>3 DEF IInv, RoomsInv, WaitsOnce
  <2> QED
    BY <2>5, <2>6, <2>7 DEF IInv, RoomsInv, WaitsOnce
<1> QED
  BY <1>1, <1>2

LEMMA TailIInv ==
  ASSUME IInv, rooms # <<>>, rooms' = Tail(rooms)
  PROVE  rooms' \in Seq(Room) /\ RoomsInv'
<1>1. /\ rooms' \in Seq(Room)
      /\ Len(rooms') = Len(rooms) - 1
      /\ \A i \in 1 .. Len(rooms') : rooms'[i] = rooms[i + 1]
  BY TailRooms DEF IInv
<1>2. \A i \in 1 .. Len(rooms') : i + 1 \in 1 .. Len(rooms)
  BY <1>1 DEF IInv, TypeOK
<1>3. NoEmptyRoom' /\ ReloadIsFirst'
  BY <1>1, <1>2 DEF IInv, RoomsInv, TypeOK, NoEmptyRoom, ReloadIsFirst
<1>4. WaitsOnce'
  BY <1>1, <1>2 DEF IInv, RoomsInv, TypeOK, WaitsOnce
<1> QED
  BY <1>1, <1>3, <1>4 DEF RoomsInv

LEMMA PopIInv ==
  ASSUME IInv, rooms # <<>>, ~IsRequest(rooms[1]), NEW z \in Zids, PopFirst(z)
  PROVE  rooms' \in Seq(Room) /\ RoomsInv'
<1>1. CASE rooms[1].waiting = {z}
  BY <1>1, TailIInv DEF PopFirst
<1>2. CASE rooms[1].waiting # {z}
  <2> DEFINE popped == Popped(rooms[1], z)
  <2>1. rooms[1] \in Room /\ 1 \in 1 .. Len(rooms)
    BY DEF IInv, TypeOK
  <2>2. /\ popped \in Room
        /\ popped.waiting = rooms[1].waiting \ {z}
        /\ popped.reload = rooms[1].reload
        /\ popped.waiting # {}
    BY <1>2, <2>1 DEF Room, PopFirst, Popped
  <2>3. /\ rooms' \in Seq(Room)
        /\ Len(rooms') = Len(rooms)
        /\ \A i \in 1 .. Len(rooms) : rooms'[i] = IF i = 1 THEN popped ELSE rooms[i]
    BY <1>2, <2>1, <2>2 DEF IInv, TypeOK, PopFirst
  <2> HIDE DEF popped
  <2>4. NoEmptyRoom' /\ ReloadIsFirst'
    BY <2>1, <2>2, <2>3 DEF IInv, RoomsInv, TypeOK, NoEmptyRoom, ReloadIsFirst
  <2>5. WaitsOnce'
    BY <2>1, <2>2, <2>3 DEF IInv, RoomsInv, TypeOK, WaitsOnce
  <2> QED
    BY <2>3, <2>4, <2>5 DEF RoomsInv
<1> QED
  BY <1>1, <1>2

LEMMA DequeueIInv ==
  ASSUME IInv, Dequeue
  PROVE  IInv'
<1>1. CASE DequeueNothing
  BY <1>1 DEF DequeueNothing, Answer, Answers, IInv, RoomsInv, TypeOK,
     NoEmptyRoom, ReloadIsFirst, WaitsOnce
<1>2. CASE DequeueReload
  <2>1. rooms' \in Seq(Room) /\ RoomsInv'
    BY <1>2, TailIInv DEF DequeueReload
  <2> QED
    BY <1>2, <2>1 DEF DequeueReload, Answer, Answers, IInv, TypeOK
<1>3. CASE DequeueZettel
  <2>1. PICK z \in Zids : PopFirst(z) /\ Answer("arZettel", z, rooms[1].reload)
    BY <1>3 DEF DequeueZettel
  <2>2. rooms' \in Seq(Room) /\ RoomsInv'
    BY <1>3, <2>1, PopIInv DEF DequeueZettel
  <2>3. rooms[1] \in Room
    BY <1>3 DEF DequeueZettel, IInv, TypeOK
  <2>4. rooms[1].reload \in BOOLEAN
    BY <2>3 DEF Room
  <2> QED
    BY <1>3, <2>1, <2>2, <2>4 DEF DequeueZettel, Answer, Answers, IInv, TypeOK
<1> QED
  BY <1>1, <1>2, <1>3 DEF Dequeue

LEMMA NextIInv == IInv /\ [Next]_vars => IInv'
<1> SUFFICES ASSUME IInv, [Next]_vars PROVE IInv'
  OBVIOUS
<1>1. CASE \E z \in Zids : EnqueueZettel(z)
  BY <1>1, EnqueueIInv
<1>2. CASE Reset
  BY <1>2, ResetIInv
<1>3. CASE \E S \in SUBSET Zids : Reload(S)
  BY <1>3, ReloadIInv
<1>4. CASE FetchFails
  BY <1>4 DEF FetchFails, IInv, RoomsInv, TypeOK, NoEmptyRoom, ReloadIsFirst, WaitsOnce
<1>5. CASE Dequeue
  BY <1>5, DequeueIInv
<1>6. CASE UNCHANGED vars
  BY <1>6 DEF vars, IInv, RoomsInv, TypeOK, NoEmptyRoom, ReloadIsFirst, WaitsOnce
<1> QED
  BY <1>1, <1>2, <1>3, <1>4, <1>5, <1>6 DEF Next

(* The rooms are well-formed in every state: no room is empty but a         *)
(* request, a reload room is the first one, no identifier waits twice.      *)
THEOREM RoomsAreWellFormed == Spec => [](TypeOK /\ NoEmptyRoom /\ ReloadIsFirst /\ WaitsOnce)
<1>1. IInv => TypeOK /\ NoEmptyRoom /\ ReloadIsFirst /\ WaitsOnce
  BY DEF IInv, RoomsInv
<1> QED
  BY <1>1, InitIInv, NextIInv, PTL DEF Spec

-----------------------------------------------------------------------------
(* How full a room is.                                                      *)

LoadOf(room) ==
  ~room.reload => /\ Cardinality(room.waiting) <= room.curLoad
                  /\ MaxLoad > 0 => room.curLoad <= MaxLoad

LEMMA FilledLoad ==
  ASSUME NEW room \in Room, NEW z \in Zids, ~room.reload, LoadOf(room),
         z \notin room.waiting, MaxLoad = 0 \/ room.curLoad < MaxLoad
  PROVE  LoadOf(Filled(room, z))
<1>1. room.waiting \in SUBSET Zids /\ room.curLoad \in Nat
  BY DEF Room
<1>2. IsFiniteSet(room.waiting) /\ Cardinality(room.waiting) \in Nat
  BY <1>1, FS_Subset, CardinalityIsNat, ZidsAssumption
<1>3. Cardinality(room.waiting \union {z}) = Cardinality(room.waiting) + 1
  BY <1>2, FS_AddElement
<1>4. /\ Filled(room, z).waiting = room.waiting \union {z}
      /\ Filled(room, z).reload = room.reload
      /\ Filled(room, z).curLoad = room.curLoad + 1
  BY DEF Filled, Room
<1> QED
  BY <1>1, <1>2, <1>3, <1>4, MaxLoadAssumption DEF LoadOf

LEMMA PoppedLoad ==
  ASSUME NEW room \in Room, NEW z \in room.waiting, LoadOf(room)
  PROVE  LoadOf(Popped(room, z))
<1>1. room.waiting \in SUBSET Zids /\ room.curLoad \in Nat
  BY DEF Room
<1>2. IsFiniteSet(room.waiting) /\ Cardinality(room.waiting) \in Nat
  BY <1>1, FS_Subset, CardinalityIsNat, ZidsAssumption
<1>3. Cardinality(room.waiting \ {z}) = Cardinality(room.waiting) - 1
  BY <1>2, FS_RemoveElement
<1>4. /\ Popped(room, z).waiting = room.waiting \ {z}
      /\ Popped(room, z).reload = room.reload
      /\ Popped(room, z).curLoad = room.curLoad
  BY DEF Popped, Room
<1> QED
  BY <1>1, <1>2, <1>3, <1>4 DEF LoadOf

LEMMA MadeLoad == ASSUME NEW z \in Zids PROVE LoadOf(makeAnteroom(z))
<1>1. Cardinality({z}) = 1
  BY FS_Singleton
<1> QED
  BY <1>1, MaxLoadAssumption DEF LoadOf, makeAnteroom

LEMMA LoadOfRooms == LoadIsBound <=> \A i \in DOMAIN rooms : LoadOf(rooms[i])
  BY DEF LoadIsBound, LoadOf

LEMMA EnqueueLoad ==
  ASSUME IInv, LoadIsBound, NEW z \in Zids, EnqueueZettel(z)
  PROVE  \A i \in DOMAIN rooms' : LoadOf(rooms'[i])
<1>1. CASE EnqueueNew(z)
  <2>1. /\ rooms' \in Seq(Room)
        /\ Len(rooms') = Len(rooms) + 1
        /\ \A i \in 1 .. Len(rooms) : rooms'[i] = rooms[i]
        /\ rooms'[Len(rooms) + 1] = makeAnteroom(z)
    BY <1>1, AppendRooms DEF IInv
  <2>2. /\ DOMAIN rooms' = DOMAIN rooms \union {Len(rooms) + 1}
        /\ \A i \in DOMAIN rooms : rooms'[i] = rooms[i]
    BY <2>1 DEF IInv, TypeOK
  <2> QED
    BY <2>1, <2>2, MadeLoad, LoadOfRooms
<1>2. CASE EnqueueLast(z)
  <2> DEFINE last == rooms[Len(rooms)]
             filled == Filled(last, z)
  <2>1. /\ Len(rooms) \in DOMAIN rooms
        /\ last \in Room /\ ~last.reload
        /\ MaxLoad = 0 \/ last.curLoad < MaxLoad
    BY <1>2 DEF IInv, TypeOK, EnqueueLast, LastHasSpace
  <2>2. z \notin last.waiting
    BY <2>1 DEF EnqueueZettel, IsWaiting
  <2>3. LoadOf(filled)
    BY <2>1, <2>2, FilledLoad, LoadOfRooms
  <2>4. /\ DOMAIN rooms' = DOMAIN rooms
        /\ \A i \in DOMAIN rooms :
              rooms'[i] = IF i = Len(rooms) THEN filled ELSE rooms[i]
    BY <1>2, <2>1 DEF IInv, TypeOK, EnqueueLast
  <2> HIDE DEF filled
  <2> QED
    BY <2>3, <2>4, LoadOfRooms
<1> QED
  BY <1>1, <1>2 DEF EnqueueZettel

LEMMA ReloadLoad ==
  ASSUME IInv, LoadIsBound, NEW S \in SUBSET Zids, Reload(S)
  PROVE  \A i \in DOMAIN rooms' : LoadOf(rooms'[i])
<1>1. CASE S = {}
  <2>1. rooms' = <<>>
    BY <1>1 DEF Reload
  <2> QED
    BY <2>1
<1>2. CASE S # {}
  <2>1. rooms' \in Seq(Room) /\ Len(rooms') >= 1 /\ rooms'[1] = ReloadRoom(S)
    BY <1>2, ReloadRooms
  <2>2. PICK k \in {0, 1} :
          /\ k = 1 <=> rooms # <<>> /\ rooms[1].reload
          /\ Len(rooms') = Len(rooms) - k + 1
          /\ \A i \in 2 .. Len(rooms') : rooms'[i] = rooms[i + k - 1]
    BY <1>2, ReloadRooms
  <2>3. \A i \in 2 .. Len(rooms') : i + k - 1 \in DOMAIN rooms
    BY <2>2 DEF IInv, TypeOK
  <2>4. \A i \in DOMAIN rooms' : i = 1 \/ i \in 2 .. Len(rooms')
    BY <2>1
  <2>5. LoadOf(ReloadRoom(S))
    BY DEF LoadOf, ReloadRoom
  <2> QED
    BY <2>1, <2>2, <2>3, <2>4, <2>5, LoadOfRooms
<1> QED
  BY <1>1, <1>2

LEMMA TailLoad ==
  ASSUME IInv, LoadIsBound, rooms # <<>>, rooms' = Tail(rooms)
  PROVE  \A i \in DOMAIN rooms' : LoadOf(rooms'[i])
<1>1. /\ rooms' \in Seq(Room)
      /\ Len(rooms') = Len(rooms) - 1
      /\ \A i \in 1 .. Len(rooms') : rooms'[i] = rooms[i + 1]
  BY TailRooms DEF IInv
<1>2. \A i \in DOMAIN rooms' : i + 1 \in DOMAIN rooms /\ rooms'[i] = rooms[i + 1]
  BY <1>1 DEF IInv, TypeOK
<1> QED
  BY <1>2, LoadOfRooms

LEMMA DequeueLoad ==
  ASSUME IInv, LoadIsBound, Dequeue
  PROVE  \A i \in DOMAIN rooms' : LoadOf(rooms'[i])
<1>1. CASE DequeueNothing
  BY <1>1, LoadOfRooms DEF DequeueNothing
<1>2. CASE DequeueReload
  BY <1>2, TailLoad DEF DequeueReload
<1>3. CASE DequeueZettel
  <2>1. PICK z \in Zids : PopFirst(z)
    BY <1>3 DEF DequeueZettel
  <2>2. rooms # <<>>
    BY <1>3 DEF DequeueZettel
  <2>3. CASE rooms[1].waiting = {z}
    BY <2>1, <2>2, <2>3, TailLoad DEF PopFirst
  <2>4. CASE rooms[1].waiting # {z}
    <3> DEFINE popped == Popped(rooms[1], z)
    <3>1. rooms[1] \in Room /\ 1 \in DOMAIN rooms /\ z \in rooms[1].waiting
      BY <2>1, <2>2 DEF IInv, TypeOK, PopFirst
    <3>2. LoadOf(popped)
      BY <3>1, PoppedLoad, LoadOfRooms
    <3>3. /\ DOMAIN rooms' = DOMAIN rooms
          /\ \A i \in DOMAIN rooms : rooms'[i] = IF i = 1 THEN popped ELSE rooms[i]
      BY <2>1, <2>4, <3>1 DEF IInv, TypeOK, PopFirst
    <3> HIDE DEF popped
    <3> QED
      BY <3>2, <3>3, LoadOfRooms
  <2> QED
    BY <2>3, <2>4
<1> QED
  BY <1>1, <1>2, <1>3 DEF Dequeue

LEMMA NextLoad == IInv /\ LoadIsBound /\ [Next]_vars => LoadIsBound'
<1> SUFFICES ASSUME IInv, LoadIsBound, [Next]_vars
             PROVE  \A i \in DOMAIN rooms' : LoadOf(rooms'[i])
  BY DEF LoadIsBound, LoadOf
<1>1. CASE \E z \in Zids : EnqueueZettel(z)
  BY <1>1, EnqueueLoad
<1>2. CASE Reset
  BY <1>2 DEF Reset, LoadOf
<1>3. CASE \E S \in SUBSET Zids : Reload(S)
  BY <1>3, ReloadLoad
<1>4. CASE FetchFails
  BY <1>4, LoadOfRooms DEF FetchFails
<1>5. CASE Dequeue
  BY <1>5, DequeueLoad
<1>6. CASE UNCHANGED vars
  BY <1>6, LoadOfRooms DEF vars
<1> QED
  BY <1>1, <1>2, <1>3, <1>4, <1>5, <1>6 DEF Next

(* A room never holds more identifiers than its load says, and never takes  *)
(* more than MaxLoad of them, although rooms are filled and emptied at once.*)
THEOREM LoadsAreBounded == Spec => []LoadIsBound
<1>1. Init => LoadIsBound
  BY DEF Init, LoadIsBound
<1> QED
  BY <1>1, InitIInv, NextIInv, NextLoad, PTL DEF Spec

(* The rooms are in order, filled as they may be, and disjoint in every     *)
(* state, for every load.                                                   *)
THEOREM RoomsStaySound == Spec => []RoomsAreSound
<1>1. RoomsAreSound <=> (TypeOK /\ NoEmptyRoom /\ ReloadIsFirst /\ WaitsOnce) /\ LoadIsBound
  BY DEF RoomsAreSound
<1> QED
  BY <1>1, RoomsAreWellFormed, LoadsAreBounded, PTL

-----------------------------------------------------------------------------
(* The rooms of Anteroom implement the sets of IndexWork, for every set of  *)
(* identifiers and every load.                                              *)

(* The refinement mapping, for a sequence r of rooms.                       *)
RequestOf(r) == r # <<>> /\ IsRequest(r[1])
BacklogOf(r) == UNION {r[i].waiting : i \in {j \in DOMAIN r : r[j].reload}}
ChangedOf(r) == UNION {r[i].waiting : i \in {j \in DOMAIN r : ~r[j].reload}}

LEMMA BacklogMember ==
  ASSUME NEW r, NEW z
  PROVE  z \in BacklogOf(r) <=> \E i \in DOMAIN r : r[i].reload /\ z \in r[i].waiting
  BY DEF BacklogOf

LEMMA ChangedMember ==
  ASSUME NEW r, NEW z
  PROVE  z \in ChangedOf(r) <=> \E i \in DOMAIN r : ~r[i].reload /\ z \in r[i].waiting
  BY DEF ChangedOf

(* No room: there is no work.                                               *)
LEMMA NoRooms ==
  /\ ~RequestOf(<<>>)
  /\ BacklogOf(<<>>) = {}
  /\ ChangedOf(<<>>) = {}
<1>1. DOMAIN <<>> = {}
  OBVIOUS
<1>2. \A z : z \notin BacklogOf(<<>>) /\ z \notin ChangedOf(<<>>)
  BY <1>1, BacklogMember, ChangedMember
<1> QED
  BY <1>2 DEF RequestOf

(* Only the first room may hold a backlog.                                  *)
LEMMA FirstRoom ==
  ASSUME IInv, rooms # <<>>
  PROVE  /\ rooms[1] \in Room /\ 1 \in DOMAIN rooms
         /\ BacklogOf(rooms) = IF rooms[1].reload THEN rooms[1].waiting ELSE {}
<1>1. rooms[1] \in Room /\ 1 \in DOMAIN rooms
  BY DEF IInv, TypeOK
<1>2. \A z : z \in BacklogOf(rooms) <=> rooms[1].reload /\ z \in rooms[1].waiting
  BY <1>1, BacklogMember DEF IInv, RoomsInv, ReloadIsFirst
<1> QED
  BY <1>1, <1>2

(* Removing the first room removes its identifiers, and no others.          *)
LEMMA WithoutFirst ==
  ASSUME IInv, rooms # <<>>, rooms' = Tail(rooms)
  PROVE  /\ ~RequestOf(rooms')
         /\ BacklogOf(rooms') = {}
         /\ ChangedOf(rooms') = IF rooms[1].reload
                                THEN ChangedOf(rooms)
                                ELSE ChangedOf(rooms) \ rooms[1].waiting
<1>1. /\ rooms' \in Seq(Room)
      /\ Len(rooms') = Len(rooms) - 1
      /\ \A i \in 1 .. Len(rooms') : rooms'[i] = rooms[i + 1]
  BY TailRooms DEF IInv
<1>2. \A i \in DOMAIN rooms' : i + 1 \in DOMAIN rooms /\ rooms'[i] = rooms[i + 1]
  BY <1>1 DEF IInv, TypeOK
<1>3. \A i \in DOMAIN rooms : i # 1 => i - 1 \in DOMAIN rooms' /\ rooms'[i - 1] = rooms[i]
  BY <1>1 DEF IInv, TypeOK
<1>4. \A i \in DOMAIN rooms' : i + 1 # 1 /\ i \in Nat
  BY <1>1
<1>5. \A i \in DOMAIN rooms' : ~rooms'[i].reload
  BY <1>2, <1>4 DEF IInv, RoomsInv, ReloadIsFirst
<1>6. BacklogOf(rooms') = {}
  BY <1>5, BacklogMember
<1>7. ~RequestOf(rooms')
  <2>1. rooms' # <<>> => 1 \in DOMAIN rooms'
    BY <1>1
  <2> QED
    BY <1>5, <2>1 DEF RequestOf, IsRequest
<1>8. ASSUME NEW z
      PROVE  z \in ChangedOf(rooms') <=>
                 \E i \in DOMAIN rooms : i # 1 /\ ~rooms[i].reload /\ z \in rooms[i].waiting
  <2>1. ASSUME z \in ChangedOf(rooms')
        PROVE  \E i \in DOMAIN rooms : i # 1 /\ ~rooms[i].reload /\ z \in rooms[i].waiting
    <3>1. PICK i \in DOMAIN rooms' : ~rooms'[i].reload /\ z \in rooms'[i].waiting
      BY <2>1, ChangedMember
    <3>2. i + 1 \in DOMAIN rooms /\ i + 1 # 1 /\ rooms'[i] = rooms[i + 1]
      BY <1>2, <1>4
    <3> QED
      BY <3>1, <3>2
  <2>2. ASSUME NEW i \in DOMAIN rooms, i # 1, ~rooms[i].reload, z \in rooms[i].waiting
        PROVE  z \in ChangedOf(rooms')
    <3>1. i - 1 \in DOMAIN rooms' /\ rooms'[i - 1] = rooms[i]
      BY <1>3, <2>2
    <3> QED
      BY <2>2, <3>1, ChangedMember
  <2> QED
    BY <2>1, <2>2
<1>9. CASE rooms[1].reload
  <2>1. \A z : z \in ChangedOf(rooms') <=> z \in ChangedOf(rooms)
    BY <1>8, <1>9, ChangedMember
  <2> QED
    BY <1>6, <1>7, <1>9, <2>1
<1>10. CASE ~rooms[1].reload
  <2>1. \A i \in DOMAIN rooms :
          i # 1 /\ ~rooms[i].reload => rooms[i].waiting \cap rooms[1].waiting = {}
    BY <1>10, FirstRoom DEF IInv, RoomsInv, WaitsOnce
  <2>2. \A z : z \in ChangedOf(rooms') <=> z \in ChangedOf(rooms) /\ z \notin rooms[1].waiting
    BY <1>8, <1>10, <2>1, ChangedMember
  <2> QED
    BY <1>6, <1>7, <1>10, <2>2
<1> QED
  BY <1>9, <1>10

-----------------------------------------------------------------------------
(* One lemma per operation: the step of IndexWork it is.                    *)

LEMMA EnqueueChanges ==
  ASSUME IInv, NEW z \in Zids, EnqueueZettel(z)
  PROVE  /\ RequestOf(rooms') = RequestOf(rooms)
         /\ BacklogOf(rooms') = BacklogOf(rooms)
         /\ ChangedOf(rooms') = ChangedOf(rooms) \union {z}
<1>1. CASE EnqueueNew(z)
  <2>1. /\ rooms' \in Seq(Room)
        /\ Len(rooms') = Len(rooms) + 1
        /\ \A i \in 1 .. Len(rooms) : rooms'[i] = rooms[i]
        /\ rooms'[Len(rooms) + 1] = makeAnteroom(z)
    BY <1>1, AppendRooms DEF IInv
  <2>2. /\ DOMAIN rooms' = DOMAIN rooms \union {Len(rooms) + 1}
        /\ \A i \in DOMAIN rooms : rooms'[i] = rooms[i]
        /\ Len(rooms) + 1 \notin DOMAIN rooms
    BY <2>1 DEF IInv, TypeOK
  <2>3. rooms'[Len(rooms) + 1].waiting = {z} /\ ~rooms'[Len(rooms) + 1].reload
    BY <2>1 DEF makeAnteroom
  <2>4. \A y : y \in BacklogOf(rooms') <=> y \in BacklogOf(rooms)
    BY <2>2, <2>3, BacklogMember
  <2>5. \A y : y \in ChangedOf(rooms') <=> y \in ChangedOf(rooms) \/ y = z
    BY <2>2, <2>3, ChangedMember
  <2>6. RequestOf(rooms') = RequestOf(rooms)
    <3>1. CASE rooms = <<>>
      BY <2>1, <2>3, <3>1 DEF RequestOf, IsRequest
    <3>2. CASE rooms # <<>>
      <4>1. rooms' # <<>> /\ rooms'[1] = rooms[1]
        BY <2>1, <3>2 DEF IInv, TypeOK
      <4> QED
        BY <3>2, <4>1 DEF RequestOf
    <3> QED
      BY <3>1, <3>2
  <2> QED
    BY <2>4, <2>5, <2>6
<1>2. CASE EnqueueLast(z)
  <2> DEFINE last == rooms[Len(rooms)]
             filled == Filled(last, z)
  <2>1. /\ rooms # <<>> /\ Len(rooms) \in DOMAIN rooms
        /\ last \in Room /\ ~last.reload
    BY <1>2 DEF IInv, TypeOK, EnqueueLast, LastHasSpace
  <2>2. /\ filled \in Room
        /\ filled.waiting = last.waiting \union {z}
        /\ filled.reload = last.reload
    BY <2>1, FilledRoom
  <2>3. /\ rooms' \in Seq(Room)
        /\ DOMAIN rooms' = DOMAIN rooms
        /\ rooms' # <<>>
        /\ \A i \in DOMAIN rooms :
              rooms'[i] = IF i = Len(rooms) THEN filled ELSE rooms[i]
    BY <1>2, <2>1, <2>2 DEF IInv, TypeOK, EnqueueLast
  <2> HIDE DEF filled
  <2>4. \A y : y \in BacklogOf(rooms') <=> y \in BacklogOf(rooms)
    BY <2>1, <2>2, <2>3, BacklogMember
  <2>5. \A y : y \in ChangedOf(rooms') <=> y \in ChangedOf(rooms) \/ y = z
    BY <2>1, <2>2, <2>3, ChangedMember
  <2>6. RequestOf(rooms') = RequestOf(rooms)
    <3>1. 1 \in DOMAIN rooms
      BY <2>1 DEF IInv, TypeOK
    <3>2. CASE Len(rooms) = 1
      BY <2>1, <2>2, <2>3, <3>1, <3>2 DEF RequestOf, IsRequest
    <3>3. CASE Len(rooms) # 1
      BY <2>1, <2>3, <3>1, <3>3 DEF RequestOf
    <3> QED
      BY <3>2, <3>3
  <2> QED
    BY <2>4, <2>5, <2>6
<1> QED
  BY <1>1, <1>2 DEF EnqueueZettel

LEMMA ResetRequestsAll ==
  ASSUME Reset
  PROVE  /\ RequestOf(rooms')
         /\ BacklogOf(rooms') = {}
         /\ ChangedOf(rooms') = {}
<1>1. /\ rooms' # <<>> /\ DOMAIN rooms' = {1}
      /\ rooms'[1].waiting = {} /\ rooms'[1].reload
  BY DEF Reset
<1>2. \A z : z \notin BacklogOf(rooms') /\ z \notin ChangedOf(rooms')
  BY <1>1, BacklogMember, ChangedMember
<1> QED
  BY <1>1, <1>2 DEF RequestOf, IsRequest

LEMMA ReloadDelivers ==
  ASSUME IInv, NEW S \in SUBSET Zids, Reload(S)
  PROVE  /\ ~RequestOf(rooms')
         /\ BacklogOf(rooms') = S
         /\ ChangedOf(rooms') = IF S = {} THEN {} ELSE ChangedOf(rooms)
<1>1. CASE S = {}
  <2>1. rooms' = <<>>
    BY <1>1 DEF Reload
  <2> QED
    BY <1>1, <2>1, NoRooms
<1>2. CASE S # {}
  <2>1. /\ rooms' \in Seq(Room) /\ Len(rooms') >= 1
        /\ rooms'[1].waiting = S /\ rooms'[1].reload
    <3>1. rooms' \in Seq(Room) /\ Len(rooms') >= 1 /\ rooms'[1] = ReloadRoom(S)
      BY <1>2, ReloadRooms
    <3>2. ReloadRoom(S).waiting = S /\ ReloadRoom(S).reload
      BY DEF ReloadRoom
    <3> QED
      BY <3>1, <3>2
  <2>2. PICK k \in {0, 1} :
          /\ k = 1 <=> rooms # <<>> /\ rooms[1].reload
          /\ Len(rooms') = Len(rooms) - k + 1
          /\ \A i \in 2 .. Len(rooms') : rooms'[i] = rooms[i + k - 1]
    BY <1>2, ReloadRooms
  <2>3. /\ 1 \in DOMAIN rooms'
        /\ \A i \in DOMAIN rooms' : i # 1 => /\ i + k - 1 \in DOMAIN rooms
                                             /\ rooms'[i] = rooms[i + k - 1]
                                             /\ ~rooms[i + k - 1].reload
    <3>1. \A i \in DOMAIN rooms' : i # 1 => i \in 2 .. Len(rooms')
      BY <2>1
    <3>2. \A i \in 2 .. Len(rooms') : i + k - 1 \in DOMAIN rooms
      BY <2>2 DEF IInv, TypeOK
    <3>3. \A i \in 2 .. Len(rooms') : ~rooms[i + k - 1].reload
      BY <2>2, <3>2 DEF IInv, RoomsInv, ReloadIsFirst, TypeOK
    <3>4. 1 \in DOMAIN rooms'
      BY <2>1
    <3> QED
      BY <2>2, <3>1, <3>2, <3>3, <3>4
  <2>4. \A j \in DOMAIN rooms : ~rooms[j].reload =>
            /\ j - k + 1 \in DOMAIN rooms' /\ j - k + 1 # 1
            /\ rooms'[j - k + 1] = rooms[j]
    <3>1. ASSUME NEW j \in DOMAIN rooms, ~rooms[j].reload
          PROVE  j - k + 1 \in 2 .. Len(rooms')
      BY <2>2, <3>1 DEF IInv, TypeOK
    <3>2. ASSUME NEW j \in DOMAIN rooms
          PROVE  (j - k + 1) + k - 1 = j /\ j \in Nat
      BY <2>2 DEF IInv, TypeOK
    <3>3. \A i \in 2 .. Len(rooms') : i \in DOMAIN rooms' /\ i # 1
      BY <2>1
    <3> QED
      BY <2>2, <3>1, <3>2, <3>3
  <2>5. \A z : z \in BacklogOf(rooms') <=> z \in S
    BY <2>1, <2>3, BacklogMember
  <2>6. \A z : z \in ChangedOf(rooms') <=> z \in ChangedOf(rooms)
    BY <2>1, <2>3, <2>4, ChangedMember
  <2>7. ~RequestOf(rooms')
    BY <1>2, <2>1 DEF RequestOf, IsRequest
  <2> QED
    BY <1>2, <2>5, <2>6, <2>7
<1> QED
  BY <1>1, <1>2

LEMMA PopTakes ==
  ASSUME IInv, rooms # <<>>, ~IsRequest(rooms[1]), NEW z \in Zids, PopFirst(z)
  PROVE  /\ ~RequestOf(rooms')
         /\ BacklogOf(rooms') = BacklogOf(rooms) \ {z}
         /\ ChangedOf(rooms') = IF rooms[1].reload
                                THEN ChangedOf(rooms)
                                ELSE ChangedOf(rooms) \ {z}
<1>1. CASE rooms[1].waiting = {z}
  <2>1. rooms' = Tail(rooms)
    BY <1>1 DEF PopFirst
  <2> QED
    BY <1>1, <2>1, FirstRoom, WithoutFirst
<1>2. CASE rooms[1].waiting # {z}
  <2> DEFINE popped == Popped(rooms[1], z)
  <2>1. rooms[1] \in Room /\ 1 \in DOMAIN rooms /\ z \in rooms[1].waiting
    BY DEF IInv, TypeOK, PopFirst
  <2>2. /\ popped \in Room
        /\ popped.waiting = rooms[1].waiting \ {z}
        /\ popped.reload = rooms[1].reload
        /\ popped.waiting # {}
    BY <1>2, <2>1 DEF Room, Popped
  <2>3. /\ DOMAIN rooms' = DOMAIN rooms
        /\ rooms' # <<>>
        /\ \A i \in DOMAIN rooms : rooms'[i] = IF i = 1 THEN popped ELSE rooms[i]
    BY <1>2, <2>1, <2>2 DEF IInv, TypeOK, PopFirst
  <2> HIDE DEF popped
  <2>4. ~RequestOf(rooms')
    BY <2>1, <2>2, <2>3 DEF RequestOf, IsRequest
  <2>5. \A i \in DOMAIN rooms : rooms[i].reload => i = 1
    BY DEF IInv, RoomsInv, ReloadIsFirst
  <2>6. \A y : y \in BacklogOf(rooms') <=> y \in BacklogOf(rooms) /\ y # z
    BY <2>1, <2>2, <2>3, <2>5, BacklogMember
  <2>7. ASSUME rooms[1].reload
        PROVE  \A y : y \in ChangedOf(rooms') <=> y \in ChangedOf(rooms)
    <3>1. ~rooms[1].reload <=> ~rooms'[1].reload
      BY <2>1, <2>2, <2>3
    <3>2. \A i \in DOMAIN rooms : i # 1 => rooms'[i] = rooms[i]
      BY <2>3
    <3> QED
      BY <2>3, <2>7, <3>1, <3>2, ChangedMember
  <2>8. ASSUME ~rooms[1].reload
        PROVE  \A y : y \in ChangedOf(rooms') <=> y \in ChangedOf(rooms) /\ y # z
    <3>1. \A i \in DOMAIN rooms : i # 1 /\ ~rooms[i].reload => z \notin rooms[i].waiting
      BY <2>1, <2>8 DEF IInv, RoomsInv, WaitsOnce
    <3> QED
      BY <2>1, <2>2, <2>3, <2>8, <3>1, ChangedMember
  <2>9. BacklogOf(rooms') = BacklogOf(rooms) \ {z}
    BY <2>6
  <2> QED
    BY <2>4, <2>7, <2>8, <2>9
<1> QED
  BY <1>1, <1>2

LEMMA DequeueTakes ==
  ASSUME IInv, Dequeue
  PROVE  Work!TakeNothing \/ Work!TakeRequest \/ Work!TakeBacklog \/ Work!TakeChange
<1>1. CASE DequeueNothing
  <2>1. Work!TakeNothing
    BY <1>1, NoRooms DEF DequeueNothing, Answer, Work!TakeNothing, Work!Nothing,
       RequestOf, BacklogOf, ChangedOf
  <2> QED
    BY <2>1
<1>2. CASE DequeueReload
  <2>1. RequestOf(rooms) /\ rooms[1].reload /\ rooms[1].waiting = {}
    BY <1>2 DEF DequeueReload, RequestOf, IsRequest
  <2>2. rooms # <<>> /\ rooms' = Tail(rooms) /\ Answer("arReload", Invalid, FALSE)
    BY <1>2 DEF DequeueReload
  <2>3. BacklogOf(rooms) = {}
    BY <2>1, <2>2, FirstRoom
  <2>4. /\ ~RequestOf(rooms') /\ BacklogOf(rooms') = {}
        /\ ChangedOf(rooms') = ChangedOf(rooms)
    BY <2>1, <2>2, WithoutFirst
  <2>5. Work!TakeRequest
    BY <2>1, <2>2, <2>3, <2>4 DEF Work!TakeRequest, Answer, RequestOf, BacklogOf, ChangedOf
  <2> QED
    BY <2>5
<1>3. CASE DequeueZettel
  <2>1. rooms # <<>> /\ ~IsRequest(rooms[1])
    BY <1>3 DEF DequeueZettel
  <2>2. PICK z \in Zids : PopFirst(z) /\ Answer("arZettel", z, rooms[1].reload)
    BY <1>3 DEF DequeueZettel
  <2>3. ~RequestOf(rooms) /\ z \in rooms[1].waiting
    BY <2>1, <2>2 DEF RequestOf, PopFirst
  <2>4. /\ rooms[1] \in Room /\ 1 \in DOMAIN rooms
        /\ BacklogOf(rooms) = IF rooms[1].reload THEN rooms[1].waiting ELSE {}
    BY <2>1, FirstRoom
  <2>5. /\ ~RequestOf(rooms')
        /\ BacklogOf(rooms') = BacklogOf(rooms) \ {z}
        /\ ChangedOf(rooms') = IF rooms[1].reload
                               THEN ChangedOf(rooms)
                               ELSE ChangedOf(rooms) \ {z}
    BY <2>1, <2>2, PopTakes
  <2>6. CASE rooms[1].reload
    <3>1. Work!TakeBacklog
      BY <2>2, <2>3, <2>4, <2>5, <2>6
         DEF Work!TakeBacklog, Answer, RequestOf, BacklogOf, ChangedOf
    <3> QED
      BY <3>1
  <2>7. CASE ~rooms[1].reload
    <3>1. rooms[1].reload = FALSE
      BY <2>4, <2>7 DEF Room
    <3>2. z \in ChangedOf(rooms) /\ BacklogOf(rooms) = {}
      BY <2>3, <2>4, <2>7, ChangedMember
    <3>3. Work!TakeChange
      BY <2>2, <2>3, <2>5, <3>1, <3>2
         DEF Work!TakeChange, Answer, RequestOf, BacklogOf, ChangedOf
    <3> QED
      BY <3>3
  <2> QED
    BY <2>6, <2>7
<1> QED
  BY <1>1, <1>2, <1>3 DEF Dequeue

LEMMA InitWork == Init => Work!Init
  BY NoRooms DEF Init, Work!Init, Work!Nothing, RequestOf, BacklogOf, ChangedOf

(* Every step is a step of IndexWork, or changes nothing of it.             *)
LEMMA NextWork == IInv /\ [Next]_vars => [Work!Next]_(Work!workVars)
<1> SUFFICES ASSUME IInv, [Next]_vars
             PROVE  Work!Next \/ UNCHANGED Work!workVars
  OBVIOUS
<1>1. ASSUME NEW z \in Zids, EnqueueZettel(z)
      PROVE  Work!Next
  <2>1. z \notin NeverIndexed /\ answer' = answer
    BY <1>1 DEF EnqueueZettel
  <2>2. Work!Change(z)
    BY <1>1, <2>1, EnqueueChanges DEF Work!Change, RequestOf, BacklogOf, ChangedOf
  <2> QED
    BY <2>2 DEF Work!Next
<1>2. CASE Reset
  <2>1. Work!RequestAll
    BY <1>2, ResetRequestsAll DEF Reset, Work!RequestAll, RequestOf, BacklogOf, ChangedOf
  <2> QED
    BY <2>1 DEF Work!Next
<1>3. ASSUME NEW S \in SUBSET Zids, Reload(S)
      PROVE  Work!Next
  <2>1. answer' = answer
    BY <1>3 DEF Reload
  <2>2. Work!Deliver(S)
    BY <1>3, <2>1, ReloadDelivers DEF Work!Deliver, RequestOf, BacklogOf, ChangedOf
  <2> QED
    BY <2>2 DEF Work!Next
<1>4. CASE FetchFails
  BY <1>4 DEF FetchFails, Work!workVars
<1>5. CASE Dequeue
  BY <1>5, DequeueTakes DEF Work!Next
<1>6. CASE UNCHANGED vars
  BY <1>6 DEF vars, Work!workVars
<1> QED
  BY <1>1, <1>2, <1>3, <1>4, <1>5, <1>6 DEF Next

(* The queue does what IndexWork promises: no reported change leaves it but *)
(* to the indexer or through a request for everything.                      *)
THEOREM ImplementsIndexWorkSpec == Spec => ImplementsIndexWork
  BY InitIInv, NextIInv, InitWork, NextWork, PTL
     DEF Spec, ImplementsIndexWork, Work!Spec
=============================================================================
