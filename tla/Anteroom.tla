------------------------------ MODULE Anteroom ------------------------------
(***************************************************************************)
(* The queue of the indexer, box/manager/anteroom.go.                      *)
(*                                                                         *)
(* The linked list of rooms is a sequence: "first" is its head and "last"  *)
(* its last element.  A reload room whose "waiting" is nil is the request  *)
(* to reload; it is the empty set here, since Pop and Reload never leave   *)
(* an empty set in a room (NoEmptyRoom).  Every operation holds the        *)
(* queue's mutex, so that each of them is one action.                      *)
(***************************************************************************)
EXTENDS Naturals, Sequences, FiniteSets

CONSTANTS
    Zids,           \* identifiers that are reported or fetched
    NeverIndexed,   \* those EnqueueZettel ignores, e.g. the mapping zettel
    MaxLoad         \* maxLoad: enqueued identifiers per room, 0 = unlimited

Invalid == 0

ASSUME ZidsAssumption == Zids \subseteq Nat \ {Invalid} /\ IsFiniteSet(Zids)
ASSUME MaxLoadAssumption == MaxLoad \in Nat

VARIABLES
    rooms,      \* anteroomQueue.first and its successors
    answer,     \* what the last Dequeue returned
    fetching    \* the indexer took arReload and is inside FetchZids

vars == <<rooms, answer, fetching>>

Room == [waiting : SUBSET Zids, curLoad : Nat, reload : BOOLEAN]

Answers ==
    [action : {"arNothing", "arReload"}, zid : {Invalid}, lastReload : {FALSE}]
        \union [action : {"arZettel"}, zid : Zids, lastReload : BOOLEAN]

TypeOK ==
    /\ rooms \in Seq(Room)
    /\ answer \in Answers
    /\ fetching \in BOOLEAN

IsRequest(room) == room.reload /\ room.waiting = {}

Answer(action, zid, lastReload) ==
    answer' = [action |-> action, zid |-> zid, lastReload |-> lastReload]

Init ==
    /\ rooms = <<>>
    /\ answer = [action |-> "arNothing", zid |-> Invalid, lastReload |-> FALSE]
    /\ fetching = FALSE

-----------------------------------------------------------------------------
(* EnqueueZettel is called by the notifier, by the manager's operations and *)
(* by the indexer itself.                                                   *)

makeAnteroom(z) == [waiting |-> {z}, curLoad |-> 1, reload |-> FALSE]

(* Mutant: only the first room is searched. *)
SearchesFirstOnly(z) ==
    rooms # <<>> /\ ~rooms[1].reload /\ z \in rooms[1].waiting

IsWaiting(z) ==
    \E i \in DOMAIN rooms : ~rooms[i].reload /\ z \in rooms[i].waiting

LastHasSpace ==
    /\ rooms # <<>>
    /\ ~rooms[Len(rooms)].reload
    /\ MaxLoad = 0 \/ rooms[Len(rooms)].curLoad < MaxLoad

Filled(room, z) ==
    [room EXCEPT !.waiting = room.waiting \union {z}, !.curLoad = room.curLoad + 1]

EnqueueLast(z) ==
    /\ LastHasSpace
    /\ rooms' = [rooms EXCEPT ![Len(rooms)] = Filled(@, z)]

EnqueueNew(z) ==
    /\ ~LastHasSpace
    /\ rooms' = Append(rooms, makeAnteroom(z))

EnqueueZettel(z) ==
    /\ z \notin NeverIndexed
    /\ ~IsWaiting(z)
    /\ EnqueueLast(z) \/ EnqueueNew(z)
    /\ UNCHANGED <<answer, fetching>>

(* Reset leaves one request; whatever was waiting is forgotten. *)
Reset ==
    /\ rooms' = <<[waiting |-> {}, curLoad |-> 0, reload |-> TRUE]>>
    /\ UNCHANGED <<answer, fetching>>

-----------------------------------------------------------------------------
(* Reload is the second half of the indexer's arReload.  The reload rooms   *)
(* in front are dropped, a request made in the meantime among them.         *)

(* Mutant: every room is dropped. *)
DeletesAllRooms(rest) == rest = <<>>

deleteReloadedRooms(rest) ==
    \E k \in 0 .. Len(rooms) :
        /\ \A i \in 1 .. k : rooms[i].reload
        /\ k < Len(rooms) => ~rooms[k + 1].reload
        /\ rest = SubSeq(rooms, k + 1, Len(rooms))

ReloadRoom(S) == [waiting |-> S, curLoad |-> Cardinality(S), reload |-> TRUE]

Reload(S) ==
    /\ fetching
    /\ fetching' = FALSE
    /\ \E rest \in {SubSeq(rooms, k, Len(rooms)) : k \in 1 .. Len(rooms) + 1} :
        /\ deleteReloadedRooms(rest)
        /\ rooms' = IF S = {} THEN <<>> ELSE <<ReloadRoom(S)>> \o rest
    /\ UNCHANGED answer

(* FetchZids returned an error: the indexer does not call Reload. *)
FetchFails ==
    /\ fetching
    /\ fetching' = FALSE
    /\ UNCHANGED <<rooms, answer>>

-----------------------------------------------------------------------------
(* Dequeue is called by the indexer only, which is not fetching then. *)

DequeueNothing ==
    /\ rooms = <<>>
    /\ Answer("arNothing", Invalid, FALSE)
    /\ UNCHANGED <<rooms, fetching>>

DequeueReload ==
    /\ rooms # <<>>
    /\ IsRequest(rooms[1])
    /\ rooms' = Tail(rooms)
    /\ Answer("arReload", Invalid, FALSE)
    /\ fetching' = TRUE

Popped(room, z) == [room EXCEPT !.waiting = room.waiting \ {z}]

(* Mutant: a room may be filled again after Pop. *)
PopAndUnload(z) ==
    /\ z \in rooms[1].waiting
    /\ \A y \in rooms[1].waiting : y <= z
    /\ rooms' = IF rooms[1].waiting = {z}
                THEN Tail(rooms)
                ELSE [rooms EXCEPT ![1] =
                        [Popped(@, z) EXCEPT !.curLoad = rooms[1].curLoad - 1]]

(* Pop takes the largest identifier; an emptied room is removed. *)
PopFirst(z) ==
    /\ z \in rooms[1].waiting
    /\ \A y \in rooms[1].waiting : y <= z
    /\ rooms' = IF rooms[1].waiting = {z}
                THEN Tail(rooms)
                ELSE [rooms EXCEPT ![1] = Popped(@, z)]

DequeueZettel ==
    /\ rooms # <<>>
    /\ ~IsRequest(rooms[1])
    /\ \E z \in Zids :
        /\ PopFirst(z)
        /\ Answer("arZettel", z, rooms[1].reload)
    /\ UNCHANGED fetching

Dequeue ==
    /\ ~fetching
    /\ DequeueNothing \/ DequeueReload \/ DequeueZettel

Next ==
    \/ \E z \in Zids : EnqueueZettel(z)
    \/ Reset
    \/ \E S \in SUBSET Zids : Reload(S)
    \/ FetchFails
    \/ Dequeue

(* The indexer's loop calls Dequeue again and again, and FetchZids returns. *)
Fairness ==
    /\ WF_vars(Dequeue)
    /\ WF_vars(FetchFails \/ \E S \in SUBSET Zids : Reload(S))

Spec == Init /\ [][Next]_vars
FairSpec == Spec /\ Fairness

-----------------------------------------------------------------------------
(* No room is empty but the request: Dequeue can rely on first.waiting.Pop  *)
(* to find something, and never returns arNothing while zettel wait behind  *)
(* an exhausted room.                                                       *)
NoEmptyRoom ==
    \A i \in DOMAIN rooms : rooms[i].waiting = {} => rooms[i].reload /\ i = 1

(* A reload room is only ever the first room.  EnqueueZettel may therefore  *)
(* look only at the last room for space, and deleteReloadedRooms, which     *)
(* looks only at the front, gets rid of all of an older reload.             *)
ReloadIsFirst == \A i \in DOMAIN rooms : rooms[i].reload => i = 1

(* An identifier waits in one room only, so that one change is indexed      *)
(* once, although room after room is filled and emptied.                    *)
WaitsOnce ==
    \A i, j \in DOMAIN rooms :
        i # j /\ ~rooms[i].reload /\ ~rooms[j].reload
            => rooms[i].waiting \cap rooms[j].waiting = {}

(* curLoad counts the identifiers a room was ever given, so a room never    *)
(* holds more than its load says, and never takes more than MaxLoad.        *)
LoadIsBound ==
    \A i \in DOMAIN rooms :
        ~rooms[i].reload =>
            /\ Cardinality(rooms[i].waiting) <= rooms[i].curLoad
            /\ MaxLoad > 0 => rooms[i].curLoad <= MaxLoad

(* What EnqueueZettel, Reload and Dequeue rely on: the rooms are in order,  *)
(* none of them is empty or too full, and no identifier waits twice.        *)
RoomsAreSound == TypeOK /\ NoEmptyRoom /\ ReloadIsFirst /\ WaitsOnce /\ LoadIsBound

(* Nothing that waits waits forever, however many larger identifiers, which *)
(* Pop prefers, are enqueued after it: a room that was given MaxLoad        *)
(* identifiers takes no more, even after it was partly emptied.             *)
NoStarvation == \A z \in Zids : IsWaiting(z) ~> ~IsWaiting(z)

-----------------------------------------------------------------------------
(* The rooms implement the sets of IndexWork. *)
Work == INSTANCE IndexWork WITH
    request <- rooms # <<>> /\ IsRequest(rooms[1]),
    backlog <- UNION {rooms[i].waiting : i \in {j \in DOMAIN rooms : rooms[j].reload}},
    changed <- UNION {rooms[i].waiting : i \in {j \in DOMAIN rooms : ~rooms[j].reload}}

(* Every operation on the rooms is the operation on the sets: no reported   *)
(* change leaves the queue but to the indexer or through a request for all. *)
ImplementsIndexWork == Work!Spec
=============================================================================
