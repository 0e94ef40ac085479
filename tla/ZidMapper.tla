----------------------------- MODULE ZidMapper -----------------------------
(***************************************************************************)
(* The mapping of old zettel identifiers to new, incrementing ones:        *)
(* box/manager/zidmapper.go, its use in box/manager/box.go (createMapping, *)
(* deleteMapping) and in manager.go (setupIdentifierMapping).              *)
(*                                                                         *)
(* New identifiers are numbers.  zm.toOld is not modelled: the code only   *)
(* writes it, always together with toNew, of which it is the inverse as    *)
(* long as toNew is injective.  The entry of id.Invalid, which is in no    *)
(* box and removed by the first fetch, is left out.  The mapping zettel    *)
(* has the content it was given here: other writers are not modelled.      *)
(*                                                                         *)
(* Two activities touch the mapping at the same time: one that holds       *)
(* mappingMx and creates or deletes the mapping of one zettel (op), and    *)
(* the reading of the mapping by FetchAsBytes (fetch).  Zettel appear in   *)
(* and vanish from the boxes independently of both.                        *)
(***************************************************************************)
EXTENDS Integers, FiniteSets

CONSTANTS
    Zids,           \* old identifiers, numbers
    Predefined,     \* zm.defined: a function from some of them to numbers
    Builtin,        \* those that are in the boxes of the program at any time
    Manual,         \* those between 1000000000 and 1099999999
    ManualHome,     \* 1000000000
    FirstM,         \* 0020, the first number of a manual zettel
    MaxM,           \* 00zw, the first number that is not meant for them
    LastM,          \* bound: nextZidM is at most LastM + 1
    FirstN,         \* 0101, the first number of any other zettel
    MaxN,           \* bound: numbers are below MaxN
    Writable        \* the first box accepts the mapping zettel

Unmapped == 0
Normal == Zids \ DOMAIN Predefined

ASSUME ZidsAssumption ==
    /\ Zids \subseteq Nat
    /\ Builtin \subseteq DOMAIN Predefined /\ DOMAIN Predefined \subseteq Zids
    /\ Manual \subseteq Normal
    /\ ManualHome \in Nat
ASSUME NumbersAssumption ==
    /\ FirstM \in Nat \ {0} /\ MaxM \in Nat /\ LastM \in Nat /\ FirstN \in Nat /\ MaxN \in Nat
    /\ FirstM <= MaxM /\ MaxM < FirstN
    /\ \A z \in DOMAIN Predefined :
            Predefined[z] \in (1 .. FirstN - 1) \ (FirstM .. MaxM - 1)
    /\ \A y, z \in DOMAIN Predefined : Predefined[y] = Predefined[z] => y = z

VARIABLES
    present,    \* zettel in the boxes
    toNew,      \* zm.toNew, Unmapped where there is no entry
    nextZidM,   \* zm.nextZidM
    hadManual,  \* zm.hadManual
    nextZidN,   \* zm.nextZidN
    stored,     \* the content of the mapping zettel
    op,         \* who holds mappingMx
    fetch,      \* FetchAsBytes
    starting,   \* the manager is in Start, and no operation is possible
    overrun,    \* history: more numbers were drawn for manual zettel than
                \* there are
    restarted   \* history: the program was started again

numbering == <<toNew, nextZidM, hadManual, nextZidN, overrun>>
vars == <<present, numbering, stored, op, fetch, starting, restarted>>

(* An activity: where it is, the zettel it looks up, and those still to be  *)
(* looked up.                                                               *)
Idle == [pc |-> "idle", zid |-> Unmapped]
FetchIdle == [pc |-> "idle", zid |-> Unmapped, all |-> {}, todo |-> {}]

TypeOK ==
    /\ present \subseteq Zids
    /\ toNew \in [Zids -> Nat]
    /\ stored \in [Zids -> Nat]
    /\ nextZidM \in Nat /\ nextZidN \in Nat
    /\ {hadManual, starting, overrun, restarted} \subseteq BOOLEAN
    /\ op \in [pc : {"idle"}, zid : {Unmapped}]
              \union [pc : {"lookup", "assign", "save", "delete"}, zid : Zids]
    /\ fetch \in [pc : {"idle", "next", "prune"}, zid : {Unmapped},
                  all : SUBSET Zids, todo : SUBSET Zids]
                 \union [pc : {"assign"}, zid : Zids,
                         all : SUBSET Zids, todo : SUBSET Zids]

predefined == [z \in Zids |-> IF z \in DOMAIN Predefined THEN Predefined[z] ELSE Unmapped]

(* NewZidMapper, and Start up to the fetch of all zettel. *)
Init ==
    /\ present = Builtin
    /\ toNew = predefined
    /\ nextZidM = FirstM
    /\ hadManual = FALSE
    /\ nextZidN = FirstN
    /\ stored = [z \in Zids |-> Unmapped]
    /\ op = Idle
    /\ fetch = [pc |-> "next", zid |-> Unmapped, all |-> present, todo |-> present]
    /\ starting = TRUE
    /\ overrun = FALSE
    /\ restarted = FALSE

-----------------------------------------------------------------------------
(* What is part of the program is always there.  A predefined zettel that   *)
(* is not can be stored by somebody, as any other one.                      *)
Appear(z) ==
    /\ z \notin present
    /\ present' = present \union {z}
    /\ UNCHANGED <<numbering, stored, op, fetch, starting, restarted>>

Vanish(z) ==
    /\ z \in present \ Builtin
    /\ present' = present \ {z}
    /\ UNCHANGED <<numbering, stored, op, fetch, starting, restarted>>

-----------------------------------------------------------------------------
(* GetZidN: a lookup under the read lock, then the assignment of a number   *)
(* under the write lock, where the zettel is looked up again.               *)

(* Mutant: every zettel gets a manual number, once there is a manual. *)
GetsManualLate(z) == hadManual \/ z = ManualHome

GetsManual(z) == z \in Manual /\ (hadManual \/ z = ManualHome)

(* Mutant: no second lookup. *)
AssignWithoutCheck(z) ==
    /\ hadManual' = (hadManual \/ z = ManualHome)
    /\ nextZidN' = nextZidN + 1
    /\ toNew' = [toNew EXCEPT ![z] = nextZidN]
    /\ UNCHANGED <<nextZidM, overrun>>

Assign(z) ==
    IF toNew[z] # Unmapped
    THEN UNCHANGED numbering
    ELSE IF GetsManual(z)
    THEN /\ nextZidM <= LastM
         /\ overrun' = (overrun \/ nextZidM >= MaxM)
         /\ hadManual' = TRUE
         /\ nextZidM' = nextZidM + 1
         /\ toNew' = [toNew EXCEPT ![z] = nextZidM]
         /\ UNCHANGED nextZidN
    ELSE /\ nextZidN < MaxN
         /\ nextZidN' = nextZidN + 1
         /\ toNew' = [toNew EXCEPT ![z] = nextZidN]
         /\ UNCHANGED <<nextZidM, hadManual, overrun>>

-----------------------------------------------------------------------------
(* createMapping and deleteMapping, called after a zettel was created or    *)
(* deleted, and by the notifier for a change it is told of, which may be    *)
(* outdated then.                                                           *)

CreateMapping(z) ==
    /\ ~starting
    /\ op = Idle
    /\ op' = [pc |-> "lookup", zid |-> z]
    /\ UNCHANGED <<present, numbering, stored, fetch, starting, restarted>>

OpLookup ==
    /\ op.pc = "lookup"
    /\ op' = [op EXCEPT !.pc = IF toNew[op.zid] # Unmapped THEN "save" ELSE "assign"]
    /\ UNCHANGED <<present, numbering, stored, fetch, starting, restarted>>

OpAssign ==
    /\ op.pc = "assign"
    /\ Assign(op.zid)
    /\ op' = [op EXCEPT !.pc = "save"]
    /\ UNCHANGED <<present, stored, fetch, starting, restarted>>

DeleteMapping(z) ==
    /\ ~starting
    /\ op = Idle
    /\ op' = [pc |-> "delete", zid |-> z]
    /\ UNCHANGED <<present, numbering, stored, fetch, starting, restarted>>

(* Mutant: the last number is given back, whichever was deleted. *)
DeleteAndReuse(z) ==
    /\ toNew' = IF z \in DOMAIN Predefined THEN toNew ELSE [toNew EXCEPT ![z] = Unmapped]
    /\ nextZidN' = IF z \in Normal /\ toNew[z] # Unmapped /\ nextZidN > FirstN
                   THEN nextZidN - 1 ELSE nextZidN

(* A predefined mapping stays; the number that was given last is given      *)
(* again.                                                                   *)
DeleteO(z) ==
    IF z \in DOMAIN Predefined
    THEN UNCHANGED <<toNew, nextZidN>>
    ELSE /\ toNew' = [toNew EXCEPT ![z] = Unmapped]
         /\ nextZidN' = IF toNew[z] # Unmapped /\ toNew[z] = nextZidN - 1
                        THEN nextZidN - 1 ELSE nextZidN

OpDelete ==
    /\ op.pc = "delete"
    /\ DeleteO(op.zid)
    /\ op' = [op EXCEPT !.pc = "save"]
    /\ UNCHANGED <<present, nextZidM, hadManual, overrun, stored, fetch, starting, restarted>>

(* AsBytes and UpdateZettel, which fails if the first box is read-only. *)
OpSave ==
    /\ op.pc = "save"
    /\ stored' = IF Writable THEN toNew ELSE stored
    /\ op' = Idle
    /\ UNCHANGED <<present, numbering, fetch, starting, restarted>>

-----------------------------------------------------------------------------
(* FetchAsBytes looks up one zettel after the other, the smallest first,    *)
(* and then removes what it did not see.                                    *)

FetchBegin ==
    /\ fetch = FetchIdle
    /\ fetch' = [pc |-> "next", zid |-> Unmapped, all |-> present, todo |-> present]
    /\ UNCHANGED <<present, numbering, stored, op, starting, restarted>>

FetchNext ==
    /\ fetch.pc = "next"
    /\ \E z \in fetch.todo :
        /\ \A y \in fetch.todo : z <= y
        /\ fetch' = IF toNew[z] # Unmapped
                    THEN [fetch EXCEPT !.todo = @ \ {z}]
                    ELSE [fetch EXCEPT !.pc = "assign", !.zid = z, !.todo = @ \ {z}]
    /\ UNCHANGED <<present, numbering, stored, op, starting, restarted>>

FetchAssign ==
    /\ fetch.pc = "assign"
    /\ Assign(fetch.zid)
    /\ fetch' = [fetch EXCEPT !.pc = "next", !.zid = Unmapped]
    /\ UNCHANGED <<present, stored, op, starting, restarted>>

(* What is not among the fetched identifiers loses its mapping, predefined  *)
(* or not.  The comparison of the lengths only saves the loop.              *)
FetchPrune ==
    /\ fetch.pc = "next"
    /\ fetch.todo = {}
    /\ toNew' = IF Cardinality({z \in Zids : toNew[z] # Unmapped}) = Cardinality(fetch.all)
                THEN toNew
                ELSE [z \in Zids |-> IF z \in fetch.all THEN toNew[z] ELSE Unmapped]
    /\ fetch' = FetchIdle
    /\ starting' = FALSE
    /\ UNCHANGED <<present, nextZidM, hadManual, nextZidN, overrun, stored, op, restarted>>

-----------------------------------------------------------------------------
(* The program stops, or is killed, and starts again: parseAndUpdate reads  *)
(* the mapping zettel, and setupIdentifierMapping continues with the fetch. *)
(* Its UpdateZettel is refused, since the manager is not started yet.       *)

parseAndUpdate ==
    /\ toNew' = [z \in Zids |-> IF predefined[z] # Unmapped THEN predefined[z] ELSE stored[z]]
    /\ \E n \in FirstN .. MaxN :
        /\ \A z \in Normal : stored[z] < n
        /\ n = FirstN \/ \E z \in Normal : n = stored[z] + 1
        /\ nextZidN' = n

Restart ==
    /\ parseAndUpdate
    /\ nextZidM' = FirstM
    /\ hadManual' = FALSE
    /\ op' = Idle
    /\ fetch' = [pc |-> "next", zid |-> Unmapped, all |-> present, todo |-> present]
    /\ starting' = TRUE
    /\ restarted' = TRUE
    /\ UNCHANGED <<present, stored, overrun>>

-----------------------------------------------------------------------------
(* What happens between a start and the end of the program. *)
Step ==
    \/ \E z \in Zids : Appear(z) \/ Vanish(z) \/ CreateMapping(z) \/ DeleteMapping(z)
    \/ OpLookup \/ OpAssign \/ OpDelete \/ OpSave
    \/ FetchBegin \/ FetchNext \/ FetchAssign \/ FetchPrune

Next == Step \/ Restart

Spec == Init /\ [][Next]_vars

-----------------------------------------------------------------------------
(* Whether a number is meant for zettel of the manual. *)
IsManual(n) == n \in FirstM .. MaxM - 1

(* The mapping can be read in both directions: no new identifier belongs to *)
(* two zettel, whoever asks for a number while another one reads, prunes or *)
(* deletes, and although the last number may be given again.  A restart     *)
(* forgets which numbers of the manual were given: they, and only they, may *)
(* then come twice.                                                         *)
Injective ==
    \A y, z \in Zids :
        toNew[y] # Unmapped /\ toNew[y] = toNew[z] => y = z \/ (restarted /\ IsManual(toNew[y]))

(* While the program runs a zettel never changes its number, unless its     *)
(* mapping is removed first: between the lookup and the write lock another  *)
(* activity may have given it one.                                          *)
KeepsNumber ==
    [][Step => \A z \in Zids : toNew[z] # Unmapped /\ toNew'[z] # Unmapped
            => toNew'[z] = toNew[z]]_vars

(* A predefined number is never another zettel's, also while its own zettel *)
(* is in no box and has lost it; what is part of the program keeps it.      *)
PredefinedKept ==
    /\ \A y \in Zids, z \in DOMAIN Predefined : toNew[y] = Predefined[z] => y = z
    /\ \A z \in Builtin : toNew[z] = Predefined[z]

(* Every number means one zettel, and the predefined ones what they should. *)
(* If more manual numbers were drawn than there are, numbers come twice.    *)
NumbersAreUnique == ~overrun => Injective /\ PredefinedKept

(* Manual numbers go to manual zettel only, so that the manual can take     *)
(* them all.                                                                *)
ManualNumbers ==
    /\ TypeOK
    /\ ~overrun => \A z \in Zids : IsManual(toNew[z]) => z \in Manual

=============================================================================
