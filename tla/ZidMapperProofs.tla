-------------------------- MODULE ZidMapperProofs --------------------------
(* Theorems about the mapping, for every set of identifiers and every       *)
(* bound, and however often the program is started again.                   *)
EXTENDS ZidMapper, TLAPS

NumberingOK ==
    /\ toNew \in [Zids -> Nat]
    /\ nextZidM \in Nat /\ nextZidN \in Nat
    /\ hadManual \in BOOLEAN /\ overrun \in BOOLEAN

StoredOK == stored \in [Zids -> Nat]

OpOK ==
    op \in [pc : {"idle"}, zid : {Unmapped}]
           \union [pc : {"lookup", "assign", "save", "delete"}, zid : Zids]

FetchOK ==
    fetch \in [pc : {"idle", "next", "prune"}, zid : {Unmapped},
               all : SUBSET Zids, todo : SUBSET Zids]
              \union [pc : {"assign"}, zid : Zids,
                      all : SUBSET Zids, todo : SUBSET Zids]

ActivitiesOK ==
    /\ present \subseteq Zids
    /\ starting \in BOOLEAN /\ restarted \in BOOLEAN
    /\ OpOK /\ FetchOK

LEMMA TypeParts == TypeOK <=> NumberingOK /\ StoredOK /\ ActivitiesOK
BY DEF TypeOK, NumberingOK, StoredOK, ActivitiesOK, OpOK, FetchOK

LEMMA InitType == Init => TypeOK
<1> SUFFICES ASSUME Init PROVE TypeOK
  OBVIOUS
<1> USE ZidsAssumption, NumbersAssumption
<1>1. toNew \in [Zids -> Nat] /\ stored \in [Zids -> Nat]
  BY DEF Init, predefined, Unmapped
<1> QED
  BY <1>1 DEF Init, TypeOK, Idle

LEMMA AssignType ==
  ASSUME NumberingOK, NEW z \in Zids, Assign(z)
  PROVE  NumberingOK' /\ \A y \in Zids : toNew[y] # Unmapped => toNew'[y] = toNew[y]
<1> USE NumbersAssumption
<1>1. CASE toNew[z] # Unmapped
  BY <1>1 DEF Assign, numbering, NumberingOK
<1>2. CASE toNew[z] = Unmapped /\ GetsManual(z)
  BY <1>2 DEF Assign, NumberingOK
<1>3. CASE toNew[z] = Unmapped /\ ~GetsManual(z)
  BY <1>3 DEF Assign, NumberingOK
<1> QED
  BY <1>1, <1>2, <1>3

LEMMA DeleteType ==
  ASSUME NumberingOK, NEW z \in Zids, DeleteO(z), UNCHANGED <<nextZidM, hadManual, overrun>>
  PROVE  /\ NumberingOK'
         /\ \A y \in Zids : toNew'[y] \in {toNew[y], Unmapped}
<1>1. CASE z \in DOMAIN Predefined
  BY <1>1 DEF DeleteO, NumberingOK
<1>2. CASE z \notin DOMAIN Predefined
  <2>1. /\ toNew' = [toNew EXCEPT ![z] = Unmapped]
        /\ nextZidN' = IF toNew[z] # Unmapped /\ toNew[z] = nextZidN - 1
                       THEN nextZidN - 1 ELSE nextZidN
    BY <1>2 DEF DeleteO
  <2> QED
    BY <2>1 DEF NumberingOK, Unmapped
<1> QED
  BY <1>1, <1>2

LEMMA PruneType ==
  ASSUME NumberingOK, FetchPrune
  PROVE  /\ NumberingOK'
         /\ \A y \in Zids : toNew'[y] \in {toNew[y], Unmapped}
         /\ \A y \in fetch.all \intersect Zids : toNew'[y] = toNew[y]
<1>1. /\ toNew' \in [Zids -> Nat]
      /\ \A y \in Zids : toNew'[y] \in {toNew[y], Unmapped}
      /\ \A y \in fetch.all \intersect Zids : toNew'[y] = toNew[y]
  <2>1. CASE toNew' = toNew
    BY <2>1 DEF NumberingOK
  <2>2. CASE toNew' = [y \in Zids |-> IF y \in fetch.all THEN toNew[y] ELSE Unmapped]
    BY <2>2 DEF NumberingOK, Unmapped
  <2> QED
    BY <2>1, <2>2 DEF FetchPrune
<1> QED
  BY <1>1 DEF FetchPrune, NumberingOK

(* A step changes the number of no zettel, but may remove it. *)
Keeps == \A z \in Zids : toNew[z] # Unmapped /\ toNew'[z] # Unmapped
                        => toNew'[z] = toNew[z]

LEMMA StepType == TypeOK /\ [Step]_vars => TypeOK' /\ Keeps
<1> SUFFICES ASSUME TypeOK, [Step]_vars PROVE TypeOK' /\ Keeps
  OBVIOUS
<1> USE ZidsAssumption
<1>0. NumberingOK /\ StoredOK /\ ActivitiesOK
  BY TypeParts
<1>a. ASSUME NumberingOK', StoredOK', ActivitiesOK' PROVE TypeOK'
  BY <1>a DEF TypeOK, NumberingOK, StoredOK, ActivitiesOK, OpOK, FetchOK
<1>b. ASSUME UNCHANGED numbering PROVE NumberingOK' /\ Keeps
  BY <1>0, <1>b DEF numbering, NumberingOK, Keeps
<1>c. ASSUME UNCHANGED stored PROVE StoredOK'
  BY <1>0, <1>c DEF StoredOK
<1>1. CASE \E z \in Zids : Appear(z) \/ Vanish(z) \/ CreateMapping(z) \/ DeleteMapping(z)
  <2>1. UNCHANGED numbering /\ UNCHANGED stored
    BY <1>1 DEF Appear, Vanish, CreateMapping, DeleteMapping, numbering
  <2>2. present' \subseteq Zids /\ UNCHANGED <<starting, restarted, fetch>>
    BY <1>0, <1>1 DEF ActivitiesOK, Appear, Vanish, CreateMapping, DeleteMapping
  <2>3. OpOK'
    BY <1>0, <1>1 DEF ActivitiesOK, OpOK, Appear, Vanish, CreateMapping, DeleteMapping
  <2>4. ActivitiesOK'
    BY <1>0, <2>2, <2>3 DEF ActivitiesOK, FetchOK
  <2> QED
    BY <1>a, <1>b, <1>c, <2>1, <2>4
<1>2. CASE OpLookup
  <2>1. UNCHANGED numbering /\ UNCHANGED stored
    BY <1>2 DEF OpLookup, numbering
  <2>2. ActivitiesOK'
    BY <1>0, <1>2 DEF ActivitiesOK, OpOK, FetchOK, OpLookup
  <2> QED
    BY <1>a, <1>b, <1>c, <2>1, <2>2
<1>3. CASE OpAssign
  <2>1. op.zid \in Zids /\ Assign(op.zid) /\ UNCHANGED stored
    BY <1>0, <1>3 DEF ActivitiesOK, OpOK, FetchOK, OpAssign
  <2>2. ActivitiesOK'
    BY <1>0, <1>3 DEF ActivitiesOK, OpOK, FetchOK, OpAssign
  <2>3. NumberingOK' /\ Keeps
    BY <1>0, <2>1, AssignType DEF Keeps
  <2> QED
    BY <1>a, <1>c, <2>1, <2>2, <2>3
<1>4. CASE OpDelete
  <2>1. op.zid \in Zids /\ DeleteO(op.zid) /\ UNCHANGED <<nextZidM, hadManual, overrun, stored>>
    BY <1>0, <1>4 DEF ActivitiesOK, OpOK, FetchOK, OpDelete
  <2>2. ActivitiesOK'
    BY <1>0, <1>4 DEF ActivitiesOK, OpOK, FetchOK, OpDelete
  <2>3. NumberingOK' /\ Keeps
    BY <1>0, <2>1, DeleteType DEF Keeps
  <2> QED
    BY <1>a, <1>c, <2>1, <2>2, <2>3
<1>5. CASE OpSave
  <2>1. UNCHANGED numbering
    BY <1>5 DEF OpSave, numbering
  <2>2. StoredOK'
    BY <1>0, <1>5 DEF OpSave, StoredOK, NumberingOK
  <2>3. ActivitiesOK'
    BY <1>0, <1>5 DEF ActivitiesOK, OpOK, FetchOK, OpSave, Idle
  <2> QED
    BY <1>a, <1>b, <2>1, <2>2, <2>3
<1>6. CASE FetchBegin \/ FetchNext
  <2>1. UNCHANGED numbering /\ UNCHANGED stored
    BY <1>6 DEF FetchBegin, FetchNext, numbering
  <2>2. present \subseteq Zids /\ UNCHANGED <<present, starting, restarted, op>>
    BY <1>0, <1>6 DEF ActivitiesOK, FetchBegin, FetchNext
  <2>3. FetchOK'
    <3>1. CASE FetchBegin
      BY <2>2, <3>1 DEF FetchBegin, FetchOK
    <3>2. CASE FetchNext
      <4>1. PICK z \in fetch.todo :
              fetch' = IF toNew[z] # Unmapped
                       THEN [fetch EXCEPT !.todo = @ \ {z}]
                       ELSE [fetch EXCEPT !.pc = "assign", !.zid = z, !.todo = @ \ {z}]
        BY <3>2 DEF FetchNext
      <4>2. fetch \in [pc : {"next"}, zid : {Unmapped}, all : SUBSET Zids, todo : SUBSET Zids]
        BY <1>0, <3>2 DEF ActivitiesOK, FetchOK, FetchNext
      <4> QED
        BY <4>1, <4>2 DEF FetchOK
    <3> QED
      BY <1>6, <3>1, <3>2
  <2>4. ActivitiesOK'
    BY <1>0, <2>2, <2>3 DEF ActivitiesOK, OpOK
  <2> QED
    BY <1>a, <1>b, <1>c, <2>1, <2>4
<1>7. CASE FetchAssign
  <2>1. fetch.zid \in Zids /\ Assign(fetch.zid) /\ UNCHANGED stored
    BY <1>0, <1>7 DEF ActivitiesOK, OpOK, FetchOK, FetchAssign
  <2>2. ActivitiesOK'
    BY <1>0, <1>7 DEF ActivitiesOK, OpOK, FetchOK, FetchAssign
  <2>3. NumberingOK' /\ Keeps
    BY <1>0, <2>1, AssignType DEF Keeps
  <2> QED
    BY <1>a, <1>c, <2>1, <2>2, <2>3
<1>8. CASE FetchPrune
  <2>1. UNCHANGED stored
    BY <1>8 DEF FetchPrune
  <2>2. ActivitiesOK'
    BY <1>0, <1>8 DEF ActivitiesOK, OpOK, FetchOK, FetchPrune, FetchIdle
  <2>3. NumberingOK' /\ Keeps
    BY <1>0, <1>8, PruneType DEF Keeps
  <2> QED
    BY <1>a, <1>c, <2>1, <2>2, <2>3
<1>9. CASE UNCHANGED vars
  <2>1. UNCHANGED numbering /\ UNCHANGED stored
    BY <1>9 DEF vars, numbering
  <2>2. ActivitiesOK'
    BY <1>0, <1>9 DEF vars, ActivitiesOK, OpOK, FetchOK
  <2> QED
    BY <1>a, <1>b, <1>c, <2>1, <2>2
<1> QED
  BY <1>1, <1>2, <1>3, <1>4, <1>5, <1>6, <1>7, <1>8, <1>9 DEF Step

LEMMA RestartType == TypeOK /\ Restart => TypeOK'
<1> SUFFICES ASSUME TypeOK, Restart PROVE TypeOK'
  OBVIOUS
<1> USE ZidsAssumption, NumbersAssumption
<1>1. NumberingOK /\ StoredOK /\ ActivitiesOK
  BY TypeParts
<1>2. /\ toNew' = [z \in Zids |-> IF predefined[z] # Unmapped THEN predefined[z] ELSE stored[z]]
      /\ nextZidN' \in FirstN .. MaxN
      /\ nextZidM' = FirstM /\ hadManual' = FALSE /\ overrun' = overrun
  BY DEF Restart, parseAndUpdate
<1>3. NumberingOK'
  <2>1. toNew' \in [Zids -> Nat]
    BY <1>1, <1>2 DEF StoredOK, predefined, Unmapped
  <2>2. nextZidN' \in Nat /\ nextZidM' \in Nat
    BY <1>2
  <2> QED
    BY <1>1, <1>2, <2>1, <2>2 DEF NumberingOK
<1>4. StoredOK'
  BY <1>1 DEF Restart, StoredOK
<1>5. ActivitiesOK'
  BY <1>1 DEF Restart, ActivitiesOK, OpOK, FetchOK, Idle
<1> QED
  BY <1>3, <1>4, <1>5 DEF TypeOK, NumberingOK, StoredOK, ActivitiesOK, OpOK, FetchOK

LEMMA AlwaysTyped == Spec => []TypeOK
<1>1. TypeOK /\ [Next]_vars => TypeOK'
  BY StepType, RestartType DEF Next
<1> QED
  BY <1>1, InitType, PTL DEF Spec

(* While the program runs no zettel changes its number, unless its mapping  *)
(* was removed before: GetZidN looks twice.                                 *)
THEOREM NumbersAreKept == Spec => KeepsNumber
<1>1. TypeOK /\ [Next]_vars => [Step => Keeps]_vars
  BY StepType
<1>2. [Step => Keeps]_vars =>
        [Step => \A z \in Zids : toNew[z] # Unmapped /\ toNew'[z] # Unmapped
                    => toNew'[z] = toNew[z]]_vars
  BY DEF Keeps
<1> QED
  BY <1>1, <1>2, AlwaysTyped, PTL DEF Spec, KeepsNumber

-----------------------------------------------------------------------------
(* Every number in use is predefined, or was drawn from one of the two      *)
(* counters.                                                                *)
Drawn(z) ==
    \/ toNew[z] = Unmapped
    \/ z \in DOMAIN Predefined /\ toNew[z] = Predefined[z]
    \/ z \in Manual /\ IsManual(toNew[z])
    \/ toNew[z] \in FirstN .. nextZidN - 1

Numbers ==
    /\ nextZidM \in FirstM .. MaxM /\ nextZidN >= FirstN
    /\ \A z \in Zids : Drawn(z)
    /\ Injective
    /\ ~restarted => \A z \in Zids : IsManual(toNew[z]) => toNew[z] < nextZidM
    /\ \A z \in Builtin : toNew[z] = Predefined[z]

(* What a restart reads back; it skips what is predefined.                  *)
StoredNumbers ==
    /\ \A z \in Normal : \/ stored[z] = Unmapped
                         \/ stored[z] >= FirstN
                         \/ z \in Manual /\ IsManual(stored[z])
    /\ \A y, z \in Normal : stored[y] >= FirstN /\ stored[y] = stored[z] => y = z

(* What is part of the program never vanishes, so that no fetch misses it.  *)
Seen ==
    /\ Builtin \subseteq present
    /\ fetch # FetchIdle => Builtin \subseteq fetch.all

IInv == TypeOK /\ Seen /\ (~overrun => Numbers /\ StoredNumbers)

LEMMA InitIInv == Init => IInv
<1> SUFFICES ASSUME Init PROVE IInv
  OBVIOUS
<1> USE ZidsAssumption, NumbersAssumption
<1>1. /\ \A z \in DOMAIN Predefined : toNew[z] = Predefined[z]
      /\ \A z \in Zids : z \notin DOMAIN Predefined => toNew[z] = Unmapped
      /\ \A z \in Zids : stored[z] = Unmapped
  BY DEF Init, predefined
<1>2. Injective
  BY <1>1 DEF Injective, Unmapped
<1>3. \A z \in Zids : Drawn(z) /\ ~IsManual(toNew[z])
  BY <1>1 DEF Drawn, IsManual, Unmapped
<1>4. Numbers
  BY <1>1, <1>2, <1>3 DEF Init, Numbers
<1>5. StoredNumbers
  <2>1. Normal \subseteq Zids /\ ~(Unmapped >= FirstN)
    BY DEF Normal, Unmapped
  <2>2. \A z \in Normal : stored[z] = Unmapped
    BY <1>1, <2>1
  <2> QED
    BY <2>1, <2>2 DEF StoredNumbers
<1>6. Seen
  BY DEF Init, Seen
<1> QED
  BY <1>4, <1>5, <1>6, InitType DEF IInv

LEMMA AssignNumbers ==
  ASSUME NumberingOK, Numbers, NEW z \in Zids, Assign(z), ~overrun', restarted' = restarted
  PROVE  Numbers'
<1> USE ZidsAssumption, NumbersAssumption
<1>1. CASE toNew[z] # Unmapped
  BY <1>1 DEF Assign, numbering, Numbers, Drawn, Injective
<1>2. CASE toNew[z] = Unmapped
  <2>1. PICK n \in Nat :
          /\ toNew' = [toNew EXCEPT ![z] = n]
          /\ \/ /\ n = nextZidM /\ nextZidM < MaxM /\ z \in Manual
                /\ nextZidM' = nextZidM + 1 /\ nextZidN' = nextZidN
             \/ /\ n = nextZidN
                /\ nextZidN' = nextZidN + 1 /\ nextZidM' = nextZidM
    <3>1. CASE GetsManual(z)
      <4>1. z \in Manual /\ nextZidM \in Nat
        BY <3>1 DEF GetsManual, NumberingOK
      <4>2. /\ overrun' = (overrun \/ nextZidM >= MaxM) /\ nextZidN' = nextZidN
            /\ nextZidM' = nextZidM + 1 /\ toNew' = [toNew EXCEPT ![z] = nextZidM]
        BY <1>2, <3>1 DEF Assign
      <4>3. nextZidM < MaxM
        <5>1. ~(nextZidM >= MaxM)
          BY <4>2
        <5> QED
          BY <4>1, <5>1
      <4> QED
        BY <4>1, <4>2, <4>3
    <3>2. CASE ~GetsManual(z)
      BY <1>2, <3>2 DEF Assign, NumberingOK
    <3> QED
      BY <3>1, <3>2
  <2>2. toNew'[z] = n /\ \A y \in Zids : y # z => toNew'[y] = toNew[y]
    BY <2>1 DEF NumberingOK
  <2>3. nextZidM' \in FirstM .. MaxM /\ nextZidN' >= FirstN /\ nextZidN' >= nextZidN
    BY <2>1 DEF NumberingOK, Numbers
  <2>4. n # Unmapped /\ \A y \in Zids : toNew[y] = n => restarted /\ IsManual(n)
    <3>1. CASE n = nextZidM /\ nextZidM < MaxM
      <4>1. IsManual(n)
        BY <3>1 DEF Numbers, IsManual
      <4> QED
        BY <3>1, <4>1 DEF Numbers, IsManual, Unmapped
    <3>2. CASE n = nextZidN
      BY <3>2 DEF NumberingOK, Numbers, Drawn, IsManual, Unmapped
    <3> QED
      BY <2>1, <3>1, <3>2
  <2>5. \A y \in Zids : Drawn(y)'
    BY <2>1, <2>2, <2>3 DEF NumberingOK, Numbers, Drawn, IsManual
  <2>6. Injective'
    BY <2>2, <2>4 DEF Numbers, Injective, IsManual
  <2>7. ~restarted => \A y \in Zids : IsManual(toNew'[y]) => toNew'[y] < nextZidM'
    BY <2>1, <2>2 DEF NumberingOK, Numbers, IsManual
  <2>8. \A y \in Builtin : toNew'[y] = Predefined[y]
    <3>1. z \notin Builtin
      BY <1>2 DEF Numbers, Unmapped
    <3> QED
      BY <2>2, <3>1 DEF Numbers
  <2> QED
    BY <2>3, <2>5, <2>6, <2>7, <2>8 DEF Numbers, IsManual
<1> QED
  BY <1>1, <1>2

(* Removing numbers, with the counter or without.                           *)
LEMMA RemoveNumbers ==
  ASSUME NumberingOK, Numbers, restarted' = restarted, nextZidM' = nextZidM,
         NumberingOK', nextZidN' >= FirstN, nextZidN' <= nextZidN,
         \A y \in Zids : toNew'[y] \in {toNew[y], Unmapped},
         \A y \in Zids : toNew'[y] >= nextZidN' => toNew'[y] >= nextZidN,
         \A y \in Builtin : toNew'[y] = toNew[y]
  PROVE  Numbers'
<1> USE ZidsAssumption, NumbersAssumption
<1>1. \A y \in Zids : Drawn(y)'
  BY DEF NumberingOK, Numbers, Drawn, IsManual
<1>2. Injective'
  BY DEF Numbers, Injective, IsManual
<1>3. ~restarted => \A y \in Zids : IsManual(toNew'[y]) => toNew'[y] < nextZidM
  BY DEF Numbers, IsManual, Unmapped
<1> QED
  BY <1>1, <1>2, <1>3 DEF Numbers, IsManual

(* The number that is given again belongs to nobody any more. *)
LEMMA DeleteNumbers ==
  ASSUME NumberingOK, Numbers, NEW z \in Zids, DeleteO(z),
         UNCHANGED <<nextZidM, hadManual, overrun>>, restarted' = restarted
  PROVE  Numbers'
<1> USE ZidsAssumption, NumbersAssumption
<1>1. NumberingOK' /\ \A y \in Zids : toNew'[y] \in {toNew[y], Unmapped}
  BY DeleteType
<1>2. CASE z \in DOMAIN Predefined
  BY <1>2 DEF DeleteO, Numbers, Drawn, Injective
<1>3. CASE z \notin DOMAIN Predefined
  <2>1. /\ toNew' = [toNew EXCEPT ![z] = Unmapped]
        /\ nextZidN' = IF toNew[z] # Unmapped /\ toNew[z] = nextZidN - 1
                       THEN nextZidN - 1 ELSE nextZidN
    BY <1>3 DEF DeleteO
  <2>2. toNew'[z] = Unmapped /\ \A y \in Zids : y # z => toNew'[y] = toNew[y]
    BY <2>1 DEF NumberingOK
  <2>3. \A y \in Builtin : toNew'[y] = toNew[y]
    BY <1>3, <2>2
  <2>4. CASE nextZidN' = nextZidN
    BY <1>1, <2>3, <2>4, RemoveNumbers DEF Numbers, NumberingOK
  <2>5. CASE nextZidN' # nextZidN
    <3>1. toNew[z] = nextZidN - 1 /\ nextZidN' = nextZidN - 1 /\ toNew[z] # Unmapped
      BY <2>1, <2>5
    <3>2. nextZidN' >= FirstN
      BY <1>3, <3>1 DEF NumberingOK, Numbers, Drawn, IsManual
    <3>3. \A y \in Zids : y # z => toNew[y] # nextZidN - 1
      BY <3>1, <3>2 DEF NumberingOK, Numbers, Injective, IsManual
    <3>4. \A y \in Zids : toNew'[y] >= nextZidN' => toNew'[y] >= nextZidN
      BY <2>2, <3>1, <3>2, <3>3 DEF NumberingOK, Unmapped
    <3> QED
      BY <1>1, <2>3, <3>1, <3>2, <3>4, RemoveNumbers DEF NumberingOK
  <2> QED
    BY <2>4, <2>5
<1> QED
  BY <1>2, <1>3

LEMMA PruneNumbers ==
  ASSUME NumberingOK, Numbers, Builtin \subseteq fetch.all, FetchPrune
  PROVE  Numbers'
<1>1. /\ NumberingOK' /\ \A y \in Zids : toNew'[y] \in {toNew[y], Unmapped}
      /\ \A y \in Builtin : toNew'[y] = toNew[y]
  BY PruneType, ZidsAssumption
<1>2. nextZidM' = nextZidM /\ nextZidN' = nextZidN /\ restarted' = restarted
  BY DEF FetchPrune
<1>3. nextZidN \in Nat /\ nextZidN >= FirstN
  BY DEF NumberingOK, Numbers
<1> QED
  BY <1>1, <1>2, <1>3, RemoveNumbers

-----------------------------------------------------------------------------

LEMMA StepSeen == TypeOK /\ Seen /\ [Step]_vars => Seen'
<1> SUFFICES ASSUME TypeOK, Seen, [Step]_vars PROVE Seen'
  OBVIOUS
<1>1. CASE FetchNext
  <2>1. /\ fetch'.all = fetch.all /\ fetch # FetchIdle /\ present' = present
    BY <1>1 DEF FetchNext, FetchIdle, TypeOK
  <2> QED
    BY <2>1 DEF Seen
<1>2. CASE FetchBegin \/ FetchAssign \/ FetchPrune
  <2>1. CASE FetchBegin
    BY <2>1 DEF FetchBegin, Seen
  <2>2. CASE FetchAssign
    <3>1. fetch'.all = fetch.all /\ fetch.pc = "assign" /\ present' = present
      BY <2>2 DEF FetchAssign, TypeOK
    <3>2. fetch # FetchIdle
      BY <3>1 DEF FetchIdle
    <3> QED
      BY <3>1, <3>2 DEF Seen
  <2>3. CASE FetchPrune
    BY <2>3 DEF FetchPrune, Seen
  <2> QED
    BY <1>2, <2>1, <2>2, <2>3
<1>3. CASE ~FetchNext /\ ~(FetchBegin \/ FetchAssign \/ FetchPrune)
  BY <1>3 DEF Step, vars, Seen, Appear, Vanish, CreateMapping, DeleteMapping, OpLookup, OpAssign,
              OpDelete, OpSave
<1> QED
  BY <1>1, <1>2, <1>3

LEMMA StepNumbers ==
  ASSUME IInv, [Step]_vars, ~overrun'
  PROVE  ~overrun /\ Numbers' /\ StoredNumbers'
<1> USE ZidsAssumption, NumbersAssumption
<1>1. NumberingOK /\ StoredOK /\ ActivitiesOK /\ Seen
  BY TypeParts DEF IInv
<1>2. ASSUME UNCHANGED numbering, restarted' = restarted PROVE ~overrun /\ Numbers'
  BY <1>2 DEF IInv, numbering, Numbers, Drawn, Injective
<1>3. ~overrun /\ Numbers'
  <2>1. CASE OpAssign \/ FetchAssign
    <3>1. PICK z \in Zids : Assign(z) /\ restarted' = restarted
      BY <1>1, <2>1 DEF OpAssign, FetchAssign, ActivitiesOK, OpOK, FetchOK
    <3>2. overrun => overrun'
      BY <1>1, <3>1 DEF Assign, numbering, NumberingOK
    <3> QED
      BY <1>1, <3>1, <3>2, AssignNumbers DEF IInv
  <2>2. CASE OpDelete
    <3>1. PICK z \in Zids :
            DeleteO(z) /\ UNCHANGED <<nextZidM, hadManual, overrun>> /\ restarted' = restarted
      BY <1>1, <2>2 DEF OpDelete, ActivitiesOK, OpOK
    <3> QED
      BY <1>1, <3>1, DeleteNumbers DEF IInv
  <2>3. CASE FetchPrune
    <3>1. overrun' = overrun /\ Builtin \subseteq fetch.all
      BY <1>1, <2>3 DEF FetchPrune, Seen, FetchIdle
    <3> QED
      BY <1>1, <2>3, <3>1, PruneNumbers DEF IInv
  <2>4. CASE ~(OpAssign \/ FetchAssign) /\ ~OpDelete /\ ~FetchPrune
    <3>1. UNCHANGED numbering /\ restarted' = restarted
      BY <2>4 DEF Step, vars, numbering, Appear, Vanish, CreateMapping, DeleteMapping,
                  OpLookup, OpSave, FetchBegin, FetchNext
    <3> QED
      BY <1>2, <3>1
  <2> QED
    BY <2>1, <2>2, <2>3, <2>4
<1>4. stored' \in {stored, toNew}
  BY DEF Step, vars, Appear, Vanish, CreateMapping, DeleteMapping, OpLookup, OpAssign,
         OpDelete, OpSave, FetchBegin, FetchNext, FetchAssign, FetchPrune
<1>5. /\ \A z \in Normal : \/ toNew[z] = Unmapped
                           \/ toNew[z] >= FirstN
                           \/ z \in Manual /\ IsManual(toNew[z])
      /\ \A y, z \in Normal : toNew[y] >= FirstN /\ toNew[y] = toNew[z] => y = z
  <2>1. Numbers /\ \A z \in Zids : Drawn(z) /\ toNew[z] \in Nat
    BY <1>1, <1>3 DEF IInv, Numbers, NumberingOK
  <2>2. Normal \subseteq Zids
    BY DEF Normal
  <2>3. ASSUME NEW z \in Normal
        PROVE  \/ toNew[z] = Unmapped
               \/ toNew[z] >= FirstN
               \/ z \in Manual /\ IsManual(toNew[z])
    BY <2>1, <2>3 DEF Drawn, Numbers, Normal
  <2>4. ASSUME NEW y \in Normal, NEW z \in Normal, toNew[y] >= FirstN, toNew[y] = toNew[z]
        PROVE  y = z
    <3>1. toNew[y] # Unmapped /\ ~IsManual(toNew[y])
      BY <2>1, <2>2, <2>4 DEF Unmapped, IsManual
    <3> QED
      BY <2>1, <2>2, <2>4, <3>1 DEF Numbers, Injective
  <2> QED
    BY <2>3, <2>4
<1>6. StoredNumbers'
  BY <1>3, <1>4, <1>5 DEF IInv, StoredNumbers, IsManual
<1> QED
  BY <1>3, <1>6

(* The counter of ordinary numbers starts behind all that were read back,   *)
(* that of the manual starts again.                                         *)
LEMMA RestartIInv == IInv /\ Restart => IInv'
<1> SUFFICES ASSUME IInv, Restart PROVE IInv'
  OBVIOUS
<1> USE ZidsAssumption, NumbersAssumption
<1>1. TypeOK' /\ NumberingOK' /\ NumberingOK /\ StoredOK
  BY RestartType, TypeParts DEF IInv, TypeOK, NumberingOK
<1>2. Seen'
  BY DEF IInv, Seen, Restart
<1>3. ASSUME ~overrun' PROVE Numbers' /\ StoredNumbers'
  <2>1. /\ toNew' = [z \in Zids |-> IF predefined[z] # Unmapped THEN predefined[z] ELSE stored[z]]
        /\ nextZidN' \in FirstN .. MaxN /\ \A z \in Normal : stored[z] < nextZidN'
        /\ nextZidM' = FirstM /\ stored' = stored /\ restarted' = TRUE /\ ~overrun
    BY <1>3 DEF Restart, parseAndUpdate
  <2>2. /\ \A z \in DOMAIN Predefined : toNew'[z] = Predefined[z]
        /\ \A z \in Normal : toNew'[z] = stored[z]
    BY <2>1 DEF predefined, Normal, Unmapped
  <2>3. StoredNumbers /\ StoredNumbers'
    BY <2>1 DEF IInv, StoredNumbers, IsManual
  <2>4. \A z \in Zids : Drawn(z)'
    BY <1>1, <2>1, <2>2, <2>3 DEF StoredOK, StoredNumbers, Drawn, Normal, IsManual
  <2>5. Injective'
    <3> SUFFICES ASSUME NEW y \in Zids, NEW z \in Zids, toNew'[y] # Unmapped,
                        toNew'[y] = toNew'[z], ~IsManual(toNew'[y])
                 PROVE  y = z
      BY <2>1 DEF Injective, IsManual
    <3>1. CASE y \in Normal /\ z \in Normal
      BY <2>2, <2>3, <3>1 DEF StoredNumbers, IsManual
    <3>2. CASE y \notin Normal /\ z \notin Normal
      BY <2>2, <3>2 DEF Normal
    <3>3. CASE ~(y \in Normal <=> z \in Normal)
      BY <2>2, <2>3, <3>3 DEF StoredNumbers, Normal, IsManual
    <3> QED
      BY <3>1, <3>2, <3>3
  <2> QED
    BY <2>1, <2>2, <2>3, <2>4, <2>5 DEF Numbers
<1> QED
  BY <1>1, <1>2, <1>3 DEF IInv

LEMMA AlwaysIInv == Spec => []IInv
<1>1. ASSUME IInv, [Step]_vars PROVE IInv'
  <2>1. TypeOK' /\ Seen'
    BY <1>1, StepType, StepSeen DEF IInv
  <2> QED
    BY <1>1, <2>1, StepNumbers DEF IInv
<1>2. IInv /\ [Next]_vars => IInv'
  BY <1>1, RestartIInv DEF Next
<1> QED
  BY <1>2, InitIInv, PTL DEF Spec

(* However creations, deletions and readings of the mapping interleave, and *)
(* however often the program is started again with a mapping zettel that is *)
(* older than the last numbers: a number means one zettel, the predefined   *)
(* one where there is one.  Only zettel of the manual may share one after a *)
(* restart.  Nothing is said of a manual that has used up its numbers.      *)
THEOREM NumbersStayUnique == Spec => []NumbersAreUnique
<1>1. ASSUME Numbers, NEW y \in Zids, NEW z \in DOMAIN Predefined, toNew[y] = Predefined[z]
      PROVE  y = z
  BY <1>1, ZidsAssumption, NumbersAssumption DEF Numbers, Drawn, IsManual, Unmapped
<1>2. IInv => NumbersAreUnique
  BY <1>1 DEF IInv, Numbers, NumbersAreUnique, PredefinedKept
<1> QED
  BY <1>2, AlwaysIInv, PTL

(* Only zettel of the manual have a number of the manual, whatever is       *)
(* created and deleted while the mapping is read, and however often the     *)
(* program is started again: GetZidN, parseAndUpdate.                       *)
THEOREM ManualNumbersStay == Spec => []ManualNumbers
<1>1. ASSUME Numbers, NEW z \in Zids, IsManual(toNew[z]) PROVE z \in Manual
  BY <1>1, ZidsAssumption, NumbersAssumption DEF Numbers, Drawn, IsManual, Unmapped
<1>2. IInv => ManualNumbers
  BY <1>1 DEF IInv, ManualNumbers
<1> QED
  BY <1>2, AlwaysIInv, PTL
============================================================================
