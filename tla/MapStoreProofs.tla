--------------------------- MODULE MapStoreProofs ---------------------------
(* Theorems about the index for every set of zettel, keys and words: first  *)
(* what its operations keep, whoever calls them.                            *)
EXTENDS MapStoreCalls, IdSet, NaturalsInduction, WellFoundedInduction, TLAPS

(* The invariant falls into parts that different variables make up, and     *)
(* that different operators of MapStore keep.                               *)
LinksInv ==
    /\ forward \in [Zids -> SUBSET Zids]
    /\ backward \in [Zids -> SUBSET Zids]
    /\ ForwardBackwardMatch

WordsInv ==
    /\ wordsOf \in [Zids -> SUBSET Words]
    /\ wordIn \in [Words -> SUBSET Zids]
    /\ WordsMatch

DeadInv ==
    /\ deadRefs \in [Zids -> SUBSET Zids]
    /\ deadIn \in [Zids -> SUBSET Zids]
    /\ \A a, b \in Zids : a \in deadIn[b] => b \in deadRefs[a]

InverseInv ==
    /\ otherFwd \in [Keys -> [Zids -> SUBSET Zids]]
    /\ otherBwd \in [Keys -> [Zids -> SUBSET Zids]]
    /\ \A a, b \in Zids, k \in Keys : a \in otherBwd[k][b] => b \in otherFwd[k][a]

StoreInv == LinksInv /\ WordsInv /\ DeadInv /\ InverseInv

(* With the types of the other variables, and no trace of what has no entry *)
StoreOK == StoreInv /\ StoreTypeOK /\ AbsentIsEmpty

(* Filing z elsewhere changes the map at z only. *)
LEMMA RefiledMap ==
  ASSUME NEW D, NEW map \in [D -> SUBSET Zids], NEW z \in Zids, NEW old, NEW new
  PROVE  /\ Refiled(map, z, old, new) \in [D -> SUBSET Zids]
         /\ \A x \in D, y \in Zids : y # z =>
                (y \in Refiled(map, z, old, new)[x] <=> y \in map[x])
         /\ \A x \in D : z \in Refiled(map, z, old, new)[x] <=>
                            \/ x \in new /\ x \notin old
                            \/ z \in map[x] /\ ~ (x \in old /\ x \notin new)
  BY DEF Refiled

(* The entry of z that is stored has what z was filed under, or nothing.    *)
LEMMA ReplacedMap ==
  ASSUME NEW D, NEW map \in [D -> SUBSET Zids], NEW z \in Zids
  PROVE  /\ Replaced(map, z) \in [D -> SUBSET Zids]
         /\ \A x \in D : Replaced(map, z)[x] \subseteq map[x]
         /\ \A x \in D : x # z => Replaced(map, z)[x] = map[x]
  BY DEF Replaced

LEMMA InitStoreOK == StoreInit => StoreOK
  BY DEF StoreInit, StoreOK, StoreTypeOK, AbsentIsEmpty, StoreInv, LinksInv, WordsInv,
         DeadInv, InverseInv, ForwardBackwardMatch, WordsMatch

LEMMA SameStoreOK == StoreOK /\ UNCHANGED storeVars => StoreOK'
<1> SUFFICES ASSUME StoreOK, UNCHANGED storeVars PROVE StoreOK'
  OBVIOUS
<1>1. StoreInv'
  BY DEF StoreOK, storeVars, StoreInv, LinksInv, WordsInv, DeadInv, InverseInv,
         ForwardBackwardMatch, WordsMatch
<1>2. StoreTypeOK'
  BY DEF StoreOK, storeVars, StoreTypeOK
<1>3. AbsentIsEmpty'
  BY DEF StoreOK, storeVars, AbsentIsEmpty
<1> QED
  BY <1>1, <1>2, <1>3 DEF StoreOK

(* The links of the index match and nobody is filed under what he has not.  *)
LEMMA StoreAgrees == StoreOK => BothEndsAgree
  BY DEF StoreOK, StoreInv, LinksInv, WordsInv, DeadInv, InverseInv, BothEndsAgree, NoPhantomRefs

-----------------------------------------------------------------------------
(* UpdateReferences *)

LEMMA UpdateLinks ==
  ASSUME LinksInv, NEW z \in Zids, NEW zi \in ZettelIndex,
         updateForwardBackwardReferences(z, zi), z \notin entries => backward[z] = {}
  PROVE  LinksInv'
<1>1. zi.back \in SUBSET Zids
  BY DEF ZettelIndex
<1> DEFINE filed == Refiled(backward, z, forward[z], zi.back)
<1>2. /\ filed \in [Zids -> SUBSET Zids]
      /\ \A x \in Zids, y \in Zids : y # z => (y \in filed[x] <=> y \in backward[x])
      /\ \A x \in Zids : z \in filed[x] <=>
            \/ x \in zi.back /\ x \notin forward[z]
            \/ z \in backward[x] /\ ~ (x \in forward[z] /\ x \notin zi.back)
  BY RefiledMap DEF LinksInv
<1>5. backward' = Replaced(filed, z)
  BY DEF updateForwardBackwardReferences
<1> HIDE DEF filed
<1>6. /\ backward' \in [Zids -> SUBSET Zids]
      /\ \A x \in Zids : backward'[x] \subseteq filed[x]
      /\ \A x \in Zids : x # z => backward'[x] = filed[x]
      /\ z \notin entries => backward'[z] = {}
      /\ z \in entries => backward'[z] = filed[z]
  BY <1>2, <1>5, ReplacedMap DEF Replaced
<1>3. /\ forward' \in [Zids -> SUBSET Zids]
      /\ forward'[z] = zi.back
      /\ \A y \in Zids : y # z => forward'[y] = forward[y]
  BY <1>1 DEF LinksInv, updateForwardBackwardReferences
<1>4. ForwardBackwardMatch'
  <2>1. ASSUME NEW a \in Zids, NEW b \in Zids, a \in backward'[b]
        PROVE  b \in forward'[a]
    BY <1>1, <1>2, <1>3, <1>6, <2>1 DEF LinksInv, ForwardBackwardMatch
  <2>2. ASSUME NEW a \in Zids, NEW b \in Zids, b \in forward'[a], a # b
        PROVE  a \in backward'[b]
    <3>1. a \in filed[b]
      BY <1>1, <1>2, <1>3, <2>2 DEF LinksInv, ForwardBackwardMatch
    <3>2. b = z /\ z \notin entries => a \notin filed[b]
      BY <1>2, <2>2
    <3> QED
      BY <1>6, <3>1, <3>2
  <2> QED
    BY <2>1, <2>2 DEF ForwardBackwardMatch
<1> QED
  BY <1>3, <1>4, <1>6 DEF LinksInv

LEMMA UpdateWords ==
  ASSUME WordsInv, NEW z \in Zids, NEW zi \in ZettelIndex, updateStrings(z, zi)
  PROVE  WordsInv'
<1>1. zi.words \in SUBSET Words
  BY DEF ZettelIndex
<1>2. /\ wordIn' \in [Words -> SUBSET Zids]
      /\ \A x \in Words, y \in Zids : y # z => (y \in wordIn'[x] <=> y \in wordIn[x])
      /\ \A x \in Words : z \in wordIn'[x] <=>
            \/ x \in zi.words /\ x \notin wordsOf[z]
            \/ z \in wordIn[x] /\ ~ (x \in wordsOf[z] /\ x \notin zi.words)
  BY RefiledMap DEF WordsInv, updateStrings
<1>3. /\ wordsOf' \in [Zids -> SUBSET Words]
      /\ wordsOf'[z] = zi.words
      /\ \A y \in Zids : y # z => wordsOf'[y] = wordsOf[y]
  BY <1>1 DEF WordsInv, updateStrings
<1>4. WordsMatch'
  BY <1>1, <1>2, <1>3 DEF WordsInv, WordsMatch
<1> QED
  BY <1>2, <1>3, <1>4 DEF WordsInv

LEMMA UpdateDead ==
  ASSUME DeadInv, NEW z \in Zids, NEW zi \in ZettelIndex, updateDeadReferences(z, zi)
  PROVE  DeadInv'
<1>1. zi.dead \in SUBSET Zids
  BY DEF ZettelIndex
<1> DEFINE cleared == [deadIn EXCEPT ![z] = {}]
<1>2. /\ cleared \in [Zids -> SUBSET Zids]
      /\ \A x \in Zids : cleared[x] \subseteq deadIn[x]
  BY DEF DeadInv
<1>3. deadIn' = Refiled(cleared, z, deadRefs[z], zi.dead)
  BY DEF updateDeadReferences
<1> HIDE DEF cleared
<1>4. /\ deadIn' \in [Zids -> SUBSET Zids]
      /\ \A x \in Zids, y \in Zids : y # z => (y \in deadIn'[x] <=> y \in cleared[x])
      /\ \A x \in Zids : z \in deadIn'[x] <=>
            \/ x \in zi.dead /\ x \notin deadRefs[z]
            \/ z \in cleared[x] /\ ~ (x \in deadRefs[z] /\ x \notin zi.dead)
  BY <1>2, <1>3, RefiledMap
<1>5. /\ deadRefs' \in [Zids -> SUBSET Zids]
      /\ deadRefs'[z] = zi.dead
      /\ \A y \in Zids : y # z => deadRefs'[y] = deadRefs[y]
  BY <1>1 DEF DeadInv, updateDeadReferences
<1> QED
  BY <1>1, <1>2, <1>4, <1>5 DEF DeadInv

LEMMA UpdateInverse ==
  ASSUME InverseInv, NEW z \in Zids, NEW zi \in ZettelIndex, updateMetadataReferences(z, zi)
  PROVE  InverseInv'
<1>1. zi.inverse \in [Keys -> SUBSET Zids]
  BY DEF ZettelIndex
<1>2. ASSUME NEW k \in Keys
      PROVE  /\ otherBwd'[k] \in [Zids -> SUBSET Zids]
             /\ \A x \in Zids, y \in Zids : y # z =>
                    (y \in otherBwd'[k][x] => y \in otherBwd[k][x])
             /\ \A x \in Zids : z \in otherBwd'[k][x] =>
                    \/ x \in zi.inverse[k] /\ x \notin otherFwd[k][z]
                    \/ z \in otherBwd[k][x] /\ ~ (x \in otherFwd[k][z] /\ x \notin zi.inverse[k])
  <2> DEFINE filed == Refiled(otherBwd[k], z, otherFwd[k][z], zi.inverse[k])
  <2>1. otherBwd'[k] = Replaced(filed, z)
    BY DEF updateMetadataReferences
  <2>2. otherBwd[k] \in [Zids -> SUBSET Zids]
    BY DEF InverseInv
  <2>3. /\ filed \in [Zids -> SUBSET Zids]
        /\ \A x \in Zids, y \in Zids : y # z => (y \in filed[x] <=> y \in otherBwd[k][x])
        /\ \A x \in Zids : z \in filed[x] <=>
              \/ x \in zi.inverse[k] /\ x \notin otherFwd[k][z]
              \/ z \in otherBwd[k][x] /\ ~ (x \in otherFwd[k][z] /\ x \notin zi.inverse[k])
    BY <2>2, RefiledMap
  <2> HIDE DEF filed
  <2>4. otherBwd'[k] \in [Zids -> SUBSET Zids] /\ \A x \in Zids : otherBwd'[k][x] \subseteq filed[x]
    BY <2>1, <2>3, ReplacedMap
  <2> QED
    BY <2>3, <2>4
<1>3. ASSUME NEW k \in Keys
      PROVE  /\ otherFwd'[k] \in [Zids -> SUBSET Zids]
             /\ zi.inverse[k] # {} => otherFwd'[k][z] = zi.inverse[k]
             /\ zi.inverse[k] = {} => otherFwd'[k][z] = otherFwd[k][z]
             /\ \A y \in Zids : y # z => otherFwd'[k][y] = otherFwd[k][y]
  BY <1>1 DEF InverseInv, updateMetadataReferences
<1>4. ASSUME NEW a \in Zids, NEW b \in Zids, NEW k \in Keys, a \in otherBwd'[k][b]
      PROVE  b \in otherFwd'[k][a]
  <2>1. CASE a = z
    BY <1>1, <1>2, <1>3, <1>4, <2>1 DEF InverseInv
  <2>2. CASE a # z
    BY <1>2, <1>3, <1>4, <2>2 DEF InverseInv
  <2> QED
    BY <2>1, <2>2
<1>5. /\ otherFwd' \in [Keys -> [Zids -> SUBSET Zids]]
      /\ otherBwd' \in [Keys -> [Zids -> SUBSET Zids]]
  BY <1>2, <1>3 DEF updateMetadataReferences
<1> QED
  BY <1>4, <1>5 DEF InverseInv

(* How UpdateReferences changes the data of z, and of the others.           *)
LEMMA UpdateChanges ==
  ASSUME StoreInv, NEW z \in Zids, NEW zi \in ZettelIndex, UpdateReferences(z, zi)
  PROVE  /\ forward'[z] = zi.back /\ deadRefs'[z] = zi.dead
         /\ \A k \in Keys : otherFwd'[k][z] = IF zi.inverse[k] = {} THEN otherFwd[k][z] ELSE zi.inverse[k]
         /\ \A y \in Zids \ {z} :
               /\ forward'[y] = forward[y] /\ deadRefs'[y] = deadRefs[y] /\ wordsOf'[y] = wordsOf[y]
               /\ \A k \in Keys : otherFwd'[k][y] = otherFwd[k][y]
         /\ \A y \in Zids \ Touched(z, zi) :
               /\ backward'[y] \subseteq backward[y]
               /\ \A k \in Keys : otherBwd'[k][y] \subseteq otherBwd[k][y]
<1>1. /\ updateForwardBackwardReferences(z, zi) /\ updateDeadReferences(z, zi)
      /\ updateMetadataReferences(z, zi) /\ updateStrings(z, zi)
  BY DEF UpdateReferences
<1>2. /\ forward'[z] = zi.back /\ deadRefs'[z] = zi.dead
      /\ \A y \in Zids \ {z} :
            forward'[y] = forward[y] /\ deadRefs'[y] = deadRefs[y] /\ wordsOf'[y] = wordsOf[y]
  BY <1>1 DEF StoreInv, LinksInv, DeadInv, WordsInv, updateForwardBackwardReferences,
              updateDeadReferences, updateStrings
<1>3. ASSUME NEW y \in Zids \ {z}, NEW k \in Keys
      PROVE  otherFwd'[k][y] = otherFwd[k][y]
  BY <1>1 DEF StoreInv, InverseInv, updateMetadataReferences
<1>6. ASSUME NEW k \in Keys
      PROVE  otherFwd'[k][z] = IF zi.inverse[k] = {} THEN otherFwd[k][z] ELSE zi.inverse[k]
  BY <1>1 DEF StoreInv, InverseInv, updateMetadataReferences
<1>4. ASSUME NEW y \in Zids \ Touched(z, zi)
      PROVE  backward'[y] \subseteq backward[y]
  <2>1. y \notin zi.back \ forward[z]
    BY <1>4 DEF Touched, ForwardTouched
  <2>2. backward \in [Zids -> SUBSET Zids]
    BY DEF StoreInv, LinksInv
  <2>3. /\ Refiled(backward, z, forward[z], zi.back) \in [Zids -> SUBSET Zids]
        /\ Refiled(backward, z, forward[z], zi.back)[y] \subseteq backward[y]
    BY <2>1, <2>2 DEF Refiled
  <2> QED
    BY <1>1, <2>3, ReplacedMap DEF updateForwardBackwardReferences
<1>5. ASSUME NEW y \in Zids \ Touched(z, zi), NEW k \in Keys
      PROVE  otherBwd'[k][y] \subseteq otherBwd[k][y]
  <2>1. y \notin zi.inverse[k] \ otherFwd[k][z]
    BY <1>5 DEF Touched, InverseTouched
  <2>2. otherBwd[k] \in [Zids -> SUBSET Zids]
    BY DEF StoreInv, InverseInv
  <2>3. otherBwd'[k] = Replaced(Refiled(otherBwd[k], z, otherFwd[k][z], zi.inverse[k]), z)
    BY <1>1 DEF updateMetadataReferences
  <2>4. /\ Refiled(otherBwd[k], z, otherFwd[k][z], zi.inverse[k]) \in [Zids -> SUBSET Zids]
        /\ Refiled(otherBwd[k], z, otherFwd[k][z], zi.inverse[k])[y] \subseteq otherBwd[k][y]
    BY <2>1, <2>2 DEF Refiled
  <2> QED
    BY <2>3, <2>4, ReplacedMap
<1> QED
  BY <1>2, <1>3, <1>4, <1>5, <1>6

LEMMA TouchedAreZids ==
  ASSUME StoreInv, NEW z \in Zids, NEW zi \in ZettelIndex
  PROVE  Touched(z, zi) \subseteq Zids
<1>1. zi.back \subseteq Zids /\ forward[z] \subseteq Zids
  BY DEF ZettelIndex, StoreInv, LinksInv
<1>2. ASSUME NEW k \in Keys PROVE zi.inverse[k] \subseteq Zids
  BY DEF ZettelIndex
<1> QED
  BY <1>1, <1>2 DEF Touched, ForwardTouched, InverseTouched

LEMMA UpdateStoreOK ==
  ASSUME StoreOK, NEW z \in Zids, NEW zi \in ZettelIndex, UpdateReferences(z, zi)
  PROVE  StoreOK' /\ UpdateToCheck(z, zi) \subseteq Zids
<1>1. StoreInv
  BY DEF StoreOK
<1>2. /\ updateForwardBackwardReferences(z, zi) /\ updateDeadReferences(z, zi)
      /\ updateMetadataReferences(z, zi) /\ updateStrings(z, zi)
      /\ entries' = entries \union {z} \union Touched(z, zi)
      /\ indexed' = indexed \union {z}
  BY DEF UpdateReferences
<1>8. z \notin entries => backward[z] = {}
  BY DEF StoreOK, AbsentIsEmpty
<1>3. StoreInv'
  BY <1>1, <1>2, <1>8, UpdateLinks, UpdateWords, UpdateDead, UpdateInverse DEF StoreInv
<1>4. entries' \subseteq Zids /\ indexed' \subseteq entries'
  BY <1>1, <1>2, TouchedAreZids DEF StoreOK, StoreTypeOK
<1>5. StoreTypeOK'
  BY <1>3, <1>4 DEF StoreTypeOK, StoreInv, LinksInv, WordsInv, DeadInv, InverseInv
<1>6. AbsentIsEmpty'
  <2>1. ASSUME NEW y \in Zids \ entries'
        PROVE  /\ deadRefs'[y] = {} /\ forward'[y] = {} /\ backward'[y] = {} /\ wordsOf'[y] = {}
               /\ \A k \in Keys : otherFwd'[k][y] = {} /\ otherBwd'[k][y] = {}
    <3>1. y \in Zids \ entries /\ y # z /\ y \notin Touched(z, zi)
      BY <1>2, <2>1
    <3>2. /\ deadRefs[y] = {} /\ forward[y] = {} /\ backward[y] = {} /\ wordsOf[y] = {}
          /\ \A k \in Keys : otherFwd[k][y] = {} /\ otherBwd[k][y] = {}
      BY <3>1 DEF StoreOK, AbsentIsEmpty
    <3> QED
      BY <1>1, <3>1, <3>2, UpdateChanges
  <2>2. ASSUME NEW y \in Zids \ entries', NEW x \in Zids
        PROVE  y \notin backward'[x] /\ y \notin forward'[x] /\ y \notin deadIn'[x]
    BY <1>3, <2>1, <2>2 DEF StoreInv, LinksInv, ForwardBackwardMatch, DeadInv
  <2> QED
    BY <2>1, <2>2 DEF AbsentIsEmpty
<1>7. UpdateToCheck(z, zi) \subseteq Zids
  BY <1>1, TouchedAreZids DEF UpdateToCheck, StoreInv, DeadInv
<1> QED
  BY <1>3, <1>5, <1>6, <1>7 DEF StoreOK

-----------------------------------------------------------------------------
(* DeleteZettel *)

LEMMA DeleteLinks ==
  ASSUME LinksInv, NEW z \in Zids, deleteForwardBackward(z)
  PROVE  LinksInv'
  BY DEF LinksInv, ForwardBackwardMatch, deleteForwardBackward

LEMMA DeleteWords ==
  ASSUME WordsInv, NEW z \in Zids, deleteStrings(z)
  PROVE  WordsInv'
<1>1. /\ wordIn' \in [Words -> SUBSET Zids]
      /\ \A x \in Words, y \in Zids : y # z => (y \in wordIn'[x] <=> y \in wordIn[x])
      /\ \A x \in Words : z \in wordIn'[x] <=> z \in wordIn[x] /\ ~ (x \in wordsOf[z])
  BY RefiledMap DEF WordsInv, deleteStrings
<1>2. /\ wordsOf' \in [Zids -> SUBSET Words]
      /\ wordsOf'[z] = {}
      /\ \A y \in Zids : y # z => wordsOf'[y] = wordsOf[y]
  BY DEF WordsInv, deleteStrings
<1>3. WordsMatch'
  BY <1>1, <1>2 DEF WordsInv, WordsMatch
<1> QED
  BY <1>1, <1>2, <1>3 DEF WordsInv

LEMMA DeleteDead ==
  ASSUME DeadInv, NEW z \in Zids, deleteDeadSources(z)
  PROVE  DeadInv'
<1>1. /\ deadIn' \in [Zids -> SUBSET Zids]
      /\ \A x \in Zids, y \in Zids : y # z => (y \in deadIn'[x] <=> y \in deadIn[x])
      /\ \A x \in Zids : z \in deadIn'[x] <=> z \in deadIn[x] /\ ~ (x \in deadRefs[z])
  BY RefiledMap DEF DeadInv, deleteDeadSources
<1>2. /\ deadRefs' \in [Zids -> SUBSET Zids]
      /\ deadRefs'[z] = {}
      /\ \A y \in Zids : y # z => deadRefs'[y] = deadRefs[y]
  BY DEF DeadInv, deleteDeadSources
<1> QED
  BY <1>1, <1>2 DEF DeadInv

LEMMA DeleteInverse ==
  ASSUME InverseInv, NEW z \in Zids, removeInverseMeta(z)
  PROVE  InverseInv'
<1>1. ASSUME NEW k \in Keys
      PROVE  /\ otherBwd'[k] \in [Zids -> SUBSET Zids]
             /\ \A x \in Zids, y \in Zids : y # z =>
                    (y \in otherBwd'[k][x] => y \in otherBwd[k][x])
             /\ \A x \in Zids : z \in otherBwd'[k][x] =>
                    z \in otherBwd[k][x] /\ x \notin otherFwd[k][z]
  <2> DEFINE refiled == Refiled(otherBwd[k], z, otherFwd[k][z], {})
  <2>1. otherBwd'[k] = [refiled EXCEPT ![z] = {}]
    BY DEF removeInverseMeta
  <2>2. otherBwd[k] \in [Zids -> SUBSET Zids]
    BY DEF InverseInv
  <2>3. /\ refiled \in [Zids -> SUBSET Zids]
        /\ \A x \in Zids, y \in Zids : y # z => (y \in refiled[x] <=> y \in otherBwd[k][x])
        /\ \A x \in Zids : z \in refiled[x] <=> z \in otherBwd[k][x] /\ x \notin otherFwd[k][z]
    BY <2>2, RefiledMap
  <2> HIDE DEF refiled
  <2> QED
    BY <2>1, <2>3
<1>2. ASSUME NEW k \in Keys
      PROVE  /\ otherFwd'[k] \in [Zids -> SUBSET Zids]
             /\ \A y \in Zids : y # z => otherFwd'[k][y] = otherFwd[k][y]
  BY DEF InverseInv, removeInverseMeta
<1>3. /\ otherFwd' \in [Keys -> [Zids -> SUBSET Zids]]
      /\ otherBwd' \in [Keys -> [Zids -> SUBSET Zids]]
  BY <1>1, <1>2 DEF removeInverseMeta
<1>4. ASSUME NEW a \in Zids, NEW b \in Zids, NEW k \in Keys, a \in otherBwd'[k][b]
      PROVE  b \in otherFwd'[k][a]
  <2>1. a # z
    BY <1>1, <1>4 DEF InverseInv
  <2> QED
    BY <1>1, <1>2, <1>4, <2>1 DEF InverseInv
<1> QED
  BY <1>3, <1>4 DEF InverseInv

(* How DeleteZettel changes the data of z, and of the others: they shrink,  *)
(* and who loses z as a forward reference is in the backward list of z.     *)
LEMMA DeleteChanges ==
  ASSUME StoreInv, NEW z \in Zids, z \in entries, DeleteZettel(z)
  PROVE  /\ deadRefs'[z] = {} /\ forward'[z] = {} /\ backward'[z] = {} /\ wordsOf'[z] = {}
         /\ \A k \in Keys : otherFwd'[k][z] = {} /\ otherBwd'[k][z] = {}
         /\ \A y \in Zids \ {z} :
               /\ deadRefs'[y] = deadRefs[y] /\ wordsOf'[y] = wordsOf[y]
               /\ forward'[y] \subseteq forward[y] /\ backward'[y] \subseteq backward[y]
               /\ forward'[y] # forward[y] => y \in backward[z]
               /\ \A k \in Keys :
                     otherFwd'[k][y] = otherFwd[k][y] /\ otherBwd'[k][y] \subseteq otherBwd[k][y]
<1>1. /\ deleteForwardBackward(z) /\ deleteDeadSources(z)
      /\ removeInverseMeta(z) /\ deleteStrings(z)
  BY DEF DeleteZettel
<1>2. /\ deadRefs'[z] = {} /\ wordsOf'[z] = {}
      /\ \A y \in Zids \ {z} : deadRefs'[y] = deadRefs[y] /\ wordsOf'[y] = wordsOf[y]
  BY <1>1 DEF StoreInv, DeadInv, WordsInv, deleteDeadSources, deleteStrings
<1>3. /\ forward'[z] = {} /\ backward'[z] = {}
      /\ \A y \in Zids \ {z} :
            /\ forward'[y] \subseteq forward[y] /\ backward'[y] \subseteq backward[y]
            /\ forward'[y] # forward[y] => y \in backward[z]
  BY <1>1 DEF StoreInv, LinksInv, deleteForwardBackward
<1>4. ASSUME NEW k \in Keys
      PROVE  /\ otherFwd'[k][z] = {} /\ otherBwd'[k][z] = {}
             /\ \A y \in Zids \ {z} :
                   otherFwd'[k][y] = otherFwd[k][y] /\ otherBwd'[k][y] \subseteq otherBwd[k][y]
  <2>1. otherFwd[k] \in [Zids -> SUBSET Zids] /\ otherBwd[k] \in [Zids -> SUBSET Zids]
    BY DEF StoreInv, InverseInv
  <2>2. /\ otherBwd'[k] = [Refiled(otherBwd[k], z, otherFwd[k][z], {}) EXCEPT ![z] = {}]
        /\ otherFwd'[k] = [otherFwd[k] EXCEPT ![z] = {}]
    BY <1>1 DEF removeInverseMeta
  <2> QED
    BY <2>1, <2>2 DEF Refiled
<1> QED
  BY <1>2, <1>3, <1>4

LEMMA DeleteStoreOK ==
  ASSUME StoreOK, NEW z \in Zids, DeleteZettel(z)
  PROVE  StoreOK' /\ DeleteToCheck(z) \subseteq Zids
<1>1. StoreInv
  BY DEF StoreOK
<1>2. DeleteToCheck(z) \subseteq Zids
  BY <1>1 DEF DeleteToCheck, StoreInv, LinksInv
<1>3. CASE z \notin entries
  BY <1>2, <1>3, SameStoreOK DEF DeleteZettel
<1>4. CASE z \in entries
  <2>1. /\ deleteForwardBackward(z) /\ deleteStrings(z)
        /\ deleteDeadSources(z) /\ removeInverseMeta(z)
        /\ entries' = entries \ {z} /\ indexed' = indexed \ {z}
    BY <1>4 DEF DeleteZettel
  <2>2. StoreInv'
    BY <1>1, <2>1, DeleteLinks, DeleteWords, DeleteDead, DeleteInverse DEF StoreInv
  <2>3. entries' \subseteq Zids /\ indexed' \subseteq entries'
    BY <2>1 DEF StoreOK, StoreTypeOK
  <2>4. StoreTypeOK'
    BY <2>2, <2>3 DEF StoreTypeOK, StoreInv, LinksInv, WordsInv, DeadInv, InverseInv
  <2>5. AbsentIsEmpty'
    <3>1. ASSUME NEW y \in Zids \ entries'
          PROVE  /\ deadRefs'[y] = {} /\ forward'[y] = {} /\ backward'[y] = {} /\ wordsOf'[y] = {}
                 /\ \A k \in Keys : otherFwd'[k][y] = {} /\ otherBwd'[k][y] = {}
      <4>1. CASE y = z
        BY <1>1, <1>4, <4>1, DeleteChanges
      <4>2. CASE y # z
        <5>1. /\ deadRefs[y] = {} /\ forward[y] = {} /\ backward[y] = {} /\ wordsOf[y] = {}
              /\ \A k \in Keys : otherFwd[k][y] = {} /\ otherBwd[k][y] = {}
          BY <2>1, <3>1, <4>2 DEF StoreOK, AbsentIsEmpty
        <5> QED
          BY <1>1, <1>4, <4>2, <5>1, DeleteChanges
      <4> QED
        BY <4>1, <4>2
    <3>2. ASSUME NEW y \in Zids \ entries', NEW x \in Zids
          PROVE  y \notin backward'[x] /\ y \notin forward'[x] /\ y \notin deadIn'[x]
      BY <2>2, <3>1, <3>2 DEF StoreInv, LinksInv, ForwardBackwardMatch, DeadInv
    <3> QED
      BY <3>1, <3>2 DEF AbsentIsEmpty
  <2> QED
    BY <1>2, <2>2, <2>4, <2>5 DEF StoreOK
<1> QED
  BY <1>3, <1>4

-----------------------------------------------------------------------------
(* Every sequence of calls of the interface.                                *)
LEMMA NextStoreOK == StoreOK /\ [CallNext]_callVars => StoreOK'
<1> SUFFICES ASSUME StoreOK, [CallNext]_callVars PROVE StoreOK'
  OBVIOUS
<1>1. ASSUME NEW z \in Zids, NEW zi \in Indices, Update(z, zi)
      PROVE  StoreOK'
  BY <1>1, UpdateStoreOK, IndicesAssumption DEF Update
<1>2. ASSUME NEW z \in Zids, Delete(z)
      PROVE  StoreOK'
  BY <1>2, DeleteStoreOK DEF Delete
<1>3. CASE UNCHANGED callVars
  BY <1>3, SameStoreOK DEF callVars
<1> QED
  BY <1>1, <1>2, <1>3 DEF CallNext

LEMMA AlwaysStoreOK == CallSpec => []StoreOK
<1>1. CallInit => StoreOK
  BY InitStoreOK DEF CallInit
<1> QED
  BY <1>1, NextStoreOK, PTL DEF CallSpec

(* References, dead references, inverse references and words can be looked  *)
(* up from both ends, after any updates and deletions.  Of a zettel that    *)
(* references itself only the first end is certain.                         *)
THEOREM IndexIsConsistent == CallSpec => []BothEndsAgree
  BY AlwaysStoreOK, StoreAgrees, PTL

-----------------------------------------------------------------------------
(* What the caller gave.  A deletion changes the forward references of      *)
(* others; that they are reported relies on every referrer having an entry, *)
(* which AbsentIsEmpty says.                                                *)
GivenInv == CallTypeOK /\ ForwardIsGivenOrPending /\ DeadIsGiven
Inv == StoreOK /\ GivenInv

LEMMA NothingIsAnIndex == Nothing \in ZettelIndex
  BY DEF Nothing, ZettelIndex

LEMMA InitGivenInv == CallInit => GivenInv
  BY NothingIsAnIndex
     DEF CallInit, StoreInit, GivenInv, CallTypeOK, StoreTypeOK,
         ForwardIsGivenOrPending, DeadIsGiven, Nothing

LEMMA UpdateGiven ==
  ASSUME Inv, NEW z \in Zids, NEW zi \in ZettelIndex, Update(z, zi)
  PROVE  GivenInv'
<1> USE DEF Inv, GivenInv
<1>1. /\ UpdateReferences(z, zi)
      /\ given' = [given EXCEPT ![z] = zi]
      /\ pending' = (pending \ {z}) \union UpdateToCheck(z, zi)
  BY DEF Update
<1>2. given \in [Zids -> ZettelIndex] /\ given' \in [Zids -> ZettelIndex]
  BY <1>1 DEF CallTypeOK
<1>3. StoreOK' /\ UpdateToCheck(z, zi) \subseteq Zids
  BY <1>1, UpdateStoreOK
<1>4. CallTypeOK'
  BY <1>1, <1>2, <1>3 DEF CallTypeOK, StoreOK
<1>5. StoreInv
  BY DEF StoreOK
<1>6. ForwardIsGivenOrPending'
  BY <1>1, <1>2, <1>5, UpdateChanges DEF ForwardIsGivenOrPending
<1>7. DeadIsGiven'
  BY <1>1, <1>2, <1>5, UpdateChanges DEF DeadIsGiven
<1> QED
  BY <1>4, <1>6, <1>7

LEMMA DeleteGiven ==
  ASSUME Inv, NEW z \in Zids, Delete(z)
  PROVE  GivenInv'
<1> USE DEF Inv, GivenInv
<1>1. /\ DeleteZettel(z)
      /\ given' = [given EXCEPT ![z] = Nothing]
      /\ pending' = (pending \ {z}) \union DeleteToCheck(z)
  BY DEF Delete
<1>2. given \in [Zids -> ZettelIndex] /\ given' \in [Zids -> ZettelIndex]
  BY <1>1, NothingIsAnIndex DEF CallTypeOK
<1>3. StoreOK' /\ DeleteToCheck(z) \subseteq Zids
  BY <1>1, DeleteStoreOK
<1>4. CallTypeOK'
  BY <1>1, <1>2, <1>3 DEF CallTypeOK, StoreOK
<1>5. CASE z \notin entries
  <2>1. UNCHANGED storeVars
    BY <1>1, <1>5 DEF DeleteZettel
  <2>2. forward[z] = {} /\ deadRefs[z] = {}
    BY <1>5 DEF StoreOK, AbsentIsEmpty
  <2> QED
    BY <1>1, <1>2, <1>4, <2>1, <2>2 DEF ForwardIsGivenOrPending, DeadIsGiven, storeVars, Nothing
<1>6. CASE z \in entries
  <2>1. StoreInv
    BY DEF StoreOK
  <2>2. ForwardIsGivenOrPending'
    <3>1. ASSUME NEW y \in Zids, y # z, forward'[y] # forward[y]
          PROVE  y \in pending'
      <4>1. y \in backward[z]
        BY <1>1, <1>6, <2>1, <3>1, DeleteChanges
      <4>2. z \in forward[y]
        BY <2>1, <4>1 DEF StoreInv, LinksInv, ForwardBackwardMatch
      <4>3. y \in entries
        BY <4>2 DEF StoreOK, AbsentIsEmpty
      <4> QED
        BY <1>1, <3>1, <4>1, <4>3 DEF DeleteToCheck
    <3>2. forward'[z] = {}
      BY <1>1, <1>6, <2>1, DeleteChanges
    <3> QED
      BY <1>1, <1>2, <3>1, <3>2 DEF ForwardIsGivenOrPending, Nothing
  <2>3. DeadIsGiven'
    <3>1. ASSUME NEW y \in Zids PROVE deadRefs'[y] = given'[y].dead
      <4>1. CASE y = z
        BY <1>1, <1>2, <1>6, <2>1, <4>1, DeleteChanges DEF Nothing
      <4>2. CASE y # z
        BY <1>1, <1>2, <1>6, <2>1, <4>2, DeleteChanges DEF DeadIsGiven
      <4> QED
        BY <4>1, <4>2
    <3> QED
      BY <3>1 DEF DeadIsGiven
  <2> QED
    BY <1>4, <2>2, <2>3
<1> QED
  BY <1>5, <1>6

LEMMA NextInv == Inv /\ [CallNext]_callVars => Inv'
<1> SUFFICES ASSUME Inv, [CallNext]_callVars PROVE Inv'
  OBVIOUS
<1>1. StoreOK'
  BY NextStoreOK DEF Inv
<1>2. ASSUME NEW z \in Zids, NEW zi \in Indices, Update(z, zi)
      PROVE  GivenInv'
  BY <1>2, UpdateGiven, IndicesAssumption
<1>3. ASSUME NEW z \in Zids, Delete(z)
      PROVE  GivenInv'
  BY <1>3, DeleteGiven
<1>4. CASE UNCHANGED callVars
  <2>1. UNCHANGED storeVars /\ UNCHANGED <<given, pending>>
    BY <1>4 DEF callVars
  <2>2. CallTypeOK'
    BY <2>1 DEF Inv, GivenInv, CallTypeOK, StoreTypeOK, storeVars
  <2>3. ForwardIsGivenOrPending' /\ DeadIsGiven'
    BY <2>1 DEF Inv, GivenInv, ForwardIsGivenOrPending, DeadIsGiven, storeVars
  <2> QED
    BY <1>1, <2>2, <2>3 DEF Inv, GivenInv
<1> QED
  BY <1>1, <1>2, <1>3, <1>4 DEF CallNext, Inv

LEMMA AlwaysInv == CallSpec => []Inv
<1>1. CallInit => Inv
  BY InitStoreOK, InitGivenInv DEF CallInit, Inv
<1> QED
  BY <1>1, NextInv, PTL DEF CallSpec

(* The index holds what the last update of each zettel gave it, or reported *)
(* the zettel for a check; nothing is left of what was deleted.             *)
THEOREM StoreStaysAsGiven == CallSpec => []StoreIsAsGiven
<1>1. Inv => StoreIsAsGiven
  BY DEF Inv, GivenInv, StoreOK, StoreIsAsGiven
<1> QED
  BY <1>1, AlwaysInv, PTL

(* Whoever is referenced without having been indexed is reported when his   *)
(* entry is made: UpdateReferences.                                         *)
THEOREM UnindexedStayReported == CallSpec => UnindexedAreReported
<1>1. ASSUME Inv, [CallNext]_callVars,
             NEW y \in Zids, y \in entries', y \notin entries, y \notin indexed'
      PROVE  y \in pending'
  <2>1. ASSUME NEW z \in Zids, NEW zi \in Indices, Update(z, zi)
        PROVE  y \in pending'
    BY <1>1, <2>1 DEF Update, UpdateReferences, UpdateToCheck
  <2>2. ASSUME NEW z \in Zids, Delete(z)
        PROVE  FALSE
    BY <1>1, <2>2 DEF Delete, DeleteZettel, storeVars
  <2>3. CASE UNCHANGED callVars
    BY <1>1, <2>3 DEF callVars, storeVars
  <2> QED
    BY <1>1, <2>1, <2>2, <2>3 DEF CallNext
<1>2. Inv /\ [CallNext]_callVars
        => [\A z \in Zids : (z \in entries' /\ z \notin entries /\ z \notin indexed') => z \in pending']_callVars
  BY <1>1
<1> QED
  BY <1>2, AlwaysInv, PTL DEF CallSpec, UnindexedAreReported

(***************************************************************************)
(* The index keeps and merges references as sets of identifiers.  MapStore *)
(* and the theorems above have them as sets; the program has sorted slices *)
(* (IdSet), and what follows proves that its operations compute sets.      *)
(***************************************************************************)

(* A loop of IdSet, and what it ends with.                                  *)
RoundOf(loop, a, b, l) ==
    IF loop = "find" THEN FindRound(a, b, l)
    ELSE IF loop = "add" THEN AddRound(a, l)
    ELSE IF loop = "intersect" THEN IntersectRound(a, l)
    ELSE IF loop = "substract" THEN SubstractRound(a, l)
    ELSE DiffRound(a, b, l)
IsRun(f, loop, a, b, n, start) ==
    f = [k \in 0 .. n |-> IF k = 0 THEN start ELSE RoundOf(loop, a, b, f[k - 1])]
EndOf(loop, a, b, n, start) == (CHOOSE f : IsRun(f, loop, a, b, n, start))[n]

LEMMA LeastNat ==
  ASSUME NEW T \in SUBSET Nat, T # {}
  PROVE  \E n \in T : \A m \in T : n <= m
<1>1. IsWellFoundedOn(OpToRel(<, Nat), Nat)
  BY NatLessThanWellFounded
<1>2. PICK n \in T : \A m \in T : ~(<<m, n>> \in OpToRel(<, Nat))
  BY <1>1, WFMin
<1>3. \A m \in T : ~(m < n)
  BY <1>2 DEF OpToRel
<1> QED
  BY <1>3

LEMMA RunExists ==
  ASSUME NEW loop, NEW a, NEW b, NEW start, NEW n \in Nat
  PROVE  \E f : IsRun(f, loop, a, b, n, start)
<1> DEFINE Bad == {m \in Nat : ~ \E f : IsRun(f, loop, a, b, m, start)}
<1> SUFFICES ASSUME Bad # {} PROVE FALSE
  OBVIOUS
<1>1. PICK m \in Bad : \A k \in Bad : m <= k
  BY LeastNat
<1>2. m # 0
  <2>1. IsRun([i \in 0 .. 0 |-> start], loop, a, b, 0, start)
    BY DEF IsRun
  <2> QED
    BY <2>1, <1>1
<1>3. PICK g : IsRun(g, loop, a, b, m - 1, start)
  BY <1>1, <1>2
<1> DEFINE f == [i \in 0 .. m |-> IF i < m THEN g[i] ELSE RoundOf(loop, a, b, g[m - 1])]
<1>4. \A i \in 0 .. m - 1 : g[i] = IF i = 0 THEN start ELSE RoundOf(loop, a, b, g[i - 1])
  BY <1>3 DEF IsRun
<1>5. \A i \in 0 .. m : f[i] = IF i = 0 THEN start ELSE RoundOf(loop, a, b, f[i - 1])
  <2> SUFFICES ASSUME NEW i \in 0 .. m
               PROVE  f[i] = IF i = 0 THEN start ELSE RoundOf(loop, a, b, f[i - 1])
    OBVIOUS
  <2>0. m \in Nat /\ 0 < m
    BY <1>1, <1>2
  <2>1. CASE i = 0
    <3>1. f[0] = g[0]
      BY <2>0
    <3>2. 0 \in 0 .. m - 1
      BY <2>0
    <3> HIDE DEF f, Bad
    <3>3. g[0] = start
      BY <3>2, <1>4
    <3> QED
      BY <2>1, <3>1, <3>3
  <2>2. CASE i # 0
    <3>1. f[i - 1] = g[i - 1]
      BY <2>2, <2>0
    <3>2. f[i] = RoundOf(loop, a, b, g[i - 1])
      <4>1. CASE i = m
        BY <4>1, <2>0
      <4>2. CASE i < m
        <5>1. i \in 0 .. m - 1 /\ f[i] = g[i]
          BY <4>2, <2>0
        <5> QED
          BY <5>1, <2>2, <1>4
      <4> QED
        BY <4>1, <4>2, <2>0
    <3> QED
      BY <3>1, <3>2, <2>2
  <2> QED
    BY <2>1, <2>2
<1>6. f = [i \in 0 .. m |-> f[i]]
  OBVIOUS
<1> HIDE DEF f
<1>7. IsRun(f, loop, a, b, m, start)
  BY <1>5, <1>6 DEF IsRun
<1> QED
  BY <1>1, <1>7

(* What a loop does: one round after the other.                             *)
LEMMA RunIs ==
  ASSUME NEW loop, NEW a, NEW b, NEW start, NEW n \in Nat
  PROVE  \E f : /\ f[0] = start
                /\ \A k \in 1 .. n : f[k] = RoundOf(loop, a, b, f[k - 1])
                /\ f[n] = EndOf(loop, a, b, n, start)
<1> DEFINE f == CHOOSE f : IsRun(f, loop, a, b, n, start)
<1>1. IsRun(f, loop, a, b, n, start)
  BY RunExists
<1>2. f[n] = EndOf(loop, a, b, n, start)
  BY DEF EndOf
<1> HIDE DEF f
<1>3. \A k \in 0 .. n : f[k] = IF k = 0 THEN start ELSE RoundOf(loop, a, b, f[k - 1])
  BY <1>1 DEF IsRun
<1>4. f[0] = start
  <2>1. 0 \in 0 .. n
    OBVIOUS
  <2> QED
    BY <2>1, <1>3
<1>5. \A k \in 1 .. n : f[k] = RoundOf(loop, a, b, f[k - 1])
  <2> SUFFICES ASSUME NEW k \in 1 .. n PROVE f[k] = RoundOf(loop, a, b, f[k - 1])
    OBVIOUS
  <2>1. k \in 0 .. n /\ k # 0
    OBVIOUS
  <2> QED
    BY <2>1, <1>3
<1> QED
  BY <1>2, <1>4, <1>5

LEMMA FindEnds ==
  ASSUME NEW seq, NEW z
  PROVE  LET end == EndOf("find", seq, z, Len(seq), [lo |-> 1, hi |-> Len(seq) + 1, found |-> FALSE])
         IN  find(seq, z) = [pos |-> end.hi, found |-> end.found]
  BY DEF find, After, EndOf, IsRun, RoundOf

LEMMA AddEnds ==
  ASSUME NEW s, NEW zids
  PROVE  AddSlice(s, zids) = Set(EndOf("add", zids, 0, Len(zids), [seq |-> s.seq, i |-> 1]).seq)
  BY DEF AddSlice, After, EndOf, IsRun, RoundOf

LEMMA IntersectEnds ==
  ASSUME NEW seq, NEW other
  PROVE  LET end == EndOf("intersect", other, 0, Len(seq) + Len(other), Both(seq))
         IN  intersect(seq, other) = SubSeq(end.seq, 1, end.t)
  BY DEF intersect, After, EndOf, IsRun, RoundOf

LEMMA SubstractEnds ==
  ASSUME NEW seq, NEW other
  PROVE  LET end == EndOf("substract", other, 0, Len(seq) + Len(other), Both(seq))
         IN  substract(seq, other) = SubSeq(end.seq, 1, end.t) \o From(end.seq, end.i)
  BY DEF substract, After, EndOf, IsRun, RoundOf

LEMMA DiffEnds ==
  ASSUME NEW s, NEW o
  PROVE  LET end == EndOf("diff", s.seq, o.seq, Len(s.seq) + Len(o.seq),
                          [new |-> <<>>, rem |-> <<>>, i |-> 1, j |-> 1])
         IN  Diff(s, o) = [new |-> newFromSlice(end.new \o From(o.seq, end.j)),
                           rem |-> newFromSlice(end.rem \o From(s.seq, end.i))]
  BY DEF Diff, After, EndOf, IsRun, RoundOf

(* What holds of the variables of a loop after each round holds at its end: *)
(* Rounds has for the number of a round what the variables may be.             *)
LEMMA LoopKeeps ==
  ASSUME NEW loop, NEW a, NEW b, NEW start, NEW n \in Nat, NEW Rounds,
         start \in Rounds[0],
         \A k \in 1 .. n : \A l \in Rounds[k - 1] : RoundOf(loop, a, b, l) \in Rounds[k]
  PROVE  EndOf(loop, a, b, n, start) \in Rounds[n]
<1>1. PICK f : /\ f[0] = start
               /\ \A k \in 1 .. n : f[k] = RoundOf(loop, a, b, f[k - 1])
               /\ f[n] = EndOf(loop, a, b, n, start)
  BY RunIs
<1> DEFINE Bad == {k \in 0 .. n : f[k] \notin Rounds[k]}
<1>2. Bad = {}
  <2> SUFFICES ASSUME Bad # {} PROVE FALSE
    OBVIOUS
  <2>1. PICK k \in Bad : \A m \in Bad : k <= m
    <3>1. Bad \in SUBSET Nat
      OBVIOUS
    <3> QED
      BY <3>1, LeastNat
  <2>2. k # 0
    BY <1>1, <2>1
  <2>3. k \in 1 .. n /\ k - 1 \in 0 .. n /\ k - 1 \notin Bad
    BY <2>1, <2>2
  <2>4. f[k - 1] \in Rounds[k - 1]
    BY <2>3
  <2>5. RoundOf(loop, a, b, f[k - 1]) \in Rounds[k]
    BY <2>3, <2>4
  <2> QED
    BY <1>1, <2>1, <2>3, <2>5
<1> QED
  BY <1>1, <1>2

Elements(q) == {q[i] : i \in DOMAIN q}
Ascending(q) == \A i, k \in DOMAIN q : i < k => q[i] < q[k]

LEMMA HalfIs ==
  ASSUME NEW d \in Int, 0 < d
  PROVE  d \div 2 \in Int /\ 0 <= d \div 2 /\ d \div 2 < d
  OBVIOUS

(* find: the place of an element, or where it belongs.                      *)
LEMMA FindIs ==
  ASSUME NEW q \in Seq(Int), Ascending(q), NEW z \in Int
  PROVE  LET f == find(q, z) IN
         /\ f.pos \in 1 .. Len(q) + 1 /\ f.found \in BOOLEAN
         /\ f.found <=> z \in Elements(q)
         /\ f.found => f.pos <= Len(q) /\ q[f.pos] = z
         /\ ~f.found => \A k \in 1 .. Len(q) : IF k < f.pos THEN q[k] < z ELSE z < q[k]
<1> DEFINE n == Len(q)
           Vars == [lo : Int, hi : Int, found : BOOLEAN]
           start == [lo |-> 1, hi |-> n + 1, found |-> FALSE]
           end == EndOf("find", q, z, n, start)
           Good(k, l) ==
                /\ 1 <= l.lo /\ l.lo <= l.hi /\ l.hi <= n + 1
                /\ l.found => l.hi <= n /\ q[l.hi] = z
                /\ ~l.found => \A m \in 1 .. n : (m < l.lo => q[m] < z) /\ (l.hi <= m => z < q[m])
                /\ ~l.found /\ l.lo < l.hi => l.hi - l.lo <= n - k
           Rounds == [k \in Nat |-> {l \in Vars : Good(k, l)}]
<1>1. n \in Nat /\ DOMAIN q = 1 .. n /\ \A i \in 1 .. n : q[i] \in Int
  OBVIOUS
<1>2. start \in Rounds[0]
  <2>1. start \in Vars /\ start.lo = 1 /\ start.hi = n + 1 /\ start.found = FALSE
    BY <1>1
  <2>2. Good(0, start)
    BY <1>1, <2>1
  <2> QED
    BY <2>1, <2>2
<1>3. ASSUME NEW k \in 1 .. n, NEW l \in Rounds[k - 1]
      PROVE  RoundOf("find", q, z, l) \in Rounds[k]
  <2> DEFINE m == l.lo + (l.hi - l.lo) \div 2
             r == FindRound(q, z, l)
  <2>1. l \in Vars /\ Good(k - 1, l) /\ k \in Nat /\ k - 1 \in Nat
    OBVIOUS
  <2> SUFFICES r \in Vars /\ Good(k, r)
    BY <2>1 DEF RoundOf
  <2>2. CASE l.found \/ l.lo >= l.hi
    <3>1. r = l
      BY <2>2 DEF FindRound
    <3> QED
      BY <2>1, <2>2, <3>1, <1>1
  <2>3. CASE ~l.found /\ l.lo < l.hi
    <3>1. m \in Int /\ l.lo <= m /\ m < l.hi
      BY <2>1, <2>3, HalfIs
    <3>2. m \in 1 .. n /\ q[m] \in Int
      BY <1>1, <2>1, <3>1, SMTT(30)
    <3> HIDE DEF m
    <3>3. r = IF q[m] = z THEN [l EXCEPT !.hi = m, !.found = TRUE]
              ELSE IF q[m] < z THEN [l EXCEPT !.lo = m + 1]
              ELSE [l EXCEPT !.hi = m]
      BY <2>1, <2>3 DEF FindRound, m
    <3> HIDE DEF r
    <3>4. CASE q[m] = z
      <4>1. r \in Vars /\ r.lo = l.lo /\ r.hi = m /\ r.found = TRUE
        BY <2>1, <3>1, <3>3, <3>4
      <4> QED
        BY <1>1, <2>1, <3>1, <3>2, <3>4, <4>1
    <3>5. CASE q[m] < z
      <4>1. r \in Vars /\ r.lo = m + 1 /\ r.hi = l.hi /\ r.found = FALSE
        <5>1. q[m] # z
          BY <3>2, <3>5
        <5>2. r = [l EXCEPT !.lo = m + 1]
          BY <3>3, <3>5, <5>1
        <5>3. l \in Vars /\ l.found = FALSE /\ m + 1 \in Int
          BY <2>1, <2>3, <3>1
        <5> HIDE DEF Good, Rounds
        <5> QED
          BY <5>2, <5>3
      <4>2. \A i \in 1 .. n : (i < r.lo => q[i] < z) /\ (r.hi <= i => z < q[i])
        <5>1. \A i \in 1 .. n : i < m => q[i] < q[m]
          BY <1>1, <3>2 DEF Ascending
        <5> QED
          <6>1. \A i \in 1 .. n : i < m + 1 => q[i] < z
            <7> SUFFICES ASSUME NEW i \in 1 .. n, i < m + 1 PROVE q[i] < z
              OBVIOUS
            <7>1. q[i] \in Int /\ (i = m \/ q[i] < q[m])
              BY <1>1, <3>1, <5>1
            <7> QED
              BY <7>1, <3>2, <3>5
          <6>2. \A i \in 1 .. n : l.hi <= i => z < q[i]
            BY <2>1, <2>3
          <6> QED
            BY <4>1, <6>1, <6>2
      <4> QED
        BY <1>1, <2>1, <2>3, <3>1, <4>1, <4>2
    <3>6. CASE ~(q[m] = z) /\ ~(q[m] < z)
      <4>1. r \in Vars /\ r.lo = l.lo /\ r.hi = m /\ r.found = FALSE
        BY <2>1, <2>3, <3>1, <3>2, <3>3, <3>6
      <4>2. \A i \in 1 .. n : (i < r.lo => q[i] < z) /\ (r.hi <= i => z < q[i])
        <5>1. \A i \in 1 .. n : m < i => q[m] < q[i]
          BY <1>1, <3>2 DEF Ascending
        <5> QED
          BY <1>1, <2>1, <2>3, <3>1, <3>2, <3>6, <4>1, <5>1
      <4> QED
        BY <1>1, <2>1, <2>3, <3>1, <4>1, <4>2
    <3> QED
      BY <3>4, <3>5, <3>6
  <2> QED
    BY <2>1, <2>2, <2>3
<1> HIDE DEF Rounds
<1>4. end \in Rounds[n]
  BY <1>1, <1>2, <1>3, LoopKeeps
<1> USE DEF Rounds
<1>5. end \in Vars /\ Good(n, end)
  BY <1>1, <1>4
<1>6. find(q, z) = [pos |-> end.hi, found |-> end.found]
  BY FindEnds
<1> HIDE DEF end
<1>7. ~end.found => end.lo = end.hi
  BY <1>1, <1>5
<1>8. /\ find(q, z).pos = end.hi /\ find(q, z).found = end.found
      /\ end.hi \in 1 .. n + 1 /\ end.found \in BOOLEAN
  BY <1>1, <1>5, <1>6
<1>9. end.found => z \in Elements(q) /\ end.hi <= n /\ q[end.hi] = z
  BY <1>1, <1>5 DEF Elements
<1>10. ~end.found => \A k \in 1 .. n : IF k < end.hi THEN q[k] < z ELSE z < q[k]
  BY <1>1, <1>5, <1>7
<1>11. ~end.found => z \notin Elements(q)
  BY <1>1, <1>10 DEF Elements
<1> QED
  BY <1>8, <1>9, <1>10, <1>11

Slices == {q \in Seq(Int) : Ascending(q)}

LEMMA SliceIs ==
  ASSUME NEW q \in Slices
  PROVE  /\ q \in Seq(Int) /\ Ascending(q) /\ Len(q) \in Nat /\ DOMAIN q = 1 .. Len(q)
         /\ \A i \in 1 .. Len(q) : q[i] \in Int /\ q[i] \in Elements(q)
  BY DEF Slices, Elements

LEMMA JoinIs ==
  ASSUME NEW a \in Slices, NEW b \in Slices, \A x \in Elements(a), y \in Elements(b) : x < y
  PROVE  a \o b \in Slices /\ Elements(a \o b) = Elements(a) \union Elements(b)
<1> DEFINE c == a \o b
           m == Len(a)
           n == Len(b)
<1>1. /\ m \in Nat /\ n \in Nat /\ DOMAIN a = 1 .. m /\ DOMAIN b = 1 .. n
      /\ \A i \in 1 .. m : a[i] \in Int /\ a[i] \in Elements(a)
      /\ \A i \in 1 .. n : b[i] \in Int /\ b[i] \in Elements(b)
  BY SliceIs
<1>2. c \in Seq(Int) /\ DOMAIN c = 1 .. m + n
  BY DEF Slices
<1>3. /\ \A i \in 1 .. m : c[i] = a[i]
      /\ \A i \in 1 .. n : c[m + i] = b[i]
      /\ \A i \in m + 1 .. m + n : c[i] = b[i - m]
  BY DEF Slices
<1> HIDE DEF c, m, n
<1>4. Elements(c) = Elements(a) \union Elements(b)
  <2>1. \A i \in 1 .. m + n : i \in 1 .. m \/ (i \in m + 1 .. m + n /\ i - m \in 1 .. n)
    BY <1>1
  <2>2. \A i \in 1 .. m : i \in 1 .. m + n
    BY <1>1
  <2>3. \A i \in 1 .. n : m + i \in 1 .. m + n
    BY <1>1
  <2>4. Elements(c) \subseteq Elements(a) \union Elements(b)
    BY <1>1, <1>2, <1>3, <2>1 DEF Elements
  <2>5. Elements(a) \subseteq Elements(c)
    BY <1>1, <1>2, <1>3, <2>2 DEF Elements
  <2>6. Elements(b) \subseteq Elements(c)
    <3> SUFFICES ASSUME NEW i \in 1 .. n PROVE b[i] \in Elements(c)
      BY <1>1 DEF Elements
    <3>1. m + i \in DOMAIN c /\ c[m + i] = b[i]
      BY <1>2, <1>3, <2>3
    <3> QED
      BY <3>1 DEF Elements
  <2> QED
    BY <2>4, <2>5, <2>6
<1>5. Ascending(c)
  <2> SUFFICES ASSUME NEW i \in 1 .. m + n, NEW k \in 1 .. m + n, i < k PROVE c[i] < c[k]
    BY <1>2 DEF Ascending
  <2>1. CASE k <= m
    <3>1. i \in 1 .. m /\ k \in 1 .. m
      BY <1>1, <2>1
    <3> QED
      BY <1>1, <1>3, <3>1 DEF Slices, Ascending
  <2>2. CASE i <= m /\ m < k
    <3>1. i \in 1 .. m /\ k \in m + 1 .. m + n /\ k - m \in 1 .. n
      BY <1>1, <2>2
    <3> QED
      BY <1>1, <1>3, <3>1
  <2>3. CASE m < i
    <3>1. /\ i \in m + 1 .. m + n /\ k \in m + 1 .. m + n
          /\ i - m \in 1 .. n /\ k - m \in 1 .. n /\ i - m < k - m
      BY <1>1, <2>3
    <3> QED
      BY <1>1, <1>3, <3>1 DEF Slices, Ascending
  <2> QED
    BY <2>1, <2>2, <2>3, <1>1
<1> QED
  BY <1>2, <1>4, <1>5 DEF Slices, c

LEMMA SingleIs ==
  ASSUME NEW z \in Int
  PROVE  <<z>> \in Slices /\ Elements(<<z>>) = {z}
  BY DEF Slices, Ascending, Elements

LEMMA EmptyIs == <<>> \in Slices /\ Elements(<<>>) = {}
  BY DEF Slices, Ascending, Elements

(* The first n elements, when they are in order.                            *)
LEMMA FrontIs ==
  ASSUME NEW q \in Seq(Int), NEW n \in 0 .. Len(q),
         \A i, k \in 1 .. n : i < k => q[i] < q[k]
  PROVE  SubSeq(q, 1, n) \in Slices /\ Elements(SubSeq(q, 1, n)) = {q[i] : i \in 1 .. n}
<1> DEFINE p == SubSeq(q, 1, n)
<1>1. Len(q) \in Nat /\ DOMAIN q = 1 .. Len(q)
  OBVIOUS
<1>2. p \in Seq(Int) /\ DOMAIN p = 1 .. n /\ \A i \in 1 .. n : p[i] = q[i]
  BY <1>1
<1> HIDE DEF p
<1>3. Ascending(p)
  BY <1>2, SMTT(30) DEF Ascending
<1>4. Elements(p) = {q[i] : i \in 1 .. n}
  BY <1>2 DEF Elements
<1> QED
  BY <1>2, <1>3, <1>4 DEF Slices, p

LEMMA PrefixIs ==
  ASSUME NEW q \in Slices, NEW n \in 0 .. Len(q)
  PROVE  SubSeq(q, 1, n) \in Slices /\ Elements(SubSeq(q, 1, n)) = {q[i] : i \in 1 .. n}
<1>1. q \in Seq(Int) /\ Ascending(q) /\ Len(q) \in Nat /\ DOMAIN q = 1 .. Len(q)
  BY SliceIs
<1>2. \A i \in 1 .. n : i \in 1 .. Len(q)
  BY <1>1
<1>3. \A i, k \in 1 .. n : i < k => q[i] < q[k]
  BY <1>1, <1>2 DEF Ascending
<1> QED
  BY <1>1, <1>3, FrontIs

(* The elements of a slice from the i-th on.                                *)
LEMMA FromIs ==
  ASSUME NEW q \in Slices, NEW i \in 1 .. Len(q) + 1
  PROVE  From(q, i) \in Slices /\ Elements(From(q, i)) = {q[k] : k \in i .. Len(q)}
<1> DEFINE p == SubSeq(q, i, Len(q))
           n == Len(q) - i + 1
<1>1. Len(q) \in Nat /\ DOMAIN q = 1 .. Len(q) /\ q \in Seq(Int) /\ i \in Nat /\ 1 <= i
  BY SliceIs
<1>2. p \in Seq(Int) /\ DOMAIN p = 1 .. n /\ \A k \in 1 .. n : p[k] = q[k + i - 1]
  BY <1>1, SMTT(30)
<1> HIDE DEF p
<1>3. /\ \A k \in 1 .. n : k + i - 1 \in 1 .. Len(q) /\ k + i - 1 \in i .. Len(q)
      /\ \A k \in i .. Len(q) : k - i + 1 \in 1 .. n /\ (k - i + 1) + i - 1 = k
  BY <1>1
<1>4. Ascending(p)
  <2> SUFFICES ASSUME NEW h \in 1 .. n, NEW k \in 1 .. n, h < k PROVE p[h] < p[k]
    BY <1>2 DEF Ascending
  <2>1. h + i - 1 < k + i - 1
    BY <1>1
  <2> QED
    <3>1. h + i - 1 \in DOMAIN q /\ k + i - 1 \in DOMAIN q
      BY <1>1, <1>3
    <3>2. q[h + i - 1] < q[k + i - 1]
      BY <2>1, <3>1 DEF Slices, Ascending
    <3> QED
      BY <1>2, <3>2
<1>5. Elements(p) = {q[k] : k \in i .. Len(q)}
  <2>1. ASSUME NEW k \in DOMAIN p PROVE p[k] \in {q[h] : h \in i .. Len(q)}
    <3>1. p[k] = q[k + i - 1] /\ k + i - 1 \in i .. Len(q)
      BY <1>2, <1>3
    <3> QED
      BY <3>1
  <2>2. ASSUME NEW k \in i .. Len(q) PROVE q[k] \in Elements(p)
    <3>1. k - i + 1 \in DOMAIN p /\ p[k - i + 1] = q[k]
      BY <1>2, <1>3
    <3> QED
      BY <3>1 DEF Elements
  <2> QED
    BY <2>1, <2>2 DEF Elements
<1> QED
  BY <1>2, <1>4, <1>5 DEF Slices, p, From

LEMMA SameFrom ==
  ASSUME NEW q \in Seq(Int), NEW p \in Seq(Int), Len(p) = Len(q), NEW i \in 1 .. Len(q) + 1,
         \A h \in i .. Len(q) : p[h] = q[h]
  PROVE  From(p, i) = From(q, i)
<1> DEFINE a == SubSeq(p, i, Len(q))
           b == SubSeq(q, i, Len(q))
           n == Len(q) - i + 1
<1>1. Len(q) \in Nat /\ i \in Nat /\ 1 <= i
  OBVIOUS
<1>2. a \in Seq(Int) /\ DOMAIN a = 1 .. n /\ \A k \in 1 .. n : a[k] = p[k + i - 1]
  BY <1>1
<1>3. b \in Seq(Int) /\ DOMAIN b = 1 .. n /\ \A k \in 1 .. n : b[k] = q[k + i - 1]
  BY <1>1
<1>4. \A k \in 1 .. n : k + i - 1 \in i .. Len(q)
  BY <1>1
<1> HIDE DEF a, b
<1>5. \A k \in 1 .. n : a[k] = b[k]
  BY <1>2, <1>3, <1>4
<1>6. a = [k \in 1 .. n |-> a[k]] /\ b = [k \in 1 .. n |-> b[k]]
  BY <1>2, <1>3
<1>7. a = b
  BY <1>5, <1>6
<1> QED
  BY <1>7 DEF From, a, b

LEMMA addIs ==
  ASSUME NEW q \in Slices, NEW z \in Int
  PROVE  add(q, z) \in Slices /\ Elements(add(q, z)) = Elements(q) \union {z}
<1> DEFINE f == find(q, z)
           a == SubSeq(q, 1, f.pos - 1)
           b == From(q, f.pos)
<1>0. q \in Seq(Int) /\ Ascending(q) /\ Len(q) \in Nat /\ DOMAIN q = 1 .. Len(q)
      /\ \A i \in 1 .. Len(q) : q[i] \in Int
  BY SliceIs
<1>1. /\ f.pos \in 1 .. Len(q) + 1 /\ f.found \in BOOLEAN
      /\ f.found <=> z \in Elements(q)
      /\ f.found => f.pos <= Len(q) /\ q[f.pos] = z
      /\ ~f.found => \A k \in 1 .. Len(q) : IF k < f.pos THEN q[k] < z ELSE z < q[k]
  BY <1>0, FindIs
<1>2. add(q, z) = IF f.found THEN q ELSE a \o <<z>> \o b
  BY DEF add
<1> HIDE DEF f
<1>3. f.pos - 1 \in 0 .. Len(q)
  BY <1>0, <1>1
<1>4. /\ a \in Slices /\ Elements(a) = {q[i] : i \in 1 .. f.pos - 1}
      /\ b \in Slices /\ Elements(b) = {q[k] : k \in f.pos .. Len(q)}
  BY <1>1, <1>3, PrefixIs, FromIs
<1> HIDE DEF a, b
<1>5. CASE f.found
  BY <1>1, <1>2, <1>5
<1>6. CASE ~f.found
  <2>1. \A x \in Elements(a) : x < z
    BY <1>0, <1>1, <1>3, <1>4, <1>6
  <2>2. \A y \in Elements(b) : z < y
    BY <1>0, <1>1, <1>3, <1>4, <1>6
  <2>3. Elements(a) \subseteq Int /\ Elements(b) \subseteq Int
    BY <1>4, SliceIs DEF Elements
  <2>4. a \o <<z>> \in Slices /\ Elements(a \o <<z>>) = Elements(a) \union {z}
    BY <1>4, <2>1, SingleIs, JoinIs
  <2>5. \A x \in Elements(a \o <<z>>), y \in Elements(b) : x < y
    BY <2>1, <2>2, <2>3, <2>4
  <2>6. /\ a \o <<z>> \o b \in Slices
        /\ Elements(a \o <<z>> \o b) = Elements(a) \union {z} \union Elements(b)
    BY <1>4, <2>4, <2>5, JoinIs
  <2>7. Elements(q) = Elements(a) \union Elements(b)
    <3>1. \A i \in 1 .. Len(q) : i \in 1 .. f.pos - 1 \/ i \in f.pos .. Len(q)
      BY <1>0, <1>1
    <3>2. \A i \in 1 .. f.pos - 1 : i \in 1 .. Len(q)
      BY <1>0, <1>3
    <3>3. \A i \in f.pos .. Len(q) : i \in 1 .. Len(q)
      BY <1>0, <1>1
    <3> QED
      BY <1>0, <1>4, <3>1, <3>2, <3>3 DEF Elements
  <2> QED
    BY <1>2, <1>6, <2>6, <2>7
<1> QED
  BY <1>1, <1>5, <1>6

LEMMA AddSliceIs ==
  ASSUME NEW s, s.seq \in Slices, NEW zids \in Seq(Int)
  PROVE  /\ AddSlice(s, zids).nil = FALSE /\ AddSlice(s, zids).seq \in Slices
         /\ Elements(AddSlice(s, zids).seq) = Elements(s.seq) \union Elements(zids)
<1> DEFINE n == Len(zids)
           Vars == [seq : Slices, i : Int]
           start == [seq |-> s.seq, i |-> 1]
           end == EndOf("add", zids, 0, n, start)
           Good(k, l) ==
                /\ l.i = k + 1
                /\ Elements(l.seq) = Elements(s.seq) \union {zids[h] : h \in 1 .. k}
           Rounds == [k \in Nat |-> {l \in Vars : Good(k, l)}]
<1>1. n \in Nat /\ DOMAIN zids = 1 .. n /\ \A h \in 1 .. n : zids[h] \in Int
  OBVIOUS
<1>2. start \in Rounds[0]
  <2>1. start \in Vars /\ start.i = 1 /\ start.seq = s.seq /\ 1 .. 0 = {}
    OBVIOUS
  <2> HIDE DEF start
  <2> QED
    BY <2>1
<1>3. ASSUME NEW k \in 1 .. n, NEW l \in Rounds[k - 1]
      PROVE  RoundOf("add", zids, 0, l) \in Rounds[k]
  <2> DEFINE r == AddRound(zids, l)
  <2>1. /\ l \in Vars /\ l.seq \in Slices /\ l.i = k /\ k \in Nat /\ zids[k] \in Int
        /\ Elements(l.seq) = Elements(s.seq) \union {zids[h] : h \in 1 .. k - 1}
    BY <1>1
  <2>2. add(l.seq, zids[k]) \in Slices
    BY <2>1, addIs
  <2>3. Elements(add(l.seq, zids[k])) = Elements(l.seq) \union {zids[k]}
    BY <2>1, addIs
  <2>4. r = [seq |-> add(l.seq, zids[k]), i |-> k + 1]
    BY <2>1 DEF AddRound
  <2> HIDE DEF r
  <2>5. r \in Vars /\ r.i = k + 1 /\ r.seq = add(l.seq, zids[k])
    BY <2>1, <2>2, <2>4
  <2>6. {zids[h] : h \in 1 .. k} = {zids[h] : h \in 1 .. k - 1} \union {zids[k]}
    <3>1. 1 .. k = (1 .. k - 1) \union {k}
      BY <2>1
    <3> QED
      BY <3>1
  <2>7. Good(k, r)
    BY <2>1, <2>3, <2>5, <2>6
  <2> HIDE DEF Good
  <2>8. r \in Rounds[k]
    BY <2>1, <2>5, <2>7
  <2> QED
    BY <2>8 DEF RoundOf, r
<1> HIDE DEF Rounds
<1>4. end \in Rounds[n]
  BY <1>1, <1>2, <1>3, LoopKeeps
<1> USE DEF Rounds
<1>5. end \in Vars /\ Good(n, end)
  BY <1>1, <1>4
<1>6. AddSlice(s, zids) = Set(end.seq)
  BY AddEnds
<1> HIDE DEF end
<1>7. {zids[h] : h \in 1 .. n} = Elements(zids)
  BY <1>1 DEF Elements
<1> QED
  BY <1>5, <1>6, <1>7 DEF Set

LEMMA RemoveIs ==
  ASSUME NEW s, s.seq \in Slices, NEW z \in Int
  PROVE  Remove(s, z).seq \in Slices /\ Elements(Remove(s, z).seq) = Elements(s.seq) \ {z}
<1> DEFINE q == s.seq
           f == find(q, z)
           a == SubSeq(q, 1, f.pos - 1)
           b == From(q, f.pos + 1)
<1>0. q \in Seq(Int) /\ Ascending(q) /\ Len(q) \in Nat /\ DOMAIN q = 1 .. Len(q)
      /\ \A i \in 1 .. Len(q) : q[i] \in Int
  BY SliceIs
<1>1. /\ f.pos \in 1 .. Len(q) + 1 /\ f.found \in BOOLEAN
      /\ f.found <=> z \in Elements(q)
      /\ f.found => f.pos <= Len(q) /\ q[f.pos] = z
  BY <1>0, FindIs
<1>2. Remove(s, z).seq = IF f.found THEN a \o b ELSE q
  BY DEF Remove, newFromSlice, Nil, Set
<1> HIDE DEF f, q
<1>3. CASE f.found
  <2>1. f.pos \in 1 .. Len(q) /\ f.pos - 1 \in 0 .. Len(q) /\ f.pos + 1 \in 1 .. Len(q) + 1
    BY <1>0, <1>1, <1>3
  <2>2. q \in Slices
    BY DEF q
  <2>3. /\ a \in Slices /\ Elements(a) = {q[i] : i \in 1 .. f.pos - 1}
        /\ b \in Slices /\ Elements(b) = {q[k] : k \in f.pos + 1 .. Len(q)}
    BY <2>1, <2>2, PrefixIs, FromIs
  <2> HIDE DEF a, b
  <2>4. \A i \in 1 .. f.pos - 1, k \in f.pos + 1 .. Len(q) :
            i \in 1 .. Len(q) /\ k \in 1 .. Len(q) /\ i < k
    <3>1. ASSUME NEW n \in Nat, NEW p \in 1 .. n
          PROVE  \A i \in 1 .. p - 1, k \in p + 1 .. n : i \in 1 .. n /\ k \in 1 .. n /\ i < k
      OBVIOUS
    <3> QED
      BY <1>0, <2>1, <3>1
  <2>5. \A i \in 1 .. f.pos - 1, k \in f.pos + 1 .. Len(q) : q[i] < q[k]
    BY <1>0, <2>4 DEF Ascending
  <2>6. \A x \in Elements(a), y \in Elements(b) : x < y
    BY <2>3, <2>5
  <2>7. a \o b \in Slices /\ Elements(a \o b) = Elements(a) \union Elements(b)
    BY <2>3, <2>6, JoinIs
  <2>8. \A i \in 1 .. Len(q) : i # f.pos => q[i] # z
    <3>1. \A i, k \in 1 .. Len(q) : i < k => q[i] < q[k]
      BY <1>0 DEF Ascending
    <3> QED
      BY <1>0, <1>1, <1>3, <2>1, <3>1
  <2>9. Elements(q) \ {z} = Elements(a) \union Elements(b)
    <3>1. \A i \in 1 .. Len(q) : i = f.pos \/ i \in 1 .. f.pos - 1 \/ i \in f.pos + 1 .. Len(q)
      BY <2>1, <1>0
    <3>2. \A i \in 1 .. f.pos - 1 : i \in 1 .. Len(q) /\ i # f.pos
      BY <1>0, <2>1
    <3>3. \A i \in f.pos + 1 .. Len(q) : i \in 1 .. Len(q) /\ i # f.pos
      BY <1>0, <2>1
    <3> QED
      BY <1>0, <1>1, <1>3, <2>3, <2>8, <3>1, <3>2, <3>3 DEF Elements
  <2> QED
    BY <1>2, <1>3, <2>7, <2>9 DEF q
<1>4. CASE ~f.found
  BY <1>1, <1>2, <1>4 DEF q
<1> QED
  BY <1>1, <1>3, <1>4

LEMMA AppendIs ==
  ASSUME NEW q \in Slices, NEW z \in Int, \A x \in Elements(q) : x < z
  PROVE  Append(q, z) \in Slices /\ Elements(Append(q, z)) = Elements(q) \union {z}
<1>1. q \o <<z>> \in Slices /\ Elements(q \o <<z>>) = Elements(q) \union {z}
  BY SingleIs, JoinIs
<1>2. Append(q, z) = q \o <<z>>
  BY DEF Slices
<1> QED
  BY <1>1, <1>2

(* Two loops, at i in s and at j in o: what has been passed in one slice is *)
(* less than what is still to come in the other.                            *)
Apart(s, o, i, j) ==
    /\ \A k \in 1 .. Len(s), h \in 1 .. Len(o) : k < i /\ j <= h => s[k] < o[h]
    /\ \A k \in 1 .. Len(s), h \in 1 .. Len(o) : i <= k /\ h < j => o[h] < s[k]

LEMMA ApartTurns ==
  ASSUME NEW s, NEW o, NEW i, NEW j, Apart(s, o, i, j)
  PROVE  Apart(o, s, j, i)
  BY DEF Apart

LEMMA ApartStarts ==
  ASSUME NEW s \in Slices, NEW o \in Slices
  PROVE  Apart(s, o, 1, 1)
<1>1. Len(s) \in Nat /\ Len(o) \in Nat
  BY SliceIs
<1>2. \A k \in 1 .. Len(s) : ~(k < 1)
  BY <1>1
<1>3. \A h \in 1 .. Len(o) : ~(h < 1)
  BY <1>1
<1> QED
  BY <1>2, <1>3 DEF Apart

LEMMA ApartLess ==
  ASSUME NEW s \in Slices, NEW o \in Slices, NEW i \in 1 .. Len(s), NEW j \in 1 .. Len(o),
         Apart(s, o, i, j), s[i] < o[j]
  PROVE  Apart(s, o, i + 1, j) /\ s[i] \notin Elements(o)
<1>1. /\ Len(s) \in Nat /\ Len(o) \in Nat /\ DOMAIN s = 1 .. Len(s) /\ DOMAIN o = 1 .. Len(o)
      /\ \A k \in 1 .. Len(s) : s[k] \in Int
      /\ \A h \in 1 .. Len(o) : o[h] \in Int
      /\ \A h, g \in 1 .. Len(o) : h < g => o[h] < o[g]
  BY SliceIs DEF Ascending
<1>2. \A h \in 1 .. Len(o) : j <= h => s[i] < o[h]
  <2> SUFFICES ASSUME NEW h \in 1 .. Len(o), j <= h PROVE s[i] < o[h]
    OBVIOUS
  <2>1. h = j \/ o[j] < o[h]
    BY <1>1
  <2>2. s[i] \in Int /\ o[j] \in Int /\ o[h] \in Int
    BY <1>1
  <2> QED
    BY <2>1, <2>2
<1>3. \A h \in 1 .. Len(o) : h < j => o[h] < s[i]
  BY <1>1 DEF Apart
<1>4. s[i] \notin Elements(o)
  <2> SUFFICES ASSUME NEW h \in 1 .. Len(o) PROVE s[i] # o[h]
    BY <1>1 DEF Elements
  <2>1. h < j \/ j <= h
    BY <1>1
  <2>2. s[i] \in Int /\ o[h] \in Int
    BY <1>1
  <2> QED
    BY <1>2, <1>3, <2>1, <2>2
<1>5. \A k \in 1 .. Len(s) : k < i + 1 => k < i \/ k = i
  BY <1>1
<1>6. \A k \in 1 .. Len(s) : i + 1 <= k => i <= k
  BY <1>1
<1> QED
  BY <1>2, <1>4, <1>5, <1>6 DEF Apart

LEMMA ApartSame ==
  ASSUME NEW s \in Slices, NEW o \in Slices, NEW i \in 1 .. Len(s), NEW j \in 1 .. Len(o),
         Apart(s, o, i, j), s[i] = o[j]
  PROVE  Apart(s, o, i + 1, j + 1) /\ s[i] \in Elements(o) /\ o[j] \in Elements(s)
<1>1. /\ Len(s) \in Nat /\ Len(o) \in Nat
      /\ \A k \in 1 .. Len(s) : s[k] \in Elements(s)
      /\ \A h \in 1 .. Len(o) : o[h] \in Elements(o)
      /\ \A k, g \in 1 .. Len(s) : k < g => s[k] < s[g]
      /\ \A h, g \in 1 .. Len(o) : h < g => o[h] < o[g]
  BY SliceIs DEF Ascending
<1>2. \A k \in 1 .. Len(s) : (k < i + 1 => k < i \/ k = i) /\ (i + 1 <= k => i < k /\ i <= k)
  BY <1>1
<1>3. \A h \in 1 .. Len(o) : (h < j + 1 => h < j \/ h = j) /\ (j + 1 <= h => j < h /\ j <= h)
  BY <1>1
<1>4. \A k \in 1 .. Len(s), h \in 1 .. Len(o) : k < i + 1 /\ j + 1 <= h => s[k] < o[h]
  BY <1>1, <1>2, <1>3 DEF Apart
<1>5. \A k \in 1 .. Len(s), h \in 1 .. Len(o) : i + 1 <= k /\ h < j + 1 => o[h] < s[k]
  BY <1>1, <1>2, <1>3 DEF Apart
<1>6. Apart(s, o, i + 1, j + 1)
  BY <1>4, <1>5 DEF Apart
<1> QED
  BY <1>1, <1>6

(* When one loop has ended, what the other one has left is its own.         *)
LEMMA ApartEnds ==
  ASSUME NEW s \in Slices, NEW o \in Slices, NEW i \in 1 .. Len(s) + 1, NEW j \in 1 .. Len(o) + 1,
         Apart(s, o, i, j), i > Len(s) \/ j > Len(o)
  PROVE  \A k \in i .. Len(s) : s[k] \notin Elements(o)
<1> SUFFICES ASSUME NEW k \in i .. Len(s) PROVE s[k] \notin Elements(o)
  OBVIOUS
<1>1. /\ Len(s) \in Nat /\ Len(o) \in Nat /\ DOMAIN o = 1 .. Len(o)
      /\ \A g \in 1 .. Len(s) : s[g] \in Int
      /\ \A h \in 1 .. Len(o) : o[h] \in Int
  BY SliceIs
<1>2. k \in 1 .. Len(s) /\ i <= k /\ j > Len(o)
  BY <1>1
<1>3. \A h \in 1 .. Len(o) : h < j
  BY <1>1, <1>2
<1>4. \A h \in 1 .. Len(o) : o[h] < s[k]
  BY <1>2, <1>3 DEF Apart
<1> QED
  BY <1>1, <1>2, <1>4 DEF Elements

(* The elements before the i-th, and the i-th.                              *)
LEMMA PassedIs ==
  ASSUME NEW q, NEW i \in Nat, 1 <= i
  PROVE  {q[h] : h \in 1 .. (i + 1) - 1} = {q[h] : h \in 1 .. i - 1} \union {q[i]}
<1>1. 1 .. (i + 1) - 1 = (1 .. i - 1) \union {i}
  OBVIOUS
<1> QED
  BY <1>1

LEMMA PassedAll ==
  ASSUME NEW q \in Slices, NEW i \in 1 .. Len(q) + 1
  PROVE  Elements(q) = {q[h] : h \in 1 .. i - 1} \union {q[h] : h \in i .. Len(q)}
<1>1. Len(q) \in Nat /\ DOMAIN q = 1 .. Len(q)
  BY SliceIs
<1>2. 1 .. Len(q) = (1 .. i - 1) \union (i .. Len(q))
  BY <1>1
<1> QED
  BY <1>1, <1>2 DEF Elements

LEMMA PassedLess ==
  ASSUME NEW q \in Slices, NEW i \in 1 .. Len(q)
  PROVE  \A h \in 1 .. i - 1 : q[h] < q[i]
<1>1. Len(q) \in Nat /\ \A h, k \in 1 .. Len(q) : h < k => q[h] < q[k]
  BY SliceIs DEF Ascending
<1>2. \A h \in 1 .. i - 1 : h \in 1 .. Len(q) /\ h < i
  BY <1>1
<1> QED
  BY <1>1, <1>2

(* A loop that moves the elements of s that are in keep to the front of its *)
(* slice, of which it has passed those before the i-th.                     *)
Places == [seq : Seq(Int), t : Int, i : Int, j : Int]
Moving(l, s, keep) ==
    /\ Len(l.seq) = Len(s) /\ 0 <= l.t /\ l.t < l.i /\ l.i <= Len(s) + 1
    /\ \A h \in l.i .. Len(s) : l.seq[h] = s[h]
    /\ \A h, k \in 1 .. l.t : h < k => l.seq[h] < l.seq[k]
    /\ {l.seq[h] : h \in 1 .. l.t} = {s[h] : h \in 1 .. l.i - 1} \intersect keep

LEMMA MovingStarts ==
  ASSUME NEW s \in Slices, NEW keep
  PROVE  Both(s) \in Places /\ Moving(Both(s), s, keep)
<1> DEFINE l == Both(s)
<1>1. s \in Seq(Int) /\ Len(s) \in Nat
  BY SliceIs
<1>2. l \in Places /\ l.seq = s /\ l.t = 0 /\ l.i = 1 /\ l.j = 1
  BY <1>1 DEF Both, Places
<1> HIDE DEF l
<1>3. 1 .. l.t = {} /\ 1 .. l.i - 1 = {}
  BY <1>2
<1> QED
  BY <1>1, <1>2, <1>3 DEF Moving, l

LEMMA DropIs ==
  ASSUME NEW s \in Slices, NEW keep, NEW l \in Places, NEW r \in Places,
         Moving(l, s, keep), l.i <= Len(s), s[l.i] \notin keep,
         r.seq = l.seq, r.t = l.t, r.i = l.i + 1
  PROVE  Moving(r, s, keep)
<1>1. Len(s) \in Nat /\ l.i \in Nat /\ 1 <= l.i /\ l.t \in Nat
  BY SliceIs DEF Moving, Places
<1>2. {s[h] : h \in 1 .. r.i - 1} = {s[h] : h \in 1 .. l.i - 1} \union {s[l.i]}
  BY <1>1, PassedIs
<1>3. {s[h] : h \in 1 .. r.i - 1} \intersect keep = {s[h] : h \in 1 .. l.i - 1} \intersect keep
  BY <1>2
<1>4. \A h \in r.i .. Len(s) : h \in l.i .. Len(s)
  BY <1>1
<1>5. 0 <= r.t /\ r.t < r.i /\ r.i <= Len(s) + 1 /\ Len(r.seq) = Len(s)
  BY <1>1 DEF Moving
<1>6. \A h \in r.i .. Len(s) : r.seq[h] = s[h]
  BY <1>4 DEF Moving
<1>7. {r.seq[h] : h \in 1 .. r.t} = {s[h] : h \in 1 .. r.i - 1} \intersect keep
  BY <1>3 DEF Moving
<1>8. \A h, k \in 1 .. r.t : h < k => r.seq[h] < r.seq[k]
  BY DEF Moving
<1> QED
  BY <1>5, <1>6, <1>7, <1>8 DEF Moving

LEMMA KeepIs ==
  ASSUME NEW s \in Slices, NEW keep, NEW l \in Places, NEW r \in Places,
         Moving(l, s, keep), l.i <= Len(s), s[l.i] \in keep,
         r.seq = [l.seq EXCEPT ![l.t + 1] = s[l.i]], r.t = l.t + 1, r.i = l.i + 1
  PROVE  Moving(r, s, keep)
<1> DEFINE n == Len(s)
<1>1. /\ n \in Nat /\ l.i \in 1 .. n /\ l.t \in Nat /\ l.t < l.i
      /\ l.seq \in Seq(Int) /\ Len(l.seq) = n /\ DOMAIN l.seq = 1 .. n
      /\ s[l.i] \in Int
  BY SliceIs DEF Moving, Places
<1>2. /\ Len(r.seq) = n
      /\ \A h \in 1 .. n : r.seq[h] = IF h = l.t + 1 THEN s[l.i] ELSE l.seq[h]
  <2>1. r.seq \in Seq(Int) /\ DOMAIN r.seq = DOMAIN l.seq
    BY DEF Places
  <2>2. Len(r.seq) = n
    BY <1>1, <2>1
  <2> QED
    BY <1>1, <2>2
<1>3. \A h \in r.i .. n : r.seq[h] = s[h]
  <2> SUFFICES ASSUME NEW h \in r.i .. n PROVE r.seq[h] = s[h]
    OBVIOUS
  <2>1. h \in 1 .. n /\ h \in l.i .. n /\ h # l.t + 1
    BY <1>1
  <2>2. r.seq[h] = l.seq[h]
    BY <1>2, <2>1
  <2>3. l.seq[h] = s[h]
    BY <2>1 DEF Moving
  <2> QED
    BY <2>2, <2>3
<1>4. \A h \in 1 .. l.t : h \in 1 .. n /\ r.seq[h] = l.seq[h]
  <2> SUFFICES ASSUME NEW h \in 1 .. l.t PROVE h \in 1 .. n /\ r.seq[h] = l.seq[h]
    OBVIOUS
  <2>1. h \in 1 .. n /\ h # l.t + 1
    BY <1>1
  <2> QED
    BY <1>2, <2>1
<1>5. l.t + 1 \in 1 .. n /\ r.seq[l.t + 1] = s[l.i]
  <2>1. l.t + 1 \in 1 .. n
    BY <1>1
  <2> QED
    BY <1>2, <2>1
<1>6. 1 .. r.t = (1 .. l.t) \union {l.t + 1}
  BY <1>1
<1>7. {r.seq[h] : h \in 1 .. r.t} = {l.seq[h] : h \in 1 .. l.t} \union {s[l.i]}
  BY <1>4, <1>5, <1>6
<1>8. {s[h] : h \in 1 .. r.i - 1} = {s[h] : h \in 1 .. l.i - 1} \union {s[l.i]}
  BY <1>1, PassedIs
<1>9. {r.seq[h] : h \in 1 .. r.t} = {s[h] : h \in 1 .. r.i - 1} \intersect keep
  BY <1>7, <1>8 DEF Moving
<1>10. \A h \in 1 .. l.t : l.seq[h] < s[l.i]
  <2>1. \A h \in 1 .. l.t : l.seq[h] \in {s[g] : g \in 1 .. l.i - 1}
    BY DEF Moving
  <2>2. \A g \in 1 .. l.i - 1 : s[g] < s[l.i]
    BY <1>1, PassedLess
  <2> QED
    BY <2>1, <2>2
<1>11. \A h, k \in 1 .. r.t : h < k => r.seq[h] < r.seq[k]
  <2> SUFFICES ASSUME NEW h \in 1 .. r.t, NEW k \in 1 .. r.t, h < k PROVE r.seq[h] < r.seq[k]
    OBVIOUS
  <2>1. h \in 1 .. l.t /\ (k \in 1 .. l.t \/ k = l.t + 1)
    <3>1. \A a \in Nat : \A x, y \in 1 .. a + 1 : x < y => x \in 1 .. a /\ (y \in 1 .. a \/ y = a + 1)
      OBVIOUS
    <3>2. l.t \in Nat /\ h \in 1 .. l.t + 1 /\ k \in 1 .. l.t + 1
      BY <1>1
    <3> QED
      BY <3>1, <3>2
  <2>2. CASE k \in 1 .. l.t
    BY <1>4, <2>1, <2>2 DEF Moving
  <2>3. CASE k = l.t + 1
    BY <1>4, <1>5, <1>10, <2>1, <2>3
  <2> QED
    BY <2>1, <2>2, <2>3
<1>12. 0 <= r.t /\ r.t < r.i /\ r.i <= n + 1
  BY <1>1
<1> QED
  BY <1>2, <1>3, <1>9, <1>11, <1>12 DEF Moving

(* What the loop has in front, and what it has not passed.                  *)
LEMMA MovingGives ==
  ASSUME NEW s \in Slices, NEW keep, NEW l \in Places, Moving(l, s, keep)
  PROVE  /\ l.i \in 1 .. Len(s) + 1
         /\ SubSeq(l.seq, 1, l.t) \in Slices
         /\ Elements(SubSeq(l.seq, 1, l.t)) = {s[h] : h \in 1 .. l.i - 1} \intersect keep
         /\ From(l.seq, l.i) = From(s, l.i)
<1>1. /\ l.seq \in Seq(Int) /\ s \in Seq(Int) /\ Len(s) \in Nat /\ Len(l.seq) = Len(s)
      /\ l.i \in 1 .. Len(s) + 1 /\ l.t \in 0 .. Len(l.seq)
  BY SliceIs DEF Moving, Places
<1>2. \A h, k \in 1 .. l.t : h < k => l.seq[h] < l.seq[k]
  BY DEF Moving
<1>3. /\ SubSeq(l.seq, 1, l.t) \in Slices
      /\ Elements(SubSeq(l.seq, 1, l.t)) = {l.seq[h] : h \in 1 .. l.t}
  BY <1>1, <1>2, FrontIs
<1>4. \A h \in l.i .. Len(s) : l.seq[h] = s[h]
  BY DEF Moving
<1>5. From(l.seq, l.i) = From(s, l.i)
  BY <1>1, <1>4, SameFrom
<1>6. {l.seq[h] : h \in 1 .. l.t} = {s[h] : h \in 1 .. l.i - 1} \intersect keep
  BY DEF Moving
<1> QED
  BY <1>1, <1>3, <1>5, <1>6

(* The loops of intersect and substract: what a round does, and what they   *)
(* keep.                                                                    *)
Merges == {"intersect", "substract"}
KeptBy(loop, o) == IF loop = "intersect" THEN Elements(o) ELSE Int \ Elements(o)

LEMMA PutIs ==
  ASSUME NEW q \in Seq(Int), NEW k \in Int, NEW z \in Int
  PROVE  [q EXCEPT ![k] = z] \in Seq(Int)
<1> DEFINE p == [q EXCEPT ![k] = z]
<1>1. Len(q) \in Nat /\ \A h \in 1 .. Len(q) : q[h] \in Int
  OBVIOUS
<1>2. p = [h \in 1 .. Len(q) |-> IF h = k THEN z ELSE q[h]]
  OBVIOUS
<1> HIDE DEF p
<1>3. p \in [1 .. Len(q) -> Int]
  BY <1>1, <1>2
<1> QED
  BY <1>1, <1>3 DEF p

LEMMA MovedIs ==
  ASSUME NEW l \in Places, l.i \in 1 .. Len(l.seq)
  PROVE  LET r == Moved(l) IN
         /\ r \in Places /\ r.t = l.t + 1 /\ r.i = l.i /\ r.j = l.j
         /\ r.seq = [l.seq EXCEPT ![l.t + 1] = l.seq[l.i]]
<1> DEFINE p == [l.seq EXCEPT ![l.t + 1] = l.seq[l.i]]
<1>1. l.seq \in Seq(Int) /\ l.t + 1 \in Int
  BY DEF Places
<1>2. l.seq[l.i] \in Int
  BY <1>1
<1>3. p \in Seq(Int)
  BY <1>1, <1>2, PutIs
<1>4. Moved(l) = [l EXCEPT !.seq = p, !.t = l.t + 1]
  BY DEF Moved
<1> HIDE DEF p
<1>5. LET r == [l EXCEPT !.seq = p, !.t = l.t + 1] IN
      r \in Places /\ r.seq = p /\ r.t = l.t + 1 /\ r.i = l.i /\ r.j = l.j
  BY <1>1, <1>3 DEF Places
<1> QED
  BY <1>4, <1>5 DEF p

LEMMA MergeRound ==
  ASSUME NEW loop \in Merges, NEW o \in Seq(Int), NEW l \in Places,
         l.i \in 1 .. Len(l.seq), l.j \in 1 .. Len(o)
  PROVE  LET r == RoundOf(loop, o, 0, l)
             x == l.seq[l.i]
             y == o[l.j]
             moves == IF loop = "intersect" THEN x = y ELSE x < y
         IN  /\ r \in Places
             /\ r.i = IF y < x THEN l.i ELSE l.i + 1
             /\ r.j = IF x < y THEN l.j ELSE l.j + 1
             /\ r.t = IF moves THEN l.t + 1 ELSE l.t
             /\ r.seq = IF moves THEN [l.seq EXCEPT ![l.t + 1] = x] ELSE l.seq
<1> DEFINE r == RoundOf(loop, o, 0, l)
           x == l.seq[l.i]
           y == o[l.j]
           q == [l.seq EXCEPT ![l.t + 1] = x]
           moves == IF loop = "intersect" THEN x = y ELSE x < y
           t == IF moves THEN l.t + 1 ELSE l.t
           seq == IF moves THEN q ELSE l.seq
           i == IF y < x THEN l.i ELSE l.i + 1
           j == IF x < y THEN l.j ELSE l.j + 1
<1>1. /\ l.seq \in Seq(Int) /\ l.t \in Int /\ l.i \in Int /\ l.j \in Int
      /\ l = [seq |-> l.seq, t |-> l.t, i |-> l.i, j |-> l.j]
  BY DEF Places
<1>2. x \in Int /\ y \in Int /\ q \in Seq(Int) /\ ~Ended(l, o)
  <2>1. x \in Int /\ y \in Int
    BY <1>1
  <2>2. ~Ended(l, o)
    BY <1>1 DEF Ended
  <2> HIDE DEF x, y
  <2>3. q \in Seq(Int)
    <3>1. l.t + 1 \in Int
      BY <1>1
    <3> QED
      BY <1>1, <2>1, <3>1, PutIs
  <2> QED
    BY <2>1, <2>2, <2>3
<1>3. Moved(l) = [seq |-> q, t |-> l.t + 1, i |-> l.i, j |-> l.j]
  <2>1. /\ Moved(l) \in Places /\ Moved(l).seq = q
        /\ Moved(l).t = l.t + 1 /\ Moved(l).i = l.i /\ Moved(l).j = l.j
    BY MovedIs
  <2> HIDE DEF q
  <2> QED
    BY <2>1 DEF Places
<1> HIDE DEF q
<1>4. r = [seq |-> seq, t |-> t, i |-> i, j |-> j]
  <2>1. CASE loop = "intersect"
    <3>1. r = IntersectRound(o, l)
      BY <2>1 DEF RoundOf
    <3>2. r = IF x < y THEN [l EXCEPT !.i = @ + 1]
              ELSE IF x > y THEN [l EXCEPT !.j = @ + 1]
              ELSE [Moved(l) EXCEPT !.i = @ + 1, !.j = @ + 1]
      BY <1>2, <3>1 DEF IntersectRound
    <3> HIDE DEF r, x, y
    <3>3. CASE x < y
      <4>1. r = [seq |-> l.seq, t |-> l.t, i |-> l.i + 1, j |-> l.j]
        BY <1>1, <3>2, <3>3
      <4>2. ~moves /\ ~(y < x)
        BY <1>2, <2>1, <3>3
      <4> QED
        BY <3>3, <4>1, <4>2
    <3>4. CASE y < x
      <4>1. r = [seq |-> l.seq, t |-> l.t, i |-> l.i, j |-> l.j + 1]
        <5>1. ~(x < y) /\ x > y
          BY <1>2, <3>4
        <5>2. r = [l EXCEPT !.j = @ + 1]
          BY <3>2, <5>1
        <5> QED
          BY <1>1, <5>2
      <4>2. ~moves /\ ~(x < y)
        BY <1>2, <2>1, <3>4
      <4> QED
        BY <3>4, <4>1, <4>2
    <3>5. CASE x = y
      <4>1. r = [seq |-> q, t |-> l.t + 1, i |-> l.i + 1, j |-> l.j + 1]
        <5>1. ~(x < y) /\ ~(x > y)
          BY <1>2, <3>5
        <5>2. r = [Moved(l) EXCEPT !.i = @ + 1, !.j = @ + 1]
          BY <3>2, <5>1
        <5> QED
          <6>1. Moved(l) \in Places
            BY MovedIs
          <6>2. Moved(l).seq = q /\ Moved(l).t = l.t + 1 /\ Moved(l).i = l.i /\ Moved(l).j = l.j
            BY <1>3
          <6> DEFINE p == Moved(l)
                     e == [p EXCEPT !.i = @ + 1, !.j = @ + 1]
          <6> HIDE DEF p
          <6>3. e \in Places /\ e.seq = p.seq /\ e.t = p.t /\ e.i = p.i + 1 /\ e.j = p.j + 1
            <7>1. p \in Places
              BY <6>1 DEF p
            <7>2. p \in [seq : Seq(Int), t : Int, i : Int, j : Int]
              BY <7>1 DEF Places
            <7> HIDE <6>1, <7>1
            <7>3. p.i + 1 \in Int /\ p.j + 1 \in Int
              BY <7>2
            <7>4. e = [p EXCEPT !.i = p.i + 1, !.j = p.j + 1]
              BY <7>2
            <7>5. e \in [seq : Seq(Int), t : Int, i : Int, j : Int]
              BY <7>2, <7>3
            <7>6. e.seq = p.seq /\ e.t = p.t /\ e.i = p.i + 1 /\ e.j = p.j + 1
              BY <7>2
            <7> QED
              BY <7>5, <7>6 DEF Places
          <6> HIDE DEF e
          <6>4. r = e
            BY <5>2 DEF p, e
          <6>5. e = [seq |-> q, t |-> l.t + 1, i |-> l.i + 1, j |-> l.j + 1]
            BY <6>2, <6>3 DEF Places, p
          <6> QED
            BY <6>4, <6>5
      <4>2. moves /\ ~(x < y) /\ ~(y < x)
        BY <1>2, <2>1, <3>5
      <4> QED
        BY <4>1, <4>2
    <3> QED
      BY <1>2, <3>3, <3>4, <3>5
  <2>2. CASE loop = "substract"
    <3>1. r = SubstractRound(o, l)
      BY <2>2 DEF RoundOf
    <3>2. r = IF x < y THEN [Moved(l) EXCEPT !.i = @ + 1]
              ELSE IF x > y THEN [l EXCEPT !.j = @ + 1]
              ELSE [l EXCEPT !.i = @ + 1, !.j = @ + 1]
      BY <1>2, <3>1 DEF SubstractRound
    <3> HIDE DEF r, x, y
    <3>3. CASE x < y
      <4>1. r = [seq |-> q, t |-> l.t + 1, i |-> l.i + 1, j |-> l.j]
        BY <1>3, <3>2, <3>3
      <4>2. moves /\ ~(y < x)
        BY <1>2, <2>2, <3>3
      <4> QED
        BY <3>3, <4>1, <4>2
    <3>4. CASE y < x
      <4>1. r = [seq |-> l.seq, t |-> l.t, i |-> l.i, j |-> l.j + 1]
        <5>1. ~(x < y) /\ x > y
          BY <1>2, <3>4
        <5>2. r = [l EXCEPT !.j = @ + 1]
          BY <3>2, <5>1
        <5> QED
          BY <1>1, <5>2
      <4>2. ~moves /\ ~(x < y)
        BY <1>2, <2>2, <3>4
      <4> QED
        BY <3>4, <4>1, <4>2
    <3>5. CASE x = y
      <4>1. r = [seq |-> l.seq, t |-> l.t, i |-> l.i + 1, j |-> l.j + 1]
        <5>1. ~(x < y) /\ ~(x > y)
          BY <1>2, <3>5
        <5>2. r = [l EXCEPT !.i = @ + 1, !.j = @ + 1]
          BY <3>2, <5>1
        <5> QED
          BY <1>1, <5>2
      <4>2. ~moves /\ ~(x < y) /\ ~(y < x)
        BY <1>2, <2>2, <3>5
      <4> QED
        BY <4>1, <4>2
    <3> QED
      BY <1>2, <3>3, <3>4, <3>5
  <2> QED
    BY <2>1, <2>2 DEF Merges
<1>5. seq \in Seq(Int) /\ t \in Int /\ i \in Int /\ j \in Int
  BY <1>1, <1>2
<1> HIDE DEF r, seq, t, i, j
<1>6. r \in Places
  BY <1>4, <1>5 DEF Places
<1>7. r.seq = seq /\ r.t = t /\ r.i = i /\ r.j = j
  BY <1>4
<1> QED
  BY <1>6, <1>7 DEF r, seq, t, i, j, q

LEMMA MergeKeeps ==
  ASSUME NEW s \in Slices, NEW o \in Slices, NEW loop \in Merges
  PROVE  LET end == EndOf(loop, o, 0, Len(s) + Len(o), Both(s))
         IN  /\ end \in Places /\ Moving(end, s, KeptBy(loop, o))
             /\ \A k \in end.i .. Len(s) : s[k] \notin Elements(o)
<1> DEFINE n == Len(s)
           m == Len(o)
           keep == KeptBy(loop, o)
           start == Both(s)
           end == EndOf(loop, o, 0, n + m, start)
           Good(k, l) ==
                /\ l \in Places /\ Moving(l, s, keep)
                /\ l.j \in 1 .. m + 1 /\ Apart(s, o, l.i, l.j)
                /\ l.i > n \/ l.j > m \/ l.i + l.j >= k + 2
           Rounds == [k \in Nat |-> {l \in Places : Good(k, l)}]
<1>1. /\ n \in Nat /\ m \in Nat /\ n + m \in Nat /\ o \in Seq(Int)
      /\ \A i \in 1 .. n : s[i] \in Int
      /\ \A j \in 1 .. m : o[j] \in Int
  BY SliceIs
<1>2. start \in Rounds[0]
  <2>1. start \in Places /\ Moving(start, s, keep)
    BY MovingStarts
  <2>2. start.i = 1 /\ start.j = 1
    BY DEF Both
  <2>3. Apart(s, o, 1, 1)
    BY ApartStarts
  <2> HIDE DEF start, keep, n, m
  <2>4. Good(0, start)
    BY <1>1, <2>1, <2>2, <2>3
  <2> HIDE DEF Good
  <2> QED
    BY <2>1, <2>4
<1>3. ASSUME NEW k \in 1 .. n + m, NEW l \in Rounds[k - 1]
      PROVE  RoundOf(loop, o, 0, l) \in Rounds[k]
  <2> DEFINE r == RoundOf(loop, o, 0, l)
  <2>1. l \in Places /\ Good(k - 1, l) /\ k \in Nat
    BY <1>1
  <2>2. /\ Moving(l, s, keep) /\ l.j \in 1 .. m + 1 /\ Apart(s, o, l.i, l.j)
        /\ l.i > n \/ l.j > m \/ l.i + l.j >= k + 1
    BY <2>1
  <2>3. /\ l.seq \in Seq(Int) /\ l.i \in 1 .. n + 1 /\ Len(l.seq) = n
        /\ \A h \in l.i .. n : l.seq[h] = s[h]
    <3>1. l.seq \in Seq(Int) /\ l.i \in Int /\ l.t \in Int
      BY <2>1 DEF Places
    <3>2. /\ Len(l.seq) = n /\ 0 <= l.t /\ l.t < l.i /\ l.i <= n + 1
          /\ \A h \in l.i .. n : l.seq[h] = s[h]
      BY <2>2 DEF Moving
    <3>3. l.i \in 1 .. n + 1
      BY <1>1, <3>1, <3>2
    <3> QED
      BY <3>1, <3>2, <3>3
  <2> HIDE DEF Rounds, Good
  <2>4. Good(k, r)
    <3>1. CASE l.i > n \/ l.j > m
      <4>1. Ended(l, o)
        BY <2>3, <3>1 DEF Ended
      <4>2. r = l
        BY <4>1 DEF RoundOf, IntersectRound, SubstractRound, Merges
      <4> HIDE DEF r, keep, n, m
      <4> QED
        BY <2>1, <2>2, <3>1, <4>2 DEF Good
    <3>2. CASE ~(l.i > n \/ l.j > m)
      <4> DEFINE x == s[l.i]
                 y == o[l.j]
                 moves == IF loop = "intersect" THEN x = y ELSE x < y
      <4>1. /\ l.i \in 1 .. n /\ l.j \in 1 .. m /\ l.i + l.j >= k + 1
            /\ x \in Int /\ y \in Int /\ l.seq[l.i] = x
        <5>1. l.i \in 1 .. n /\ l.j \in 1 .. m /\ l.i + l.j >= k + 1
          BY <1>1, <2>2, <2>3, <3>2
        <5>2. l.i \in l.i .. n
          BY <1>1, <5>1
        <5> QED
          BY <1>1, <2>3, <5>1, <5>2
      <4>2. /\ r \in Places
            /\ r.i = IF y < x THEN l.i ELSE l.i + 1
            /\ r.j = IF x < y THEN l.j ELSE l.j + 1
            /\ r.t = IF moves THEN l.t + 1 ELSE l.t
            /\ r.seq = IF moves THEN [l.seq EXCEPT ![l.t + 1] = x] ELSE l.seq
        <5>1. l.i \in 1 .. Len(l.seq) /\ l.j \in 1 .. Len(o)
          BY <2>3, <4>1
        <5> HIDE DEF Good
        <5>2. l \in Places
          BY <2>1
        <5>3. l.seq[l.i] = s[l.i]
          BY <4>1
        <5>4. o \in Seq(Int)
          BY <1>1
        <5> DEFINE u == l.seq[l.i]
                   w == IF loop = "intersect" THEN u = y ELSE u < y
        <5>5. /\ r \in Places
              /\ r.i = IF y < u THEN l.i ELSE l.i + 1
              /\ r.j = IF u < y THEN l.j ELSE l.j + 1
              /\ r.t = IF w THEN l.t + 1 ELSE l.t
              /\ r.seq = IF w THEN [l.seq EXCEPT ![l.t + 1] = u] ELSE l.seq
          <6> HIDE DEF n, m, keep, start, end
          <6> QED
            BY <5>1, <5>2, <5>4, MergeRound
        <5> QED
          BY <5>3, <5>5
      <4>3. x < y => Apart(s, o, l.i + 1, l.j) /\ x \notin Elements(o)
        BY <2>2, <4>1, ApartLess
      <4>4. x = y => Apart(s, o, l.i + 1, l.j + 1) /\ x \in Elements(o)
        BY <2>2, <4>1, ApartSame
      <4>5. y < x => Apart(s, o, l.i, l.j + 1)
        BY <2>2, <4>1, ApartLess, ApartTurns
      <4> HIDE DEF r, x, y, n, m
      <4>6. Apart(s, o, r.i, r.j)
        BY <4>1, <4>2, <4>3, <4>4, <4>5
      <4>7. r.j \in 1 .. m + 1 /\ r.i + r.j >= k + 2
        <5>1. r.i \in Int /\ r.j \in Int /\ r.j <= l.j + 1 /\ l.j <= r.j /\ r.i + r.j >= l.i + l.j + 1
          BY <4>1, <4>2
        <5> QED
          <6>1. \A a \in Nat : \A c \in 1 .. a, d \in Int : c <= d /\ d <= c + 1 => d \in 1 .. a + 1
            OBVIOUS
          <6>2. r.j \in 1 .. m + 1
            BY <1>1, <4>1, <5>1, <6>1
          <6>3. l.i \in Int /\ l.j \in Int /\ k \in Int
            BY <4>1
          <6>4. r.i + r.j >= k + 2
            BY <4>1, <5>1, <6>3
          <6> QED
            BY <6>2, <6>4
      <4>8. ~(y < x) => (x \in keep <=> moves)
        BY <4>1, <4>3, <4>4 DEF KeptBy
      <4>9. y < x => ~moves
        BY <4>1
      <4> HIDE DEF moves, keep
      <4>10. CASE y < x
        <5>1. r.seq = l.seq /\ r.t = l.t /\ r.i = l.i
          BY <4>2, <4>9, <4>10
        <5>2. Moving(r, s, keep)
          BY <2>2, <5>1 DEF Moving
        <5> QED
          BY <4>2, <4>6, <4>7, <5>2 DEF Good
      <4>11. CASE ~(y < x) /\ moves
        <5>1. /\ r.seq = [l.seq EXCEPT ![l.t + 1] = s[l.i]] /\ r.t = l.t + 1 /\ r.i = l.i + 1
              /\ s[l.i] \in keep /\ l.i <= Len(s)
          BY <4>1, <4>2, <4>8, <4>11 DEF x, n
        <5>2. Moving(r, s, keep)
          BY <2>1, <2>2, <4>2, <5>1, KeepIs
        <5> QED
          BY <4>2, <4>6, <4>7, <5>2 DEF Good
      <4>12. CASE ~(y < x) /\ ~moves
        <5>1. /\ r.seq = l.seq /\ r.t = l.t /\ r.i = l.i + 1
              /\ s[l.i] \notin keep /\ l.i <= Len(s)
          BY <4>1, <4>2, <4>8, <4>12 DEF x, n
        <5>2. Moving(r, s, keep)
          BY <2>1, <2>2, <4>2, <5>1, DropIs
        <5> QED
          BY <4>2, <4>6, <4>7, <5>2 DEF Good
      <4> QED
        BY <4>10, <4>11, <4>12
    <3> QED
      BY <3>1, <3>2
  <2>5. r \in Places
    BY <2>4 DEF Good
  <2> HIDE DEF r
  <2>6. r \in Rounds[k]
    BY <2>1, <2>4, <2>5 DEF Rounds
  <2> QED
    BY <2>6 DEF r
<1> HIDE DEF Rounds, start
<1>4. end \in Rounds[n + m]
  BY <1>1, <1>2, <1>3, LoopKeeps
<1> HIDE DEF end
<1>5. end \in Places /\ Good(n + m, end)
  BY <1>1, <1>4 DEF Rounds
<1> HIDE DEF keep
<1>6. end.i \in 1 .. n + 1 /\ end.j \in 1 .. m + 1 /\ (end.i > n \/ end.j > m)
  <2>1. end.i \in 1 .. n + 1
    BY <1>1, <1>5, MovingGives
  <2> QED
    BY <1>1, <1>5, <2>1
<1>7. \A k \in end.i .. Len(s) : s[k] \notin Elements(o)
  BY <1>5, <1>6, ApartEnds
<1> QED
  BY <1>5, <1>7 DEF end, start, keep

(* intersect has the elements of both slices.                               *)
LEMMA IntersectIs ==
  ASSUME NEW s \in Slices, NEW o \in Slices
  PROVE  /\ intersect(s, o) \in Slices
         /\ Elements(intersect(s, o)) = Elements(s) \intersect Elements(o)
<1> DEFINE end == EndOf("intersect", o, 0, Len(s) + Len(o), Both(s))
<1>1. /\ end \in Places /\ Moving(end, s, Elements(o))
      /\ \A k \in end.i .. Len(s) : s[k] \notin Elements(o)
  BY MergeKeeps DEF Merges, KeptBy
<1>2. intersect(s, o) = SubSeq(end.seq, 1, end.t)
  BY IntersectEnds
<1> HIDE DEF end
<1>3. /\ end.i \in 1 .. Len(s) + 1
      /\ SubSeq(end.seq, 1, end.t) \in Slices
      /\ Elements(SubSeq(end.seq, 1, end.t)) = {s[h] : h \in 1 .. end.i - 1} \intersect Elements(o)
  BY <1>1, MovingGives
<1>4. Elements(s) = {s[h] : h \in 1 .. end.i - 1} \union {s[h] : h \in end.i .. Len(s)}
  BY <1>3, PassedAll
<1> QED
  BY <1>1, <1>2, <1>3, <1>4

(* substract has the elements of the first slice that are not in the other. *)
LEMMA SubstractIs ==
  ASSUME NEW s \in Slices, NEW o \in Slices
  PROVE  /\ substract(s, o) \in Slices
         /\ Elements(substract(s, o)) = Elements(s) \ Elements(o)
<1> DEFINE end == EndOf("substract", o, 0, Len(s) + Len(o), Both(s))
           keep == Int \ Elements(o)
           a == SubSeq(end.seq, 1, end.t)
           b == From(s, end.i)
<1>1. /\ end \in Places /\ Moving(end, s, keep)
      /\ \A k \in end.i .. Len(s) : s[k] \notin Elements(o)
  BY MergeKeeps DEF Merges, KeptBy
<1>2. substract(s, o) = SubSeq(end.seq, 1, end.t) \o From(end.seq, end.i)
  BY SubstractEnds
<1> HIDE DEF end, keep
<1>3. /\ end.i \in 1 .. Len(s) + 1 /\ a \in Slices
      /\ Elements(a) = {s[h] : h \in 1 .. end.i - 1} \intersect keep
      /\ From(end.seq, end.i) = From(s, end.i)
  BY <1>1, MovingGives
<1>4. b \in Slices /\ Elements(b) = {s[h] : h \in end.i .. Len(s)}
  BY <1>3, FromIs
<1>5. Elements(s) = {s[h] : h \in 1 .. end.i - 1} \union {s[h] : h \in end.i .. Len(s)}
  BY <1>3, PassedAll
<1>6. Elements(s) \subseteq Int
  BY SliceIs DEF Elements
<1>7. \A h \in 1 .. end.i - 1, k \in end.i .. Len(s) : s[h] < s[k]
  <2>1. \A h, k \in 1 .. Len(s) : h < k => s[h] < s[k]
    BY SliceIs DEF Ascending
  <2>2. \A h \in 1 .. end.i - 1, k \in end.i .. Len(s) :
            h \in 1 .. Len(s) /\ k \in 1 .. Len(s) /\ h < k
    <3>1. Len(s) \in Nat
      BY SliceIs
    <3>2. ASSUME NEW n \in Nat, NEW i \in 1 .. n + 1
          PROVE  \A h \in 1 .. i - 1, k \in i .. n : h \in 1 .. n /\ k \in 1 .. n /\ h < k
      OBVIOUS
    <3> QED
      BY <1>3, <3>1, <3>2
  <2> QED
    BY <2>1, <2>2
<1>8. substract(s, o) = a \o b
  BY <1>2, <1>3
<1> HIDE DEF a, b
<1>9. \A x \in Elements(a), y \in Elements(b) : x < y
  BY <1>3, <1>4, <1>7
<1>10. a \o b \in Slices /\ Elements(a \o b) = Elements(a) \union Elements(b)
  BY <1>3, <1>4, <1>9, JoinIs
<1>11. Elements(b) \subseteq keep
  BY <1>1, <1>4, <1>5, <1>6 DEF keep
<1> QED
  BY <1>3, <1>4, <1>5, <1>6, <1>8, <1>10, <1>11 DEF keep

Passed(q, i) == {q[h] : h \in 1 .. i - 1}
Lacks(d, q, i, other) == Elements(d) = Passed(q, i) \ other
Without(q, i, other) == \A h \in i .. Len(q) : q[h] \notin other
IsRest(d, q, other) == d \in Slices /\ Elements(d) = Elements(q) \ other

(* A difference that grows: d has the first elements of q that are not in   *)
(* other, and takes the next one or leaves it out.                          *)
LEMMA LacksIs ==
  ASSUME NEW q \in Slices, NEW other, NEW d \in Slices, NEW j \in 1 .. Len(q),
         Lacks(d, q, j, other)
  PROVE  /\ q[j] \in other => Lacks(d, q, j + 1, other)
         /\ q[j] \notin other => /\ Append(d, q[j]) \in Slices
                                 /\ Lacks(Append(d, q[j]), q, j + 1, other)
<1>1. q[j] \in Int /\ j \in Nat /\ 1 <= j
  BY SliceIs
<1>2. Passed(q, j + 1) = Passed(q, j) \union {q[j]}
  BY <1>1, PassedIs DEF Passed
<1>3. \A h \in 1 .. j - 1 : q[h] < q[j]
  BY PassedLess
<1>4. \A x \in Elements(d) : x < q[j]
  BY <1>3 DEF Passed, Lacks
<1>5. Append(d, q[j]) \in Slices /\ Elements(Append(d, q[j])) = Elements(d) \union {q[j]}
  BY <1>1, <1>4, AppendIs
<1> QED
  BY <1>2, <1>5 DEF Lacks

(* ... and at the end all that are left.                                    *)
LEMMA LacksAll ==
  ASSUME NEW q \in Slices, NEW other, NEW d \in Slices, NEW j \in 1 .. Len(q) + 1,
         Lacks(d, q, j, other), Without(q, j, other)
  PROVE  IsRest(d \o From(q, j), q, other)
<1> DEFINE b == From(q, j)
<1>1. Len(q) \in Nat /\ \A h, k \in 1 .. Len(q) : h < k => q[h] < q[k]
  BY SliceIs DEF Ascending
<1>2. b \in Slices /\ Elements(b) = {q[h] : h \in j .. Len(q)}
  BY FromIs
<1>3. Elements(q) = Passed(q, j) \union {q[h] : h \in j .. Len(q)}
  BY PassedAll DEF Passed
<1>4. \A h \in 1 .. j - 1, k \in j .. Len(q) : q[h] < q[k]
  <2>1. ASSUME NEW n \in Nat, NEW i \in 1 .. n + 1
        PROVE  \A h \in 1 .. i - 1, k \in i .. n : h \in 1 .. n /\ k \in 1 .. n /\ h < k
    OBVIOUS
  <2> QED
    BY <1>1, <2>1
<1> HIDE DEF b
<1>5. \A x \in Elements(d), y \in Elements(b) : x < y
  BY <1>2, <1>4 DEF Passed, Lacks
<1>6. d \o b \in Slices /\ Elements(d \o b) = Elements(d) \union Elements(b)
  BY <1>2, <1>5, JoinIs
<1> QED
  BY <1>2, <1>3, <1>6 DEF b, Lacks, Without, IsRest

(* Diff has what the other slice has more, and what it has less.            *)
Gaps == [new : Slices, rem : Slices, i : Int, j : Int]

LEMMA GapRound ==
  ASSUME NEW s \in Slices, NEW o \in Slices, NEW l \in Gaps, l.i \in 1 .. Len(s), l.j \in 1 .. Len(o),
         o[l.j] < s[l.i] => Append(l.new, o[l.j]) \in Slices,
         s[l.i] < o[l.j] => Append(l.rem, s[l.i]) \in Slices
  PROVE  LET r == RoundOf("diff", s, o, l)
             x == s[l.i]
             y == o[l.j]
         IN  /\ r \in Gaps
             /\ r.i = IF y < x THEN l.i ELSE l.i + 1
             /\ r.j = IF x < y THEN l.j ELSE l.j + 1
             /\ r.new = IF y < x THEN Append(l.new, y) ELSE l.new
             /\ r.rem = IF x < y THEN Append(l.rem, x) ELSE l.rem
<1> DEFINE r == RoundOf("diff", s, o, l)
           x == s[l.i]
           y == o[l.j]
<1>1. /\ l \in [new : Slices, rem : Slices, i : Int, j : Int]
      /\ l.i + 1 \in Int /\ l.j + 1 \in Int /\ x \in Int /\ y \in Int
      /\ Len(s) \in Nat /\ Len(o) \in Nat
  BY SliceIs DEF Gaps
<1>2. r = IF y < x THEN [l EXCEPT !.new = Append(@, y), !.j = @ + 1]
          ELSE IF y > x THEN [l EXCEPT !.rem = Append(@, x), !.i = @ + 1]
          ELSE [l EXCEPT !.i = @ + 1, !.j = @ + 1]
  <2>1. ~(l.i > Len(s) \/ l.j > Len(o))
    BY <1>1
  <2>2. r = DiffRound(s, o, l)
    BY DEF RoundOf
  <2> QED
    BY <2>1, <2>2 DEF DiffRound
<1> HIDE DEF r
<1>3. CASE y < x
  <2> DEFINE a == Append(l.new, y)
  <2>1. r = [l EXCEPT !.new = a, !.j = l.j + 1]
    BY <1>1, <1>2, <1>3
  <2>2. a \in Slices
    BY <1>3
  <2>3. ~(x < y)
    BY <1>1, <1>3
  <2> HIDE DEF a, x, y
  <2>4. r \in [new : Slices, rem : Slices, i : Int, j : Int]
    BY <1>1, <2>1, <2>2
  <2>5. r.i = l.i /\ r.j = l.j + 1 /\ r.new = a /\ r.rem = l.rem
    BY <1>1, <2>1
  <2> QED
    BY <1>3, <2>3, <2>4, <2>5 DEF Gaps, r, a, x, y
<1>4. CASE x < y
  <2> DEFINE a == Append(l.rem, x)
  <2>1. ~(y < x) /\ y > x
    BY <1>1, <1>4
  <2>2. r = [l EXCEPT !.rem = a, !.i = l.i + 1]
    BY <1>1, <1>2, <2>1
  <2>3. a \in Slices
    BY <1>4
  <2> HIDE DEF a, x, y
  <2>4. r \in [new : Slices, rem : Slices, i : Int, j : Int]
    BY <1>1, <2>2, <2>3
  <2>5. r.i = l.i + 1 /\ r.j = l.j /\ r.new = l.new /\ r.rem = a
    BY <1>1, <2>2
  <2> QED
    BY <1>4, <2>1, <2>4, <2>5 DEF Gaps, r, a, x, y
<1>5. CASE ~(y < x) /\ ~(x < y)
  <2>1. ~(y > x)
    BY <1>1, <1>5
  <2>2. r = [l EXCEPT !.i = l.i + 1, !.j = l.j + 1]
    BY <1>1, <1>2, <1>5, <2>1
  <2> HIDE DEF x, y
  <2>3. r \in [new : Slices, rem : Slices, i : Int, j : Int]
    BY <1>1, <2>2
  <2>4. r.i = l.i + 1 /\ r.j = l.j + 1 /\ r.new = l.new /\ r.rem = l.rem
    BY <1>1, <2>2
  <2> QED
    BY <1>5, <2>3, <2>4 DEF Gaps, r, x, y
<1> QED
  BY <1>3, <1>4, <1>5 DEF r, x, y

LEMMA GapsKeep ==
  ASSUME NEW s \in Slices, NEW o \in Slices
  PROVE  LET end == EndOf("diff", s, o, Len(s) + Len(o), [new |-> <<>>, rem |-> <<>>, i |-> 1, j |-> 1])
         IN  /\ end.new \o From(o, end.j) \in Slices
             /\ Elements(end.new \o From(o, end.j)) = Elements(o) \ Elements(s)
             /\ end.rem \o From(s, end.i) \in Slices
             /\ Elements(end.rem \o From(s, end.i)) = Elements(s) \ Elements(o)
<1> DEFINE n == Len(s)
           m == Len(o)
           start == [new |-> <<>>, rem |-> <<>>, i |-> 1, j |-> 1]
           end == EndOf("diff", s, o, n + m, start)
           Good(k, l) ==
                /\ l.i \in 1 .. n + 1 /\ l.j \in 1 .. m + 1 /\ Apart(s, o, l.i, l.j)
                /\ Lacks(l.new, o, l.j, Elements(s))
                /\ Lacks(l.rem, s, l.i, Elements(o))
                /\ l.i > n \/ l.j > m \/ l.i + l.j >= k + 2
           Rounds == [k \in Nat |-> {l \in Gaps : Good(k, l)}]
<1>1. n \in Nat /\ m \in Nat /\ n + m \in Nat
  BY SliceIs
<1>2. start \in Rounds[0]
  <2>1. start \in Gaps
    BY EmptyIs DEF Gaps
  <2>2. start.i = 1 /\ start.j = 1 /\ start.new = <<>> /\ start.rem = <<>>
    OBVIOUS
  <2>3. Apart(s, o, 1, 1)
    BY ApartStarts
  <2>4. 1 .. 1 - 1 = {}
    OBVIOUS
  <2> HIDE DEF start, n, m
  <2>5. Good(0, start)
    BY <1>1, <2>2, <2>3, <2>4, EmptyIs DEF Passed, Lacks
  <2> HIDE DEF Good
  <2> QED
    BY <2>1, <2>5
<1>3. ASSUME NEW k \in 1 .. n + m, NEW l \in Rounds[k - 1]
      PROVE  RoundOf("diff", s, o, l) \in Rounds[k]
  <2> DEFINE r == RoundOf("diff", s, o, l)
             x == s[l.i]
             y == o[l.j]
  <2>1. l \in Gaps /\ Good(k - 1, l) /\ k \in Nat
    BY <1>1
  <2>2. /\ l.i \in 1 .. n + 1 /\ l.j \in 1 .. m + 1 /\ Apart(s, o, l.i, l.j)
        /\ Lacks(l.new, o, l.j, Elements(s))
        /\ Lacks(l.rem, s, l.i, Elements(o))
        /\ l.i > n \/ l.j > m \/ l.i + l.j >= k + 1
    BY <2>1
  <2> HIDE DEF Rounds, Good
  <2>3. r \in Gaps /\ Good(k, r)
    <3>1. CASE l.i > n \/ l.j > m
      <4>1. r = l
        BY <3>1 DEF RoundOf, DiffRound
      <4> HIDE DEF r, n, m
      <4> QED
        BY <2>1, <2>2, <3>1, <4>1 DEF Good
    <3>2. CASE ~(l.i > n \/ l.j > m)
      <4>1. l.i \in 1 .. n /\ l.j \in 1 .. m /\ l.i + l.j >= k + 1
        BY <1>1, <2>2, <3>2
      <4>2. x \in Int /\ y \in Int /\ l.new \in Slices /\ l.rem \in Slices
        BY <2>1, <4>1, SliceIs DEF Gaps
      <4>3. x < y => Apart(s, o, l.i + 1, l.j) /\ x \notin Elements(o)
        BY <2>2, <4>1, ApartLess
      <4>4. x = y => Apart(s, o, l.i + 1, l.j + 1) /\ x \in Elements(o) /\ y \in Elements(s)
        BY <2>2, <4>1, ApartSame
      <4>5. y < x => Apart(s, o, l.i, l.j + 1) /\ y \notin Elements(s)
        BY <2>2, <4>1, ApartLess, ApartTurns
      <4>6. /\ x \in Elements(o) => Lacks(l.rem, s, l.i + 1, Elements(o))
            /\ x \notin Elements(o) =>
                   /\ Append(l.rem, x) \in Slices
                   /\ Lacks(Append(l.rem, x), s, l.i + 1, Elements(o))
        <5>1. Lacks(l.rem, s, l.i, Elements(o)) /\ l.rem \in Slices /\ l.i \in 1 .. Len(s)
          BY <2>2, <4>1, <4>2
        <5> QED
          BY <5>1, LacksIs
      <4>7. /\ y \in Elements(s) => Lacks(l.new, o, l.j + 1, Elements(s))
            /\ y \notin Elements(s) =>
                   /\ Append(l.new, y) \in Slices
                   /\ Lacks(Append(l.new, y), o, l.j + 1, Elements(s))
        <5>1. Lacks(l.new, o, l.j, Elements(s)) /\ l.new \in Slices /\ l.j \in 1 .. Len(o)
          BY <2>2, <4>1, <4>2
        <5> QED
          BY <5>1, LacksIs
      <4>8. /\ r \in Gaps
            /\ r.i = IF y < x THEN l.i ELSE l.i + 1
            /\ r.j = IF x < y THEN l.j ELSE l.j + 1
            /\ r.new = IF y < x THEN Append(l.new, y) ELSE l.new
            /\ r.rem = IF x < y THEN Append(l.rem, x) ELSE l.rem
        BY <2>1, <4>1, <4>3, <4>5, <4>6, <4>7, GapRound
      <4> HIDE DEF r, x, y, n, m
      <4>9. r.i \in 1 .. n + 1 /\ r.j \in 1 .. m + 1 /\ r.i + r.j >= k + 2
        <5>1. /\ r.i \in Int /\ r.j \in Int /\ r.i + r.j >= l.i + l.j + 1
              /\ l.i <= r.i /\ r.i <= l.i + 1 /\ l.j <= r.j /\ r.j <= l.j + 1
          BY <4>1, <4>2, <4>8
        <5> QED
          BY <1>1, <2>1, <4>1, <5>1
      <4>10. Apart(s, o, r.i, r.j)
        BY <4>2, <4>3, <4>4, <4>5, <4>8
      <4>11. Lacks(r.new, o, r.j, Elements(s))
        <5>1. CASE y < x
          <6>1. r.new = Append(l.new, y) /\ r.j = l.j + 1
            BY <4>2, <4>8, <5>1
          <6> QED
            BY <4>5, <4>7, <5>1, <6>1
        <5>2. CASE x < y
          <6>1. r.new = l.new /\ r.j = l.j
            BY <4>2, <4>8, <5>2
          <6> QED
            BY <2>2, <6>1
        <5>3. CASE x = y
          <6>1. r.new = l.new /\ r.j = l.j + 1
            BY <4>2, <4>8, <5>3
          <6> QED
            BY <4>4, <4>7, <5>3, <6>1
        <5> QED
          BY <4>2, <5>1, <5>2, <5>3
      <4>12. Lacks(r.rem, s, r.i, Elements(o))
        <5>1. CASE x < y
          <6>1. r.rem = Append(l.rem, x) /\ r.i = l.i + 1
            BY <4>2, <4>8, <5>1
          <6> QED
            BY <4>3, <4>6, <5>1, <6>1
        <5>2. CASE y < x
          <6>1. r.rem = l.rem /\ r.i = l.i
            BY <4>2, <4>8, <5>2
          <6> QED
            BY <2>2, <6>1
        <5>3. CASE x = y
          <6>1. r.rem = l.rem /\ r.i = l.i + 1
            BY <4>2, <4>8, <5>3
          <6> QED
            BY <4>4, <4>6, <5>3, <6>1
        <5> QED
          BY <4>2, <5>1, <5>2, <5>3
      <4> QED
        BY <4>8, <4>9, <4>10, <4>11, <4>12 DEF Good
    <3> QED
      BY <3>1, <3>2
  <2> HIDE DEF r
  <2>4. r \in Rounds[k]
    BY <2>1, <2>3 DEF Rounds
  <2> QED
    BY <2>4 DEF r
<1> HIDE DEF Rounds, start
<1>4. end \in Rounds[n + m]
  BY <1>1, <1>2, <1>3, LoopKeeps
<1> HIDE DEF end
<1>5. end \in Gaps /\ Good(n + m, end)
  BY <1>1, <1>4 DEF Rounds
<1>6. end.i > n \/ end.j > m
  BY <1>1, <1>5
<1>7. Without(s, end.i, Elements(o))
  BY <1>5, <1>6, ApartEnds DEF Without
<1>8. Without(o, end.j, Elements(s))
  BY <1>5, <1>6, ApartEnds, ApartTurns DEF Without
<1>9. end.new \in Slices /\ end.rem \in Slices
  BY <1>5 DEF Gaps
<1>10. IsRest(end.new \o From(o, end.j), o, Elements(s))
  <2>1. end.j \in 1 .. Len(o) + 1 /\ Lacks(end.new, o, end.j, Elements(s))
    BY <1>5
  <2> HIDE DEF Good
  <2> QED
    BY <1>8, <1>9, <2>1, LacksAll
<1>11. IsRest(end.rem \o From(s, end.i), s, Elements(o))
  <2>1. end.i \in 1 .. Len(s) + 1 /\ Lacks(end.rem, s, end.i, Elements(o))
    BY <1>5
  <2> HIDE DEF Good
  <2> QED
    BY <1>7, <1>9, <2>1, LacksAll
<1> QED
  BY <1>10, <1>11 DEF end, start, IsRest

LEMMA DiffIs ==
  ASSUME NEW s, NEW o, s.seq \in Slices, o.seq \in Slices
  PROVE  /\ Diff(s, o).new.seq \in Slices
         /\ Elements(Diff(s, o).new.seq) = Elements(o.seq) \ Elements(s.seq)
         /\ Diff(s, o).rem.seq \in Slices
         /\ Elements(Diff(s, o).rem.seq) = Elements(s.seq) \ Elements(o.seq)
<1> DEFINE end == EndOf("diff", s.seq, o.seq, Len(s.seq) + Len(o.seq),
                        [new |-> <<>>, rem |-> <<>>, i |-> 1, j |-> 1])
           new == end.new \o From(o.seq, end.j)
           rem == end.rem \o From(s.seq, end.i)
<1>1. /\ new \in Slices /\ Elements(new) = Elements(o.seq) \ Elements(s.seq)
      /\ rem \in Slices /\ Elements(rem) = Elements(s.seq) \ Elements(o.seq)
  BY GapsKeep
<1>2. Diff(s, o) = [new |-> newFromSlice(new), rem |-> newFromSlice(rem)]
  BY DiffEnds
<1> HIDE DEF new, rem
<1>3. newFromSlice(new).seq = new /\ newFromSlice(rem).seq = rem
  BY DEF newFromSlice, Nil, Set
<1> QED
  BY <1>1, <1>2, <1>3

(* Sets as the program can have them: a nil set has no elements.            *)
IdSets == {s \in [nil : BOOLEAN, seq : Slices] : s.nil => s.seq = <<>>}
Members(s) == Elements(s.seq)

LEMMA FromSliceIs ==
  ASSUME NEW q \in Slices
  PROVE  newFromSlice(q) \in IdSets /\ newFromSlice(q).seq = q
  BY DEF newFromSlice, Nil, Set, IdSets

LEMMA SetIs ==
  ASSUME NEW q \in Slices
  PROVE  Set(q) \in IdSets /\ Set(q).seq = q
  BY DEF Set, IdSets

(* Whatever sets are merged in place and whatever is added or removed, the  *)
(* slices stay ascending, without which the binary search fails, and have   *)
(* the elements of the union, intersection and differences; intersecting    *)
(* with nil gives everything; Diff says what makes the one set the other.   *)
(* The loops of set.go are IdSet's, and this holds for slices of any length.*)
THEOREM SetsComputeSets ==
  ASSUME NEW s \in IdSets, NEW o \in IdSets, NEW zids \in Seq(Int), NEW z \in Int
  PROVE  /\ {AddSlice(s, zids), Remove(s, z), IUnion(s, o), IntersectOrSet(s, o), ISubstract(s, o),
             Diff(s, o).new, Diff(s, o).rem} \subseteq IdSets
         /\ Members(AddSlice(s, zids)) = Members(s) \union Elements(zids)
         /\ Members(Remove(s, z)) = Members(s) \ {z}
         /\ Members(IUnion(s, o)) = Members(s) \union Members(o)
         /\ Members(IntersectOrSet(s, o)) = IF s.nil THEN Members(o) ELSE Members(s) \intersect Members(o)
         /\ Members(ISubstract(s, o)) = Members(s) \ Members(o)
         /\ Members(Diff(s, o).new) = Members(o) \ Members(s)
         /\ Members(Diff(s, o).rem) = Members(s) \ Members(o)
         /\ Contains(s, z) <=> z \in Members(s)
         /\ ContainsOrNil(s, z) <=> s.nil \/ z \in Members(s)
<1> DEFINE a == s.seq
           b == o.seq
<1>1. /\ a \in Slices /\ b \in Slices /\ s.nil \in BOOLEAN /\ o.nil \in BOOLEAN
      /\ s.nil => a = <<>>
      /\ o.nil => b = <<>>
  BY DEF IdSets
<1>2. /\ a = <<>> => Elements(a) = {}
      /\ b = <<>> => Elements(b) = {} /\ Members(o) = {}
  BY EmptyIs DEF Members
<1>3. AddSlice(s, zids) \in IdSets /\ Members(AddSlice(s, zids)) = Members(s) \union Elements(zids)
  <2>1. PICK q : AddSlice(s, zids) = Set(q)
    BY DEF AddSlice
  <2>2. AddSlice(s, zids).seq \in Slices
    BY <1>1, AddSliceIs
  <2>3. q \in Slices
    BY <2>1, <2>2 DEF Set
  <2>4. Elements(AddSlice(s, zids).seq) = Elements(s.seq) \union Elements(zids)
    BY <1>1, AddSliceIs
  <2> QED
    BY <2>1, <2>3, <2>4, SetIs DEF Members
<1>4. Remove(s, z) \in IdSets /\ Members(Remove(s, z)) = Members(s) \ {z}
  <2>1. PICK q : Remove(s, z) = newFromSlice(q)
    BY DEF Remove
  <2>2. Remove(s, z).seq \in Slices /\ Elements(Remove(s, z).seq) = Elements(s.seq) \ {z}
    BY <1>1, RemoveIs
  <2>3. q \in Slices
    BY <2>1, <2>2 DEF newFromSlice, Nil, Set
  <2> QED
    BY <2>1, <2>2, <2>3, FromSliceIs DEF Members
<1>5. IUnion(s, o) \in IdSets /\ Members(IUnion(s, o)) = Members(s) \union Members(o)
  <2>1. CASE b = <<>>
    <3>1. IUnion(s, o) = s
      BY <2>1 DEF IUnion, IsEmpty
    <3> QED
      BY <1>2, <2>1, <3>1
  <2>2. CASE b # <<>>
    <3>1. IUnion(s, o) = AddSlice(s, b)
      BY <2>2 DEF IUnion, IsEmpty
    <3>2. b \in Seq(Int)
      BY <1>1, SliceIs
    <3>3. PICK q : AddSlice(s, b) = Set(q)
      BY DEF AddSlice
    <3>4. AddSlice(s, b).seq \in Slices
      BY <1>1, <3>2, AddSliceIs
    <3>5. Elements(AddSlice(s, b).seq) = Elements(s.seq) \union Elements(b)
      BY <1>1, <3>2, AddSliceIs
    <3>6. q \in Slices
      BY <3>3, <3>4 DEF Set
    <3> QED
      BY <3>1, <3>3, <3>5, <3>6, SetIs DEF Members
  <2> QED
    BY <2>1, <2>2
<1>6. /\ IntersectOrSet(s, o) \in IdSets
      /\ Members(IntersectOrSet(s, o)) = IF s.nil THEN Members(o) ELSE Members(s) \intersect Members(o)
  <2>1. CASE s.nil \/ o.nil
    <3>1. IntersectOrSet(s, o) = o
      BY <2>1 DEF IntersectOrSet
    <3>2. ~s.nil => Members(o) = {}
      BY <1>1, <1>2, <2>1
    <3> QED
      BY <3>1, <3>2
  <2>2. CASE ~(s.nil \/ o.nil)
    <3>1. IntersectOrSet(s, o) = Set(intersect(a, b))
      BY <2>2 DEF IntersectOrSet
    <3>2. intersect(a, b) \in Slices
      BY <1>1, IntersectIs
    <3>3. Elements(intersect(a, b)) = Elements(a) \intersect Elements(b)
      BY <1>1, IntersectIs
    <3> QED
      BY <2>2, <3>1, <3>2, <3>3, SetIs DEF Members
  <2> QED
    BY <2>1, <2>2
<1>7. ISubstract(s, o) \in IdSets /\ Members(ISubstract(s, o)) = Members(s) \ Members(o)
  <2>1. CASE a = <<>> \/ b = <<>>
    <3>1. ISubstract(s, o) = s
      BY <2>1 DEF ISubstract, IsEmpty
    <3>2. Members(s) = Members(s) \ Members(o)
      BY <1>2, <2>1 DEF Members
    <3> QED
      BY <3>1, <3>2
  <2>2. CASE ~(a = <<>> \/ b = <<>>)
    <3>1. ISubstract(s, o) = Set(substract(a, b))
      BY <2>2 DEF ISubstract, IsEmpty
    <3>2. substract(a, b) \in Slices
      BY <1>1, SubstractIs
    <3>3. Elements(substract(a, b)) = Elements(a) \ Elements(b)
      BY <1>1, SubstractIs
    <3> QED
      BY <3>1, <3>2, <3>3, SetIs DEF Members
  <2> QED
    BY <2>1, <2>2
<1>8. /\ Diff(s, o).new \in IdSets /\ Members(Diff(s, o).new) = Members(o) \ Members(s)
      /\ Diff(s, o).rem \in IdSets /\ Members(Diff(s, o).rem) = Members(s) \ Members(o)
  <2>1. PICK p, q : Diff(s, o) = [new |-> newFromSlice(p), rem |-> newFromSlice(q)]
    BY DEF Diff
  <2>2. Diff(s, o).new.seq \in Slices /\ Elements(Diff(s, o).new.seq) = Elements(b) \ Elements(a)
    BY <1>1, DiffIs
  <2>3. Diff(s, o).rem.seq \in Slices /\ Elements(Diff(s, o).rem.seq) = Elements(a) \ Elements(b)
    BY <1>1, DiffIs
  <2>4. p \in Slices /\ q \in Slices
    BY <2>1, <2>2, <2>3 DEF newFromSlice, Nil, Set
  <2>5. Diff(s, o).new \in IdSets /\ Diff(s, o).rem \in IdSets
    BY <2>1, <2>4, FromSliceIs
  <2> QED
    BY <2>2, <2>3, <2>5 DEF Members
<1>9. /\ Contains(s, z) <=> z \in Members(s)
      /\ ContainsOrNil(s, z) <=> s.nil \/ z \in Members(s)
  <2>1. find(a, z).found <=> z \in Elements(a)
    BY <1>1, SliceIs, FindIs
  <2>2. s.nil => z \notin Elements(a)
    BY <1>1, <1>2
  <2> QED
    BY <2>1, <2>2 DEF Contains, ContainsOrNil, Members
<1> QED
  BY <1>3, <1>4, <1>5, <1>6, <1>7, <1>8, <1>9
=============================================================================
