------------------------------ MODULE MapStore ------------------------------
(***************************************************************************)
(* The index, box/manager/mapstore/mapstore.go.                            *)
(*                                                                         *)
(* The fields of the entries of ms.idx are functions on identifiers; they  *)
(* are empty where there is no entry.  URLs are indexed like words.  The   *)
(* operators describe the state change of UpdateReferences and             *)
(* DeleteZettel and the identifiers they return; the module that uses them *)
(* decides when they are called.                                           *)
(***************************************************************************)
EXTENDS Naturals

CONSTANTS
    Zids,       \* zettel identifiers
    Keys,       \* inverse metadata keys: "folge", "successors", ...
    Words       \* words and URLs

VARIABLES
    entries,    \* DOMAIN of ms.idx
    indexed,    \* entries whose meta is not nil
    deadRefs,   \* idx[z].dead
    forward,    \* idx[z].forward
    backward,   \* idx[z].backward
    otherFwd,   \* idx[z].otherRefs[k].forward
    otherBwd,   \* idx[z].otherRefs[k].backward
    wordsOf,    \* idx[z].words and idx[z].urls
    deadIn,     \* ms.dead: where the dead reference occurs
    wordIn      \* ms.words and ms.urls

storeVars == <<entries, indexed, deadRefs, forward, backward,
               otherFwd, otherBwd, wordsOf, deadIn, wordIn>>

(* store.ZettelIndex: what the indexer found out about one zettel.          *)
ZettelIndex == [back : SUBSET Zids, dead : SUBSET Zids,
                inverse : [Keys -> SUBSET Zids], words : SUBSET Words]

StoreTypeOK ==
    /\ entries \subseteq Zids
    /\ indexed \subseteq entries
    /\ \A f \in {deadRefs, forward, backward, deadIn} : f \in [Zids -> SUBSET Zids]
    /\ \A f \in {otherFwd, otherBwd} : f \in [Keys -> [Zids -> SUBSET Zids]]
    /\ wordsOf \in [Zids -> SUBSET Words]
    /\ wordIn \in [Words -> SUBSET Zids]

StoreInit ==
    /\ entries = {}
    /\ indexed = {}
    /\ deadRefs = [z \in Zids |-> {}]
    /\ forward = [z \in Zids |-> {}]
    /\ backward = [z \in Zids |-> {}]
    /\ otherFwd = [k \in Keys |-> [z \in Zids |-> {}]]
    /\ otherBwd = [k \in Keys |-> [z \in Zids |-> {}]]
    /\ wordsOf = [z \in Zids |-> {}]
    /\ deadIn = [z \in Zids |-> {}]
    /\ wordIn = [w \in Words |-> {}]

(* An inverted map in which z is filed under the elements of "old", filed   *)
(* under those of "new" instead.                                            *)
Refiled(map, z, old, new) ==
    [x \in DOMAIN map |-> (map[x] \ (IF x \in old \ new THEN {z} ELSE {}))
                          \union (IF x \in new \ old THEN {z} ELSE {})]

-----------------------------------------------------------------------------
(* UpdateReferences *)

(* updateDeadReferences: z is no dead reference any more.  Those who have   *)
(* it in their list are forgotten here, and returned for a check.           *)
updateDeadReferences(z, zi) ==
    /\ deadIn' = Refiled([deadIn EXCEPT ![z] = {}], z, deadRefs[z], zi.dead)
    /\ deadRefs' = [deadRefs EXCEPT ![z] = zi.dead]

(* A zettel without entry that references itself: the references create an  *)
(* entry of z, which is replaced by the one that UpdateReferences has made  *)
(* and stores at its end.  What was filed in the former is lost.            *)
Replaced(map, z) == IF z \in entries THEN map ELSE [map EXCEPT ![z] = {}]

updateForwardBackwardReferences(z, zi) ==
    /\ backward' = Replaced(Refiled(backward, z, forward[z], zi.back), z)
    /\ forward' = [forward EXCEPT ![z] = zi.back]

(* updateMetadataReferences: a key that no longer occurs is removed at the  *)
(* other end only, z itself remembers what it referenced.                   *)
updateMetadataReferences(z, zi) ==
    /\ otherBwd' = [k \in Keys |->
           Replaced(Refiled(otherBwd[k], z, otherFwd[k][z], zi.inverse[k]), z)]
    /\ otherFwd' = [k \in Keys |->
                        IF zi.inverse[k] = {} THEN otherFwd[k]
                        ELSE [otherFwd[k] EXCEPT ![z] = zi.inverse[k]]]

updateStrings(z, zi) ==
    /\ wordIn' = Refiled(wordIn, z, wordsOf[z], zi.words)
    /\ wordsOf' = [wordsOf EXCEPT ![z] = zi.words]

(* The entries that are looked up, or created, for the other ends.          *)
ForwardTouched(z, zi) ==
    (zi.back \ forward[z]) \union (forward[z] \ zi.back)
InverseTouched(z, zi) ==
    UNION {zi.inverse[k] \ otherFwd[k][z] : k \in Keys}
Touched(z, zi) == ForwardTouched(z, zi) \union InverseTouched(z, zi)

UpdateReferences(z, zi) ==
    /\ entries' = entries \union {z} \union Touched(z, zi)
    /\ indexed' = indexed \union {z}
    /\ updateDeadReferences(z, zi)
    /\ updateForwardBackwardReferences(z, zi)
    /\ updateMetadataReferences(z, zi)
    /\ updateStrings(z, zi)

(* Mutant: referenced zettel without metadata are not reported. *)
DeadToCheck(z, zi) == deadIn[z]

(* What UpdateReferences returns: where z was dead, and which referenced    *)
(* zettel have no metadata yet.  An entry of z has them by now, unless it   *)
(* is one that will be replaced.                                            *)
UpdateToCheck(z, zi) ==
    deadIn[z] \union (Touched(z, zi) \ (indexed \union (entries \intersect {z})))

-----------------------------------------------------------------------------
(* DeleteZettel *)

(* Mutant: the referenced zettel keep z in their backward list. *)
DeleteBackwardOnly(z) ==
    /\ forward' = [r \in Zids |-> IF r = z THEN {} ELSE
                       IF r \in backward[z] THEN forward[r] \ {z} ELSE forward[r]]
    /\ backward' = [backward EXCEPT ![z] = {}]

deleteForwardBackward(z) ==
    /\ forward' = [r \in Zids |-> IF r = z THEN {} ELSE
                       IF r \in backward[z] THEN forward[r] \ {z} ELSE forward[r]]
    /\ backward' = [r \in Zids |-> IF r = z THEN {} ELSE
                       IF r \in forward[z] THEN backward[r] \ {z} ELSE backward[r]]

(* removeInverseMeta removes z at the other ends; whoever references z by   *)
(* an inverse key keeps that reference.                                     *)
removeInverseMeta(z) ==
    /\ otherBwd' = [k \in Keys |->
           [Refiled(otherBwd[k], z, otherFwd[k][z], {}) EXCEPT ![z] = {}]]
    /\ otherFwd' = [k \in Keys |-> [otherFwd[k] EXCEPT ![z] = {}]]

deleteStrings(z) ==
    /\ wordIn' = Refiled(wordIn, z, wordsOf[z], {})
    /\ wordsOf' = [wordsOf EXCEPT ![z] = {}]

deleteDeadSources(z) ==
    /\ deadIn' = Refiled(deadIn, z, deadRefs[z], {})
    /\ deadRefs' = [deadRefs EXCEPT ![z] = {}]

DeleteZettel(z) ==
    IF z \notin entries
    THEN UNCHANGED storeVars
    ELSE /\ entries' = entries \ {z}
         /\ indexed' = indexed \ {z}
         /\ deleteDeadSources(z)
         /\ deleteForwardBackward(z)
         /\ removeInverseMeta(z)
         /\ deleteStrings(z)

(* Mutant: the referrers are not reported. *)
NothingToCheck(z) == {}

(* What DeleteZettel returns: the zettel that referenced z, but not z: it   *)
(* has left its own backward list by then, as one it references itself.     *)
DeleteToCheck(z) == backward[z] \intersect (entries \ {z})

-----------------------------------------------------------------------------
(* Reading: doEnrich and SearchEqual *)

(* The zettel shown as "back" of z, whose own metadata references "own".    *)
EnrichedBack(z, own) ==
    ((backward[z] \ own) \ forward[z]) \ UNION {otherBwd[k][z] : k \in Keys}

SearchEqual(word) == wordIn[word]

(* A word that looks like an identifier finds the zettel and its referrers. *)
SearchZid(z) ==
    IF z \in entries
    THEN {z} \union backward[z] \union UNION {otherBwd[k][z] : k \in Keys}
    ELSE {}

-----------------------------------------------------------------------------
(* A reference is seen from both its ends: what a zettel lists as backward  *)
(* are the zettel that have it in their forward list.  Only a zettel that   *)
(* references itself may be missing in its own backward list, see Replaced. *)
ForwardBackwardMatch ==
    \A a, b \in Zids :
        /\ a \in backward[b] => b \in forward[a]
        /\ b \in forward[a] => a \in backward[b] \/ a = b

(* A zettel is found under a word if and only if it contains the word.      *)
WordsMatch == \A w \in Words : wordIn[w] = {z \in Zids : w \in wordsOf[z]}

(* Whoever is filed under a dead reference, or as an inverse reference,     *)
(* really has it.                                                           *)
NoPhantomRefs ==
    \A a, b \in Zids :
        /\ a \in deadIn[b] => b \in deadRefs[a]
        /\ \A k \in Keys : a \in otherBwd[k][b] => b \in otherFwd[k][a]

(* The two maps of each kind of reference, and of words, agree; one of a    *)
(* zettel to itself may be known at its first end only.                     *)
BothEndsAgree == ForwardBackwardMatch /\ WordsMatch /\ NoPhantomRefs

(* DeleteZettel and its early return leave nothing behind: an identifier    *)
(* without an entry is not referenced by the data of other entries, so a    *)
(* zettel that is created later does not inherit the references of an       *)
(* older one with its identifier.                                           *)
AbsentIsEmpty ==
    \A z \in Zids \ entries :
        /\ deadRefs[z] = {} /\ forward[z] = {} /\ backward[z] = {} /\ wordsOf[z] = {}
        /\ \A k \in Keys : otherFwd[k][z] = {} /\ otherBwd[k][z] = {}
        /\ \A x \in Zids : z \notin backward[x] /\ z \notin forward[x] /\ z \notin deadIn[x]
=============================================================================
