--------------------------- MODULE MapStoreCalls ---------------------------
(***************************************************************************)
(* The index under every sequence of calls of its interface, store.Store.  *)
(*                                                                         *)
(* Two history variables say what the caller knows: the ZettelIndex it     *)
(* passed last for each zettel, and the zettel the index asked it to check *)
(* again and that were not updated or deleted since.                       *)
(***************************************************************************)
EXTENDS MapStore

CONSTANT Indices    \* the results of indexing a zettel: a subset of ZettelIndex

ASSUME IndicesAssumption == Indices \subseteq ZettelIndex

VARIABLES
    given,      \* the last ZettelIndex of a zettel, or Nothing
    pending     \* to be checked, and not updated or deleted since

callVars == <<storeVars, given, pending>>

Nothing == [back |-> {}, dead |-> {}, inverse |-> [k \in Keys |-> {}], words |-> {}]

CallInit ==
    /\ StoreInit
    /\ given = [z \in Zids |-> Nothing]
    /\ pending = {}

Update(z, zi) ==
    /\ UpdateReferences(z, zi)
    /\ given' = [given EXCEPT ![z] = zi]
    /\ pending' = (pending \ {z}) \union UpdateToCheck(z, zi)

Delete(z) ==
    /\ DeleteZettel(z)
    /\ given' = [given EXCEPT ![z] = Nothing]
    /\ pending' = (pending \ {z}) \union DeleteToCheck(z)

CallNext == \E z \in Zids : Delete(z) \/ \E zi \in Indices : Update(z, zi)

CallSpec == CallInit /\ [][CallNext]_callVars

CallTypeOK ==
    /\ StoreTypeOK
    /\ given \in [Zids -> ZettelIndex]
    /\ pending \subseteq Zids

-----------------------------------------------------------------------------
(* Nothing goes wrong silently: a zettel whose references in the index      *)
(* differ from what was given for it is among those to be checked again.    *)
ForwardIsGivenOrPending ==
    \A z \in Zids : forward[z] # given[z].back => z \in pending

(* A zettel that others reference, and that was never indexed itself or     *)
(* was deleted, was reported for a check when the reference was filed.      *)
UnindexedAreReported ==
    [][\A z \in Zids : (z \in entries' /\ z \notin entries /\ z \notin indexed')
            => z \in pending']_callVars

(* "Property that contains all references that does not identify a zettel": *)
(* while an entry exists, its list of dead references is the one given.     *)
DeadIsGiven == \A z \in Zids : deadRefs[z] = given[z].dead

(* After any sequence of updates and deletions the index holds what the     *)
(* last update of each zettel gave it, or the zettel is to be checked, and  *)
(* nothing is left of what was deleted.                                     *)
StoreIsAsGiven == CallTypeOK /\ AbsentIsEmpty /\ ForwardIsGivenOrPending /\ DeadIsGiven

=============================================================================
