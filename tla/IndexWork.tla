------------------------------ MODULE IndexWork ------------------------------
(***************************************************************************)
(* What the anteroom promises to the indexer, without its rooms.           *)
(*                                                                         *)
(* Work comes as "the zettel with this identifier changed" or as "look at  *)
(* everything again".  The second is answered in two phases: the indexer   *)
(* takes the request, asks the boxes for their identifiers, and hands them *)
(* back as a backlog that is served before the changes.                    *)
(***************************************************************************)
EXTENDS Naturals

CONSTANTS Zids, NeverIndexed, Invalid

VARIABLES
    request,    \* a reload is requested and not yet taken
    backlog,    \* identifiers of the last reload still to be indexed
    changed,    \* identifiers of changed zettel still to be indexed
    answer      \* what the indexer was last told to do

workVars == <<request, backlog, changed, answer>>

Nothing == [action |-> "arNothing", zid |-> Invalid, lastReload |-> FALSE]

Init ==
    /\ request = FALSE
    /\ backlog = {}
    /\ changed = {}
    /\ answer = Nothing

(* A change is remembered, whatever else is waiting. *)
Change(z) ==
    /\ changed' = changed \union ({z} \ NeverIndexed)
    /\ UNCHANGED <<request, backlog, answer>>

(* A request to look at everything replaces the work it makes superfluous. *)
RequestAll ==
    /\ request' = TRUE
    /\ backlog' = {}
    /\ changed' = {}
    /\ UNCHANGED answer

(* The indexer delivers the identifiers to look at again.  Changes that     *)
(* were reported in the meantime survive, unless there is nothing at all.   *)
Deliver(S) ==
    /\ request' = FALSE
    /\ backlog' = S
    /\ changed' = IF S = {} THEN {} ELSE changed
    /\ UNCHANGED answer

TakeRequest ==
    /\ request
    /\ request' = FALSE
    /\ answer' = [action |-> "arReload", zid |-> Invalid, lastReload |-> FALSE]
    /\ UNCHANGED <<backlog, changed>>

TakeBacklog ==
    /\ ~request
    /\ \E z \in backlog :
        /\ backlog' = backlog \ {z}
        /\ answer' = [action |-> "arZettel", zid |-> z, lastReload |-> TRUE]
    /\ UNCHANGED <<request, changed>>

TakeChange ==
    /\ ~request
    /\ backlog = {}
    /\ \E z \in changed :
        /\ changed' = changed \ {z}
        /\ answer' = [action |-> "arZettel", zid |-> z, lastReload |-> FALSE]
    /\ UNCHANGED <<request, backlog>>

TakeNothing ==
    /\ ~request
    /\ backlog = {}
    /\ changed = {}
    /\ answer' = Nothing
    /\ UNCHANGED <<request, backlog, changed>>

Next ==
    \/ \E z \in Zids : Change(z)
    \/ RequestAll
    \/ \E S \in SUBSET Zids : Deliver(S)
    \/ TakeRequest
    \/ TakeBacklog
    \/ TakeChange
    \/ TakeNothing

Spec == Init /\ [][Next]_workVars
==============================================================================
