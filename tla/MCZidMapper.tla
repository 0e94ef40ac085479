---------------------------- MODULE MCZidMapper ----------------------------
(* The default home zettel, whose predefined number is the one before the   *)
(* ordinary numbers, a predefined zettel that is in no box, the first and   *)
(* another zettel of the manual, and two ordinary zettel; the identifiers   *)
(* are ordered as in the program.  One number more than there are may be    *)
(* drawn for the manual: the one of the default home zettel.  In the largest*)
(* world this does not happen, and there are no restarts.                   *)
EXTENDS ZidMapper

VARIABLE world      \* the zettel that may appear

MCPredefined == [z \in {3, 15} |-> IF z = 3 THEN 1 ELSE 4]
Large == {10, 11, 15, 20}
Worlds == {Large, {10, 11, 15}, {3, 15, 20}, {15, 20, 21}}

MCInit == Init /\ world \in Worlds
MCNext ==
    /\ IF world = Large THEN Step /\ ~overrun' ELSE Next
    /\ present' \subseteq world /\ op'.zid \in world \union {Unmapped}
    /\ UNCHANGED world
MCSpec == MCInit /\ [][MCNext]_<<vars, world>>
============================================================================
