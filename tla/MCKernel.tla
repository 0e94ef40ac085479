------------------------------ MODULE MCKernel ------------------------------
(* Instance of Kernel: one administrator.                                   *)
EXTENDS Kernel

CONSTANTS s1, o1, o2, none, u1, u2

First == [owner |-> none, readonly |-> FALSE, site |-> "a", dirtype |-> "notify", uris |-> <<u1>>]
MCFirstConfigs == {First, [First EXCEPT !.owner = o1], [First EXCEPT !.readonly = TRUE]}
=============================================================================
