----------------------------- MODULE MCMapStore -----------------------------
(* Two zettel, and what they can say about each other and about themselves. *)
EXTENDS MapStoreCalls

NoInverse == [k \in Keys |-> {}]

(* Content: links to zettel that exist or not, and words. *)
MCContentIndices ==
    {zi \in [back : SUBSET Zids, dead : SUBSET Zids, inverse : {NoInverse},
             words : SUBSET Words] : zi.dead \intersect zi.back = {}}

(* Metadata: inverse references to zettel that exist or not. *)
MCMetaIndices ==
    {zi \in [back : SUBSET Zids, dead : SUBSET Zids, inverse : [Keys -> SUBSET Zids],
             words : {{}}] :
        zi.dead \intersect (zi.back \union UNION {zi.inverse[k] : k \in Keys}) = {}}

MCIndices == MCContentIndices \union MCMetaIndices
=============================================================================
