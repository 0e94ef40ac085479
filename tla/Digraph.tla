------------------------------- MODULE Digraph -------------------------------
(***************************************************************************)
(* Directed graphs of identifiers (zettel/id/digraph.go): a function from   *)
(* the vertices to the sets of their successors.                            *)
(***************************************************************************)
EXTENDS Integers, Sequences, FiniteSets

NoGraph == [v \in {} |-> {}]
AddVertex(dg, v) == [x \in DOMAIN dg \cup {v} |-> IF x \in DOMAIN dg THEN dg[x] ELSE {}]
(* AddEdge from v to each of a set, after AddVertex of all of them          *)
AddEdges(dg, v, S) ==
    [x \in DOMAIN dg \cup {v} \cup S |-> (IF x \in DOMAIN dg THEN dg[x] ELSE {}) \cup (IF x = v THEN S ELSE {})]
HasVertex(dg, v) == v \in DOMAIN dg
Succ(dg, v) == IF v \in DOMAIN dg THEN dg[v] ELSE {}

(* ReachableVertices: the start is reached only if an edge leads back to it; *)
(* what is no vertex itself is not reached.                                 *)
Closed(dg, S) == ((UNION {dg[u] : u \in S}) \cap DOMAIN dg) \subseteq S
ReachableVertices(dg, v) ==
    {w \in DOMAIN dg :
        \A S \in SUBSET DOMAIN dg : Succ(dg, v) \cap DOMAIN dg \subseteq S /\ Closed(dg, S) => w \in S}

(* TransitiveClosure: the vertices that are reached from v, and v itself    *)
TransitiveClosure(dg, v) == [w \in {v} \cup ReachableVertices(dg, v) |-> Succ(dg, w)]

IsDAG(dg) == \A v \in DOMAIN dg : v \notin ReachableVertices(dg, v)

(* SortReverse: again and again the vertices without successors (Termina-   *)
(* tors) are taken, the larger ones first, and removed (RemoveVertex); what *)
(* is on a cycle, and what leads to it, is left.                            *)
Rounds(dg) == 0 .. Cardinality(DOMAIN dg)
Taken(dg) ==
    LET taken[i \in Rounds(dg)] ==
            IF i = 0 THEN {} ELSE {v \in DOMAIN dg : dg[v] \subseteq taken[i - 1]}
    IN  taken
Before(dg, u, v) ==
    \/ \E i \in Rounds(dg) : u \in Taken(dg)[i] /\ v \notin Taken(dg)[i]
    \/ u > v /\ \A i \in Rounds(dg) : u \in Taken(dg)[i] <=> v \in Taken(dg)[i]
SortReverse(dg) ==
    LET all == Taken(dg)[Cardinality(DOMAIN dg)]
        place(v) == Cardinality({u \in all : Before(dg, u, v)}) + 1
    IN  [i \in 1 .. Cardinality(all) |-> CHOOSE v \in all : place(v) = i]
=============================================================================
