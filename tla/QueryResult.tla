----------------------------- MODULE QueryResult -----------------------------
(***************************************************************************)
(* The list that a query returns: the alternatives joined, sorted, picked   *)
(* from, and cut (query/compiled.go, query/sorter.go, Manager.SelectMeta).  *)
(*                                                                          *)
(* A list has several possible orders when it comes out of a Go map or is   *)
(* shuffled, and several possible contents when elements are picked: the    *)
(* operators return the set of possible lists.  c is a compiled query:      *)
(* [query, seed, pick, order, offset, limit].                               *)
(***************************************************************************)
EXTENDS Integers, FiniteSets
LOCAL INSTANCE Sequences
LOCAL INSTANCE SequencesExt
LOCAL INSTANCE FiniteSetsExt

CONSTANTS
    Metas,      \* zid \in Nat -> [key -> value], the values being numbers
    Sorting     \* key -> "id" (also credentials) or "value"

RandomKey == "random"
IdOrder(descending) == [key |-> "id", descending |-> descending]
IsRandom(order) == order # <<>> /\ order[1].key = RandomKey

-----------------------------------------------------------------------------
(* Sorting *)

Has(z, key) == key \in DOMAIN Metas[z]

(* What lacks the key comes first, or last when the order is reversed.      *)
Ascending(z1, z2, key) ==
    IF Has(z1, key) /\ Has(z2, key) THEN Metas[z1][key] < Metas[z2][key]
    ELSE ~Has(z1, key) /\ Has(z2, key)

LessBy(o, z1, z2) ==
    LET a == IF o.descending THEN z2 ELSE z1
        b == IF o.descending THEN z1 ELSE z2
    IN  IF o.key = "id" \/ Sorting[o.key] = "id" THEN a < b ELSE Ascending(a, b, o.key)

(* Mutant: zettel that agree on the key remain in any order. *)
EffectiveLoose(order) == order

(* Nothing counts after an order by identifier; if there is none, the newest *)
(* zettel comes first.                                                      *)
Effective(order) ==
    LET ids == {i \in DOMAIN order : order[i].key = "id"} IN
    IF ids = {} THEN Append(order, IdOrder(TRUE)) ELSE SubSeq(order, 1, Min(ids))
sortFunc(order, z1, z2) ==
    LET e == Effective(order) IN
    \E i \in DOMAIN e : LessBy(e[i], z1, z2) /\ \A j \in 1 .. i - 1 : ~LessBy(e[j], z1, z2) /\ ~LessBy(e[j], z2, z1)

(* The sort is not stable: the result is any list without a wrong pair. *)
Sorted(list, order) ==
    {l \in SetToSeqs(ToSet(list)) : \A i, j \in DOMAIN l : i < j => ~sortFunc(order, l[j], l[i])}
Shuffled(list) == SetToSeqs(ToSet(list))

-----------------------------------------------------------------------------
(* Picking and cutting *)

SubLists(list, n) ==
    {[i \in 1 .. n |-> list[CHOOSE k \in s : Cardinality({j \in s : j <= k}) = i]] : s \in kSubset(n, DOMAIN list)}

(* A limit below the number to pick is picked at once, and is used up.      *)
pickElements(list, c) ==
    LET limited == c.limit > 0 /\ c.limit < c.pick IN
    IF c.pick <= 0 \/ c.pick >= Len(list) THEN {[list |-> list, limit |-> c.limit]}
    ELSE IF limited THEN {[list |-> l, limit |-> 0] : l \in SubLists(list, c.limit)}
    ELSE {[list |-> l, limit |-> c.limit] : l \in SubLists(list, c.pick)}

offsetElements(list, offset) == IF offset > Len(list) THEN <<>> ELSE SubSeq(list, offset + 1, Len(list))

limitElements(list, limit) == IF limit > 0 /\ limit < Len(list) THEN SubSeq(list, 1, limit) ELSE list
sortElements(list, order) ==
    IF order = <<>> THEN {list} ELSE IF IsRandom(order) THEN Shuffled(list) ELSE Sorted(list, order)

Cut(p, c) == limitElements(offsetElements(p.list, c.offset), p.limit)

(* AfterSearch: of the zettel that were selected, in the order of a map.    *)
(* With a seed, what is picked is a function of the list and the seed.      *)
AfterSearch(selected, c) ==
    LET Deterministic(list) ==
            UNION {LET lists == IF IsRandom(c.order) THEN Shuffled(p.list) ELSE {p.list}
                   IN  {Cut([p EXCEPT !.list = l], c) : l \in lists} : p \in pickElements(list, c)}
        Free(list) ==
            UNION {{Cut([p EXCEPT !.list = l], c) : l \in sortElements(p.list, c.order)} : p \in pickElements(list, c)}
    IN  IF selected = {} THEN {<<>>}
        ELSE IF ~c.query THEN Sorted(SetToSeq(selected), <<>>)
        ELSE IF c.seed > 0
             THEN UNION {Deterministic(l) : l \in Sorted(SetToSeq(selected), IF IsRandom(c.order) THEN <<>> ELSE c.order)}
        ELSE UNION {Free(l) : l \in SetToSeqs(selected)}

(* Result: of the list that the directives of the query have made.  If the  *)
(* offset is behind its end, the boxes are searched for its elements again. *)
Result(list, selected, c) ==
    LET chosen == SelectSeq(list, LAMBDA z : z \in selected)
        Of(p) == UNION {IF c.offset > Len(l)
                        THEN AfterSearch(selected \cap ToSet(list), [c EXCEPT !.limit = p.limit])
                        ELSE {Cut([p EXCEPT !.list = l], c)} : l \in sortElements(p.list, c.order)}
    IN  IF list = <<>> THEN {<<>>} ELSE UNION {Of(p) : p \in pickElements(chosen, c)}

(* SelectMeta: a zettel is in the result when one alternative selects it;   *)
(* one that was rejected for an alternative is looked at for the next one.  *)
SelectMeta(alternatives, allowed) == UNION {a \cap allowed : a \in alternatives}
=============================================================================
