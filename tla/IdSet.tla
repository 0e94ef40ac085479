-------------------------------- MODULE IdSet --------------------------------
(***************************************************************************)
(* Sets of identifiers as sorted slices (zettel/id/set.go): a set is nil or *)
(* a slice.  Both are "no elements"; what returns nil for which of them,    *)
(* and what is done in place, is as in the code.  Identifiers are numbers.  *)
(***************************************************************************)
EXTENDS Integers, Sequences

Nil == [nil |-> TRUE, seq |-> <<>>]
Set(seq) == [nil |-> FALSE, seq |-> seq]
newFromSlice(seq) == IF seq = <<>> THEN Nil ELSE Set(seq)
IsEmpty(s) == s.seq = <<>>
From(seq, i) == SubSeq(seq, i, Len(seq))

(* The variables of a loop after n rounds; a round of a loop that has ended *)
(* changes nothing.                                                         *)
After(Round(_), n, start) ==
    LET loop[k \in 0 .. n] == IF k = 0 THEN start ELSE Round(loop[k - 1]) IN loop[n]

(* find: the position of an element or, not found, where it belongs         *)
FindRound(seq, z, l) ==
    LET m == l.lo + (l.hi - l.lo) \div 2 IN
    IF l.found \/ l.lo >= l.hi THEN l
    ELSE IF seq[m] = z THEN [l EXCEPT !.hi = m, !.found = TRUE]
    ELSE IF seq[m] < z THEN [l EXCEPT !.lo = m + 1]
    ELSE [l EXCEPT !.hi = m]
find(seq, z) ==
    LET Round(l) == FindRound(seq, z, l)
        end == After(Round, Len(seq), [lo |-> 1, hi |-> Len(seq) + 1, found |-> FALSE])
    IN  [pos |-> end.hi, found |-> end.found]
Contains(s, z) == ~s.nil /\ find(s.seq, z).found
ContainsOrNil(s, z) == s.nil \/ find(s.seq, z).found

add(seq, z) ==
    LET f == find(seq, z) IN IF f.found THEN seq ELSE SubSeq(seq, 1, f.pos - 1) \o <<z>> \o From(seq, f.pos)
AddRound(zids, l) == [seq |-> add(l.seq, zids[l.i]), i |-> l.i + 1]
AddSlice(s, zids) ==
    LET Round(l) == AddRound(zids, l) IN Set(After(Round, Len(zids), [seq |-> s.seq, i |-> 1]).seq)
Add(s, z) == AddSlice(s, <<z>>)
NewSet(zids) == AddSlice(Set(<<>>), zids)
IUnion(s, o) == IF IsEmpty(o) THEN s ELSE AddSlice(s, o.seq)
Remove(s, z) ==
    LET f == find(s.seq, z) IN
    newFromSlice(IF f.found THEN SubSeq(s.seq, 1, f.pos - 1) \o From(s.seq, f.pos + 1) ELSE s.seq)

(* The loops run through both slices, at i and j, until one has ended; the  *)
(* elements that stay are moved to the front of the first slice, of which t *)
(* are done.                                                                *)
Both(seq) == [seq |-> seq, t |-> 0, i |-> 1, j |-> 1]
Ended(l, other) == l.i > Len(l.seq) \/ l.j > Len(other)
Moved(l) == [l EXCEPT !.seq = [@ EXCEPT ![l.t + 1] = l.seq[l.i]], !.t = @ + 1]
IntersectRound(other, l) ==
    IF Ended(l, other) THEN l
    ELSE IF l.seq[l.i] < other[l.j] THEN [l EXCEPT !.i = @ + 1]
    ELSE IF l.seq[l.i] > other[l.j] THEN [l EXCEPT !.j = @ + 1]
    ELSE [Moved(l) EXCEPT !.i = @ + 1, !.j = @ + 1]
intersect(seq, other) ==
    LET Round(l) == IntersectRound(other, l)
        end == After(Round, Len(seq) + Len(other), Both(seq))
    IN  SubSeq(end.seq, 1, end.t)
IntersectOrSet(s, o) == IF s.nil \/ o.nil THEN o ELSE Set(intersect(s.seq, o.seq))

SubstractRound(other, l) ==
    IF Ended(l, other) THEN l
    ELSE IF l.seq[l.i] < other[l.j] THEN [Moved(l) EXCEPT !.i = @ + 1]
    ELSE IF l.seq[l.i] > other[l.j] THEN [l EXCEPT !.j = @ + 1]
    ELSE [l EXCEPT !.i = @ + 1, !.j = @ + 1]
(* Mutant: the elements after the last one of the other set are dropped.    *)
substractShort(seq, other) ==
    LET Round(l) == SubstractRound(other, l)
        end == After(Round, Len(seq) + Len(other), Both(seq))
    IN  SubSeq(end.seq, 1, end.t)
substract(seq, other) ==
    LET Round(l) == SubstractRound(other, l)
        end == After(Round, Len(seq) + Len(other), Both(seq))
    IN  SubSeq(end.seq, 1, end.t) \o From(end.seq, end.i)
ISubstract(s, o) == IF IsEmpty(s) \/ IsEmpty(o) THEN s ELSE Set(substract(s.seq, o.seq))

(* Diff: what is to be added to the first slice, and removed from it, to    *)
(* make it the second one                                                   *)
DiffRound(old, new, l) ==
    IF l.i > Len(old) \/ l.j > Len(new) THEN l
    ELSE IF new[l.j] < old[l.i] THEN [l EXCEPT !.new = Append(@, new[l.j]), !.j = @ + 1]
    ELSE IF new[l.j] > old[l.i] THEN [l EXCEPT !.rem = Append(@, old[l.i]), !.i = @ + 1]
    ELSE [l EXCEPT !.i = @ + 1, !.j = @ + 1]
Diff(s, o) ==
    LET Round(l) == DiffRound(s.seq, o.seq, l)
        end == After(Round, Len(s.seq) + Len(o.seq), [new |-> <<>>, rem |-> <<>>, i |-> 1, j |-> 1])
    IN  [new |-> newFromSlice(end.new \o From(o.seq, end.j)),
         rem |-> newFromSlice(end.rem \o From(s.seq, end.i))]
=============================================================================
