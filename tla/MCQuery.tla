------------------------------- MODULE MCQuery -------------------------------
(***************************************************************************)
(* Queries: a text is read, a term of a query selects zettel, a selection   *)
(* is made a list, sets of identifiers are combined.  A behaviour asks one  *)
(* such question and answers it, or it executes a query of MCQueryRun.      *)
(***************************************************************************)
EXTENDS MCQueryRun

CONSTANTS
    MaxWords,       \* the length of a query's text
    MaxSearches     \* the number of values in a full-text search

VARIABLES question, answer, answered
askVars == <<question, answer, answered>>

-----------------------------------------------------------------------------
(* Texts *)

T == INSTANCE QueryText WITH
        Keys <- {"t", "r", "0", "1", "2", "00001", "00002"},
        KeyOrder <- <<<<"1">>, <<"r">>, <<"t">>>>,
        MaxZid <- 1

Words == {<<"00001">>, <<"2">>, <<"CONTEXT">>, <<"FULL">>, <<"COST">>, <<"MAX">>, <<"IDENT">>,
          <<"UNLINKED">>, <<"PHRASE">>, <<"OR">>, <<"RANDOM">>, <<"ORDER">>, <<"REVERSE">>, <<"PICK">>,
          <<"LIMIT">>, <<"OFFSET">>, <<"|">>, <<"t">>, <<"t", "?">>, <<"t", "!", "?">>, <<"r", "~", "A">>,
          <<"t", "!", "A">>, <<"!", "A">>, <<"!", "~", "=", "A">>, <<"=">>, <<"~", "r", ":", "A">>, <<"?", "A">>}
Arguments == {<<"1">>, <<"2">>}
Limits == {<<"PICK">>, <<"LIMIT">>, <<"OFFSET">>}
Costs == {<<"COST">>, <<"MAX">>}

TextQuestions ==
    [kind : {"text"}, spec : UNION {[1 .. n -> Words] : n \in 0 .. MaxWords}
        \cup {<<k1, n1, k2, n2>> : k1 \in Limits, k2 \in Limits, n1 \in Arguments, n2 \in Arguments}
        \cup {<<<<"CONTEXT">>, k1, n1, k2, n2>> : k1 \in Costs, k2 \in Costs, n1 \in Arguments, n2 \in Arguments}]

-----------------------------------------------------------------------------
(* Selections *)

Meta1 == [role |-> <<"a", "b">>, author |-> <<"a", " ", "b">>, tags |-> <<"#", "a", " ", "#", "b">>, size |-> <<"2">>, due |-> <<"1">>]
Meta2 == [role |-> <<"b">>, author |-> <<"b", "-", "a">>, tags |-> <<"#", "a", "b">>, size |-> <<"1", "0">>, parent |-> <<"0", "1">>, due |-> <<"1", "1">>]
Meta3 == [summary |-> <<"b", " ", "a">>, link |-> <<"a", "-", "b">>, parents |-> <<"0", "1", " ", "0", "2">>, box |-> <<"1">>, secret |-> <<"a">>]
MCZettel == <<[meta |-> Meta1, text |-> {<<"a", "b">>, <<"a", "-", "b">>}, urls |-> {}, refs |-> {3}],
              [meta |-> Meta2, text |-> {<<"b">>}, urls |-> {<<"b", "a">>}, refs |-> {}],
              [meta |-> Meta3, text |-> {<<"a">>}, urls |-> {}, refs |-> {}]>>
MCTypeOf == [role |-> "word", author |-> "string", tags |-> "tags", size |-> "number", due |-> "timestamp",
             parent |-> "id", parents |-> "ids", summary |-> "zettelmarkup", link |-> "url", box |-> "number",
             secret |-> "credential"]

S == INSTANCE QuerySelect WITH
        Alphabet <- <<" ", "#", ",", "-", "0", "1", "2", "a", "b">>,
        Zids <- 1 .. 3,
        IdString <- <<<<"0", "1">>, <<"0", "2">>, <<"1", "0">>>>,
        Zettel <- MCZettel,
        TypeOf <- MCTypeOf,
        Properties <- {"box"}

Ops == [neg : BOOLEAN, cmp : {"equal", "has", "prefix", "suffix", "match", "less", "greater"}]
Texts == {<<"a">>, <<"b">>, <<"a", "b">>, <<"b", "b">>, <<"a", "-", "b">>, <<"-">>, <<"#", "a">>, <<"a", ",", "b">>,
          <<"1">>, <<"0", "1">>, <<"0", "2">>, <<"2">>}
Values == [op : Ops, text : Texts]
NoTerm == [keys |-> [k \in {} |-> "exist"], mvals |-> [k \in {} |-> <<>>], search |-> <<>>]

TermQuestions ==
    [kind : {"term"}, term :
        {[NoTerm EXCEPT !.search = s] : s \in UNION {[1 .. n -> Values] : n \in 0 .. MaxSearches}}
        \cup {[NoTerm EXCEPT !.mvals = [k \in {key} |-> <<v>>]] : key \in DOMAIN MCTypeOf, v \in Values}
        \cup {[NoTerm EXCEPT !.mvals = [k \in {"role"} |-> <<v>>], !.keys = [k \in {key} |-> op]]
              : key \in {"role", "size"}, v \in Values, op \in {"exist", "notexist", "unknown"}}]

-----------------------------------------------------------------------------
(* Lists *)

R == INSTANCE QueryResult WITH
        Metas <- <<[a |-> 1], [a |-> 2, b |-> 1], [a |-> 1, b |-> 2], [b |-> 1]>>,
        Sorting <- [a |-> "value", b |-> "value", c |-> "id"]

Orders == {<<>>, <<[key |-> R!RandomKey, descending |-> FALSE]>>}
    \cup {<<[key |-> k, descending |-> d]>> : k \in {"a", "b", "c", "id"}, d \in BOOLEAN}
    \cup {<<[key |-> k1, descending |-> d], [key |-> k2, descending |-> ~d]>> : k1, k2 \in {"a", "b", "id"}, d \in BOOLEAN}

ListQuestions ==
    [kind : {"list"}, alternatives : {{{1, 3}, {2, 3, 4}}, {{3, 1}}, {{2, 3}, {4}}, {{}}}, allowed : {1 .. 4, {1, 2, 3}}, from : {<<>>, <<3, 1, 2>>},
     c : [query : {TRUE}, seed : {0, 1}, pick : {0, 2, 3}, order : Orders, offset : 0 .. 2, limit : 0 .. 2]]

Selected == R!SelectMeta(question.alternatives, question.allowed)
Listed(c) == IF question.from = <<>> THEN R!AfterSearch(Selected, c) ELSE R!Result(question.from, Selected, c)

-----------------------------------------------------------------------------
(* Sets: the sorted slices of some of four identifiers, and any slice       *)

I == INSTANCE IdSet
Sorted == {I!Nil} \cup {I!Set(SetToSortSeq(s, <)) : s \in SUBSET (1 .. 4)}
SetQuestions == [kind : {"sets"}, s : Sorted, o : Sorted, zid : 1 .. 4, slice : UNION {[1 .. n -> 1 .. 3] : n \in 0 .. 2}]
Combined(q) ==
    [union |-> I!IUnion(q.s, q.o), both |-> I!IntersectOrSet(q.s, q.o), without |-> I!ISubstract(q.s, q.o),
     diff |-> I!Diff(q.s, q.o), added |-> I!AddSlice(q.s, q.slice), removed |-> I!Remove(q.s, q.zid)]

-----------------------------------------------------------------------------
(* Asking *)

NoQuestion == [kind |-> "none"]
Asking ==
    /\ question \in TextQuestions \cup TermQuestions \cup ListQuestions \cup SetQuestions
    /\ answered = FALSE
    /\ pc = "done" /\ query = [zids |-> <<>>, directives |-> <<>>] /\ store = {} /\ todo = <<>> /\ rest = <<>>
    /\ list = <<>> /\ queue = {} /\ seen = {} /\ costs = <<>> /\ tagZids = <<>> /\ vanished = {}
Executing == Q!Init /\ question = NoQuestion /\ answered = TRUE
Init == (Asking \/ Executing) /\ answer = <<>>

Read == question.kind = "text" /\ answer' = <<T!Parse(question.spec)>>
Select == question.kind = "term" /\ answer' = <<S!SelectTerm(question.term, 1 .. 3)>>
MakeList == question.kind = "list" /\ answer' = <<Listed(question.c)>>
Combine == question.kind = "sets" /\ answer' = <<Combined(question)>>

Answer ==
    /\ ~answered /\ answered' = TRUE
    /\ UNCHANGED <<question, runVars>>
    /\ Read \/ Select \/ MakeList \/ Combine
Execute == question = NoQuestion /\ Q!Next /\ UNCHANGED askVars
MCSpec == Init /\ [][Answer \/ Execute]_<<askVars, runVars>> /\ WF_runVars(Q!Step /\ UNCHANGED askVars)

Asked(kind) == answered /\ question.kind = kind

-----------------------------------------------------------------------------
(* Properties of texts *)

Directives == {<<s>> : s \in {"CONTEXT", "FULL", "COST", "MAX", "IDENT", "ITEMS", "UNLINKED", "PHRASE", "OR", "RANDOM",
                              "ORDER", "REVERSE", "PICK", "LIMIT", "OFFSET", "BACKWARD", "FORWARD", "|"}}
(* A value of a full-text search that is printed as a directive, or as a    *)
(* term with a key or another operator: its own operator is not printed.    *)
Misread(val) ==
    LET w == T!PrintValue(<<>>, val) IN
    w \in Directives \/ Last(T!parseText(T!NoQuery, w).terms).search # <<val>>

(* What is printed of a query is read as the same query: Query.Print and    *)
(* Query.Parse agree on the place and the meaning of every part.  Excepted  *)
(* are values that the printed form confuses with something else.           *)
ReadsBack ==
    Asked("text") =>
        LET q == answer[1] IN
        (\A t \in ToSet(q.terms) : \A val \in ToSet(t.search) : ~Misread(val)) =>
            T!createIfNeeded(T!Parse(T!PrintQuery(q))) = T!createIfNeeded(q)

Independent(w1, w2) ==
    w1 \in {<<"t", "?">>, <<"t", "!", "?">>} /\ w2 \in {<<"t", "?">>, <<"t", "!", "?">>}
SwapWords(spec, i) == [spec EXCEPT ![i] = spec[i + 1], ![i + 1] = spec[i]]
SwapPairs(spec, i) == [spec EXCEPT ![i] = spec[i + 2], ![i + 1] = spec[i + 3], ![i + 2] = spec[i], ![i + 3] = spec[i + 1]]

(* It does not matter in which order a key is demanded and forbidden, nor   *)
(* in which order numbers above zero are given to PICK, LIMIT, OFFSET, COST *)
(* and MAX: the parser joins them.  Words of an action or a phrase are in   *)
(* order.                                                                   *)
OrderIsIrrelevant ==
    Asked("text") /\ {<<"|">>, <<"PHRASE">>, <<"ORDER">>} \cap ToSet(question.spec) = {} =>
        LET spec == question.spec IN
        /\ \A i \in 1 .. Len(spec) - 1 : Independent(spec[i], spec[i + 1]) => T!Parse(SwapWords(spec, i)) = answer[1]
        /\ \A i \in 1 .. Len(spec) - 3 :
              spec[i] \in Limits \cup Costs /\ spec[i + 2] \in Limits \cup Costs /\ spec[i + 1] \in Arguments /\ spec[i + 3] \in Arguments
              => T!Parse(SwapPairs(spec, i)) = answer[1]

(* The parser and the printer of queries understand each other.             *)
TextIsMeaning == ReadsBack /\ OrderIsIrrelevant

-----------------------------------------------------------------------------
(* Properties of selections *)

(* What the manual says a full-text search value finds. *)
FoundBy(v, z) ==
    LET Words1 == S!NormalizeWords(v.text) IN
    \/ Words1 # <<>> /\ \A w \in ToSet(Words1) : z \in S!Search([cmp |-> v.op.cmp, text |-> w])
    \/ z \in S!Search([cmp |-> v.op.cmp, text |-> v.text])
Wanted(t) == {z \in 1 .. 3 : S!matchMeta(t, z) /\ \A v \in ToSet(t.search) : v.op.neg # FoundBy(v, z)}

Plain(text) == S!NormalizeWords(text) = <<text>>
MayMatter(v1, v2) == v1 = v2 \/ ~(S!HasPart(v1.text, v2.text) \/ S!HasPart(v2.text, v1.text))

(* A search for single words none of which is part of another one finds the *)
(* zettel that contain all that are wanted and none that is not: leaving    *)
(* out calls, joining words and values, and nil sets do not change that.    *)
SearchIsExact ==
    Asked("term") =>
        LET search == ToSet(question.term.search)
            negated == {v \in search : v.op.neg}
        IN  (/\ \A v \in search : Plain(v.text)
             /\ \A v1, v2 \in search : MayMatter(v1, v2)
             /\ negated = search => \E v \in negated : S!Search([cmp |-> v.op.cmp, text |-> v.text]) # {})
            => answer[1] = {Wanted(question.term)}

(* A zettel whose metadata fulfil a single condition is in the result: the  *)
(* index, which is asked first to look at fewer zettel, does not lose it.   *)
(* It may lose it when the value has no letter or digit, is a timestamp in  *)
(* short form, or is to be compared as less or greater.                     *)
MetadataIsEnough ==
    Asked("term") /\ question.term.search = <<>> =>
        ((\A k \in DOMAIN question.term.mvals : \A v \in ToSet(question.term.mvals[k]) :
             /\ v.op.cmp \notin {"less", "greater"} /\ S!NormalizeWords(v.text) # <<>>
             /\ MCTypeOf[k] = "timestamp" => Len(v.text) = S!IdWidth)
         => answer[1] = {Wanted(question.term)})

(* A selection finds what it should, although the index is asked first.     *)
SelectionIsExact == SearchIsExact /\ MetadataIsEnough

-----------------------------------------------------------------------------
(* Properties of lists *)

TotalOrder(order) == order # <<>> /\ ~R!IsRandom(order)

(* With an order, the list is one list, and pages made with OFFSET and      *)
(* LIMIT are consecutive parts of it: none is lost, none comes twice.       *)
PagesAreParts ==
    Asked("list") /\ TotalOrder(question.c.order) /\ question.c.pick = 0 =>
        LET Ask(offset, limit) == Listed([question.c EXCEPT !.offset = offset, !.limit = limit])
            One(lists) == CHOOSE l \in lists : TRUE
            o == question.c.offset
            l == question.c.limit
        IN  /\ Cardinality(answer[1]) = 1
            /\ l > 0 => One(Ask(o, 0)) = One(answer[1]) \o One(Ask(o + l, 0))

(* Without OFFSET, as many are returned as are to be picked, or as many as  *)
(* the limit allows.                                                        *)
PickedSize ==
    Asked("list") /\ question.c.offset = 0 =>
        LET n == Cardinality(IF question.from = <<>> THEN Selected ELSE Selected \cap ToSet(question.from))
            bounds == {b \in {question.c.pick, question.c.limit} : b > 0}
        IN  \A l \in answer[1] : Len(l) = Min(bounds \cup {n}) /\ IsInjective(l)

(* Ordering, picking, offsets and limits lose nothing but what they should. *)
ListIsWhole == PagesAreParts /\ PickedSize

(* A query returns what it describes: selected with the help of the index,  *)
(* ordered, picked and cut.                                                 *)
ResultIsExact == SelectionIsExact /\ ListIsWhole

-----------------------------------------------------------------------------
(* Properties of sets *)

StrictlySorted(seq) == \A i \in 1 .. Len(seq) - 1 : seq[i] < seq[i + 1]

(* Whatever sets are merged in place, the slices stay sorted, without which *)
(* the binary search fails, and have the elements of the union, intersection*)
(* and differences; only intersecting with nil gives everything, and Diff   *)
(* says what makes the one set the other.                                   *)
SetsAreSets ==
    Asked("sets") =>
        LET a == answer[1]
            Of(s) == ToSet(s.seq)
            s == Of(question.s)
            o == Of(question.o)
        IN  /\ \A r \in {a.union, a.both, a.without, a.added, a.removed, a.diff.new, a.diff.rem} : StrictlySorted(r.seq)
            /\ Of(a.union) = s \cup o /\ Of(a.without) = s \ o
            /\ Of(a.both) = IF question.s.nil THEN o ELSE s \cap o
            /\ Of(a.added) = s \cup ToSet(question.slice) /\ Of(a.removed) = s \ {question.zid}
            /\ Of(a.diff.new) = o \ s /\ Of(a.diff.rem) = s \ o
            /\ I!Contains(question.s, question.zid) = (question.zid \in s)
            /\ I!ContainsOrNil(question.s, question.zid) = (question.s.nil \/ question.zid \in s)
=============================================================================
