----------------------------- MODULE QuerySelect -----------------------------
(***************************************************************************)
(* Which zettel a conjunction of search terms selects: the comparison with  *)
(* the metadata (query/select.go), the search in the index                  *)
(* (query/retrieve.go, box/manager/mapstore) and what the index contains    *)
(* (box/manager/indexer.go).                                                *)
(*                                                                          *)
(* A string is a sequence of characters: " " separates the words of a       *)
(* value, "," the alternatives of a search value; a word is indexed in      *)
(* pieces, cut at "-" and "#" too.  Letters are lower case.  An identifier has      *)
(* IdWidth digits.  The iteration over a Go map takes its entries in any    *)
(* order: where the order shows, there is a set of possible results.        *)
(***************************************************************************)
EXTENDS Integers
LOCAL INSTANCE Sequences
LOCAL INSTANCE SequencesExt

CONSTANTS
    Alphabet,   \* the characters, in their order
    Zids,       \* the zettel that are stored
    IdString,   \* Zids -> the digits of the identifier
    Zettel,     \* Zids -> [meta |-> [key -> string], text |-> set of words,
                \*         urls |-> set of strings, refs |-> set of zids]
    TypeOf,     \* key -> type of the values
    Properties  \* the keys that are computed and not stored

-----------------------------------------------------------------------------
(* Strings *)

Pos(c) == CHOOSE i \in DOMAIN Alphabet : Alphabet[i] = c
HasPrefix(s, t) == IsPrefix(t, s)
HasSuffix(s, t) == IsSuffix(t, s)
HasPart(s, t) == \E i \in 0 .. Len(s) - Len(t) : SubSeq(s, i + 1, i + Len(t)) = t
Less(s, t) ==
    \/ IsStrictPrefix(s, t)
    \/ \E i \in DOMAIN s \cap DOMAIN t :
          SubSeq(s, 1, i - 1) = SubSeq(t, 1, i - 1) /\ Pos(s[i]) < Pos(t[i])

RECURSIVE SplitAt(_, _)
SplitAt(s, seps) ==
    LET cuts == {i \in DOMAIN s : s[i] \in seps} IN
    IF cuts = {} THEN IF s = <<>> THEN <<>> ELSE <<s>>
    ELSE LET i == CHOOSE i \in cuts : \A j \in cuts : i <= j
         IN  (IF i = 1 THEN <<>> ELSE <<SubSeq(s, 1, i - 1)>>) \o SplitAt(SubSeq(s, i + 1, Len(s)), seps)

NormalizeWords(s) == SplitAt(s, {" ", "-", ",", "#"})
ListFromValue(s) == SplitAt(s, {" "})
IsNumber(s) == s # <<>> /\ \A i \in DOMAIN s : s[i] \in {"0", "1", "2"}
NumberOf(s) == FoldLeft(LAMBDA n, c : 10 * n + (CASE c = "0" -> 0 [] c = "1" -> 1 [] c = "2" -> 2), 0, s)

IdWidth == 2
Cut(s) == IF Len(s) > IdWidth THEN SubSeq(s, 1, IdWidth) ELSE s
(* The bound for less and greater is filled up with zeroes. *)
Filled(s) == s \o [i \in 1 .. IdWidth - Len(s) |-> "0"]
(* Short timestamps (a year, a month) become long ones. *)
ExpandTimestamp(s) == IF Len(s) = 1 THEN Append(s, "1") ELSE Cut(s)

-----------------------------------------------------------------------------
(* Search values: [op |-> [neg, cmp], text].  "has" depends on the type. *)

Disambiguate(type, cmp) ==
    IF cmp # "has" THEN cmp ELSE IF type = "string" THEN "match" ELSE "equal"
Compare(cmp, v, c) ==
    CASE cmp = "equal" -> v = c
      [] cmp = "prefix" -> HasPrefix(v, c)
      [] cmp = "suffix" -> HasSuffix(v, c)
      [] cmp = "match" -> HasPart(v, c)
      [] cmp = "less" -> Less(v, c)
      [] cmp = "greater" -> Less(c, v)
CompareNumber(cmp, v, c) ==
    CASE cmp = "equal" -> v = c [] cmp = "less" -> v < c [] cmp = "greater" -> v > c

IsOrder(cmp) == cmp \in {"less", "greater"}
CleanTag(s) == IF Len(s) > 1 /\ s[1] = "#" THEN Tail(s) ELSE s
TagsFromValue(s) == [i \in DOMAIN ListFromValue(s) |-> CleanTag(ListFromValue(s)[i])]
TagElements(text) == LET es == SplitAt(text, {","}) IN [i \in DOMAIN es |-> CleanTag(es[i])]

(* Does the value of a key fulfil one search value?  A negated operator      *)
(* demands that the comparison fails.                                       *)
Holds(val, cmp, v, c) == val.op.neg # Compare(cmp, v, c)

MatchWord(value, val, cmp) == Holds(val, cmp, value, val.text)
MatchID(value, val, cmp) ==
    LET text == Cut(val.text) IN
    Holds(val, cmp, value, IF IsOrder(cmp) /\ IsNumber(text) THEN Filled(text) ELSE text)
MatchTimestamp(value, val, cmp) == Holds(val, cmp, ExpandTimestamp(value), ExpandTimestamp(val.text))

(* What is not a number fulfils no comparison with a number. *)
ComparesNumber(val, cmp) == cmp \in {"equal", "less", "greater"} /\ IsNumber(val.text)
MatchNumber(value, val, cmp) ==
    IF ComparesNumber(val, cmp)
    THEN IsNumber(value) /\ val.op.neg # CompareNumber(cmp, NumberOf(value), NumberOf(val.text))
    ELSE MatchWord(value, val, cmp)

(* Every element of the search value must be (or must not be) among values. *)
MatchElements(values, elements, val, cmp) ==
    \A c \in ToSet(elements) : val.op.neg # \E v \in ToSet(values) : Compare(cmp, v, c)
MatchIDSet(value, val, cmp) == MatchElements(ListFromValue(value), SplitAt(val.text, {","}), val, cmp)
MatchTagSet(value, val, cmp) == MatchElements(TagsFromValue(value), TagElements(val.text), val, cmp)
MatchZmk(value, val, cmp) == MatchElements(NormalizeWords(value), NormalizeWords(val.text), val, cmp)

Fulfils(type, value, val) ==
    LET cmp == Disambiguate(type, val.op.cmp) IN
    CASE type = "credential" -> FALSE
      [] type = "id" -> MatchID(value, val, cmp)
      [] type = "ids" -> MatchIDSet(value, val, cmp)
      [] type = "timestamp" -> MatchTimestamp(value, val, cmp)
      [] type = "number" -> MatchNumber(value, val, cmp)
      [] type = "tags" -> MatchTagSet(value, val, cmp)
      [] type = "zettelmarkup" -> MatchZmk(value, val, cmp)
      [] OTHER -> MatchWord(value, val, cmp)

(* addSearch: what a positive search value demands of the index as well. *)
WithTexts(val, texts) == [i \in DOMAIN texts |-> [op |-> val.op, text |-> texts[i]]]
DemandedID(val, cmp) == IF IsOrder(cmp) /\ IsNumber(Cut(val.text)) THEN <<>> ELSE <<val>>
DemandedTimestamp(val, cmp) == IF IsOrder(cmp) /\ IsNumber(ExpandTimestamp(val.text)) THEN <<>> ELSE <<val>>
DemandedNumber(val, cmp) == IF ComparesNumber(val, cmp) THEN <<>> ELSE <<val>>
DemandedSet(elements, val, cmp) == IF IsOrder(cmp) THEN <<>> ELSE WithTexts(val, elements)

Demanded(type, val) ==
    LET cmp == Disambiguate(type, val.op.cmp) IN
    CASE val.op.neg \/ type = "credential" -> <<>>
      [] type = "id" -> DemandedID(val, cmp)
      [] type = "ids" -> DemandedSet(SplitAt(val.text, {","}), val, cmp)
      [] type = "timestamp" -> DemandedTimestamp(val, cmp)
      [] type = "number" -> DemandedNumber(val, cmp)
      [] type = "tags" -> DemandedSet(TagElements(val.text), val, cmp)
      [] type = "zettelmarkup" -> WithTexts(val, NormalizeWords(val.text))
      [] OTHER -> <<val>>

-----------------------------------------------------------------------------
(* compileMeta: a term is [keys, mvals, search] *)

Positive(vals) == \E v \in ToSet(vals) : ~v.op.neg

(* A key that is searched positively must exist. *)
MustExist(t) == {k \in DOMAIN t.mvals : Positive(t.mvals[k])} \cup {k \in DOMAIN t.keys : t.keys[k] # "notexist"}
MustNotExist(t) == {k \in DOMAIN t.keys : t.keys[k] # "exist"}

matchMeta(t, zid) ==
    LET meta == Zettel[zid].meta IN
    /\ MustExist(t) \cap MustNotExist(t) = {}
    /\ MustExist(t) \subseteq DOMAIN meta
    /\ MustNotExist(t) \cap DOMAIN meta = {}
    /\ \A k \in DOMAIN t.mvals : \A v \in ToSet(t.mvals[k]) :
          Fulfils(TypeOf[k], IF k \in DOMAIN meta THEN meta[k] ELSE <<>>, v)

Searches(t) ==
    LET keys == SetToSeq(DOMAIN t.mvals \ Properties)
        Of(k) == FlattenSeq([i \in DOMAIN t.mvals[k] |-> Demanded(TypeOf[k], t.mvals[k][i])])
    IN  IF MustExist(t) \cap MustNotExist(t) # {} THEN t.search
        ELSE t.search \o FlattenSeq([i \in DOMAIN keys |-> Of(keys[i])])

-----------------------------------------------------------------------------
(* The index *)

MetaWords(type, value) ==
    IF type \in {"id", "ids", "url"} THEN {}
    ELSE UNION {IF NormalizeWords(w) = <<>> THEN {w} ELSE ToSet(NormalizeWords(w))
                : w \in IF type = "tags" THEN ToSet(ListFromValue(value)) ELSE {value}}
Words(zid) ==
    UNION {ToSet(NormalizeWords(w)) : w \in Zettel[zid].text}
    \cup UNION {MetaWords(TypeOf[k], Zettel[zid].meta[k]) : k \in DOMAIN Zettel[zid].meta \ Properties}
Urls(zid) ==
    Zettel[zid].urls \cup {Zettel[zid].meta[k] : k \in {k \in DOMAIN Zettel[zid].meta : TypeOf[k] = "url"}}
References(zid) ==
    LET Values(k) == ToSet(ListFromValue(Zettel[zid].meta[k]))
        keys == {k \in DOMAIN Zettel[zid].meta \ Properties : TypeOf[k] \in {"id", "ids"}}
    IN  Zettel[zid].refs \cup {z \in Zids : \E k \in keys : IdString[z] \in Values(k)}

(* "has" searches for a substring, so do "less" and "greater". *)
IndexRelation(cmp, w, s) ==
    IF cmp \in {"equal", "prefix", "suffix"} THEN Compare(cmp, w, s) ELSE HasPart(w, s)
(* A number finds the zettel with such an identifier and who refers to it. *)
Search(call) ==
    {z \in Zids : \E w \in Words(z) \cup Urls(z) : IndexRelation(call.cmp, w, call.text)}
    \cup (IF ~IsNumber(call.text) /\ call # [cmp |-> "prefix", text |-> <<>>] THEN {}
          ELSE LET named == {z \in Zids : IndexRelation(call.cmp, IdString[z], call.text)}
               IN  named \cup {z \in Zids : References(z) \cap named # {}})

-----------------------------------------------------------------------------
(* retrieveIndex: calls are sets of [cmp, text] *)

(* searchCallMap.addSearch: a call that another one implies is left out. *)
RECURSIVE Scan(_, _, _)
Scan(rest, calls, call) ==
    IF rest = {} THEN {calls \cup {call}}
    ELSE UNION {IF call.cmp = "match" /\ HasPart(k.text, call.text) THEN {calls}
                ELSE IF call.cmp = "match" /\ HasPart(call.text, k.text) THEN {(calls \ {k}) \cup {call}}
                ELSE IF k.cmp # call.cmp THEN Scan(rest \ {k}, calls, call)
                ELSE IF IndexRelation(call.cmp, k.text, call.text) THEN {calls}
                ELSE Scan(rest \ {k}, IF IndexRelation(call.cmp, call.text, k.text) THEN calls \ {k} ELSE calls, call)
                : k \in rest}
AddAll(start, seq) ==
    FoldLeft(LAMBDA results, call : UNION {Scan(c, c, call) : c \in results}, start, seq)

Calls(search, neg, plain) ==
    LET chosen == SelectSeq(search, LAMBDA v : v.op.neg = neg)
        Of(v) == IF plain THEN <<[cmp |-> v.op.cmp, text |-> v.text]>>
                 ELSE [i \in DOMAIN NormalizeWords(v.text) |-> [cmp |-> v.op.cmp, text |-> NormalizeWords(v.text)[i]]]
    IN  FlattenSeq([i \in DOMAIN chosen |-> Of(chosen[i])])

Meet(calls) == {z \in Zids : \A c \in calls : z \in Search(c)}

(* The results of the calls for whole values are kept for the calls for     *)
(* words, but the first of them is the set the others are cut out of: what  *)
(* is kept of it is their intersection.  A set that is still nil after a    *)
(* union with nothing stands for no search at all: Nil.                     *)
Nil == [nil |-> TRUE, zids |-> {}]
Some(zids) == [nil |-> FALSE, zids |-> zids]
UnionWithNil(zids) == IF zids = {} THEN Nil ELSE Some(zids)

(* Mutant: it is enough to contain one of the words. *)
retrieveAny(norm, plain) ==
    {Some(UNION {Search(c) : c \in norm \cup plain})}

retrievePositives(norm, plain) ==
    IF plain \subseteq norm THEN IF norm = {} THEN {Nil} ELSE {Some(Meet(norm))}
    ELSE IF norm = {} THEN {UnionWithNil(Meet(plain))}
    ELSE UNION {IF first \in norm THEN {Some(Meet(plain) \cap Meet(norm)), Some(Meet(plain))}
                ELSE {Some(Meet(norm) \cup Meet(plain))} : first \in plain}
retrieveNegatives(neg) == UnionWithNil(UNION {Search(c) : c \in neg})

Conflict(norm, plain, neg) == neg \cap (norm \cup plain) # {}

(* nil contains everything: only after a positive search it is looked at.   *)
ContainsOrNil(set) == IF set.nil THEN Zids ELSE set.zids
Answer(pos, neg) ==
    IF pos.nil THEN Zids \ ContainsOrNil(neg)
    ELSE IF neg.nil THEN pos.zids ELSE pos.zids \ neg.zids

retrieveIndex(search) ==
    LET norms == AddAll({{}}, Calls(search, FALSE, FALSE))
        plains == AddAll({{}}, Calls(search, FALSE, TRUE))
        negs == AddAll(AddAll({{}}, Calls(search, TRUE, FALSE)), Calls(search, TRUE, TRUE))
    IN  IF search = <<>> THEN {Zids}
        ELSE UNION {IF Conflict(n, p, g) THEN {{}} ELSE {Answer(f, retrieveNegatives(g)) : f \in retrievePositives(n, p)}
                    : n \in norms, p \in plains, g \in negs}

(* retrieveAndCompileTerm, for a directive's result or all zettel *)
SelectTerm(t, start) ==
    {{z \in start \cap found : matchMeta(t, z)} : found \in retrieveIndex(Searches(t))}
=============================================================================
