------------------------------ MODULE QueryText ------------------------------
(***************************************************************************)
(* How a query is read from its text and printed again (package query).     *)
(*                                                                          *)
(* A text is the sequence of its words; "|" is a word wherever it stands,   *)
(* because every scanner of the parser stops at it.  A word is the sequence *)
(* of its symbols: directives, operator characters, numbers and names.  A   *)
(* symbol of Keys may be (a part of) a metadata key, one of Digits is a     *)
(* number.  The query that does not exist (nil) has no terms: any other has *)
(* at least one.                                                            *)
(***************************************************************************)
EXTENDS Integers
LOCAL INSTANCE Sequences
LOCAL INSTANCE SequencesExt

CONSTANTS
    Keys,       \* the symbols of [-0-9a-z]: what metadata keys consist of
    KeyOrder,   \* the keys that occur, in the order of the alphabet
    MaxZid      \* the largest zettel identifier

-----------------------------------------------------------------------------
(* Numbers: "00001" stands for the fourteen digits of an identifier *)

Digits == {"0", "1", "2", "00001", "00002"}
Number(s) == CASE s = "0" -> 0 [] s \in {"1", "00001"} -> 1 [] s \in {"2", "00002"} -> 2
Decimal(n) == CASE n = 0 -> "0" [] n = 1 -> "1" [] n = 2 -> "2"
ZidString(n) == CASE n = 1 -> "00001" [] n = 2 -> "00002"

-----------------------------------------------------------------------------
(* Operators *)

OpOf == [c \in {"?", "=", ":", "[", "]", "~", "<", ">"} |->
    CASE c = "?" -> "exist" [] c = "=" -> "equal" [] c = ":" -> "has" [] c = "[" -> "prefix"
      [] c = "]" -> "suffix" [] c = "~" -> "match" [] c = "<" -> "less" [] c = ">" -> "greater"]
OpChars == DOMAIN OpOf \cup {"!"}
Spelling(op) ==
    LET Char(name) == CHOOSE c \in DOMAIN OpOf : OpOf[c] = name
    IN  IF op.neg THEN <<"!", Char(op.cmp)>> ELSE <<Char(op.cmp)>>
Op(neg, cmp) == [neg |-> neg, cmp |-> cmp]
Match == Op(FALSE, "match")
Unknown == Op(FALSE, "unknown")

-----------------------------------------------------------------------------
(* Queries *)

NoContext == [kind |-> "CONTEXT", full |-> FALSE, direction |-> "both", cost |-> 0, count |-> 0]
NoTerm == [keys |-> <<>>, mvals |-> <<>>, search |-> <<>>]
NoQuery == [zids |-> <<>>, directives |-> <<>>, terms |-> <<>>, pick |-> 0, order |-> <<>>,
            offset |-> 0, limit |-> 0, actions |-> <<>>]

createIfNeeded(q) == IF q.terms = <<>> THEN [q EXCEPT !.terms = <<NoTerm>>] ELSE q
IsEmptyTerm(t) == t = NoTerm

(* Functions of keys start as the empty sequence: the empty function. *)
Put(f, key, val) == [k \in DOMAIN f \cup {key} |-> IF k = key THEN val ELSE f[k]]
At(f, key) == IF key \in DOMAIN f THEN f[key] ELSE <<>>

(* A key that must exist and must not exist makes the term unsatisfiable. *)
addKey(t, key, op) ==
    [t EXCEPT !.keys = Put(@, key, IF key \in DOMAIN @ /\ @[key] # op THEN Unknown ELSE op)]
addSearch(t, val) == [t EXCEPT !.search = Append(@, val)]
addValue(t, key, val) == [t EXCEPT !.mvals = Put(@, key, Append(At(@, key), val))]
ToLast(q, t) == [q EXCEPT !.terms = Append(Front(@), t)]

-----------------------------------------------------------------------------
(* Reading a word *)

(* What stands at position i of a word: an operator and the position after *)
(* it; "!" alone is the negated match.                                      *)
scanSearchOp(w, i) ==
    LET neg == i <= Len(w) /\ w[i] = "!"
        j == IF neg THEN i + 1 ELSE i
    IN  IF j <= Len(w) /\ w[j] \in DOMAIN OpOf THEN [found |-> TRUE, op |-> Op(neg, OpOf[w[j]]), next |-> j + 1]
        ELSE [found |-> neg, op |-> Op(TRUE, "match"), next |-> j]

Rest(w, i) == SubSeq(w, i, Len(w))
KeyIsValid(w) == w # <<>> /\ \A i \in DOMAIN w : w[i] \in Keys

(* The number of symbols before the first operator character, when they are *)
(* a metadata key; 0 otherwise.                                             *)
KeyLength(w) ==
    LET ops == {i \in DOMAIN w : w[i] \in OpChars} IN
    IF ops = {} THEN 0
    ELSE LET first == CHOOSE i \in ops : \A j \in ops : i <= j
         IN  IF KeyIsValid(SubSeq(w, 1, first - 1)) THEN first - 1 ELSE 0

IsExist(op) == op.cmp = "exist"

parseText(q, w) ==
    LET start == scanSearchOp(w, 1)
        hasOp == start.found /\ ~IsExist(start.op)
        n == IF hasOp THEN 0 ELSE KeyLength(w)
        key == SubSeq(w, 1, n)
        after == scanSearchOp(w, n + 1)
        q1 == createIfNeeded(q)
        t == Last(q1.terms)
        Found(op, text) == ToLast(q1, addSearch(t, [op |-> op, text |-> text]))
    IN  IF n > 0
        THEN IF IsExist(after.op)
             THEN IF after.next > Len(w) THEN ToLast(q1, addKey(t, key, after.op)) ELSE Found(Match, w)
             ELSE ToLast(q1, addValue(t, key, [op |-> after.op, text |-> Rest(w, after.next)]))
        ELSE IF hasOp
             THEN IF start.next > Len(w) THEN q ELSE Found(start.op, Rest(w, start.next))
             ELSE Found(Match, w)

-----------------------------------------------------------------------------
(* Directives: what is read from position i of the words ws *)

IsWord(ws, i, s) == i <= Len(ws) /\ ws[i] = <<s>>
HasInt(ws, i) == i <= Len(ws) /\ Len(ws[i]) = 1 /\ ws[i][1] \in Digits
IntAt(ws, i) == Number(ws[i][1])
IsKw(ws, i, s) == IsWord(ws, i, s) /\ HasInt(ws, i + 1)
IsZid(ws, i) == HasInt(ws, i) /\ IntAt(ws, i) \in 1 .. MaxZid
AtSep(ws, i) == IsWord(ws, i, "|")

(* The smaller of the numbers given; 0 stands for none. *)
Lower(old, new) == IF old = 0 \/ old >= new THEN new ELSE old
Higher(old, new) == IF old <= new THEN new ELSE old

RECURSIVE scanZids(_, _, _)
scanZids(ws, i, zids) ==
    IF ~IsZid(ws, i) THEN [next |-> i, zids |-> zids]
    ELSE IF i = Len(ws) THEN [next |-> i + 1, zids |-> <<>>]
    ELSE LET zid == IntAt(ws, i)
         IN  scanZids(ws, i + 1, IF zid \in ToSet(zids) THEN zids ELSE Append(zids, zid))

RECURSIVE parseContext(_, _, _)
parseContext(ws, i, spec) ==
    CASE IsWord(ws, i, "FULL") -> parseContext(ws, i + 1, [spec EXCEPT !.full = TRUE])
      [] IsWord(ws, i, "BACKWARD") -> parseContext(ws, i + 1, [spec EXCEPT !.direction = "backward"])
      [] IsWord(ws, i, "FORWARD") -> parseContext(ws, i + 1, [spec EXCEPT !.direction = "forward"])
      [] IsKw(ws, i, "COST") -> parseContext(ws, i + 2, [spec EXCEPT !.cost = Lower(@, IntAt(ws, i + 1))])
      [] IsKw(ws, i, "MAX") -> parseContext(ws, i + 2, [spec EXCEPT !.count = Lower(@, IntAt(ws, i + 1))])
      [] OTHER -> [next |-> i, spec |-> spec]

RECURSIVE parseUnlinked(_, _, _)
parseUnlinked(ws, i, words) ==
    IF IsWord(ws, i, "PHRASE") /\ i < Len(ws) /\ ~AtSep(ws, i + 1)
    THEN parseUnlinked(ws, i + 2, Append(words, ws[i + 1]))
    ELSE [next |-> i, spec |-> [kind |-> "UNLINKED", words |-> words]]

RECURSIVE parseDirectives(_, _, _)
parseDirectives(ws, i, q) ==
    LET Add(spec) == [createIfNeeded(q) EXCEPT !.directives = Append(@, spec)]
        hasContext == \E d \in ToSet(q.directives) : d.kind = "CONTEXT"
    IN  IF IsWord(ws, i, "CONTEXT")
        THEN IF hasContext THEN [next |-> i, q |-> q]
             ELSE LET c == parseContext(ws, i + 1, NoContext) IN parseDirectives(ws, c.next, Add(c.spec))
        ELSE IF q.zids = <<>> THEN [next |-> i, q |-> q]
        ELSE IF IsWord(ws, i, "IDENT") \/ IsWord(ws, i, "ITEMS")
             THEN parseDirectives(ws, i + 1, Add([kind |-> ws[i][1]]))
        ELSE IF IsWord(ws, i, "UNLINKED")
             THEN LET u == parseUnlinked(ws, i + 1, <<>>) IN parseDirectives(ws, u.next, Add(u.spec))
        ELSE [next |-> i, q |-> q]

IsRandom(o) == o.key = <<>>

(* ORDER, perhaps REVERSE, and a key: the key and the position after it. *)
OrderAt(ws, i) ==
    LET reverse == IsWord(ws, i + 1, "REVERSE") /\ i + 1 < Len(ws) /\ ~AtSep(ws, i + 2)
        j == IF reverse THEN i + 2 ELSE i + 1
    IN  [found |-> IsWord(ws, i, "ORDER") /\ j <= Len(ws) /\ KeyIsValid(ws[j]),
         next |-> j + 1, reverse |-> reverse, at |-> j]

parseOrder(q, order) ==
    [q EXCEPT !.order = Append(IF Len(@) = 1 /\ IsRandom(@[1]) THEN <<>> ELSE @, order)]

(* Words up to the next "|": what follows that is ignored. *)
parseActions(ws, i) ==
    LET seps == {j \in i .. Len(ws) : AtSep(ws, j)}
        end == IF seps = {} THEN Len(ws) ELSE (CHOOSE j \in seps : \A k \in seps : j <= k) - 1
    IN  SubSeq(ws, i, end)

RECURSIVE parseTerms(_, _, _)
parseTerms(ws, i, q) ==
    LET q1 == createIfNeeded(q)
        order == OrderAt(ws, i)
        n == IntAt(ws, i + 1)
    IN  IF i > Len(ws) THEN q
        ELSE IF IsWord(ws, i, "OR")
             THEN parseTerms(ws, i + 1, IF IsEmptyTerm(Last(q1.terms)) THEN q1 ELSE [q1 EXCEPT !.terms = Append(@, NoTerm)])
        ELSE IF IsWord(ws, i, "RANDOM")
             THEN parseTerms(ws, i + 1, [q1 EXCEPT !.order = IF @ = <<>> THEN <<[key |-> <<>>, descending |-> FALSE]>> ELSE @])
        ELSE IF IsKw(ws, i, "PICK") THEN parseTerms(ws, i + 2, [q1 EXCEPT !.pick = Lower(@, n)])
        ELSE IF order.found
             THEN parseTerms(ws, order.next, parseOrder(q1, [key |-> ws[order.at], descending |-> order.reverse]))
        ELSE IF IsKw(ws, i, "OFFSET") THEN parseTerms(ws, i + 2, [q1 EXCEPT !.offset = Higher(@, n)])
        ELSE IF IsKw(ws, i, "LIMIT") THEN parseTerms(ws, i + 2, [q1 EXCEPT !.limit = Lower(@, n)])
        ELSE IF AtSep(ws, i)
             THEN LET words == parseActions(ws, i + 1)
                  IN  IF words = <<>> THEN q ELSE [q1 EXCEPT !.actions = words]
        ELSE parseTerms(ws, i + 1, parseText(q, ws[i]))

RECURSIVE trimTerms(_)
trimTerms(q) ==
    IF Len(q.terms) > 1 /\ IsEmptyTerm(Last(q.terms)) THEN trimTerms([q EXCEPT !.terms = Front(@)]) ELSE q

(* Without a directive the identifiers are read again, as words to search. *)
Parse(ws) ==
    LET z == scanZids(ws, 1, <<>>)
        q0 == IF z.next > 1 THEN createIfNeeded([NoQuery EXCEPT !.zids = z.zids]) ELSE NoQuery
        d == parseDirectives(ws, z.next, q0)
    IN  trimTerms(IF d.q.directives = <<>> THEN parseTerms(ws, 1, [d.q EXCEPT !.zids = <<>>])
                  ELSE parseTerms(ws, d.next, d.q))

-----------------------------------------------------------------------------
(* Printing: Keys are printed in their order *)

PrintInt(kw, n) == IF n > 0 THEN <<<<kw>>, <<Decimal(n)>>>> ELSE <<>>
SortedKeys(f) == SelectSeq(KeyOrder, LAMBDA k : k \in DOMAIN f)

PrintDirective(d) ==
    CASE d.kind = "CONTEXT" ->
            <<<<"CONTEXT">>>> \o (IF d.full THEN <<<<"FULL">>>> ELSE <<>>)
            \o (CASE d.direction = "backward" -> <<<<"BACKWARD">>>> [] d.direction = "forward" -> <<<<"FORWARD">>>> [] OTHER -> <<>>)
            \o PrintInt("COST", d.cost) \o PrintInt("MAX", d.count)
      [] d.kind = "UNLINKED" ->
            <<<<"UNLINKED">>>> \o FlattenSeq([i \in DOMAIN d.words |-> <<<<"PHRASE">>, d.words[i]>>])
      [] OTHER -> <<<<d.kind>>>>

PrintKey(key, op) ==
    IF op = Unknown THEN <<key \o <<"?">>, key \o <<"!", "?">>>> ELSE <<key \o Spelling(op)>>

(* Mutant: it is not written after a key either. *)
PrintValueShort(key, val) ==
    key \o (IF val.op = Match THEN <<>>
            ELSE IF val.op = Op(TRUE, "match") THEN <<"!">> ELSE Spelling(val.op)) \o val.text
(* The match operator of a full-text search need not be written. *)
PrintValue(key, val) ==
    key \o (IF key # <<>> THEN Spelling(val.op)
            ELSE IF val.op = Match THEN <<>>
            ELSE IF val.op = Op(TRUE, "match") THEN <<"!">> ELSE Spelling(val.op)) \o val.text
PrintValues(key, vals) == [i \in DOMAIN vals |-> PrintValue(key, vals[i])]

PrintTerm(t) ==
    FlattenSeq([i \in DOMAIN SortedKeys(t.keys) |-> PrintKey(SortedKeys(t.keys)[i], t.keys[SortedKeys(t.keys)[i]])])
    \o FlattenSeq([i \in DOMAIN SortedKeys(t.mvals) |-> PrintValues(SortedKeys(t.mvals)[i], t.mvals[SortedKeys(t.mvals)[i]])])
    \o PrintValues(<<>>, t.search)

PrintOrder(o) ==
    IF IsRandom(o) THEN <<<<"RANDOM">>>>
    ELSE <<<<"ORDER">>>> \o (IF o.descending THEN <<<<"REVERSE">>>> ELSE <<>>) \o <<o.key>>

PrintQuery(q) ==
    [i \in DOMAIN q.zids |-> <<ZidString(q.zids[i])>>]
    \o FlattenSeq([i \in DOMAIN q.directives |-> PrintDirective(q.directives[i])])
    \o FlattenSeq([i \in DOMAIN q.terms |-> (IF i > 1 THEN <<<<"OR">>>> ELSE <<>>) \o PrintTerm(q.terms[i])])
    \o PrintInt("PICK", q.pick)
    \o FlattenSeq([i \in DOMAIN q.order |-> PrintOrder(q.order[i])])
    \o PrintInt("OFFSET", q.offset) \o PrintInt("LIMIT", q.limit)
    \o (IF q.actions = <<>> THEN <<>> ELSE <<<<"|">>>> \o q.actions)
=============================================================================
