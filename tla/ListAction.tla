------------------------------ MODULE ListAction ------------------------------
(***************************************************************************)
(* What is done with the zettel a query selected (its actions): a list, a   *)
(* list of words, a cloud of tags, the keys, a feed or a redirection, for   *)
(* pages and transclusions (evaluator/list.go, web/adapter/webui/lists.go)  *)
(* and for the API (web/adapter/api/query.go).                              *)
(*                                                                          *)
(* A zettel is [zid, and the list of values of each key it has]; an action  *)
(* is its name and, of "MIN" and "MAX", its number (0 if it is not a        *)
(* positive number). "TAGS" and "ROLE" name keys, "URL" a key of another    *)
(* type, "FOO" none, and "foo" none in small letters; "N" stands for each   *)
(* name that begins with this letter.                                       *)
(***************************************************************************)
EXTENDS Integers, Sequences, FiniteSets
LOCAL INSTANCE SequencesExt
LOCAL INSTANCE FiniteSetsExt

Action(a, n) == [a |-> a, n |-> n]
KeyOf(act) == CASE act.a = "TAGS" -> "tags" [] act.a = "ROLE" -> "role" [] act.a = "URL" -> "url" [] OTHER -> "none"
FirstOr(acts, P(_), none) == LET s == SelectSeq(acts, P) IN IF s = <<>> THEN none ELSE s[1]

(* TryReIndex: the first "REINDEX" is taken out when every zettel could be  *)
(* indexed anew; all of them are tried.                                     *)
TryReIndex(acts, ml, fails) ==
    LET at == SelectInSeq(acts, LAMBDA a : a.a = "REINDEX") IN
    [tried |-> IF at = 0 THEN <<>> ELSE [i \in DOMAIN ml |-> ml[i].zid],
     failed |-> at # 0 /\ \E i \in DOMAIN ml : ml[i].zid \in fails,
     acts |-> IF at = 0 THEN acts ELSE RemoveAt(acts, at)]

-----------------------------------------------------------------------------
(* meta.CreateArrangement, Counted: the zettel by the values of a key       *)
CreateArrangement(ml, key) ==
    LET vals(m) == IF key \in DOMAIN m THEN m[key] ELSE <<>>
        all == UNION {ToSet(vals(ml[i])) : i \in DOMAIN ml}
    IN  [v \in all |-> FlattenSeq([i \in DOMAIN ml |-> [j \in 1 .. Len(SelectSeq(vals(ml[i]), LAMBDA x : x = v)) |-> ml[i].zid]])]
KeysArrangement(ml) ==
    [k \in UNION {DOMAIN ml[i] \ {"zid"} : i \in DOMAIN ml} |->
        LET having == SelectSeq(ml, LAMBDA m : k \in DOMAIN m) IN [i \in DOMAIN having |-> having[i].zid]]
Counted(arr) == [v \in DOMAIN arr |-> Len(arr[v])]

(* limitTags: the counts that are within the limits, -1 being none          *)
Counts(ccs) == {ccs[v] : v \in DOMAIN ccs}
Only(ccs, P(_)) == [v \in {w \in DOMAIN ccs : P(ccs[w])} |-> ccs[v]]
limitTags(ccs, lo, hi) ==
    LET min == IF lo < 0 THEN Min(Counts(ccs)) ELSE lo
        max == IF hi < 0 THEN Max(Counts(ccs)) ELSE hi
    IN  IF (lo > 0 \/ hi > 0) /\ (Min(Counts(ccs)) < min \/ max < Max(Counts(ccs)))
        THEN Only(ccs, LAMBDA c : min <= c /\ c <= max) ELSE ccs

(* calcFontSizes: a size for each count; how many categories have a count   *)
(* is taken from the budget of a size. math.Round rounds halves up.         *)
fontSizes == 6
calcBudget(total, size) == (2 * total + (fontSizes - size)) \div (2 * (fontSizes - size))
calcFontSizes(ccs) ==
    LET all == Counts(ccs)
        counts == [i \in 1 .. Cardinality(all) |-> CHOOSE c \in all : Cardinality({d \in all : d <= c}) = i]
        number(i) == Cardinality({v \in DOMAIN ccs : ccs[v] = counts[i]})
        size[i \in 0 .. Len(counts)] ==     \* after i counts: the size, its budget and the categories left
            LET b == size[i - 1]
                left == b.total - number(i)
                next == b.size + 1
            IN  IF i = 0 THEN [size |-> 0, budget |-> calcBudget(Cardinality(DOMAIN ccs), 0), total |-> Cardinality(DOMAIN ccs)]
                ELSE CASE b.budget - number(i) >= 1 -> [b EXCEPT !.budget = @ - number(i), !.total = left]
                       [] b.budget - number(i) < 1 /\ next < fontSizes -> [size |-> next, budget |-> calcBudget(left, next), total |-> left]
                       [] OTHER -> [size |-> fontSizes, budget |-> 0, total |-> left]
        centered == (fontSizes - Len(counts)) \div 2
    IN  [c \in all |-> LET i == CHOOSE j \in DOMAIN counts : counts[j] = c IN
                               IF Len(counts) <= fontSizes THEN centered + i - 1 ELSE size[i - 1].size]

-----------------------------------------------------------------------------
Nothing == [kind |-> "nothing", items |-> <<>>, sizes |-> <<>>]
Answer(kind, items) == [Nothing EXCEPT !.kind = kind, !.items = items]
Zids(ml) == [i \in DOMAIN ml |-> ml[i].zid]

(* createBlockNodeMeta; "" stands for no key                                *)
createBlockNodeMeta(ml, key) ==
    IF ml = <<>> THEN Nothing ELSE Answer("list", Zids(SelectSeq(ml, LAMBDA m : key = "" \/ key \in DOMAIN m)))
createBlockNodeWord(ml, key) ==
    LET ccs == Counted(CreateArrangement(ml, key)) IN IF DOMAIN ccs = {} THEN Nothing ELSE Answer("words", ccs)
createBlockNodeTagSet(ml, key, lo, hi) ==
    LET ccs == Counted(CreateArrangement(ml, key))
        shown == limitTags(ccs, lo, hi)
    IN  IF DOMAIN ccs = {} THEN Nothing ELSE [Answer("cloud", shown) EXCEPT !.sizes = calcFontSizes(shown)]
createBlockNodeMetaKeys(ml) ==
    LET ccs == Counted(KeysArrangement(ml)) IN IF DOMAIN ccs = {} THEN Nothing ELSE Answer("keys", ccs)

LastNumber(acts, name) ==
    LET s == SelectSeq(acts, LAMBDA a : a.a = name /\ a.n > 0) IN IF s = <<>> THEN -1 ELSE s[Len(s)].n
IsLimit(act) == act.a \in {"MIN", "MAX"} /\ act.n > 0

(* QueryAction: of pages and transclusions; all after "TITLE" is the title. *)
QueryAction(ml, acts) ==
    LET at == SelectInSeq(acts, LAMBDA a : a.a = "TITLE")
        before == IF at \in 1 .. Len(acts) - 1 THEN SubSeq(acts, 1, at - 1) ELSE acts
        rest == SelectSeq(before, LAMBDA a : ~IsLimit(a) /\ a.a \notin {"NUMBERED", "N", "REINDEX"})
        deciding == FirstOr(rest, LAMBDA a : a.a \in {"ATOM", "RSS", "KEYS", "TAGS", "ROLE"}, Action("", 0))
        unknown == FirstOr(rest, LAMBDA a : TRUE, Action("", 0))
        having == createBlockNodeMeta(ml, IF unknown.a = "" THEN "" ELSE KeyOf(unknown))
    IN  CASE deciding.a \in {"ATOM", "RSS"} -> Answer("feed", Zids(ml))
          [] deciding.a = "KEYS" -> createBlockNodeMetaKeys(ml)
          [] deciding.a = "ROLE" -> createBlockNodeWord(ml, "role")
          [] deciding.a = "TAGS" -> createBlockNodeTagSet(ml, "tags", LastNumber(before, "MIN"), LastNumber(before, "MAX"))
          [] deciding.a = "" /\ having.kind = "list" /\ having.items = <<>> /\ unknown.a # "foo" -> createBlockNodeMeta(ml, "")
          [] OTHER -> having

(* Mutant: the limits are not applied.                                      *)
queryActionLoose(ml, acts) ==
    LET deciding == FirstOr(acts, LAMBDA a : a.a \in {"KEYS", "TAGS", "ROLE"}, Action("", 0))
        arr == CreateArrangement(ml, KeyOf(deciding))
    IN  CASE deciding.a = "KEYS" -> Answer("arrangement", KeysArrangement(ml))
          [] deciding.a \in {"TAGS", "ROLE"} -> Answer("arrangement", arr)
          [] OTHER -> Answer("list", Zids(ml))
(* queryAction of the API; encodeMetaKeyArrangement, encodeKeysArrangement  *)
queryAction(ml, acts) ==
    LET deciding == FirstOr(acts, LAMBDA a : a.a \in {"KEYS", "TAGS", "ROLE"}, Action("", 0))
        lo == LastNumber(acts, "MIN")
        hi == LastNumber(acts, "MAX")
        arr == CreateArrangement(ml, KeyOf(deciding))
        shown == {v \in DOMAIN arr : Len(arr[v]) >= lo /\ ~(hi > 0 /\ Len(arr[v]) > hi)}
    IN  CASE deciding.a = "KEYS" -> Answer("arrangement", KeysArrangement(ml))
          [] deciding.a \in {"TAGS", "ROLE"} -> Answer("arrangement", [v \in shown |-> arr[v]])
          [] OTHER -> Answer("list", Zids(ml))

(* The handlers: of a page, after MakeListHTMLMetaHandler, and of the API   *)
Redirects(ml, acts) == ml # <<>> /\ \E i \in DOMAIN acts : acts[i].a = "REDIRECT"
ListPage(ml, acts, fails) ==
    LET r == TryReIndex(acts, ml, fails) IN
    CASE r.failed -> Answer("error", <<>>)
      [] ~r.failed /\ Redirects(ml, r.acts) -> Answer("redirect", <<ml[1].zid>>)
      [] ~r.failed /\ ~Redirects(ml, r.acts) /\ r.acts # <<>> /\ r.acts[1].a \in {"ATOM", "RSS"} -> Answer("feed", Zids(ml))
      [] OTHER -> QueryAction(ml, acts)
ListAPI(ml, acts, fails) ==
    LET r == TryReIndex(acts, ml, fails) IN
    CASE r.failed -> Answer("error", <<>>)
      [] ~r.failed /\ Redirects(ml, r.acts) -> Answer("redirect", <<ml[1].zid>>)
      [] OTHER -> queryAction(ml, r.acts)
=============================================================================
