------------------------------ MODULE MCEvaluator ------------------------------
(***************************************************************************)
(* What becomes of a text.  The questions of MCMarkup are about reading and *)
(* writing it.  Here it is evaluated: zettel A, with what A, B and C contain, *)
(* what state B and C are in and how many transclusions are allowed.  Two   *)
(* more questions are about query actions: what a page and the API show for *)
(* a list of zettel, and the sizes tags are shown in.                       *)
(***************************************************************************)
EXTENDS MCMarkup
LOCAL INSTANCE SequencesExt

CONSTANTS MaxElements, Limits       \* elements in A; values of max-transclusions

VARIABLES zettel, maxTransclusions, kind, found
worldVars == <<zettel, maxTransclusions, kind, found>>
vars == <<questionVars, worldVars>>

E == INSTANCE Evaluator
L == INSTANCE ListAction

Ref(z, f) == [state |-> "zettel", zid |-> z, frag |-> f]
To(state) == [E!NoRef EXCEPT !.state = state]
Trans(ref) == [E!Node("trans") EXCEPT !.ref = ref]
Embed(ref) == [E!Node("embed") EXCEPT !.ref = ref]
Link(z) == [E!Node("link") EXCEPT !.ref = Ref(z, "")]
Mark(f, ins) == [E!Node("mark") EXCEPT !.frag = f, !.ins = ins]
Heading(f) == [E!Node("heading") EXCEPT !.frag = f, !.ins = <<E!Text("heading")>>]
Within(k, bs) == [E!Node(k) EXCEPT !.sub = bs]
InPlace(ins) == [E!Node("lzettel") EXCEPT !.ins = ins]
Text(z) == E!Para(<<E!Text(z)>>)

(* What may be in zettel z, for each kind of question                       *)
Elements(k, z) ==
    CASE k = "blocks" -> {Text(z), Trans(Ref("A", "")), Trans(Ref("B", "")), Trans(Ref("C", "")),
                          Within("vzettel", <<Trans(Ref("C", "")), Text(z)>>), Within("region", <<Trans(Ref("B", "")), Text(z)>>)}
      [] k = "texts" -> {Text(z), E!Para(<<Embed(Ref("B", ""))>>), E!Para(<<Embed(Ref("C", "")), E!Text(z)>>), E!Para(<<Embed(Ref("A", ""))>>),
                         E!Para(<<InPlace(<<Embed(Ref("C", ""))>>), E!Text(z)>>), Trans(Ref("C", ""))}
      [] k = "parts" -> {Text(z), Heading("f"), E!Para(<<Embed(Ref("B", "f"))>>), E!Para(<<Embed(Ref("C", "f")), Embed(Ref("C", ""))>>),
                         E!Para(<<E!Text(z), Mark("f", <<E!Text("m")>>), E!Node("break"), E!Text(z)>>), Trans(Ref("C", ""))}
      [] k = "others" -> {Text(z), E!Para(<<Link("B"), Link("C")>>), E!Para(<<Embed(To("self")), Embed(To("file")), Embed(To("invalid"))>>),
                          E!Para(<<Embed(To("query")), Embed(To("external")), InPlace(<<>>)>>),
                          Trans(To("query")), Within("region", <<Trans(To("self")), Trans(To("file")), Trans(To("invalid")), Trans(To("external"))>>)}
Kinds == {"blocks", "texts", "parts", "others"}
Upto(n, S) == UNION {[1 .. i -> S] : i \in 0 .. n}
Statuses == {"text", "hidden", "missing", "image", "other"}
Zettel(status, blocks) == [status |-> status, blocks |-> blocks]
Worlds(k) ==
    {[z \in {"A", "B", "C"} |-> CASE z = "A" -> Zettel("text", a)
                                  [] z = "B" -> Zettel("text", b)
                                  [] z = "C" -> Zettel(st, IF st = "text" THEN c ELSE <<E!Node("blob")>>)]
       : a \in Upto(MaxElements, Elements(k, "A")), b \in Upto(2, Elements(k, "B")), c \in Upto(1, Elements(k, "C")), st \in Statuses}

NoZettel == [z \in {"A", "B", "C"} |-> Zettel("text", <<>>)]
InitEvaluate ==
    /\ kind \in Kinds
    /\ zettel \in Worlds(kind)
    /\ maxTransclusions \in Limits
    /\ found = <<>>

(* What a query found, the actions, and the zettel that cannot be indexed   *)
Metas(z) == {[zid |-> z, tags |-> <<"a">>, role |-> <<"x">>], [zid |-> z, tags |-> <<"a", "b">>],
             [zid |-> z, tags |-> <<"b">>, url |-> <<"u">>], [zid |-> z, role |-> <<"y">>, url |-> <<"u">>]}
Lists == {<<>>} \cup {<<m1>> : m1 \in Metas(1)} \cup {<<m1, m2>> : m1 \in Metas(1), m2 \in Metas(2)}
                \cup {<<m1, m2, m3>> : m1 \in Metas(1), m2 \in Metas(2), m3 \in Metas(3)}
Limiting == {L!Action("MIN", 2), L!Action("MIN", 0), L!Action("MAX", 1), L!Action("MAX", 2), L!Action("TAGS", 0)}
Actions == Limiting \cup {L!Action(a, 0) : a \in {"ROLE", "URL", "FOO", "foo", "N", "TITLE", "REINDEX", "ATOM", "KEYS", "REDIRECT"}}
Found(ml, acts, fails) == [ml |-> ml, acts |-> acts, fails |-> fails]
InitList ==
    /\ kind = "list"
    /\ zettel = NoZettel /\ maxTransclusions = 0
    /\ found \in {Found(ml, acts, fails) : ml \in Lists, acts \in Upto(2, Actions) \cup Upto(3, Limiting), fails \in {{}, {2}}}

(* How many tags have the counts 1, 2, ...                                  *)
InitSizes ==
    /\ kind = "sizes"
    /\ zettel = NoZettel /\ maxTransclusions = 0
    /\ found \in Upto(8, 1 .. 3)
Tags == [t \in UNION {{c} \X (1 .. found[c]) : c \in DOMAIN found} |-> t[1]]

(* Every question is answered in one step: the properties say what the       *)
(* answer is like.                                                          *)
Init ==
    /\ answered = FALSE
    /\ \/ question = NoQuestion /\ (InitEvaluate \/ InitList \/ InitSizes)
       \/ /\ InitMarkup
          /\ kind = "none" /\ zettel = NoZettel /\ maxTransclusions = 0 /\ found = <<>>
Next == ~answered /\ answered' = TRUE /\ UNCHANGED <<question, worldVars>>
Spec == Init /\ [][Next]_vars

-----------------------------------------------------------------------------
(* The elements of a tree, and what of the zettel a zettel uses             *)
RECURSIVE Nodes(_)
Nodes(ns) == ToSet(ns) \cup UNION {Nodes(ns[i].ins) \cup Nodes(ns[i].sub) : i \in DOMAIN ns}
Uses == [z \in DOMAIN zettel |-> {n.ref.zid : n \in {m \in Nodes(zettel[z].blocks) : m.k \in {"trans", "embed"} /\ m.ref.state = "zettel"}}]
RECURSIVE Reached(_, _)
Reached(S, n) == IF n = 0 THEN S ELSE Reached(S \cup UNION {Uses[z] : z \in S}, n - 1)
From(S) == Reached(S, Cardinality(DOMAIN zettel))
NoCycle == \A z \in From({"A"}) : z \notin From(Uses[z])
ErrorsIn(ns) == {n.a : n \in {m \in Nodes(ns) : m.k = "error"}}
Errors(answer) == ErrorsIn(answer.ns)
EveryError(answer) == Errors(answer) \cup UNION {ErrorsIn(answer.e.cost[z].blocks) : z \in DOMAIN answer.e.cost}
LimitMet(answer) == "many" \in EveryError(answer)

(* What the zettel contains, as the manual describes it: every element that *)
(* names a zettel replaced by what that zettel contains                     *)
RECURSIVE Expanded(_), ExpandedText(_)
Inside(bs) == FlattenSeq([i \in DOMAIN bs |-> Expanded(bs[i])])
Inline(ins) == FlattenSeq([i \in DOMAIN ins |-> ExpandedText(ins[i])])
ExpandedText(n) ==
    LET status == zettel[n.ref.zid].status
        text == E!findInlineSlice(Inside(zettel[n.ref.zid].blocks), n.ref.frag)
        nonEmpty(t) == IF t = <<>> THEN <<E!NothingToTransclude>> ELSE t
    IN  CASE n.k = "lzettel" -> nonEmpty(Inline(n.ins))
          [] n.k = "embed" /\ n.ref.state = "zettel" /\ status = "text" -> nonEmpty(text)
          [] OTHER -> E!evalInline([n EXCEPT !.ins = Inline(@)], E!Fresh).ns
Expanded(n) ==
    CASE n.k = "vzettel" -> Inside(n.sub)
      [] n.k = "trans" /\ n.ref.state = "zettel" /\ zettel[n.ref.zid].status \notin {"hidden", "missing"} -> Inside(zettel[n.ref.zid].blocks)
      [] n.k = "trans" /\ (n.ref.state = "zettel" => zettel[n.ref.zid].status \in {"hidden", "missing"}) -> E!evalTransclusionNode(n, E!Fresh).ns
      [] OTHER -> <<[n EXCEPT !.sub = Inside(@), !.ins = Inline(@)]>>

(* Where no zettel contains itself and the limit is not met, the result is  *)
(* what the zettel contains: an evaluation that is used again, a text that  *)
(* is found again and the places of elements that were replaced by several  *)
(* or by none change nothing.                                               *)
ResultIsExpansion(answer) == NoCycle /\ ~LimitMet(answer) => answer.ns = Inside(zettel["A"].blocks)

(* A zettel that contains itself, over transclusions, embeddings or both, is *)
(* reported in the tree of a zettel on the way, unless the limit ended the   *)
(* search for it; evaluation ends in any case.  Who sees the result is told  *)
(* of it where zettel are transcluded as a whole; of an embedded one only    *)
(* the text is shown that was searched for, with the report or without.      *)
CycleIsReported(answer) ==
    ~NoCycle =>
        /\ kind = "blocks" => Errors(answer) \cap {"recursive", "many"} # {}
        /\ EveryError(answer) \cap {"recursive", "many"} # {}
NoFalseAlarm(answer) == NoCycle => "recursive" \notin EveryError(answer)

(* A zettel that contains itself is reported, and no other one.             *)
CyclesAreReported ==
    [][(kind \in Kinds) => LET answer == E!EvaluateZettel("A") IN CycleIsReported(answer) /\ NoFalseAlarm(answer)]_vars

(* Nothing that names a zettel is left over.                                *)
NothingIsLeft(answer) ==
    \A n \in Nodes(answer.ns) :
        /\ n.k \notin {"vzettel", "lzettel"}
        /\ n.k \in {"trans", "embed"} => n.ref.state = "external"

(* All is replaced, and by what the zettel contain.                         *)
AllIsExpanded ==
    [][(kind \in Kinds) => LET answer == E!EvaluateZettel("A") IN ResultIsExpansion(answer) /\ NothingIsLeft(answer)]_vars

(* The limit holds between the ends of two evaluations: what is put in is   *)
(* bounded by the limit and the number of the zettel.                       *)
LimitHolds ==
    [][(kind \in Kinds) => LET e == E!EvaluateZettel("A").e IN
                         e.steps <= (maxTransclusions + 1) * (Cardinality(DOMAIN e.cost) + 1)]_vars

-----------------------------------------------------------------------------
Shown == [page |-> L!ListPage(found.ml, found.acts, found.fails), api |-> L!ListAPI(found.ml, found.acts, found.fails)]

(* A cloud shows the tags whose count is within the limits, wherever these   *)
(* are given among the actions, and every other tag is left out.             *)
LimitIsExact(shown) ==
    shown.page.kind = "cloud" =>
        LET numbers(a) == {found.acts[i].n : i \in {j \in DOMAIN found.acts : found.acts[j].a = a /\ found.acts[j].n > 0
                                                      /\ \A h \in j + 1 .. Len(found.acts) : found.acts[h].a = a => found.acts[h].n = 0}}
            all == L!Counted(L!CreateArrangement(found.ml, "tags"))
            within(c) == (\A n \in numbers("MIN") : n <= c) /\ (\A n \in numbers("MAX") : c <= n)
        IN  (\A i \in DOMAIN found.acts : found.acts[i].a # "TITLE")
                => shown.page.items = [t \in {u \in DOMAIN all : within(all[u])} |-> all[t]]

(* The page and the API redirect alike, and count the same tags and keys.    *)
(* Titles and feeds are of the page only; it does not limit words.           *)
PageAgreesWithAPI(shown) ==
    (\A i \in DOMAIN found.acts : found.acts[i].a \notin {"TITLE", "ATOM"}) =>
        /\ (shown.page.kind \in {"redirect", "error"} \/ shown.api.kind \in {"redirect", "error"}) => shown.page = shown.api
        /\ shown.page.kind \in {"cloud", "keys"} => shown.page.items = L!Counted(shown.api.items)
        /\ shown.page.kind = "list" => shown.api.kind = "list"

(* Every count has one of the sizes; a tag used more is never shown smaller, *)
(* and tags used differently differ in size where there are enough sizes.    *)
FontSizesFit(shown) ==
    \A c \in DOMAIN found :
        /\ shown[c] \in 0 .. L!fontSizes - 1
        /\ \A d \in 1 .. c - 1 : shown[d] <= shown[c] /\ (Len(found) <= L!fontSizes => shown[d] # shown[c])

(* What actions show of a list is all of it within the limits, and the same *)
(* everywhere.                                                              *)
ListIsShown ==
    [][/\ kind = "list" => LET shown == Shown IN LimitIsExact(shown) /\ PageAgreesWithAPI(shown)
       /\ kind = "sizes" => FontSizesFit(L!calcFontSizes(Tags))]_vars
=============================================================================
