------------------------------- MODULE MCMarkup -------------------------------
(***************************************************************************)
(* Texts in Zettelmarkup: a text is parsed, its tree is written as          *)
(* Zettelmarkup, which is parsed and written again.  The texts are put      *)
(* together from pieces, one alphabet of pieces for each kind of element.   *)
(* Other texts are metadata, which are stored in files and read again.      *)
(***************************************************************************)
EXTENDS Integers, Sequences, FiniteSets
LOCAL INSTANCE SequencesExt
LOCAL INSTANCE FiniteSetsExt

CONSTANTS
    MaxPieces       \* the number of pieces in a text
VARIABLES question, answered
questionVars == <<question, answered>>

P == INSTANCE Cleaner WITH Letters <- {"a", "b", "html"}, Digits <- {"1"}, maxNestingLevel <- 50

(* Blocks are made of lines, inline elements of pieces that follow a text.  *)
Lines == [
    lists |-> {<<"*", " ", "a">>, <<"*", " ", "a", "NL", "*", "#", " ", "b">>, <<"#", " ", "a">>,
               <<" ", " ", "b">>, <<" ", " ", " ", "b">>, <<>>, <<"a">>},
    quotes |-> {<<">", " ", "a">>, <<">">>, <<" ", " ", "b">>, <<"a">>, <<"*", " ", "a">>},
    descriptions |-> {<<";", " ", "a">>, <<":", " ", "a">>, <<":", " ", ":", "a">>, <<" ", " ", "b">>, <<>>, <<"b">>, <<"*", " ", "a">>},
    tables |-> {<<"|", "a", "|", "b">>, <<"|", "=", "a", "|", "b", "<">>, <<"|", "=", ">", "b", ":">>, <<"|", "|", ">", "a">>, <<>>, <<"a">>, <<"|", "%", "a">>},
    regions |-> {<<":", ":", ":">>, <<"\"", "\"", "\"">>, <<":", ":", ":", " ", "a">>, <<"a">>, <<" ", " ", "b">>, <<>>, <<"*", " ", "a">>},
    verbatims |-> {<<"@", "@", "@">>, <<"@", "@", "@", "{", "=", "html", "}">>, <<"%", "%", "%", "{", "a", "}">>, <<"-", "-", "-">>, <<"a">>, <<"@", "@">>, <<>>, <<"{", "{", "{", "a", "}", "}", "}">>}]
Pieces == [
    formats |-> {<<"_">>, <<"_", "_">>, <<"*", "*">>, <<"a">>, <<" ">>, <<"{", "a", "}">>, <<"NL", "a">>, <<"@", "@", "a", "@", "@", "{", "=", "html", "}">>},
    escapes |-> {<<"_">>, <<"\\">>, <<"a">>, <<" ">>, <<"NL", "a">>},
    literals |-> {<<"@", "@">>, <<"GRAVE">>, <<"a">>, <<"%", "%">>, <<"{", "=", "html", "}">>, <<" ">>},
    links |-> {<<"[", "[">>, <<"]", "]">>, <<"|">>, <<"[", "^">>, <<"[", "!">>, <<"]">>, <<"a">>, <<" ">>},
    embeds |-> {<<"{", "{">>, <<"}", "}">>, <<"|">>, <<"[", "@">>, <<"]">>, <<"/">>, <<"a">>, <<" ">>}]
Headings == {<<"=", "=", "=", " ", "a">>, <<"=", "=", "=", " ", "a", " ", "1">>, <<"=", "=", "=", " ", "[", "!", "a", "]">>,
             <<"[", "!", "a", "]">>, <<"[", "!", "a", "-", "1", "]">>, <<":", ":", ":">>, <<"[", "!", "]">>}

Alphabets == [k \in DOMAIN Lines \cup DOMAIN Pieces \cup {"headings"} |->
                IF k \in DOMAIN Lines THEN Lines[k] ELSE IF k \in DOMAIN Pieces THEN Pieces[k] ELSE Headings]
Questions == UNION {[kind : {k}, spec : UNION {[1 .. n -> Alphabets[k]] : n \in 1 .. MaxPieces}] : k \in DOMAIN Alphabets}
Source(q) == IF q.kind \in DOMAIN Pieces THEN <<"a">> \o FlattenSeq(q.spec)
             ELSE FlattenSeq([i \in DOMAIN q.spec |-> q.spec[i] \o <<"NL">>])

(* The tree of a text, what is written for it, and the tree of that; the    *)
(* tree without HTML and what a reader of it gets                           *)
Answer(q) ==
    LET tree == P!parseBlocks(Source(q))
        written == P!zmk(tree)
        clean == P!CleanBlockSlice(tree, FALSE)
    IN  [tree |-> tree, written |-> written, again |-> P!parseBlocks(written),
         clean |-> clean, cleanAgain |-> P!parseBlocks(P!zmk(clean))]


-----------------------------------------------------------------------------
(* Metadata: keys are "t" of no type, "g" of tags, "w" of a word, "z" of an  *)
(* identifier, "l" of several, "d" of a time, "s" the syntax, "c" computed   *)
(* and "p" a property.                                                       *)
F == INSTANCE ZettelFile WITH
        Large <- [A |-> "a", T |-> "t"],
        TypeOf <- [k \in {<<c>> : c \in {"g", "w", "z", "l", "d"}} |->
                    CASE k = <<"g">> -> "tags" [] k = <<"w">> -> "word" [] k = <<"z">> -> "zid" [] k = <<"l">> -> "zids" [] k = <<"d">> -> "time"],
        IsComputed <- {<<"c">>, <<"p">>, <<"i", "d">>},
        IsProperty <- {<<"p">>},
        Zid <- <<"1">>

MetaLines == {<<"t", ":", " ", "A", " ", "a">>, <<"T">>, <<"g", ":", "#", "A", " ", "b", " ", "#", "1">>, <<"w", ":", "A">>,
              <<"z", " ", ":", "a">>, <<"l", ":", "1", " ", "a", " ", "1">>, <<"d", ":", "1">>, <<" ", "a", "BELL", "a">>, <<" ">>, <<>>,
              <<"%", "a">>, <<"-", "-", "-">>, <<"-", "a", ":", "a">>, <<"i", "d", ":", "a">>, <<"c", ":", "1">>, <<"p", ":", "a">>}
MetaText(q) == FlattenSeq([i \in DOMAIN q.spec |-> q.spec[i] \o IF q.form = "form" THEN <<"CR", "NL">> ELSE <<"NL">>])
Contents == {<<>>, <<"a">>, <<"NL", "a">>, <<"-", "-", "-", "NL">>, <<" ", "a", "CR">>}
Wild == {<<>>, <<"a">>, <<" ", "A", "NL", "t", ":", "a">>, <<"a", "NL", "NL", "a">>, <<"NL", "-", "-", "-", "NL">>, <<"BELL", "#", "a", " ", "a">>}
MetaQuestions ==
    [kind : {"text"}, form : {"zettel", "parts", "form"}, spec : UNION {[1 .. n -> MetaLines] : n \in 1 .. 3}, content : {<<>>}]
    \cup [kind : {"text"}, form : {"zettel", "parts"}, spec : UNION {[1 .. n -> MetaLines] : n \in 1 .. 2}, content : Contents]
    \cup {[kind |-> "form", form |-> f, content |-> c, spec |-> [meta |-> m, title |-> t, tags |-> g, role |-> w]] :
            f \in {"zettel", "parts", "meta"}, c \in Contents, m \in {<<>>, <<"T", ":", "a">>}, t \in Wild, g \in Wild, w \in Wild}
    \cup [kind : {"data"}, form : {"zettel", "parts"}, content : Contents,
          spec : [{<<"t">>, <<"g">>, <<"c">>} -> Wild] \cup [{<<"w">>, <<"NL", "s">>} -> Wild]]

(* The metadata given, the zettel as read from its files, and read again    *)
Given(q) == CASE q.kind = "text" /\ q.form = "form" -> F!parseZettelForm([meta |-> MetaText(q), title |-> <<>>, tags |-> <<>>, role |-> <<>>])
              [] q.kind = "text" /\ q.form # "form" -> F!NewFromInput(MetaText(q)).m
              [] q.kind = "form" -> F!parseZettelForm(q.spec)
              [] q.kind = "data" -> F!buildZettelFromData(q.spec)
FileForm(q) == IF q.form = "form" THEN "zettel" ELSE q.form
Store(q) ==
    LET given == Given(q)
        read == F!ReadBack(F!Written(FileForm(q), given, q.content), <<"s">>)
    IN  [given |-> given, read |-> read, again |-> F!ReadBack(F!Written(FileForm(q), read.m, read.content), <<"s">>)]
NoQuestion == [kind |-> "none"]
IsMarkup(q) == q.kind \in DOMAIN Alphabets
IsMeta(q) == q.kind \in {"text", "form", "data"}
Possible(q) == IsMeta(q) => (q.form = "meta" => q.content = <<>>)

InitMarkup == question \in Questions \cup {q \in MetaQuestions : Possible(q)}

-----------------------------------------------------------------------------
(* What is written for a tree is what is written for the tree read from it: *)
(* the Zettelmarkup of a zettel that is formatted again and again does not  *)
(* change (tests/markdown_test.go, testZmkEncoding, demands it of the       *)
(* CommonMark examples).                                                    *)
EncodingSettles ==
    [][IsMarkup(question) => LET answer == Answer(question) IN P!zmk(answer.again) = answer.written]_questionVars

(* Written and read again, a tree has the same text: nothing is taken for   *)
(* syntax that was text, and nothing for text that was syntax.  The         *)
(* paragraphs of a list's item and the lines of a term become one: these    *)
(* kinds are left out.                                                      *)
TextIsKept(answer) ==
    question.kind \notin {"lists", "descriptions", "regions", "links"} => P!textBlocks(answer.again) = P!textBlocks(answer.tree)

(* The parser drops no letter, and changes no order, of lists, quotes,      *)
(* descriptions and escaped texts, whatever its tests for the end of an     *)
(* element reject and read again as text.                                   *)
LettersOf(t) == SelectSeq(t, LAMBDA c : c \in {"a", "b"})
LettersAreKept(answer) ==
    question.kind \in {"lists", "quotes", "descriptions", "escapes"}
        => LettersOf(Source(question)) = LettersOf(P!textBlocks(answer.tree))

(* Neither reading nor writing loses or invents text.                       *)
NothingIsLost ==
    [][IsMarkup(question) => LET answer == Answer(question) IN TextIsKept(answer) /\ LettersAreKept(answer)]_questionVars

(* What the post-processor leaves: no text follows a text, no break ends a  *)
(* sequence, no paragraph is empty, and the rows of a table are as wide as  *)
(* its columns.                                                             *)
RECURSIVE NormalInlines(_), NormalBlocks(_)
NormalInlines(ins) ==
    /\ \A i \in 1 .. Len(ins) - 1 : ~(P!isText(ins[i]) /\ P!isText(ins[i + 1]))
    /\ ins # <<>> => ~P!IsBreak(Last(ins))
    /\ \A i \in DOMAIN ins : ins[i].k # "mark" => NormalInlines(ins[i].ins)
NormalBlocks(bs) ==
    \A i \in DOMAIN bs :
        /\ bs[i].k = "para" => bs[i].ins # <<>>
        /\ bs[i].k \in {"table", "htable"} => \A r \in DOMAIN bs[i].sub : Len(bs[i].sub[r]) = Len(bs[i].a)
        /\ \A j \in DOMAIN P!children(bs[i]) :
                NormalBlocks(P!children(bs[i])[j].bs) /\ NormalInlines(P!children(bs[i])[j].ins)
TreeIsNormal(answer) == NormalBlocks(answer.tree)

(* Headings and marks with the same words get different fragments, as many  *)
(* as have words, and get the same ones when the text is written and read   *)
(* again: a link to a part of a zettel keeps its target.                    *)
FragmentsDiffer(answer) ==
    question.kind = "headings" =>
        LET ids == P!fragments(answer.tree) IN
        /\ Cardinality(ToSet(ids)) = Len(ids)
        /\ P!fragments(answer.again) = ids

(* A tree that was cleaned has no HTML, and what is written for it is not   *)
(* read as HTML either, although texts meet that were apart.                *)
RECURSIVE HtmlInlines(_), HtmlBlocks(_)
HtmlInlines(ins) == \E i \in DOMAIN ins : (ins[i].k = "literal" /\ ins[i].c = "html") \/ HtmlInlines(ins[i].ins)
HtmlBlocks(bs) ==
    \E i \in DOMAIN bs :
        \/ bs[i].k = "verbatim" /\ bs[i].c = "html"
        \/ \E j \in DOMAIN P!children(bs[i]) : HtmlBlocks(P!children(bs[i])[j].bs) \/ HtmlInlines(P!children(bs[i])[j].ins)
HtmlStaysGone(answer) == ~HtmlBlocks(answer.clean) /\ ~HtmlBlocks(answer.cleanAgain)

(* What post-processing and cleaning promise of a tree.                     *)
TreeIsClean ==
    [][IsMarkup(question) => LET answer == Answer(question) IN
                            TreeIsNormal(answer) /\ FragmentsDiffer(answer) /\ HtmlStaysGone(answer)]_questionVars

(* A zettel read from its files has the content that was stored and, if it   *)
(* was read from a text, the metadata that were stored, without properties;  *)
(* read and stored again, it stays as it is, whatever it was made of.        *)
Durable(m) == [k \in DOMAIN m.pairs \ {<<"p">>} |-> m.pairs[k]]
FileKeepsZettel(stored) ==
    /\ stored.read.content = question.content
    /\ stored.again = stored.read
    /\ question.kind = "text" /\ question.form # "parts"
          => stored.read.m = [stored.given EXCEPT !.pairs = Durable(stored.given)]

(* Whatever the fields of a form and the values of data contain, they stay   *)
(* the values of their keys: no line of theirs becomes a key, ends the       *)
(* metadata or becomes content.                                              *)
ValuesStayValues(stored) ==
    question.kind \in {"form", "data"} =>
        DOMAIN stored.read.m.pairs \subseteq DOMAIN stored.given.pairs \cup {<<"s">>}

(* A blank line ends metadata in a file, but not in a form: every key of the *)
(* form's lines is stored, until a line of dashes.                           *)
BlankLinesAreIgnored(stored) ==
    question.kind = "text" /\ question.form = "form" =>
        LET firstOf(l) == IF l # <<>> THEN l[1] ELSE " "
            dashed == {i \in DOMAIN question.spec : firstOf(question.spec[i]) = "-"}
            lines == {i \in DOMAIN question.spec : \A j \in dashed : i < j}
        IN  {question.spec[i][1] : i \in {j \in lines : firstOf(question.spec[j]) \in {"t", "g", "w", "c", "p"}}}
                \subseteq {k[1] : k \in DOMAIN stored.given.pairs}

(* From request to file and back, a zettel is what was sent.                *)
ZettelIsKept ==
    [][IsMeta(question) => LET stored == Store(question) IN
                           FileKeepsZettel(stored) /\ ValuesStayValues(stored) /\ BlankLinesAreIgnored(stored)]_questionVars
=============================================================================
