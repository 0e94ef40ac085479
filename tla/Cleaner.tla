-------------------------------- MODULE Cleaner --------------------------------
(***************************************************************************)
(* The cleaner of syntax trees (parser/cleaner): it drops HTML, gives       *)
(* headings and marks fragments that differ, and takes links and footnotes  *)
(* out of inline elements.                                                  *)
(***************************************************************************)
EXTENDS ZmkEncode
LOCAL INSTANCE Sequences
LOCAL INSTANCE SequencesExt
LOCAL INSTANCE FiniteSetsExt

(* WalkChildren: the inline elements, and the blocks, directly in a block   *)
Block(bs) == [bs |-> bs, ins |-> <<>>]
Inline(ins) == [bs |-> <<>>, ins |-> ins]
children(n) ==
    CASE n.k \in {"para", "heading"} -> <<Inline(n.ins)>>
      [] n.k = "region" -> <<Block(n.sub), Inline(n.ins)>>
      [] n.k = "list" -> [i \in DOMAIN n.sub |-> Block(n.sub[i])]
      [] n.k = "descrl" -> FlattenSeq([i \in DOMAIN n.sub |-> [j \in DOMAIN n.sub[i] |->
                               IF j = 1 THEN Inline(n.sub[i][1]) ELSE Block(n.sub[i][j])]])
      [] n.k \in {"table", "htable"} -> FlattenSeq([i \in DOMAIN n.sub |-> [j \in DOMAIN n.sub[i] |-> Inline(n.sub[i][j].ins)]])
      [] OTHER -> <<>>

-----------------------------------------------------------------------------
(* HTML: only the sequence of blocks of the document and of a region loses  *)
(* its HTML blocks; neither headings nor marks are visited.                 *)

RECURSIVE visitInlines(_), cleanBlocks(_), cleanBlock(_)
visitInlines(ins) ==
    SelectSeq([i \in DOMAIN ins |-> IF ins[i].k = "mark" THEN ins[i] ELSE [ins[i] EXCEPT !.ins = visitInlines(@)]],
              LAMBDA n : ~(n.k = "literal" /\ n.c = "html"))
cleanBlocks(bs) == SelectSeq([i \in DOMAIN bs |-> cleanBlock(bs[i])], LAMBDA n : ~(n.k = "verbatim" /\ n.c = "html"))
cleanBlock(n) ==
    LET each(bs) == [j \in DOMAIN bs |-> cleanBlock(bs[j])] IN
    CASE n.k = "para" -> [n EXCEPT !.ins = visitInlines(@)]
      [] n.k = "region" -> [n EXCEPT !.sub = cleanBlocks(@), !.ins = visitInlines(@)]
      [] n.k = "list" -> [n EXCEPT !.sub = [i \in DOMAIN n.sub |-> each(n.sub[i])]]
      [] n.k = "descrl" -> [n EXCEPT !.sub = [i \in DOMAIN n.sub |-> [j \in DOMAIN n.sub[i] |->
                               IF j = 1 THEN visitInlines(n.sub[i][1]) ELSE each(n.sub[i][j])]]]
      [] n.k \in {"table", "htable"} ->
            [n EXCEPT !.sub = [i \in DOMAIN n.sub |-> [j \in DOMAIN n.sub[i] |-> [n.sub[i][j] EXCEPT !.ins = visitInlines(@)]]]]
      [] OTHER -> n

CleanBlockSlice(bs, allowHTML) == IF allowHTML THEN bs ELSE cleanBlocks(bs)

-----------------------------------------------------------------------------
(* Fragments *)

(* strfun.Slugify: the words, joined by hyphens                             *)
Slugify(t) ==
    LET kept == SelectSeq([i \in DOMAIN t |-> i], LAMBDA i : t[i] \in Letters \cup Digits) IN
    FlattenSeq([j \in DOMAIN kept |-> IF j > 1 /\ kept[j] > kept[j - 1] + 1 THEN <<"-", t[kept[j]]>> ELSE <<t[kept[j]]>>])

Numbered(id, n) == id \o <<"-", <<"1", "2", "3", "4">>[n]>>     \* as many as a text has
(* Mutant: a fragment that was numbered is not looked up again.             *)
addIdentifierOnce(ids, id) == IF id \notin ids THEN id ELSE Numbered(id, 1)
addIdentifier(ids, id) ==
    IF id \notin ids THEN id ELSE Numbered(id, Min({n \in 1 .. 4 : Numbered(id, n) \notin ids}))

(* Headings and marks in the order of the document                          *)
RECURSIVE marksOf(_), headings(_), marks(_)
marksOf(ins) == FlattenSeq([i \in DOMAIN ins |-> IF ins[i].k = "mark" THEN <<ins[i]>> ELSE marksOf(ins[i].ins)])
headings(bs) ==
    FlattenSeq([i \in DOMAIN bs |-> IF bs[i].k = "heading" THEN <<bs[i]>>
                                    ELSE LET ch == children(bs[i]) IN FlattenSeq([j \in DOMAIN ch |-> headings(ch[j].bs)])])
marks(bs) ==
    FlattenSeq([i \in DOMAIN bs |-> IF bs[i].k = "heading" THEN <<>>
                                    ELSE LET ch == children(bs[i]) IN FlattenSeq([j \in DOMAIN ch |-> marks(ch[j].bs) \o marksOf(ch[j].ins)])])

(* First the headings, then the marks: the slugs that get a fragment        *)
slugs(bs) ==
    LET of(n) == Slugify(textOf(n.ins))
        mark(n) == IF n.a = <<>> THEN <<"*">> ELSE Slugify(n.a)
        hs == headings(bs)
        ms == marks(bs)
    IN  SelectSeq([i \in DOMAIN hs |-> of(hs[i])], LAMBDA s : s # <<>>) \o [i \in DOMAIN ms |-> mark(ms[i])]
fragments(bs) == FoldLeft(LAMBDA acc, s : Append(acc, addIdentifier(ToSet(acc), s)), <<>>, slugs(bs))

-----------------------------------------------------------------------------
RECURSIVE CleanInlineLinks(_)
CleanInlineLinks(ins) ==
    LET clean(n) == CASE n.k = "link" -> CleanInlineLinks(n.ins)
                      [] n.k = "footnote" -> <<>>
                      [] OTHER -> <<[n EXCEPT !.ins = CleanInlineLinks(@)]>>
    IN  FlattenSeq([i \in DOMAIN ins |-> clean(ins[i])])
=============================================================================
