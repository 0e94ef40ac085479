-------------------------------- MODULE ZmkTree --------------------------------
(***************************************************************************)
(* What the post-processor makes of the parsed blocks                       *)
(* (parser/zettelmark/post-processor.go).  A table with a header becomes an *)
(* "htable", a the alignments of its columns; its cells have their own.     *)
(***************************************************************************)
EXTENDS ZmkBlocks
LOCAL INSTANCE Sequences
LOCAL INSTANCE SequencesExt
LOCAL INSTANCE FiniteSetsExt
LOCAL INSTANCE Functions

isText(n) == n.k = "text"
removeTrailingSpaces(t) == LET used == {i \in DOMAIN t : t[i] # " "} IN IF used = {} THEN <<>> ELSE SubSeq(t, 1, Max(used))

-----------------------------------------------------------------------------
(* Inline elements *)

(* processInlineSliceHead *)
RECURSIVE head(_, _)
head(ins, verse) ==
    LET n == ins[1]
        text == IF verse /\ n.a # <<>> THEN n.a ELSE SubSeq(n.a, SkipSpace(n.a, 1), Len(n.a))
    IN  CASE ins = <<>> -> <<>>
          [] ins # <<>> /\ isText(n) -> IF text = <<>> THEN head(Tail(ins), verse) ELSE <<[n EXCEPT !.a = text]>> \o Tail(ins)
          [] OTHER -> ins

merged(ins) ==
    FoldLeft(LAMBDA acc, n : IF acc # <<>> /\ isText(n) /\ isText(Last(acc)) THEN WithLast(acc, [n EXCEPT !.a = Last(acc).a \o @])
                             ELSE Append(acc, n), <<>>, ins)

(* processInlineSliceCopyLoop: what element i of the merged ones becomes    *)
copied(ins, i, verse) ==
    LET n == ins[i]
        spaced(j) == j > 0 /\ isText(ins[j]) /\ ins[j].a # <<>> /\ Last(ins[j].a) = " "
        cut == spaced(i) /\ i < Len(ins) /\ (IsBreak(ins[i + 1]) \/ ins[i + 1].c = "%")
        text == IF cut THEN removeTrailingSpaces(n.a) ELSE n.a
    IN  CASE isText(n) -> [n EXCEPT !.a = IF verse THEN [j \in DOMAIN text |-> IF text[j] = " " THEN "NBSP" ELSE text[j]] ELSE text]
          [] IsBreak(n) -> IF verse \/ spaced(i - 1) THEN Break(TRUE) ELSE n
          [] OTHER -> n
processInlineSliceCopy(ins, verse) ==
    LET all == merged(ins) IN
    FlattenSeq([i \in DOMAIN all |-> IF isText(all[i]) /\ all[i].a = <<>> THEN <<>> ELSE <<copied(all, i, verse)>>])

RECURSIVE processInlineSliceTail(_)
processInlineSliceTail(ins) ==
    LET n == Last(ins)
        text == removeTrailingSpaces(n.a)
    IN  CASE ins = <<>> -> <<>>
          [] ins # <<>> /\ isText(n) /\ text # <<>> -> WithLast(ins, [n EXCEPT !.a = text])
          [] ins # <<>> /\ (IsBreak(n) \/ isText(n)) -> processInlineSliceTail(Front(ins))
          [] OTHER -> ins

(* The content of a mark is not visited.                                    *)
RECURSIVE visitInlineSlice(_, _)
visitInlineSlice(ins, verse) ==
    LET visited == [i \in DOMAIN ins |-> IF ins[i].k \in {"link", "embed", "cite", "footnote", "format"}
                                         THEN [ins[i] EXCEPT !.ins = visitInlineSlice(@, verse)] ELSE ins[i]]
    IN  processInlineSliceTail(processInlineSliceCopy(head(visited, verse), verse))

-----------------------------------------------------------------------------
(* Tables *)

startsWith(t, c) == t # <<>> /\ t[1] = c
isAlign(c) == c \in {":", "<", ">"}
isHeaderRow(row) == \E i \in DOMAIN row : row[i].ins # <<>> /\ isText(row[i].ins[1]) /\ startsWith(row[i].ins[1].a, "=")

(* visitTableHeader for one cell: without "=" and an alignment of its column *)
headerCell(cell) ==
    LET n == cell.ins[1]
        first == [cell.ins EXCEPT ![1] = IF isText(n) /\ startsWith(n.a, "=") THEN [n EXCEPT !.a = Tail(@)] ELSE n]
        l == Last(first)
        aligned == isText(l) /\ l.a # <<>> /\ isAlign(Last(l.a))
    IN  IF cell.ins = <<>> THEN [cell |-> cell, align |-> ""]
        ELSE [cell |-> [cell EXCEPT !.ins = IF aligned THEN WithLast(first, [l EXCEPT !.a = Front(@)]) ELSE first],
              align |-> IF aligned THEN Last(l.a) ELSE ""]

processCell(cell, colAlign, verse) ==
    LET n == cell.ins[1]
        aligned == cell.ins # <<>> /\ isText(n) /\ n.a # <<>> /\ isAlign(n.a[1])
        ins == IF aligned THEN [cell.ins EXCEPT ![1] = [n EXCEPT !.a = Tail(@)]] ELSE cell.ins
    IN  [cell EXCEPT !.a = <<IF aligned THEN n.a[1] ELSE colAlign>>, !.ins = visitInlineSlice(ins, verse)]

visitTable(tn, verse) ==
    LET width == Max({0} \cup {Len(tn.sub[i]) : i \in DOMAIN tn.sub})
        header == isHeaderRow(tn.sub[1])
        cells == [j \in DOMAIN tn.sub[1] |-> headerCell(tn.sub[1][j])]
        align == [j \in 1 .. width |-> IF header /\ j \in DOMAIN cells THEN cells[j].align ELSE ""]
        row(i) == IF i = 1 /\ header THEN [j \in DOMAIN cells |-> cells[j].cell] ELSE tn.sub[i]
        cell(i, j) == IF j \in DOMAIN row(i) THEN row(i)[j] ELSE Node("cell")
    IN  [tn EXCEPT !.k = IF header THEN "htable" ELSE "table", !.a = align,
                   !.sub = [i \in DOMAIN tn.sub |-> [j \in 1 .. width |-> processCell(cell(i, j), align[j], verse)]]]

-----------------------------------------------------------------------------
(* Blocks *)

(* The paragraphs of a quote list that follow one another become one.       *)
(* Mutant: a paragraph that follows another replaces it.                    *)
quoteItemsLast(items) ==
    LET single(item) == Len(item) = 1 /\ item[1].k = "para" IN
    FoldLeft(LAMBDA acc, item : IF single(item) /\ acc # <<>> /\ single(Last(acc)) THEN WithLast(acc, item) ELSE Append(acc, item),
             <<>>, items)

quoteItems(items) ==
    LET single(item) == Len(item) = 1 /\ item[1].k = "para"
        join(acc, item) == IF single(item) /\ acc # <<>> /\ single(Last(acc))
                           THEN WithLast(acc, <<[Last(acc)[1] EXCEPT !.ins = @ \o <<Break(FALSE)>> \o item[1].ins]>>)
                           ELSE Append(acc, item)
    IN  FoldLeft(join, <<>>, items)

RECURSIVE visitBlockSlice(_, _), visitBlock(_, _)
visitBlockSlice(bs, verse) ==
    SelectSeq([i \in DOMAIN bs |-> visitBlock(bs[i], verse)], LAMBDA n : n # Null /\ (n.k = "para" => n.ins # <<>>))
visitBlock(n, verse) ==
    LET items == [i \in DOMAIN n.sub |-> visitBlockSlice(n.sub[i], verse)] IN
    CASE n.k \in {"para", "heading"} -> [n EXCEPT !.ins = visitInlineSlice(@, verse)]
      [] n.k = "region" -> [n EXCEPT !.sub = visitBlockSlice(@, verse \/ n.c = "\""), !.ins = visitInlineSlice(@, verse)]
      [] n.k = "list" -> [n EXCEPT !.sub = IF n.c = ">" THEN quoteItems(items) ELSE items]
      [] n.k = "descrl" -> [n EXCEPT !.sub = [i \in DOMAIN @ |-> [j \in DOMAIN @[i] |->
                               IF j = 1 THEN visitInlineSlice(n.sub[i][1], verse) ELSE visitBlockSlice(n.sub[i][j], verse)]]]
      [] n.k = "table" -> visitTable(n, verse)
      [] OTHER -> n

(* parseBlocks and parseInlines of zettelmark.go *)
parseBlocks(s) == visitBlockSlice(parseBlockSlice(s).bs, FALSE)
parseInlines(s) == visitInlineSlice(parseInlineSlice(s), FALSE)
=============================================================================
