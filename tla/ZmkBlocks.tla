------------------------------- MODULE ZmkBlocks -------------------------------
(***************************************************************************)
(* The blocks of Zettelmarkup (parser/zettelmark/block.go).  The state of   *)
(* the parser: the position; how many lists are open (the first is the last *)
(* block, each other one the last list in the last item of the one before); *)
(* whether the last block is an open table or an open description list;     *)
(* whether it is a paragraph that goes on; the blocks so far; and whether   *)
(* the parser is lost in the end of its input.                              *)
(***************************************************************************)
EXTENDS ZmkParser
LOCAL INSTANCE Sequences
LOCAL INSTANCE SequencesExt
LOCAL INSTANCE FiniteSetsExt

Null == Node("null")
Start(p) == [p |-> p, depth |-> 0, table |-> FALSE, descrl |-> FALSE, para |-> FALSE, bs |-> <<>>, hang |-> FALSE]
clearStacked(st) == [st EXCEPT !.depth = 0, !.table = FALSE, !.descrl = FALSE]

(* t with its last element replaced; what is appended to that element       *)
WithLast(t, e) == [t EXCEPT ![Len(t)] = e]
ToLast(t, e) == WithLast(t, Append(Last(t), e))
(* To the paragraph at the end of an item, or as a paragraph of its own.    *)
addInlines(item, ins) ==
    IF item # <<>> /\ Last(item).k = "para" THEN WithLast(item, [Last(item) EXCEPT !.ins = @ \o ins]) ELSE Append(item, Para(ins))

(* parseLinePara; it is empty only at the end of the input.                 *)
parseLinePara(s, p, lvl) == Collect(s, p, lvl, {}, "line", <<>>)

-----------------------------------------------------------------------------
(* Blocks of one piece: [node, pos] *)

(* Empty lines before the first line that is not empty are lost.            *)
parseVerbatim(s, p) ==
    LET cnt == countDelim(s, p)
        at == parseBlockAttributes(s, p + cnt)
        from == SkipToEOL(s, at.pos)
        ends == {q \in from + 1 .. Len(s) : s[q - 1] = "NL" /\ s[q] = s[p] /\ countDelim(s, q) >= cnt}
        text == Part(s, from + 1, Min(ends) - 1)
    IN  IF cnt < 3 \/ ends = {} THEN Failed(p)
        ELSE Made([Node("verbatim") EXCEPT !.c = s[p], !.attrs = at.a, !.a = Part(text, SkipWhile(text, 1, {"NL"}), Len(text) + 1)],
                  SkipToEOL(s, Min(ends)))

parseHeading(s, p, lvl) ==
    LET cnt == countDelim(s, p)
        r == Collect(s, SkipSpace(s, p + cnt), lvl, {"NL", "EOS"}, "head", <<>>)
        at == IF r.end = "attrs" THEN parseBlockAttributes(s, r.pos) ELSE [a |-> NoAttrs, pos |-> r.pos]
        node == [Node("heading") EXCEPT !.a = [i \in 1 .. Min({cnt, 7}) - 2 |-> "="], !.ins = r.ins, !.attrs = at.a]
    IN  CASE cnt < 3 \/ Ch(s, p + cnt) # " " -> Failed(p)
          [] r.end = "hang" -> Made(Hang, p)
          [] OTHER -> Made(node, IF r.end = "attrs" THEN SkipToEOL(s, at.pos) ELSE r.pos)

parseHRule(s, p) ==
    LET at == parseBlockAttributes(s, p + countDelim(s, p)) IN
    IF countDelim(s, p) < 3 THEN Failed(p) ELSE Made([Node("hrule") EXCEPT !.attrs = at.a], SkipToEOL(s, at.pos))

RECURSIVE TransclusionEnd(_, _, _, _)
TransclusionEnd(s, from, p, query) ==
    LET c == Ch(s, p) IN
    CASE c = "EOS" \/ (c \in {"NL", " "} /\ ~query) \/ (c = "}" /\ p = from) -> 0
      [] c = "\\" -> IF IsEOL(Ch(s, p + 1)) THEN 0 ELSE TransclusionEnd(s, from, p + 2, query)
      [] c = "}" /\ Ch(s, p + 1) = "}" /\ Ch(s, p + 2) = "}" -> p
      [] OTHER -> TransclusionEnd(s, from, p + 1, query)
parseTransclusion(s, p) ==
    LET end == TransclusionEnd(s, p + 3, p + 3, hasQueryPrefix(s, p + 3))
        at == parseBlockAttributes(s, end + 3)
    IN  IF countDelim(s, p) # 3 \/ end = 0 THEN Failed(p)
        ELSE Made([Node("transclude") EXCEPT !.a = ParseReference(Part(s, p + 3, end)), !.attrs = at.a], SkipToEOL(s, at.pos))

-----------------------------------------------------------------------------
(* Lists: c is the kind, sub the items, each a sequence of blocks *)

ListChars == {"*", "#", ">"}
parseNestedListKinds(s, p) ==
    LET q == SkipWhile(s, p, ListChars) IN
    IF Ch(s, q) \in {" ", "NL", "EOS"} THEN Part(s, p, q) ELSE <<>>

(* buildNestedList and cleanupParsedNestedList: new lists, one in the other *)
RECURSIVE newLists(_, _)
newLists(kinds, pn) ==
    [Node("list") EXCEPT !.c = Head(kinds), !.sub = IF Len(kinds) = 1 THEN <<<<pn>>>> ELSE <<<<newLists(Tail(kinds), pn)>>>>]

lastList(item) == LET at == {i \in DOMAIN item : item[i].k = "list"} IN IF at = {} THEN 0 ELSE Max(at)

(* The kinds from the second on; depth lists are open in l, l among them.   *)
RECURSIVE inOpenList(_, _, _, _)
inOpenList(l, kinds, depth, pn) ==
    LET item == Last(l.sub)
        at == lastList(item)
    IN  CASE kinds = <<>> -> [l EXCEPT !.sub = Append(@, <<pn>>)]
          [] kinds # <<>> /\ depth > 1 /\ item[at].c = Head(kinds) ->
                [l EXCEPT !.sub = WithLast(@, [item EXCEPT ![at] = inOpenList(item[at], Tail(kinds), depth - 1, pn)])]
          [] OTHER -> [l EXCEPT !.sub = ToLast(@, newLists(kinds, pn))]

RECURSIVE addNullItems(_, _), addIndented(_, _, _)
addNullItems(l, depth) ==
    LET item == Last(l.sub)
        at == lastList(item)
        inner == IF depth > 1 THEN [item EXCEPT ![at] = addNullItems(item[at], depth - 1)] ELSE item
    IN  [l EXCEPT !.sub = WithLast(@, Append(inner, Null))]
addIndented(l, depth, ins) ==
    LET item == Last(l.sub)
        at == lastList(item)
    IN  [l EXCEPT !.sub = WithLast(@, IF depth > 1 THEN [item EXCEPT ![at] = addIndented(item[at], depth - 1, ins)]
                                      ELSE addInlines(item, ins))]

(* A description list: each entry is the term followed by the descriptions. *)
lastEntry(st) == Last(Last(st.bs).sub)
withEntry(st, e) == WithLast(st.bs, [Last(st.bs) EXCEPT !.sub = WithLast(@, e)])

cleanupListsAfterEOL(st) ==
    CASE st.depth > 0 -> WithLast(st.bs, addNullItems(Last(st.bs), st.depth))
      [] st.descrl /\ Len(lastEntry(st)) > 1 -> withEntry(st, ToLast(lastEntry(st), Null))
      [] OTHER -> st.bs

-----------------------------------------------------------------------------
(* Steps: the parser's state after a block, or Fail *)

Fail == Start(0)
After(st, r) ==
    CASE r.node = None -> Fail
      [] r.node = Hang -> [st EXCEPT !.hang = TRUE]
      [] OTHER -> [clearStacked(st) EXCEPT !.p = r.pos, !.bs = Append(@, r.node), !.para = FALSE]
Moved(st, r, bs) == [st EXCEPT !.p = r.pos, !.bs = bs, !.para = FALSE, !.hang = r.end = "hang"]

parseNestedList(st, s, lvl) ==
    LET kinds == parseNestedListKinds(s, st.p)
        q == SkipSpace(s, st.p + Len(kinds))
        r == parseLinePara(s, q, lvl)
        depth == Min({st.depth, Len(kinds)})
        bs == IF depth > 0 /\ Last(st.bs).c = Head(kinds)
              THEN WithLast(st.bs, inOpenList(Last(st.bs), Tail(kinds), depth, Para(r.ins)))
              ELSE Append(st.bs, newLists(kinds, Para(r.ins)))
    IN  IF kinds = <<>> THEN Fail
        ELSE IF Last(kinds) # ">" /\ IsEOL(Ch(s, q)) THEN Fail
        ELSE [Moved(st, r, bs) EXCEPT !.depth = Len(kinds), !.table = FALSE, !.descrl = FALSE]

parseDefTerm(st, s, lvl) ==
    LET r == parseLinePara(s, SkipSpace(s, st.p + 2), lvl)
        bs == IF st.descrl THEN WithLast(st.bs, [Last(st.bs) EXCEPT !.sub = Append(@, <<r.ins>>)])
              ELSE Append(st.bs, [Node("descrl") EXCEPT !.sub = <<<<r.ins>>>>])
    IN  IF Ch(s, st.p + 1) # " " \/ (r.ins = <<>> /\ r.end # "hang") THEN Fail
        ELSE [Moved(st, r, bs) EXCEPT !.depth = 0, !.table = FALSE, !.descrl = TRUE]
(* A term at the very end of the input fails, and leaves an empty entry.    *)
emptyTerm(st, s) ==
    IF Ch(s, st.p) = ";" /\ Ch(s, st.p + 1) = " " /\ st.descrl
    THEN [st EXCEPT !.bs = WithLast(@, [Last(@) EXCEPT !.sub = Append(@, <<<<>>>>)])] ELSE st

parseDefDescr(st, s, lvl) ==
    LET r == parseLinePara(s, SkipSpace(s, st.p + 2), lvl) IN
    IF Ch(s, st.p + 1) # " " \/ ~st.descrl THEN Fail
    ELSE IF lastEntry(st)[1] = <<>> \/ (r.ins = <<>> /\ r.end # "hang") THEN Fail
    ELSE [Moved(st, r, withEntry(st, Append(lastEntry(st), <<Para(r.ins)>>))) EXCEPT !.depth = 0, !.table = FALSE]

(* cnt: the spaces after the first one *)
parseIndent(st, s, lvl) ==
    LET q == SkipSpace(s, st.p)
        cnt == q - st.p - 1
        depth == Min({cnt, st.depth})
        r == parseLinePara(s, q, lvl)
        none == r.ins = <<>> /\ r.end # "hang"
        e == lastEntry(st)
        entry == IF Len(e) = 1 THEN <<e[1] \o r.ins>> ELSE WithLast(e, addInlines(Last(e), r.ins))
    IN  CASE depth > 0 -> [Moved(st, r, WithLast(st.bs, addIndented(Last(st.bs), depth, r.ins))) EXCEPT !.depth = depth, !.table = FALSE]
          [] st.depth = 0 /\ st.descrl /\ cnt > 0 -> IF none /\ Len(e) > 1 THEN Fail
                                                    ELSE [Moved(st, r, withEntry(st, entry)) EXCEPT !.table = FALSE]
          [] OTHER -> Fail

RECURSIVE parseCells(_, _, _, _)
parseCells(s, p, lvl, row) ==
    LET r == Collect(s, p + 1, lvl, {"|", "NL", "EOS"}, "none", <<>>)
        cells == IF IsEOL(Ch(s, r.pos)) /\ r.ins = <<>> THEN row ELSE Append(row, [Node("cell") EXCEPT !.ins = r.ins])
    IN  IF IsEOL(Ch(s, r.pos)) \/ r.end = "hang" THEN [row |-> cells, pos |-> EatEOL(s, r.pos), end |-> r.end]
        ELSE parseCells(s, r.pos, lvl, cells)
parseRow(st, s, lvl) ==
    LET r == parseCells(s, st.p, lvl, <<>>)
        bs == IF st.table THEN WithLast(st.bs, [Last(st.bs) EXCEPT !.sub = Append(@, r.row)])
              ELSE Append(st.bs, [Node("table") EXCEPT !.sub = <<r.row>>])
    IN  IF Ch(s, st.p + 1) = "%" THEN [st EXCEPT !.p = SkipToEOL(s, st.p), !.depth = 0, !.descrl = FALSE, !.para = FALSE]
        ELSE [Moved(st, r, bs) EXCEPT !.depth = 0, !.table = TRUE, !.descrl = FALSE]

(* Before another block, or when it fails: a paragraph, or more of it.      *)
parsePara(st, s, lvl) ==
    LET r == Collect(s, st.p, lvl, {}, "para", <<>>)
        indented == Len(r.ins) > 1 /\ IsBreak(r.ins[2]) /\ r.ins[1].k = "text" /\ \A i \in DOMAIN r.ins[1].a : r.ins[1].a[i] = " "
        bs == CASE indented -> Append(st.bs, Para(Tail(Tail(r.ins))))
                [] ~indented /\ st.para -> WithLast(st.bs, [Last(st.bs) EXCEPT !.ins = @ \o r.ins])
                [] OTHER -> Append(st.bs, Para(r.ins))
    IN  [Moved(clearStacked(st), r, bs) EXCEPT !.para = TRUE]

-----------------------------------------------------------------------------
RECURSIVE parseBlock(_, _, _), regionRest(_, _, _, _, _)

(* The blocks of a region, up to the line that ends it *)
regionRest(st, s, lvl, c, cnt) ==
    CASE st.hang -> st
      [] ~st.hang /\ Ch(s, st.p) = "EOS" -> Fail
      [] ~st.hang /\ Ch(s, st.p) = c /\ countDelim(s, st.p) >= cnt -> st
      [] OTHER -> regionRest(parseBlock(st, s, lvl), s, lvl, c, cnt)
parseRegion(st, s, lvl) ==
    LET c == Ch(s, st.p)
        cnt == countDelim(s, st.p)
        at == parseBlockAttributes(s, st.p + cnt)
        from == SkipToEOL(s, at.pos)
        r == regionRest(Start(EatEOL(s, from)), s, lvl, c, cnt)
        lastLine == Collect(s, SkipSpace(s, r.p + countDelim(s, r.p)), lvl, {"NL", "EOS"}, "none", <<>>)
    IN  CASE cnt < 3 \/ Ch(s, from) = "EOS" -> Fail
          [] cnt >= 3 /\ Ch(s, from) # "EOS" /\ (r = Fail \/ r.hang) -> r
          [] OTHER -> IF lastLine.end = "hang" THEN [r EXCEPT !.hang = TRUE] ELSE After(st, Made([Node("region") EXCEPT !.c = c, !.attrs = at.a, !.sub = r.bs, !.ins = lastLine.ins], lastLine.pos))

(* parseColon looks at the character after the next one.                   *)
blockStep(st, s, lvl) ==
    LET c == Ch(s, st.p) IN
    CASE c = ":" /\ Ch(s, st.p + 2) # ":" -> parseDefDescr(st, s, lvl)
      [] c \in {"@", "GRAVE", "%", "~", "$"} -> After(st, parseVerbatim(s, st.p))
      [] c \in {"\"", "<"} \/ (c = ":" /\ Ch(s, st.p + 2) = ":") -> parseRegion(st, s, lvl)
      [] c = "=" -> After(st, parseHeading(s, st.p, lvl))
      [] c = "-" -> After(st, parseHRule(s, st.p))
      [] c \in ListChars -> parseNestedList(st, s, lvl)
      [] c = ";" -> parseDefTerm(st, s, lvl)
      [] c = " " -> parseIndent(st, s, lvl)
      [] c = "|" -> parseRow(st, s, lvl)
      [] c = "{" -> After(st, parseTransclusion(s, st.p))
      [] OTHER -> Fail

parseBlock(st, s, lvl) ==
    LET r == blockStep(st, s, lvl + 1) IN
    CASE lvl > maxNestingLevel -> parsePara(st, s, lvl)
      [] Ch(s, st.p) = "NL" -> [st EXCEPT !.p = @ + 1, !.bs = cleanupListsAfterEOL(st), !.para = FALSE]
      [] OTHER -> IF r = Fail THEN parsePara(emptyTerm(st, s), s, lvl + 1) ELSE r

RECURSIVE blocksFrom(_, _)
blocksFrom(st, s) == IF st.hang \/ Ch(s, st.p) = "EOS" THEN st ELSE blocksFrom(parseBlock(st, s, 0), s)
parseBlockSlice(s) == blocksFrom(Start(1), s)
=============================================================================
