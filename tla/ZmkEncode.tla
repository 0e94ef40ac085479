------------------------------- MODULE ZmkEncode -------------------------------
(***************************************************************************)
(* The encoders that write a syntax tree as Zettelmarkup (encoder/zmkenc)   *)
(* and as plain text (encoder/textenc).                                     *)
(***************************************************************************)
EXTENDS ZmkTree
LOCAL INSTANCE Sequences
LOCAL INSTANCE SequencesExt

(* The parts one after the other, separated                                 *)
Joined(parts, sep) == FlattenSeq([i \in DOMAIN parts |-> IF i = 1 THEN parts[i] ELSE sep \o parts[i]])
Times(c, n) == [i \in 1 .. n |-> c]

-----------------------------------------------------------------------------
(* zmkenc; d is the length of the prefix, the kinds of the lists around     *)

visitAttributes(a) ==
    LET keys == SetToSeq(DOMAIN a)
        pair(k) == k \o (IF a[k] = <<>> THEN <<>> ELSE <<"=", "\"">> \o a[k] \o <<"\"">>)
    IN  IF keys = <<>> THEN <<>> ELSE <<"{">> \o Joined([i \in DOMAIN keys |-> pair(keys[i])], <<" ">>) \o <<"}">>

escapeSeqs == {"_", "*", "~", "^", ",", ">", "\"", ":", "'", "GRAVE", "+", "=", "#"}
RECURSIVE visitText(_)
visitText(t) ==
    CASE t = <<>> -> <<>>
      [] t # <<>> /\ t[1] = "\\" -> <<"\\", "\\">> \o visitText(Tail(t))
      [] Len(t) > 1 /\ t[1] \in escapeSeqs /\ t[2] = t[1] -> <<"\\", t[1], "\\", t[1]>> \o visitText(SubSeq(t, 3, Len(t)))
      [] OTHER -> <<t[1]>> \o visitText(Tail(t))

writeEscaped(t, c) == FlattenSeq([i \in DOMAIN t |-> IF t[i] \in {c, "\\"} THEN <<"\\", t[i]>> ELSE <<t[i]>>])
writeLiteral(c, attrs, t) == <<c, c>> \o writeEscaped(t, c) \o <<c, c>> \o visitAttributes(attrs)
syntaxToHTML(attrs) == Put(attrs, <<>>, <<"html">>)

(* Mutant: the lines of an item are indented by the prefix's length only.   *)
writePrefixLess(d) == Times(" ", d)

writePrefixSpaces(d) == IF d = 0 THEN <<>> ELSE Times(" ", d + 1)
visitBreak(n, d) == (IF n.k = "hard" THEN <<"\\", "NL">> ELSE <<"NL">>) \o writePrefixSpaces(d)

visitLiteral(n, first) ==
    CASE n.c = "$" -> <<"$", "$">> \o n.a \o <<"$", "$">> \o visitAttributes(n.attrs)
      [] n.c = "%" -> (IF first THEN <<>> ELSE <<" ">>) \o <<"%", "%">> \o visitAttributes(n.attrs) \o <<" ">> \o n.a
      [] n.c = "html" -> writeLiteral("@", syntaxToHTML(n.attrs), n.a)
      [] OTHER -> writeLiteral(n.c, n.attrs, n.a)

(* Reference.String; visitLink alone writes the other slash of a based one. *)
RefString(a) == IF a[1] = "BASED" THEN Tail(a) ELSE a

(* Links and embedded references lose their attributes.                     *)
RECURSIVE writeInlines(_, _)
writeInlines(ins, d) ==
    LET inner(n) == writeInlines(n.ins, d)
        text(n, sep) == IF n.ins = <<>> THEN <<>> ELSE inner(n) \o sep
        write(n, i) ==
            CASE n.k = "text" -> visitText(n.a)
              [] IsBreak(n) -> visitBreak(n, d)
              [] n.k = "link" -> <<"[", "[">> \o text(n, <<"|">>) \o (IF n.a[1] = "BASED" THEN <<"/">> ELSE <<>>) \o RefString(n.a) \o <<"]", "]">>
              [] n.k = "embed" -> <<"{", "{">> \o text(n, <<"|">>) \o RefString(n.a) \o <<"}", "}">>
              [] n.k = "cite" -> <<"[", "@">> \o n.a \o (IF n.ins = <<>> THEN <<>> ELSE <<" ">> \o inner(n)) \o <<"]">> \o visitAttributes(n.attrs)
              [] n.k = "footnote" -> <<"[", "^">> \o inner(n) \o <<"]">> \o visitAttributes(n.attrs)
              [] n.k = "mark" -> <<"[", "!">> \o n.a \o (IF n.ins = <<>> THEN <<>> ELSE <<"|">> \o inner(n)) \o <<"]">>
              [] n.k = "format" -> <<n.c, n.c>> \o inner(n) \o <<n.c, n.c>> \o visitAttributes(n.attrs)
              [] n.k = "literal" -> visitLiteral(n, i = 1)
    IN  FlattenSeq([i \in DOMAIN ins |-> write(ins[i], i)])

visitVerbatim(n) ==
    LET c == IF n.c = "html" THEN "@" ELSE n.c
        attrs == IF n.c = "html" THEN syntaxToHTML(n.attrs) ELSE n.attrs
    IN  Times(c, 3) \o visitAttributes(attrs) \o <<"NL">> \o n.a \o <<"NL">> \o Times(c, 3)

writeTableHeader(n) ==
    FlattenSeq([j \in DOMAIN n.a |-> LET cell == n.sub[1][j] IN
        <<"|", "=">> \o (IF cell.a = <<n.a[j]>> THEN <<>> ELSE cell.a) \o writeInlines(cell.ins, 0) \o (IF n.a[j] = "" THEN <<>> ELSE <<n.a[j]>>)])
writeTableRow(n, i) ==
    FlattenSeq([j \in DOMAIN n.a |-> LET cell == n.sub[i][j] IN
        <<"|">> \o (IF cell.a \in {<<n.a[j]>>, <<"">>} THEN <<>> ELSE cell.a) \o writeInlines(cell.ins, 0)])

RECURSIVE writeBlocks(_, _, _), writeBlock(_, _, _)
writeBlocks(bs, prefix, verse) ==
    LET sep(i) == CASE i = 1 -> <<>>
                    [] i > 1 /\ bs[i - 1].k = "para" /\ bs[i].k = "para" /\ ~verse -> <<"NL", "NL">>
                    [] OTHER -> <<"NL">>
    IN  FlattenSeq([i \in DOMAIN bs |-> sep(i) \o writeBlock(bs[i], prefix, verse)])
writeBlock(n, prefix, verse) ==
    LET d == Len(prefix)
        inList == Append(prefix, n.c)
        item(bs) == FlattenSeq([j \in DOMAIN bs |->
                      (IF j = 1 THEN <<>> ELSE <<"NL">> \o IF bs[j].k = "para" THEN writePrefixSpaces(d + 1) ELSE <<>>)
                      \o writeBlock(bs[j], inList, verse)])
        descr(bs) == <<"NL", ":", " ">> \o Joined([j \in DOMAIN bs |-> writeBlock(bs[j], prefix, verse)], <<"NL", "NL", " ", " ">>)
        entry(e) == <<";", " ">> \o writeInlines(e[1], d) \o FlattenSeq([j \in 1 .. Len(e) - 1 |-> descr(e[j + 1])])
    IN  CASE n.k = "para" -> writeInlines(n.ins, d)
          [] n.k = "verbatim" -> visitVerbatim(n)
          [] n.k = "region" -> Times(n.c, 3) \o visitAttributes(n.attrs) \o <<"NL">> \o writeBlocks(n.sub, prefix, n.c = "\"")
                               \o <<"NL">> \o Times(n.c, 3) \o (IF n.ins = <<>> THEN <<>> ELSE <<" ">> \o writeInlines(n.ins, d))
          [] n.k = "heading" -> <<"=", "=">> \o n.a \o <<" ">> \o writeInlines(n.ins, d) \o visitAttributes(n.attrs)
          [] n.k = "hrule" -> <<"-", "-", "-">> \o visitAttributes(n.attrs)
          [] n.k = "list" -> Joined([i \in DOMAIN n.sub |-> inList \o <<" ">> \o item(n.sub[i])], <<"NL">>)
          [] n.k = "descrl" -> Joined([i \in DOMAIN n.sub |-> entry(n.sub[i])], <<"NL">>)
          [] n.k = "htable" -> writeTableHeader(n) \o <<"NL">> \o Joined([i \in 1 .. Len(n.sub) - 1 |-> writeTableRow(n, i + 1)], <<"NL">>)
          [] n.k = "table" -> Joined([i \in DOMAIN n.sub |-> writeTableRow(n, i)], <<"NL">>)
          [] n.k = "transclude" -> <<"{", "{", "{">> \o RefString(n.a) \o <<"}", "}", "}">> \o visitAttributes(n.attrs)

zmk(bs) == writeBlocks(bs, <<>>, FALSE)

-----------------------------------------------------------------------------
(* textenc *)

oneSpace(t) == FlattenSeq([i \in DOMAIN t |-> CASE t[i] \notin {" ", "NBSP", "NL"} -> <<t[i]>>
                                               [] t[i] \in {" ", "NBSP", "NL"} /\ i > 1 /\ t[i - 1] \in {" ", "NBSP", "NL"} -> <<>>
                                               [] OTHER -> <<" ">>])

RECURSIVE textOf(_)
textOf(ins) ==
    LET write(n, i) ==
            CASE n.k = "text" -> oneSpace(n.a)
              [] n.k = "hard" -> <<"NL">>
              [] n.k = "soft" -> <<" ">>
              [] n.k = "literal" -> IF n.c = "%" THEN <<>> ELSE n.a
              [] n.k = "footnote" -> (IF i > 1 THEN <<" ">> ELSE <<>>) \o textOf(n.ins)
              [] OTHER -> textOf(n.ins)
    IN  FlattenSeq([i \in DOMAIN ins |-> write(ins[i], i)])

RECURSIVE textBlocks(_)
textBlocks(bs) ==
    LET row(cells) == Joined([j \in DOMAIN cells |-> textOf(cells[j].ins)], <<" ">>)
        rows(sub) == Joined([i \in DOMAIN sub |-> row(sub[i])], <<"NL">>)
        entry(e) == textOf(e[1]) \o FlattenSeq([j \in 1 .. Len(e) - 1 |-> <<"NL">> \o textBlocks(e[j + 1])])
        write(n) ==
            CASE n.k \in {"para", "heading"} -> textOf(n.ins)
              [] n.k = "verbatim" -> IF n.c = "%" THEN <<>> ELSE n.a
              [] n.k = "region" -> textBlocks(n.sub) \o (IF n.ins = <<>> THEN <<>> ELSE <<"NL">> \o textOf(n.ins))
              [] n.k = "list" -> Joined([i \in DOMAIN n.sub |-> textBlocks(n.sub[i])], <<"NL">>)
              [] n.k = "descrl" -> Joined([i \in DOMAIN n.sub |-> entry(n.sub[i])], <<"NL">>)
              [] n.k \in {"table", "htable"} -> rows(n.sub)
              [] OTHER -> <<>>
    IN  Joined([i \in DOMAIN bs |-> write(bs[i])], <<"NL">>)
=============================================================================
