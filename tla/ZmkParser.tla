------------------------------- MODULE ZmkParser -------------------------------
(***************************************************************************)
(* The parser for Zettelmarkup (parser/zettelmark).                         *)
(*                                                                         *)
(* A text is a sequence of characters; NL ends a line, NBSP is a space that *)
(* does not break, DASH is the en dash, GRAVE the grave accent, and Q the   *)
(* prefix of a query.  The stack of open lists in the parser, which are the last lists  *)
(* of what was parsed already, is represented by its depth; likewise an     *)
(* open table or description list is the last block.  Entities are left out. *)
(***************************************************************************)
EXTENDS Integers
LOCAL INSTANCE Sequences
LOCAL INSTANCE SequencesExt
LOCAL INSTANCE FiniteSetsExt

CONSTANTS
    Letters, Digits,
    maxNestingLevel

(* c: kind of list, format, literal; a: text; sub: items, blocks, rows      *)
Node(k) == [k |-> k, c |-> "", a |-> <<>>, ins |-> <<>>, attrs |-> [x \in {} |-> <<>>], sub |-> <<>>]
Text(t) == [Node("text") EXCEPT !.a = t]
Break(hard) == Node(IF hard THEN "hard" ELSE "soft")
IsBreak(n) == n.k \in {"hard", "soft"}
Para(ins) == [Node("para") EXCEPT !.ins = ins]

(* No node, and no end: beyond the nesting limit the parser makes empty     *)
(* texts of the end of its input, for ever.                                 *)
None == Node("none")
Hang == Node("hang")

-----------------------------------------------------------------------------
(* Input *)

Ch(s, p) == IF p <= Len(s) THEN s[p] ELSE "EOS"
IsEOL(c) == c \in {"NL", "EOS"}
SkipWhile(s, p, chars) == IF p > Len(s) THEN p ELSE Min({q \in p .. Len(s) + 1 : Ch(s, q) \notin chars})
SkipUntil(s, p, chars) == IF p > Len(s) THEN p ELSE Min({q \in p .. Len(s) + 1 : Ch(s, q) \in chars \cup {"EOS"}})
SkipSpace(s, p) == SkipWhile(s, p, {" "})
SkipToEOL(s, p) == SkipUntil(s, p, {"NL"})
EatEOL(s, p) == IF Ch(s, p) = "NL" THEN p + 1 ELSE p
countDelim(s, p) == SkipWhile(s, p, {Ch(s, p)}) - p
Part(s, p, q) == SubSeq(s, p, q - 1)
NameRunes == Letters \cup Digits \cup {"-", "_"}      \* isNameRune
hasQueryPrefix(s, p) == Ch(s, p) = "Q" /\ p < Len(s)

-----------------------------------------------------------------------------
(* Attributes: [ok, a, pos] *)

NoAttrs == [x \in {} |-> <<>>]
At(a, key) == IF key \in DOMAIN a THEN a[key] ELSE <<>>
Put(a, key, val) == [k \in DOMAIN a \cup {key} |-> IF k = key THEN val ELSE a[k]]
updateAttrs(a, key, val) == Put(a, key, IF At(a, key) = <<>> THEN val ELSE At(a, key) \o <<" ">> \o val)

RECURSIVE parseQuoted(_, _, _)
parseQuoted(s, p, val) ==
    LET c == Ch(s, p)
        q == IF c = "\\" THEN p + 1 ELSE p
    IN  CASE c = "EOS" \/ (c = "\\" /\ IsEOL(Ch(s, q))) -> [ok |-> FALSE, val |-> <<>>, pos |-> p]
          [] c = "\"" -> [ok |-> TRUE, val |-> val, pos |-> p + 1]
          [] OTHER -> parseQuoted(s, q + 1, Append(val, Ch(s, q)))

(* p: the position of "=" *)
parseAttributeValue(s, p, key, a) ==
    LET quoted == parseQuoted(s, p + 2, <<>>)
        q == SkipUntil(s, p + 1, {"NL", " ", "}"})
    IN  IF Ch(s, p + 1) = "\""
        THEN [ok |-> quoted.ok, a |-> updateAttrs(a, key, quoted.val), pos |-> quoted.pos]
        ELSE [ok |-> Ch(s, q) # "EOS", a |-> updateAttrs(a, key, Part(s, p + 1, q)), pos |-> q]

parseAttribute(s, p, a) ==
    LET c == Ch(s, p)
        class == SkipWhile(s, p + 1, NameRunes)
        name == SkipWhile(s, p, NameRunes)
    IN  CASE c = "." -> [ok |-> class > p + 1, a |-> updateAttrs(a, <<"class">>, Part(s, p + 1, class)), pos |-> class]
          [] c = "=" -> parseAttributeValue(s, p, <<>>, [k \in DOMAIN a \ {<<>>} |-> a[k]])
          [] name > p /\ Ch(s, name) = "=" -> parseAttributeValue(s, name, Part(s, p, name), a)
          [] OTHER -> [ok |-> name > p, a |-> Put(a, Part(s, p, name), <<>>), pos |-> name]

RECURSIVE parseAttributeValues(_, _, _)
parseAttributeValues(s, p, a) ==
    LET q == SkipWhile(s, p, {" ", "NL"})
        r == parseAttribute(s, q, a)
        c == Ch(s, r.pos)
    IN  CASE Ch(s, q) = "}" -> [ok |-> TRUE, a |-> a, pos |-> q]
          [] Ch(s, q) = "EOS" \/ ~r.ok \/ c \notin {"}", "NL", " ", ","} -> [ok |-> FALSE, a |-> NoAttrs, pos |-> q]
          [] c = "}" -> r
          [] OTHER -> parseAttributeValues(s, IF c = "NL" THEN r.pos ELSE r.pos + 1, r.a)

parseInlineAttributes(s, p) ==
    LET r == parseAttributeValues(s, p + 1, NoAttrs) IN
    IF Ch(s, p) = "{" /\ r.ok THEN [a |-> r.a, pos |-> r.pos + 1] ELSE [a |-> NoAttrs, pos |-> p]
parseBlockAttributes(s, p) ==
    LET q == SkipWhile(s, p, NameRunes) IN
    IF q > p THEN [a |-> Put(NoAttrs, <<>>, Part(s, p, q)), pos |-> q] ELSE parseInlineAttributes(s, SkipSpace(s, p))

-----------------------------------------------------------------------------
(* Inline elements: [node, pos]; the node is None when the alternative fails *)

TextStop == {"NL", "[", "]", "{", "}", "(", ")", "|", "%", "_", "*", ">", "~", "^", ",", "\"", "#", ":", "'", "@", "GRAVE",
             "$", "=", "\\", "-", "&"}
FormatChars == {"_", "*", ">", "~", "^", ",", "\"", "#", ":"}
LiteralChars == {"@", "'", "GRAVE", "="}
(* What begins a block ends a paragraph. *)
BlockChars == {"EOS", "NL", "@", "GRAVE", "%", "~", "$", "\"", "<", "=", "-", "*", "#", ">", ";", ":", " ", "|", "{"}

parseBackslashRest(s, p) ==
    IF IsEOL(Ch(s, p)) THEN [node |-> Text(<<"\\">>), pos |-> p]
    ELSE [node |-> Text(<<IF s[p] = " " THEN "NBSP" ELSE s[p]>>), pos |-> p + 1]
parseText(s, p) ==
    LET q == SkipUntil(s, p + 1, TextStop) IN
    IF Ch(s, p) = "\\" THEN parseBackslashRest(s, p + 1) ELSE [node |-> Text(Part(s, p, q)), pos |-> q]
parseBackslash(s, p) ==
    IF Ch(s, p + 1) = "NL" THEN [node |-> Break(TRUE), pos |-> p + 2] ELSE parseBackslashRest(s, p + 1)

parseComment(s, p) ==
    LET at == parseInlineAttributes(s, p + countDelim(s, p))
        q == SkipSpace(s, at.pos)
        e == SkipToEOL(s, q)
    IN  IF countDelim(s, p) < 2 THEN [node |-> None, pos |-> p]
        ELSE [node |-> [Node("literal") EXCEPT !.c = "%", !.a = Part(s, q, e), !.attrs = at.a], pos |-> e]

createLiteralNode(c, attrs, content) ==
    IF c = "@" /\ At(attrs, <<>>) = <<"html">>
    THEN [Node("literal") EXCEPT !.c = "html", !.a = content, !.attrs = [k \in DOMAIN attrs \ {<<>>} |-> attrs[k]]]
    ELSE [Node("literal") EXCEPT !.c = c, !.a = content, !.attrs = attrs]

RECURSIVE LiteralRest(_, _, _, _)
LiteralRest(s, p, c, content) ==
    LET at == parseInlineAttributes(s, p + 2)
        t == parseText(s, p)
    IN  CASE Ch(s, p) = "EOS" -> [node |-> None, pos |-> p]
          [] Ch(s, p) = c /\ Ch(s, p + 1) = c -> [node |-> createLiteralNode(c, at.a, content), pos |-> at.pos]
          [] Ch(s, p) = c /\ Ch(s, p + 1) # c -> LiteralRest(s, p + 1, c, Append(content, c))
          [] OTHER -> LiteralRest(s, t.pos, c, content \o t.node.a)
parseLiteral(s, p) ==
    IF Ch(s, p + 1) = Ch(s, p) THEN LiteralRest(s, p + 2, Ch(s, p), <<>>) ELSE [node |-> None, pos |-> p]

parseLiteralMath(s, p) ==
    LET ends == {q \in p + 2 .. Len(s) : Ch(s, q) = "$" /\ Ch(s, q + 1) = "$"}
        at == parseInlineAttributes(s, Min(ends) + 2)
    IN  IF Ch(s, p + 1) # "$" \/ ends = {} THEN [node |-> None, pos |-> p]
        ELSE [node |-> [Node("literal") EXCEPT !.c = "$", !.a = Part(s, p + 2, Min(ends)), !.attrs = at.a], pos |-> at.pos]

parseNdash(s, p) ==
    IF Ch(s, p + 1) = "-" THEN [node |-> Text(<<"DASH">>), pos |-> p + 2] ELSE [node |-> None, pos |-> p]

(* readReferenceToSep: [ok, space, pos] *)
RECURSIVE readReferenceToSep(_, _, _, _)
readReferenceToSep(s, p, close, space) ==
    LET c == Ch(s, p) IN
    CASE c = "EOS" -> [ok |-> FALSE, space |-> space, pos |-> p]
      [] c \in {"NL", " "} -> readReferenceToSep(s, p + 1, close, TRUE)
      [] c = "|" -> [ok |-> TRUE, space |-> space, pos |-> p]
      [] c = "\\" -> IF Ch(s, p + 1) = "EOS" THEN [ok |-> FALSE, space |-> space, pos |-> p]
                     ELSE readReferenceToSep(s, p + 2, close, space \/ Ch(s, p + 1) = "NL")
      [] c = "%" -> readReferenceToSep(s, IF Ch(s, p + 1) = "%" THEN SkipToEOL(s, p + 1) ELSE p + 1, close, space)
      [] c = close -> IF Ch(s, p + 1) = close THEN [ok |-> TRUE, space |-> space, pos |-> p + 1]
                      ELSE readReferenceToSep(s, p + 1, close, space)
      [] OTHER -> readReferenceToSep(s, p + 1, close, space)

(* readReferenceToClose: the position of the closing character, or 0 *)
RECURSIVE ReadToClose(_, _, _, _)
ReadToClose(s, p, close, query) ==
    LET c == Ch(s, p) IN
    CASE c = "EOS" \/ (c \in {"NL", " "} /\ ~query) -> 0
      [] c = "\\" -> IF IsEOL(Ch(s, p + 1)) THEN 0 ELSE ReadToClose(s, p + 2, close, query)
      [] c = close -> p
      [] OTHER -> ReadToClose(s, p + 1, close, query)

TrimSpace(t) == LET used == {i \in DOMAIN t : t[i] \notin {" ", "NL"}}
                IN  IF used = {} THEN <<>> ELSE SubSeq(t, Min(used), Max(used))
(* ast.ParseReference: of a based reference the first slash is kept apart.  *)
ParseReference(t) == IF Ch(t, 1) = "/" /\ Ch(t, 2) = "/" THEN <<"BASED">> \o Tail(t) ELSE t

RECURSIVE parseInline(_, _, _), Collect(_, _, _, _, _, _)

(* A sequence of inline elements, as the loops around parseInline collect    *)
(* it: up to one of the characters in stop; "line" ends it after a break,    *)
(* "para" ends it after a break before a block, "head" before attributes,    *)
(* "rest" fails after a break at the end of a line, and so does "format",    *)
(* which goes on when the character is not doubled.                         *)
(* The end is "stop", "none", "break", "attrs", "fail" or "hang".           *)
Collect(s, p, lvl, stop, mode, ins) ==
    LET r == parseInline(s, p, lvl)
        c == Ch(s, r.pos)
        all == Append(ins, r.node)
    IN  CASE Ch(s, p) \in stop /\ mode = "format" /\ Ch(s, p) # "EOS" /\ Ch(s, p + 1) # Ch(s, p) ->
                Collect(s, p + 1, lvl, stop, mode, Append(ins, Text(<<Ch(s, p)>>)))
          [] Ch(s, p) \in stop -> [ins |-> ins, pos |-> p, end |-> "stop"]
          [] r.node = None -> [ins |-> ins, pos |-> p, end |-> "none"]
          [] r.node = Hang -> [ins |-> ins, pos |-> p, end |-> "hang"]
          [] IsBreak(r.node) /\ (mode = "line" \/ (mode = "para" /\ c \in BlockChars)) -> [ins |-> all, pos |-> r.pos, end |-> "break"]
          [] mode = "head" /\ c = "{" /\ Ch(s, r.pos + 1) # "{" -> [ins |-> all, pos |-> r.pos, end |-> "attrs"]
          [] IsBreak(r.node) /\ mode \in {"rest", "format"} /\ IsEOL(c) -> [ins |-> ins, pos |-> r.pos, end |-> "fail"]
          [] OTHER -> Collect(s, r.pos, lvl, stop, mode, all)

Made(node, pos) == [node |-> node, pos |-> pos]
Failed(p) == Made(None, p)

(* parseLinkLikeRest, followed by attributes *)
LinkLike(s, p, lvl, node) ==
    LET r == Collect(s, SkipSpace(s, p), lvl, {"]"}, "rest", <<>>)
        at == IF node.k = "mark" THEN [a |-> NoAttrs, pos |-> r.pos + 1] ELSE parseInlineAttributes(s, r.pos + 1)
    IN  CASE r.end = "hang" -> Made(Hang, p)
          [] r.end = "stop" -> Made([node EXCEPT !.ins = r.ins, !.attrs = at.a], at.pos)
          [] OTHER -> Failed(p)

parseFootnote(s, p, lvl) == LinkLike(s, p + 2, lvl, Node("footnote"))
parseCite(s, p, lvl) ==
    LET q == SkipUntil(s, p + 2, {" ", ",", "|", "]", "NL"}) IN
    IF q = p + 2 \/ Ch(s, q) = "EOS" THEN Failed(p)
    ELSE LinkLike(s, IF Ch(s, q) \in {" ", ",", "|"} THEN q + 1 ELSE q, lvl, [Node("cite") EXCEPT !.a = Part(s, p + 2, q)])
parseMark(s, p, lvl) ==
    LET q == SkipWhile(s, p + 2, NameRunes)
        node == [Node("mark") EXCEPT !.a = Part(s, p + 2, q)]
    IN  CASE Ch(s, q) = "]" -> Made(node, q + 1)
          [] Ch(s, q) = "|" -> LinkLike(s, q + 1, lvl, node)
          [] OTHER -> Failed(p)

parseFormat(s, p, lvl) ==
    LET c == Ch(s, p)
        r == Collect(s, p + 2, lvl, {c, "EOS"}, "format", <<>>)
        at == parseInlineAttributes(s, r.pos + 2)
    IN  CASE Ch(s, p + 1) # c -> Failed(p)
          [] r.end = "hang" -> Made(Hang, p)
          [] r.end = "stop" /\ Ch(s, r.pos) = c -> Made([Node("format") EXCEPT !.c = c, !.ins = r.ins, !.attrs = at.a], at.pos)
          [] OTHER -> Failed(p)

(* parseLink and parseEmbed; p is the position of the second open character. *)
(* What comes before a bar is parsed as an input of its own.                *)
parseReference(s, p, lvl, open, close) ==
    LET start == SkipSpace(s, p + 1)
        sep == readReferenceToSep(s, start, close, FALSE)
        hasText == ~hasQueryPrefix(s, start) /\ sep.ok /\ Ch(s, sep.pos) = "|"
        text == Collect(Part(s, start, sep.pos), 1, lvl, {}, "none", <<>>)
        from == SkipSpace(s, IF hasText THEN sep.pos + 1 ELSE start)
        to == ReadToClose(s, from, close, hasQueryPrefix(s, from))
        ref == TrimSpace(Part(s, from, to))
        at == parseInlineAttributes(s, to + 2)
        node == [Node(IF open = "[" THEN "link" ELSE "embed") EXCEPT
                    !.a = ParseReference(ref), !.attrs = at.a, !.ins = IF hasText THEN text.ins ELSE <<>>]
    IN  CASE Ch(s, start) = open -> Failed(p)
          [] ~hasQueryPrefix(s, start) /\ (~sep.ok \/ (~hasText /\ sep.space) \/ (hasText /\ sep.pos = start)) -> Failed(p)
          [] hasText /\ text.end = "hang" -> Made(Hang, p)
          [] to = 0 -> Failed(p)
          [] Ch(s, to + 1) # close \/ ref = <<>> -> Failed(p)
          [] OTHER -> Made(node, at.pos)

Alternative(s, p, lvl) ==
    LET c == Ch(s, p)
        d == Ch(s, p + 1)
    IN  CASE c = "[" /\ d = "[" -> parseReference(s, p + 1, lvl, "[", "]")
          [] c = "[" /\ d = "@" -> parseCite(s, p, lvl)
          [] c = "[" /\ d = "^" -> parseFootnote(s, p, lvl)
          [] c = "[" /\ d = "!" -> parseMark(s, p, lvl)
          [] c = "{" /\ d = "{" -> parseReference(s, p + 1, lvl, "{", "}")
          [] c = "%" -> parseComment(s, p)
          [] c \in FormatChars -> parseFormat(s, p, lvl)
          [] c \in LiteralChars -> parseLiteral(s, p)
          [] c = "$" -> parseLiteralMath(s, p)
          [] c = "-" -> parseNdash(s, p)
          [] OTHER -> Failed(p)

parseInline(s, p, lvl) ==
    LET r == Alternative(s, p, lvl + 1) IN
    CASE lvl > maxNestingLevel -> IF Ch(s, p) = "EOS" THEN Made(Hang, p) ELSE parseText(s, p)
      [] Ch(s, p) = "EOS" -> Failed(p)
      [] Ch(s, p) = "NL" -> Made(Break(FALSE), EatEOL(s, p))
      [] Ch(s, p) = "\\" -> parseBackslash(s, p)
      [] OTHER -> IF r.node = None THEN parseText(s, p) ELSE r

parseInlineSlice(s) == Collect(s, 1, 0, {"EOS"}, "none", <<>>).ins
=============================================================================
