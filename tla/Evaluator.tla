------------------------------- MODULE Evaluator -------------------------------
(***************************************************************************)
(* The evaluation of a zettel (evaluator/evaluator.go): the elements of its *)
(* syntax tree that stand for other zettel are replaced by what these       *)
(* contain, evaluated in turn.                                              *)
(*                                                                          *)
(* A block is a paragraph, a heading, a region, a transclusion ("trans") or *)
(* Zettelmarkup to be evaluated in place ("vzettel"); an inline element is  *)
(* a text, a mark, a link, an "embed" or Zettelmarkup in place ("lzettel"). *)
(* sub holds blocks, ins inline elements, ref the reference and frag the    *)
(* fragment of a heading or a mark.                                         *)
(***************************************************************************)
EXTENDS Integers, Sequences
LOCAL INSTANCE SequencesExt
LOCAL INSTANCE Functions

(* The zettel by their identifiers: [status, blocks]; the status of one that *)
(* can be read tells whether its syntax has a tree ("text"), is an image or  *)
(* "other"; else it is "missing" or "hidden" from the user.                  *)
VARIABLES
    zettel,
    maxTransclusions        \* of the runtime configuration

NoRef == [state |-> "none", zid |-> "", frag |-> ""]
Node(k) == [k |-> k, a |-> "", ref |-> NoRef, frag |-> "", ins |-> <<>>, sub |-> <<>>]
Text(t) == [Node("text") EXCEPT !.a = t]
Para(ins) == [Node("para") EXCEPT !.ins = ins]
ErrorText(what) == [Node("error") EXCEPT !.a = what]
NothingToTransclude == [Node("comment") EXCEPT !.a = "nothing"]

(* Status of the evaluation: the transclusions counted, what zettel cost,   *)
(* which text is to be embedded for a reference, and how many zettel and    *)
(* texts of zettel were put in (history).                                   *)
Fresh == [count |-> 0, cost |-> [z \in {} |-> <<>>], embed |-> [r \in {} |-> <<>>], steps |-> 0]
Marker == [evaluating |-> TRUE, blocks |-> <<>>, ec |-> 0]
Known(blocks, ec) == [evaluating |-> FALSE, blocks |-> blocks, ec |-> ec]

Counted(e, n) == [e EXCEPT !.count = @ + n]
Stepped(e) == [e EXCEPT !.steps = @ + 1]
Set(f, x, v) == [y \in DOMAIN f \cup {x} |-> IF y = x THEN v ELSE f[y]]

(* Elements ns in place of one, and the status after it                     *)
Made(ns, e) == [ns |-> ns, e |-> e]

-----------------------------------------------------------------------------
(* The text to be embedded *)

(* BlockSlice.FirstParagraphInlines; firstInlinesToEmbed without images     *)
FirstParagraphInlines(bs) ==
    LET ps == SelectSeq(bs, LAMBDA b : b.k = "para" /\ b.ins # <<>>) IN IF ps = <<>> THEN <<>> ELSE ps[1].ins

skipBreakNodes(ins) ==
    LET used == {i \in DOMAIN ins : ins[i].k # "break"} IN
    IF used = {} THEN <<>> ELSE SubSeq(ins, CHOOSE i \in used : \A j \in used : i <= j, Len(ins))

(* fragmentSearcher: found is what was found before; a heading or a mark    *)
(* ends the search in its own sequence only, and may replace what was found. *)
RECURSIVE searchInlines(_, _, _), searchBlocks(_, _, _)
searchInlines(ins, frag, found) ==
    LET n == ins[1]
        rest == skipBreakNodes(Tail(ins))
        inside == IF found = <<>> THEN searchInlines(n.ins, frag, found) ELSE found
    IN  CASE ins = <<>> -> found
          [] ins # <<>> /\ n.k = "mark" /\ n.frag = frag -> (IF n.ins = <<>> THEN <<>> ELSE Append(n.ins, Text(" "))) \o rest
          [] OTHER -> searchInlines(Tail(ins), frag, inside)
searchBlocks(bs, frag, found) ==
    LET n == bs[1]
        blocks == IF found = <<>> THEN searchBlocks(n.sub, frag, found) ELSE found
        inside == IF blocks = <<>> THEN searchInlines(n.ins, frag, blocks) ELSE blocks
    IN  CASE bs = <<>> -> found
          [] bs # <<>> /\ n.k = "heading" /\ n.frag = frag -> FirstParagraphInlines(Tail(bs))
          [] OTHER -> searchBlocks(Tail(bs), frag, inside)

findInlineSlice(bs, frag) == IF frag = "" THEN FirstParagraphInlines(bs) ELSE searchBlocks(bs, frag, <<>>)

-----------------------------------------------------------------------------
(* Mutant: the first transclusion beyond the maximum is still done.         *)
checkLate(e) == e.count > maxTransclusions + 1
checkMaxTransclusions(e) == e.count > maxTransclusions
TooMany(e) == [e EXCEPT !.count = maxTransclusions + 1]

(* createEmbeddedNodeLocal: of a file that is an image by its name          *)
LocalImage == [Node("image") EXCEPT !.a = "file"]

RECURSIVE visitBlockSlice(_, _, _), visitInlineSlice(_, _, _), evaluateEmbeddedZettel(_, _)

(* The zettel is evaluated unless it was before; meanwhile it is marked.    *)
(* The count begins anew when a zettel was evaluated.                       *)
evaluateEmbeddedZettel(z, e) ==
    LET r == visitBlockSlice(zettel[z].blocks, 1, [e EXCEPT !.cost = Set(@, z, Marker)]) IN
    IF z \in DOMAIN e.cost THEN e
    ELSE [r.e EXCEPT !.cost = Set(@, z, Known(r.ns, r.e.count - e.count)), !.count = 0]

(* What an evaluation adds to the count when it is used again               *)
CostOf(z, e) == IF z \in DOMAIN e.cost /\ e.cost[z].ec > 0 THEN e.cost[z].ec ELSE 0
(* Mutant: an evaluation stays marked.                                      *)
EvaluatedBefore(z, e) == z \in DOMAIN e.cost
Evaluating(z, e) == z \in DOMAIN e.cost /\ e.cost[z].evaluating

(* The list of links to the zettel a query selects: of all that can be read *)
evalQueryTransclusion(e) ==
    LET zids == SetToSeq({z \in DOMAIN zettel : zettel[z].status \notin {"missing", "hidden"}})
        item(z) == Para(<<[Node("link") EXCEPT !.ref = [NoRef EXCEPT !.state = "zettel", !.zid = z], !.ins = <<Text(z)>>]>>)
        list == [Node("list") EXCEPT !.sub = [i \in DOMAIN zids |-> item(zids[i])]]
        r == visitBlockSlice(<<list>>, 1, Counted(e, 1))
    IN  IF zids = <<>> THEN Made(<<>>, Counted(e, 1)) ELSE Made(r.ns, r.e)

evalTransclusionNode(n, e) ==
    LET z == n.ref.zid
        error(what, after) == Made(<<Para(<<ErrorText(what)>>)>>, after)
        after == evaluateEmbeddedZettel(z, e)
        status == IF z \in DOMAIN e.cost THEN "known" ELSE zettel[z].status
        ofZettel == CASE Evaluating(z, e) -> error("recursive", Counted(e, 1))
                      [] status = "hidden" -> Made(<<>>, e)
                      [] status = "missing" -> error("unable", Counted(e, 1))
                      [] OTHER -> Made(after.cost[z].blocks, Stepped(Counted(after, 1 + CostOf(z, e))))
        ofOther == CASE n.ref.state \in {"invalid", "self"} -> error(n.ref.state, Counted(e, 1))
                     [] n.ref.state = "file" -> Made(<<Para(<<LocalImage>>)>>, e)
                     [] n.ref.state = "query" -> evalQueryTransclusion(e)
                     [] n.ref.state = "external" -> Made(<<n>>, e)
    IN  CASE checkMaxTransclusions(e) -> error("many", TooMany(e))
          [] ~checkMaxTransclusions(e) /\ n.ref.state = "zettel" -> ofZettel
          [] OTHER -> ofOther

evalVerbatimZettel(n, e) ==
    LET r == visitBlockSlice(n.sub, 1, Counted(e, 1)) IN Made(r.ns, r.e)

evalBlock(n, e) ==
    CASE n.k = "vzettel" -> evalVerbatimZettel(n, e)
      [] n.k = "trans" -> evalTransclusionNode(n, e)
      [] OTHER -> Made(<<n>>, e)

-----------------------------------------------------------------------------
(* A link to a zettel the user may not read becomes a span of its text.     *)
evalLinkNode(n, e) ==
    LET shown == [n EXCEPT !.ins = IF @ = <<>> THEN <<Text(n.ref.zid)>> ELSE @] IN
    CASE n.ref.state = "zettel" /\ zettel[n.ref.zid].status = "hidden" -> Made(<<[Node("span") EXCEPT !.ins = shown.ins]>>, e)
      [] n.ref.state = "zettel" /\ zettel[n.ref.zid].status = "missing" -> Made(<<[shown EXCEPT !.ref.state = "broken"]>>, e)
      [] OTHER -> Made(<<shown>>, e)

(* createInlineErrorImage; updateImageRefNode                               *)
ErrorImage(n) == [Node("image") EXCEPT !.a = "error", !.ins = IF n.ins = <<>> THEN <<Text("placeholder")>> ELSE n.ins]
Image(n) == [Node("image") EXCEPT !.a = n.ref.zid, !.ins = IF n.ins = <<>> THEN <<Text("description")>> ELSE n.ins]

(* A zettel is embedded by a text of its own, found once for a reference.   *)
evalEmbedRefNode(n, e) ==
    LET z == n.ref.zid
        status == zettel[z].status
        error(what, counted) == Made(<<ErrorText(what)>>, Counted(e, counted))
        after == Counted(evaluateEmbeddedZettel(z, e), 1)
        text == IF n.ref \in DOMAIN after.embed THEN after.embed[n.ref] ELSE findInlineSlice(after.cost[z].blocks, n.ref.frag)
        found == Stepped([after EXCEPT !.embed = Set(@, n.ref, text)])
        ofText == CASE Evaluating(z, e) -> error("recursive", 1)
                    [] ~Evaluating(z, e) /\ text = <<>> -> Made(<<NothingToTransclude>>, found)
                    [] OTHER -> Made(text, Counted(found, CostOf(z, e)))
        ofZettel == CASE status = "hidden" -> Made(<<>>, e)
                      [] status = "missing" -> Made(<<ErrorImage(n)>>, Counted(e, 1))
                      [] status = "image" -> Made(<<Image(n)>>, e)
                      [] status = "other" -> error("other", 1)
                      [] status = "text" -> ofText
        ofOther == CASE n.ref.state = "self" -> error("self", 1)
                     [] n.ref.state = "query" -> error("illegal", 0)
                     [] n.ref.state = "invalid" -> Made(<<ErrorImage(n)>>, Counted(e, 1))
                     [] n.ref.state = "file" -> Made(<<[LocalImage EXCEPT !.ins = n.ins]>>, e)
                     [] n.ref.state = "external" -> Made(<<n>>, e)
    IN  CASE checkMaxTransclusions(e) -> Made(<<ErrorText("many")>>, TooMany(e))
          [] ~checkMaxTransclusions(e) /\ n.ref.state = "zettel" -> ofZettel
          [] OTHER -> ofOther

evalLiteralNode(n, e) ==
    LET r == visitInlineSlice(n.ins, 1, Counted(e, 1)) IN
    Made(IF r.ns = <<>> THEN <<NothingToTransclude>> ELSE r.ns, r.e)

evalInline(n, e) ==
    CASE n.k = "link" -> evalLinkNode(n, e)
      [] n.k = "embed" -> evalEmbedRefNode(n, e)
      [] n.k = "lzettel" -> evalLiteralNode(n, e)
      [] OTHER -> Made(<<n>>, e)

-----------------------------------------------------------------------------
(* The elements from i on are visited; what replaces one is not visited.    *)
(* transcludeNode, replaceWithBlockNodes, embedNode, replaceWithInlineNodes *)
Spliced(ns, i, new) == SubSeq(ns, 1, i - 1) \o new \o SubSeq(ns, i + 1, Len(ns))
(* Mutant: where an element was taken out, the next one is not visited.     *)
NextOneOff(i, new) == i + (IF new = <<>> THEN 1 ELSE Len(new))
NextIndex(i, new) == i + Len(new)

visitInlineSlice(ins, i, e) ==
    LET inner == visitInlineSlice(ins[i].ins, 1, e)
        walked == IF ins[i].k = "lzettel" THEN Made(<<ins[i]>>, e) ELSE Made(<<[ins[i] EXCEPT !.ins = inner.ns]>>, inner.e)
        r == evalInline(walked.ns[1], walked.e)
    IN  IF i > Len(ins) THEN Made(ins, e) ELSE visitInlineSlice(Spliced(ins, i, r.ns), NextIndex(i, r.ns), r.e)

visitBlockSlice(bs, i, e) ==
    LET inner == visitBlockSlice(bs[i].sub, 1, e)
        text == visitInlineSlice(bs[i].ins, 1, inner.e)
        walked == IF bs[i].k = "vzettel" THEN Made(<<bs[i]>>, e)
                  ELSE Made(<<[bs[i] EXCEPT !.sub = inner.ns, !.ins = text.ns]>>, text.e)
        r == evalBlock(walked.ns[1], walked.e)
    IN  IF i > Len(bs) THEN Made(bs, e) ELSE visitBlockSlice(Spliced(bs, i, r.ns), NextIndex(i, r.ns), r.e)

(* EvaluateZettel: the zettel itself is not known to its evaluation.        *)
EvaluateZettel(z) == visitBlockSlice(zettel[z].blocks, 1, Fresh)

-----------------------------------------------------------------------------
(* collect.References: where a tree that is not evaluated refers to         *)
RECURSIVE InlineReferences(_), References(_)
InlineReferences(ins) ==
    FlattenSeq([i \in DOMAIN ins |-> (IF ins[i].k \in {"link", "embed"} THEN <<ins[i].ref>> ELSE <<>>)
                                     \o (IF ins[i].k = "lzettel" THEN <<>> ELSE InlineReferences(ins[i].ins))])
References(bs) ==
    FlattenSeq([i \in DOMAIN bs |-> IF bs[i].k = "vzettel" THEN <<>>
                                    ELSE (IF bs[i].k = "trans" THEN <<bs[i].ref>> ELSE <<>>)
                                         \o InlineReferences(bs[i].ins) \o References(bs[i].sub)])
=============================================================================
