------------------------------ MODULE MCQueryRun -------------------------------
(***************************************************************************)
(* Queries with directives over six zettel that refer to each other.  The   *)
(* sixth one may be missing from the start, the fifth may not be read.      *)
(***************************************************************************)
EXTENDS Integers, Sequences, FiniteSets, SequencesExt, FiniteSetsExt

CONSTANT MaxVanish
VARIABLES query, store, pc, todo, rest, list, queue, seen, costs, tagZids, vanished
runVars == <<query, store, pc, todo, rest, list, queue, seen, costs, tagZids, vanished>>

MCZids == 1 .. 6
(* Both ends of each reference, as the index adds them to the metadata.     *)
MCLinks == <<
    [folge |-> <<2>>, forward |-> <<2, 3, 5>>, backward |-> <<2, 6>>, back |-> <<6>>],
    [precursor |-> <<1>>, forward |-> <<1, 4>>, backward |-> <<1, 3>>, back |-> <<3>>],
    [superior |-> <<4, 6>>, forward |-> <<2>>, backward |-> <<1, 5>>, back |-> <<1, 5>>],
    [predecessor |-> <<6>>, subordinates |-> <<3>>, backward |-> <<2, 5>>, back |-> <<2, 5>>],
    [forward |-> <<3, 4, 6>>, backward |-> <<1>>, back |-> <<1>>],
    [successors |-> <<4>>, subordinates |-> <<3>>, forward |-> <<1>>, backward |-> <<5>>, back |-> <<5>>]>>
MCTags == <<{"x", "y"}, {"x"}, {"y"}, {"x", "y"}, {"x"}, {}>>
MCTitle == <<<<"a">>, <<"a", "b">>, <<>>, <<"b">>, <<"a">>, <<"c">>>>

Named(z) == [kind |-> "zettel", zid |-> z]
Other == [kind |-> "other", zid |-> 0]
Footnote(z) == [kind |-> "footnote", zid |-> z]
MCBlocks == <<
    <<[kind |-> "ordered", items |-> <<<<Named(2), Named(3)>>, <<Other>>, <<Footnote(6), Named(4)>>>>],
      [kind |-> "quote", items |-> <<<<Named(6)>>>>],
      [kind |-> "unordered", items |-> <<<<Named(6), Named(1)>>>>]>>,
    <<[kind |-> "unordered", items |-> <<<<Named(1)>>, <<Named(2)>>>>]>>,
    <<>>, <<>>, <<>>, <<>>>>

Text(words) == [kind |-> "text", words |-> words]
Node == [kind |-> "other", words |-> <<>>]
Long == <<Text(<<"c">>), Node, Text(<<"c">>), Node>>
MCRuns == <<
    <<[place |-> "text", inlines |-> Long \o <<Text(<<"a", "b">>)>>]>>,
    <<[place |-> "heading", inlines |-> <<Text(<<"a">>)>>], [place |-> "meta", inlines |-> <<Text(<<"b", "c">>)>>]>>,
    <<[place |-> "text", inlines |-> Long \o <<Text(<<"b", "a">>)>>]>>,
    <<[place |-> "text", inlines |-> <<Text(<<"a", "b", "c">>)>>]>>,
    <<[place |-> "text", inlines |-> Long \o <<Text(<<"a">>), Text(<<"b">>)>>]>>,
    <<[place |-> "text", inlines |-> <<Text(<<"a">>), Node, Text(<<"b", "a">>)>> \o Long],
      [place |-> "link", inlines |-> Long \o <<Text(<<"a", "b">>)>>]>>>>

Context(full, direction, cost, count) ==
    [kind |-> "context", full |-> full, direction |-> direction, cost |-> cost, count |-> count]
Unlinked(words) == [kind |-> "unlinked", words |-> words]
Contexts == {Context(f, d, c, n) : f \in BOOLEAN, d \in {"both", "forward", "backward"}, c \in {0, 3, 8}, n \in {0, 3}}
Items == [kind |-> "items"]
MCQueries ==
    [zids : {<<1>>, <<2>>, <<3, 1>>, <<5, 4>>, <<6>>},
     directives : {<<c>> : c \in Contexts}
        \cup {<<Items>>, <<Items, Items>>, <<Context(FALSE, "both", 3, 0), Items>>, <<[kind |-> "ident"]>>}
        \cup {<<Unlinked(w)>> : w \in {<<>>, <<"a">>, <<"a", "b">>, <<"c">>}} \cup {<<Items, Unlinked(<<>>)>>}]

Q == INSTANCE QueryRun WITH
        Zids <- MCZids, Hidden <- {5}, Links <- MCLinks, Tags <- MCTags, Title <- MCTitle,
        Blocks <- MCBlocks, Runs <- MCRuns, Matching <- {1, 2, 3, 4, 5}, Queries <- MCQueries
Spec == Q!Spec

Directive(kind) == query.directives # <<>> /\ Head(query.directives).kind = kind
(* The list that a single directive of this kind made *)
Done(kind) == pc = "direct" /\ rest = <<>> /\ Len(query.directives) = 1 /\ Directive(kind)
(* What the first directive starts with *)
Start == SelectSeq(query.zids, LAMBDA z : z # 5)

-----------------------------------------------------------------------------
(* The first elements of a context are the near ones: without tags no       *)
(* zettel comes before one of smaller cost (the heap of contextTask).       *)
NearestFirst ==
    pc = "context" /\ ~Head(rest).full =>
        \A i, j \in DOMAIN list : i < j => costs[list[i]] <= costs[list[j]]

(* The cheapest ways from the start to all zettel, one link more each time; *)
(* for links of the zettel in free the maximum cost does not count.         *)
RECURSIVE Cheapest(_, _, _, _)
Cheapest(spec, free, dist, n) ==
    LET from(z) == UNION {Q!pairItems(z, k, dist[z]) : k \in {k \in DOMAIN MCLinks[z] : Q!Follows(k, spec.direction)}}
        ways(z) == {i \in from(z) : z \in free \/ i.cost <= Q!MaxCost(spec)}
        items == UNION {ways(z) : z \in {z \in MCZids : dist[z] < Q!Infinity}}
    IN  IF n = 0 THEN dist
        ELSE Cheapest(spec, free, [z \in MCZids |-> Min({dist[z]} \cup {i.cost : i \in {i \in items : i.zid = z}})], n - 1)

(* A context lists what the links lead to within the maximum cost, each      *)
(* zettel with the cost of the cheapest way to it, unless the maximum number *)
(* cuts it; the cost of a single link is the code's (it is 1.5 to a superior *)
(* or a subordinate zettel, the manual has 1.2).  The manual does not count  *)
(* the maximum for what any zettel of the list leads to directly, the code   *)
(* only for the first one: between these two is what may be listed, and they *)
(* are the same for a list of one zettel.                                    *)
ContextIsCheapest ==
    Done("context") /\ vanished = {} /\ list # <<>> =>
        LET spec == query.directives[1]
            cheapest(free) == Cheapest(spec, free, [z \in MCZids |-> IF z \in ToSet(Start) THEN 10 ELSE Q!Infinity], Cardinality(MCZids))
            longest == cheapest({list[1]})
            shortest == cheapest(ToSet(Start))
        IN  ~spec.full =>
              /\ \A z \in ToSet(list) : shortest[z] < Q!Infinity /\ shortest[z] <= costs[z] /\ costs[z] <= longest[z]
              /\ Len(list) < Q!MaxCount(spec) => {z \in MCZids : longest[z] < Q!Infinity} \subseteq ToSet(list)

(* A context is a list of different zettel, not more than wanted; it begins *)
(* with zettel of the query.                                                *)
ContextIsSet ==
    Done("context") =>
        /\ IsInjective(list)
        /\ Len(list) <= Q!MaxCount(query.directives[1])
        /\ \A i \in 1 .. Min({Len(list), Len(Start)}) : list[i] \in ToSet(Start)

(* A context is the neighbourhood of its first zettel, nearest first.       *)
ContextIsNear == NearestFirst /\ ContextIsCheapest /\ ContextIsSet

(* What must not be read is never listed, and is no reason to fail: a query *)
(* fails only when one of its zettel is missing.                            *)
HiddenIsSkipped ==
    /\ 5 \notin ToSet(list)
    /\ pc = "failed" => ToSet(query.zids) \ store # {}

(* ITEMS lists one zettel at most for each item of a list at the first      *)
(* level of the zettel: the first that is named there.                      *)
ItemsAreFirst ==
    Done("items") =>
        LET lists(z) == {b \in ToSet(MCBlocks[z]) : b.kind # "quote"}
            named(z) == UNION {ToSet(b.items) : b \in lists(z)}
        IN  \A z \in ToSet(list) : \E s \in ToSet(Start) : \E item \in named(s) :
              \E i \in DOMAIN item : item[i] = Named(z) /\ \A j \in 1 .. i - 1 : item[j].kind # "zettel"

(* The keys of references that a zettel makes itself *)
Own == {"forward"} \cup Q!InverseKeys

(* UNLINKED lists none of the zettel of the query and no zettel that         *)
(* references one, "the other zettel must not link to the specified zettel". *)
(* That the code leaves out the zettel these reference, too, is not demanded. *)
UnlinkedIsUnlinked ==
    Done("unlinked") /\ query.directives[1].words # <<>> =>
        \A z \in ToSet(list), s \in ToSet(Start) :
            z # s /\ \A k \in Own \cap DOMAIN MCLinks[z] : s \notin ToSet(MCLinks[z][k])

(* Directives list what they say, and nothing that must not be read.        *)
DirectivesAreExact == ContextIsNear /\ HiddenIsSkipped /\ ItemsAreFirst /\ UnlinkedIsUnlinked

(* A query comes to an end, whatever circles the references make.           *)
Ends == <>(pc \in {"done", "failed"})

-----------------------------------------------------------------------------
(* The manual: UNLINKED PHRASE finds all zettel that contain the phrase and *)
(* do not reference the zettel.  Here: of zettel that are in no way          *)
(* connected with it, in a single text.                                     *)
PhraseIsFound ==
    Done("unlinked") /\ vanished = {} /\ query.directives[1].words # <<>> /\ Start # <<>> =>
        LET words == query.directives[1].words
            linked == UNION {{s} \cup UNION {ToSet(MCLinks[s][k]) : k \in DOMAIN MCLinks[s]} : s \in ToSet(Start)}
            has(z) == \E i \in DOMAIN MCRuns[z] : MCRuns[z][i].place = "text"
                        /\ \E j \in DOMAIN MCRuns[z][i].inlines : Q!HasPhrase(MCRuns[z][i].inlines[j].words, words)
        IN  {z \in store \ ({5} \cup linked) : has(z)} \subseteq ToSet(list)
=============================================================================
