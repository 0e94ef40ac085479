------------------------------- MODULE QueryRun --------------------------------
(***************************************************************************)
(* The execution of a query that names zettel: their metadata are fetched,  *)
(* each directive replaces the list by another one (usecase/query.go,       *)
(* query/context.go, query/unlinked.go, collect/order.go), and the rest of  *)
(* the query selects from what is left.  No lock is held: between any two   *)
(* reads a zettel may be deleted.                                           *)
(*                                                                         *)
(* Costs are counted in tenths, the logarithm is rounded.                   *)
(***************************************************************************)
EXTENDS Integers, FiniteSets
LOCAL INSTANCE Sequences
LOCAL INSTANCE SequencesExt
LOCAL INSTANCE FiniteSetsExt

CONSTANTS
    Zids,
    Hidden,     \* zettel the user may not read
    Links,      \* Zids -> [key -> sequence of zids]: the values of identifier keys
    Tags,       \* Zids -> set of tags
    Title,      \* Zids -> sequence of words
    Blocks,     \* Zids -> sequence of [kind, items]: an item is a sequence of inlines
    Runs,       \* Zids -> sequence of [place, inlines]: the texts of a zettel
    Matching,   \* the zettel that the terms of the query select
    Queries,    \* [zids, directives]
    MaxVanish   \* zettel that are deleted meanwhile (a bound)

VARIABLES
    query,      \* what is executed
    store,      \* the zettel that exist
    pc,         \* "fetch", "direct", "context", "items", "filter", "done", "failed"
    todo,       \* zids or zettel still to process
    rest,       \* directives still to process
    list,       \* metaSeq
    queue, seen, costs, tagZids,  \* contextTask, and the cost of each zettel in list
    vanished    \* zettel that were deleted
vars == <<query, store, pc, todo, rest, list, queue, seen, costs, tagZids, vanished>>
contextVars == <<queue, seen, costs, tagZids>>

Readable == store \ Hidden

-----------------------------------------------------------------------------
(* Context *)

SingleKeys == {"predecessor"}                            \* meta.TypeID, not a set
InverseKeys == {"predecessor", "precursor", "superior"}  \* meta.Inverse(key) # ""

Infinity == 1000000
MaxCost(spec) == IF spec.cost <= 0 THEN 170 ELSE 10 * spec.cost
MaxCount(spec) == IF spec.count <= 0 THEN 200 ELSE spec.count
hasLimit(spec) == Cardinality(seen) >= MaxCount(spec)

contextCost(key) ==
    CASE key \in {"folge", "precursor"} -> 10
      [] key \in {"subordinates", "superior"} -> 15
      [] key \in {"successors", "predecessor"} -> 70
      [] OTHER -> 20

(* n * log2(n + 1) *)
referenceCost(n) == (CASE n = 0 -> 0 [] n = 1 -> 10 [] n = 2 -> 32 [] n = 3 -> 60 [] n = 4 -> 93)

Follows(key, direction) ==
    CASE key = "back" -> FALSE
      [] key = "backward" \/ key \in InverseKeys -> direction # "forward"
      [] OTHER -> direction # "backward"

(* addPair, addID, addIDSet: what is named by a key of z, and its cost *)
pairItems(z, key, cost) ==
    LET refs == Links[z][key]
        base == cost + contextCost(key)
        newCost == IF key \in SingleKeys THEN base ELSE base + referenceCost(Len(refs))
    IN  {[cost |-> newCost, zid |-> r] : r \in ToSet(refs) \cap Readable}

(* A tag is looked up once. *)
updateTagData(z) ==
    [t \in DOMAIN tagZids \cup Tags[z] |->
        IF t \in DOMAIN tagZids THEN tagZids[t] ELSE {r \in Readable : t \in Tags[r]}]

(* A further common tag reduces the cost by a factor of 1.1. *)
RECURSIVE Discount(_, _)
Discount(cost, n) == IF n <= 1 THEN cost ELSE Discount((10 * cost) \div 11, n - 1)

tagItems(z, zidsOf, cost) ==
    LET common(r) == {t \in Tags[z] : r \in zidsOf[t]}
        tagCost(t) == cost + referenceCost(Cardinality(zidsOf[t]))
    IN  {[cost |-> Discount(Min({tagCost(t) : t \in common(r)}), Cardinality(common(r))), zid |-> r]
         : r \in UNION {zidsOf[t] : t \in Tags[z]}}

(* Mutant: the cost is a limit everywhere. *)
AdmittedStrict(spec, items, seenNow) ==
    IF Cardinality(seenNow) >= MaxCount(spec) THEN {} ELSE {i \in items : i.zid \notin seenNow /\ i.cost <= MaxCost(spec)}

(* addMeta: around the first zettel that is processed, the cost is no limit. *)
Admitted(spec, items, seenNow) ==
    IF Cardinality(seenNow) >= MaxCount(spec) THEN {}
    ELSE {i \in items : i.zid \notin seenNow /\ (Cardinality(seenNow) <= 1 \/ i.cost <= MaxCost(spec))}

Expand(spec, item) ==
    LET z == item.zid
        keys == {k \in DOMAIN Links[z] : Follows(k, spec.direction)}
        zidsOf == IF spec.full THEN updateTagData(z) ELSE tagZids
        items == UNION {pairItems(z, k, item.cost) : k \in keys} \cup IF spec.full THEN tagItems(z, zidsOf, item.cost) ELSE {}
    IN  /\ queue' = (queue \ {item}) \cup Admitted(spec, items, seen \cup {z})
        /\ tagZids' = zidsOf

Nearest == {i \in queue : \A j \in queue : i.cost <= j.cost}

(* next: which of the nearest items comes first depends on the heap.        *)
ContextStep ==
    /\ pc = "context" /\ ~hasLimit(Head(rest))
    /\ \E item \in Nearest :
          IF item.zid \in seen
          THEN /\ queue' = queue \ {item}
               /\ UNCHANGED <<list, seen, costs, tagZids>>
          ELSE /\ list' = Append(list, item.zid)
               /\ seen' = seen \cup {item.zid}
               /\ costs' = [costs EXCEPT ![item.zid] = item.cost]
               /\ Expand(Head(rest), item)
    /\ UNCHANGED <<query, store, pc, todo, rest, vanished>>

(* Mutant: it goes on until there are enough. *)
ContextEndAtLimit ==
    /\ pc = "context" /\ hasLimit(Head(rest))
    /\ pc' = "direct" /\ rest' = Tail(rest)
    /\ UNCHANGED <<query, store, todo, list, contextVars, vanished>>

ContextEnd ==
    /\ pc = "context" /\ (queue = {} \/ hasLimit(Head(rest)))
    /\ pc' = "direct" /\ rest' = Tail(rest)
    /\ UNCHANGED <<query, store, todo, list, contextVars, vanished>>

-----------------------------------------------------------------------------
(* Items *)

(* The first zettel that is named outside a footnote *)
FirstReference(inlines) ==
    SelectSeq(inlines, LAMBDA i : i.kind = "zettel")
FirstItem(item) ==
    IF FirstReference(item) = <<>> THEN <<>> ELSE <<Head(FirstReference(item)).zid>>

Order(z) ==
    LET lists == SelectSeq(Blocks[z], LAMBDA b : b.kind \in {"ordered", "unordered"})
        Of(b) == FlattenSeq([i \in DOMAIN b.items |-> FirstItem(b.items[i])])
    IN  FlattenSeq([i \in DOMAIN lists |-> Of(lists[i])])

ItemsStep ==
    /\ pc = "items"
    /\ IF todo = <<>>
       THEN /\ pc' = "direct" /\ rest' = Tail(rest)
            /\ UNCHANGED <<todo, list>>
       ELSE /\ list' = IF Head(todo) \in Readable
                       THEN list \o SelectSeq(Order(Head(todo)), LAMBDA r : r \in Readable) ELSE list
            /\ todo' = Tail(todo)
            /\ UNCHANGED <<pc, rest>>
    /\ UNCHANGED <<query, store, contextVars, vanished>>

-----------------------------------------------------------------------------
(* Unlinked *)

GetWords(spec) ==
    IF spec.words # <<>> THEN spec.words ELSE FlattenSeq([i \in DOMAIN list |-> Title[list[i]]])

TextWords(z) == UNION {ToSet(i.words) : i \in UNION {ToSet(r.inlines) : r \in ToSet(Runs[z])}}
Candidates(words) == {z \in Readable : ToSet(words) \subseteq TextWords(z)}
(* What the zettel of the list are, and what they refer to *)
Linked == ToSet(list) \cup UNION {UNION {ToSet(Links[z][k]) : k \in DOMAIN Links[z]} : z \in ToSet(list)}

HasPhrase(text, words) == \E i \in 0 .. Len(text) - Len(words) : SubSeq(text, i + 1, i + Len(words)) = words

(* checkWords: adjacent texts are one; a list of inlines that has too few    *)
(* elements is not looked at, as if there were a node between two words.    *)
RECURSIVE TextRuns(_)
TextRuns(inlines) ==
    LET cuts == {i \in DOMAIN inlines : inlines[i].kind # "text"} IN
    IF inlines = <<>> THEN {}
    ELSE IF cuts = {} THEN {FlattenSeq([i \in DOMAIN inlines |-> inlines[i].words])}
    ELSE {FlattenSeq([i \in 1 .. Min(cuts) - 1 |-> inlines[i].words])} \cup TextRuns(SubSeq(inlines, Min(cuts) + 1, Len(inlines)))
checkWords(inlines, words) ==
    Len(inlines) >= 2 * Len(words) - 1 /\ \E text \in TextRuns(inlines) : HasPhrase(text, words)

(* The visitor does not look into headings, links and citations.            *)
Mentions(z, words) ==
    \E i \in DOMAIN Runs[z] : Runs[z][i].place \in {"meta", "text"} /\ checkWords(Runs[z][i].inlines, words)

FilterStep ==
    /\ pc = "filter"
    /\ IF todo = <<>>
       THEN /\ pc' = "direct" /\ rest' = Tail(rest)
            /\ UNCHANGED <<todo, list>>
       ELSE /\ list' = IF Head(todo).zid \in Readable /\ Mentions(Head(todo).zid, Head(todo).words)
                       THEN Append(list, Head(todo).zid) ELSE list
            /\ todo' = Tail(todo)
            /\ UNCHANGED <<pc, rest>>
    /\ UNCHANGED <<query, store, contextVars, vanished>>

-----------------------------------------------------------------------------
(* The use case *)

Init ==
    /\ query \in Queries
    /\ store \in {Zids, Zids \ {Max(Zids)}}
    /\ pc = "fetch" /\ todo = query.zids /\ rest = query.directives
    /\ list = <<>> /\ queue = {} /\ seen = {} /\ tagZids = [t \in {} |-> {}]
    /\ costs = [z \in Zids |-> Infinity]
    /\ vanished = {}

IsFatal(z) == z \notin store

(* getMetaZid: what must not be read is left out.                           *)
FetchStep ==
    /\ pc = "fetch"
    /\ IF todo = <<>> THEN /\ pc' = "direct"
                           /\ UNCHANGED <<todo, list>>
       ELSE IF IsFatal(Head(todo)) THEN /\ pc' = "failed"
                                        /\ UNCHANGED <<todo, list>>
       ELSE /\ list' = IF Head(todo) \in Hidden THEN list ELSE Append(list, Head(todo))
            /\ todo' = Tail(todo)
            /\ UNCHANGED pc
    /\ UNCHANGED <<query, store, rest, contextVars, vanished>>

StartContext ==
    /\ pc = "direct" /\ list # <<>> /\ rest # <<>> /\ Head(rest).kind = "context"
    /\ pc' = "context"
    /\ queue' = {[cost |-> 10, zid |-> z] : z \in ToSet(list)}
    /\ seen' = {} /\ tagZids' = [t \in {} |-> {}] /\ costs' = [z \in Zids |-> Infinity]
    /\ list' = <<>>
    /\ UNCHANGED <<query, store, todo, rest, vanished>>

StartItems ==
    /\ pc = "direct" /\ list # <<>> /\ rest # <<>> /\ Head(rest).kind = "items"
    /\ pc' = "items" /\ todo' = list /\ list' = <<>>
    /\ UNCHANGED <<query, store, rest, contextVars, vanished>>

StartUnlinked ==
    /\ pc = "direct" /\ list # <<>> /\ rest # <<>> /\ Head(rest).kind = "unlinked"
    /\ LET words == GetWords(Head(rest)) IN
       IF words = <<>> THEN /\ rest' = Tail(rest)
                            /\ UNCHANGED <<pc, todo, list>>
       ELSE /\ pc' = "filter" /\ list' = <<>>
            /\ \E seq \in SetToSeqs(Candidates(words) \ Linked) :
                  todo' = [i \in DOMAIN seq |-> [zid |-> seq[i], words |-> words]]
            /\ UNCHANGED rest
    /\ UNCHANGED <<query, store, contextVars, vanished>>

Ident ==
    /\ pc = "direct" /\ list # <<>> /\ rest # <<>> /\ Head(rest).kind = "ident"
    /\ rest' = Tail(rest)
    /\ UNCHANGED <<query, store, pc, todo, list, contextVars, vanished>>

Select ==
    /\ pc = "direct" /\ (list = <<>> \/ rest = <<>>)
    /\ list' = SelectSeq(list, LAMBDA z : z \in Matching)
    /\ pc' = "done"
    /\ UNCHANGED <<query, store, todo, rest, contextVars, vanished>>

(* Another user deletes a zettel. *)
Vanish(z) ==
    /\ pc \notin {"done", "failed"} /\ Cardinality(vanished) < MaxVanish /\ z \in store
    /\ store' = store \ {z} /\ vanished' = vanished \cup {z}
    /\ UNCHANGED <<query, pc, todo, rest, list, contextVars>>

Step == FetchStep \/ StartContext \/ ContextStep \/ ContextEnd \/ StartItems \/ ItemsStep
        \/ StartUnlinked \/ FilterStep \/ Ident \/ Select
Next == Step \/ \E z \in Zids : Vanish(z)
(* A request that runs goes on. *)
Spec == Init /\ [][Next]_vars /\ WF_vars(Step)
=============================================================================
