------------------------------- MODULE WebCache -------------------------------
(***************************************************************************)
(* What the web user interface keeps of zettel (web/adapter/webui): the     *)
(* compiled templates, and the code of the start zettel with all it needs   *)
(* (sxn_code.go), which is loaded in the order of a graph.  Requests fill   *)
(* both, each read of a zettel is a step; the notifier of the manager       *)
(* reports changes to the user interface, which drops what it keeps.        *)
(***************************************************************************)
EXTENDS Digraph, SequencesExt

CONSTANTS
    Workers,        \* requests
    Invalid,        \* the identifier in the report of a reload
    StartSxnZid, BaseSxnZid, PreludeSxnZid,
    Templates, ErrorTemplateZid,
    Predefined,     \* zettel of the constant box and their precursors
    Contents,       \* the precursors, in order, that a zettel may be given
    MaxChanges      \* bound: changes and reloads

VARIABLES
    store,          \* the zettel that can be read: version and precursors
    infos,          \* what was reported, not yet delivered
    recent,         \* destutterCache: the last reason delivered
    observing,      \* the report that observe works on
    templateCache,  \* version of each template in it
    mxZettelBinding,    \* the request that holds it, if any
    binding, dag,   \* zettelBinding, if any: what was loaded, in order; dag
    request,        \* what each request is doing
    changes,        \* counter for the bound
    ignored,        \* history: zettel whose last report was ignored
    late,           \* history: templates read before and stored after a report
    missed          \* history: zettel the present code was to have, and had not
storeVars == <<store, infos, changes>>
codeVars == <<mxZettelBinding, binding, dag, missed>>
vars == <<store, infos, recent, observing, templateCache, mxZettelBinding, binding, dag, request, changes, ignored, late, missed>>

Predefinition(z) == [version |-> 0, pre |-> Predefined[z]]
None == {}
RootBinding == {<<>>}   \* no zettel was loaded
Nobody == "nobody"

ASSUME ZidsAssumption ==
    /\ (DOMAIN Predefined) \cup (DOMAIN Contents) \cup {StartSxnZid, BaseSxnZid, PreludeSxnZid} \subseteq Int
    /\ \A z \in DOMAIN Predefined : Predefined[z] \in Seq(Int)
    /\ \A z \in DOMAIN Contents : Contents[z] \subseteq Seq(Int)
ASSUME WorkersAssumption == Nobody \notin Workers
ASSUME TemplatesAssumption == ErrorTemplateZid \in Templates

Report(reason, zid) == [reason |-> reason, zid |-> zid]
NoReport == Report("none", Invalid)

(* A request for a page that is made from a template; it is failing when    *)
(* the page is the one that reports an error.  While the code is loaded:    *)
(* the zettel that were read and are to be worked on, the one that is       *)
(* worked on and its precursors, the graph so far, the zettel to load.      *)
Idle == [pc |-> "idle", template |-> Invalid, read |-> 0, overtaken |-> FALSE, failing |-> FALSE,
         stack |-> <<>>, curr |-> Invalid, todo |-> <<>>, marked |-> {}, graph |-> NoGraph, order |-> <<>>, loaded |-> <<>>]

Init ==
    /\ store = [z \in DOMAIN Predefined |-> Predefinition(z)]
    /\ infos = <<>> /\ recent = [z \in {} |-> "none"] /\ observing = NoReport
    /\ templateCache = [z \in {} |-> 0] /\ binding = None /\ dag = NoGraph
    /\ mxZettelBinding = Nobody
    /\ request = [w \in Workers |-> Idle]
    /\ changes = 0 /\ ignored = {} /\ late = {} /\ missed = {}

Exists(z) == z \in DOMAIN store
At(w, pc) == request[w].pc = pc
Become(w, r) == request' = [request EXCEPT ![w] = r]

-----------------------------------------------------------------------------
(* Zettel change, by whoever changes them, and the boxes report it.         *)

Reported(reason, z) ==
    /\ changes < MaxChanges /\ changes' = changes + 1
    /\ infos' = Append(infos, Report(reason, z))
    /\ UNCHANGED <<recent, observing, templateCache, codeVars, request, ignored, late>>
Write(z) ==
    /\ \E pre \in Contents[z] :
        store' = [x \in DOMAIN store \cup {z} |-> IF x = z THEN [version |-> changes + 1, pre |-> pre] ELSE store[x]]
    /\ Reported("OnZettel", z)
(* The predefined zettel shows up again.                                    *)
Delete(z) ==
    /\ Exists(z) /\ (z \in DOMAIN Predefined => store[z] # Predefinition(z))
    /\ store' = [x \in (DOMAIN store \ {z}) \cup DOMAIN Predefined |-> IF x = z THEN Predefinition(z) ELSE store[x]]
    /\ Reported("OnDelete", z)
Reload == UNCHANGED store /\ Reported("OnReload", Invalid)

-----------------------------------------------------------------------------
(* The notifier: a report that repeats the one before, within 500 ms, is    *)
(* dropped; a later one of the same kind is not, so that both are possible. *)

ignoreUpdate(i) == i.zid \in DOMAIN recent /\ recent[i.zid] = i.reason
notifier ==
    /\ observing = NoReport /\ infos # <<>>
    /\ infos' = Tail(infos)
    /\ LET i == Head(infos) IN
       \/ /\ ignoreUpdate(i)
          /\ ignored' = ignored \cup {i.zid}
          /\ UNCHANGED <<recent, observing>>
       \/ /\ recent' = [z \in DOMAIN recent \cup {i.zid} |-> IF z = i.zid THEN i.reason ELSE recent[z]]
          /\ observing' = i
          /\ ignored' = IF i.reason = "OnReload" THEN {} ELSE ignored \ {i.zid}
    /\ UNCHANGED <<store, changes, templateCache, codeVars, request, late>>

(* observe: first the templates, *)
(* Mutant: only a template that is deleted is dropped. *)
DroppedIfGone == IF observing.reason = "OnReload" THEN Templates ELSE IF observing.reason = "OnDelete" THEN {observing.zid} ELSE {}
Dropped == IF observing.reason = "OnReload" THEN Templates ELSE {observing.zid}
observeTemplates ==
    /\ observing.reason \in {"OnZettel", "OnDelete", "OnReload"}
    /\ templateCache' = [z \in DOMAIN templateCache \ Dropped |-> templateCache[z]]
    /\ late' = late \ Dropped
    /\ request' = [w \in Workers |-> [request[w] EXCEPT !.overtaken = @ \/ (At(w, "compile") /\ request[w].template \in Dropped)]]
    /\ observing' = [observing EXCEPT !.reason = IF @ = "OnReload" THEN "all code" ELSE "code"]
    /\ UNCHANGED <<storeVars, recent, codeVars, ignored>>

(* then the code, when nobody is loading it                                 *)
(* Mutant: the load that is going on is not waited for. *)
NoLock == TRUE
MayLock == mxZettelBinding = Nobody
observeCode ==
    /\ observing.reason \in {"code", "all code"}
    /\ MayLock
    /\ IF observing.reason = "all code" \/ HasVertex(dag, observing.zid)
       THEN binding' = None /\ dag' = NoGraph
       ELSE UNCHANGED <<binding, dag>>
    /\ observing' = NoReport
    /\ UNCHANGED <<storeVars, recent, templateCache, mxZettelBinding, missed, request, ignored, late>>

-----------------------------------------------------------------------------
(* getParentEnv *)

Begin(w) ==
    /\ At(w, "idle")
    /\ \E t \in Templates \ {ErrorTemplateZid} : Become(w, [Idle EXCEPT !.pc = "env", !.template = t])
    /\ UNCHANGED <<storeVars, recent, observing, templateCache, codeVars, ignored, late>>

UseBinding(w) ==
    /\ At(w, "env") /\ mxZettelBinding = Nobody /\ binding # None
    /\ Become(w, [request[w] EXCEPT !.pc = "template"])
    /\ UNCHANGED <<storeVars, recent, observing, templateCache, codeVars, ignored, late>>
StartLoading(w) ==
    /\ At(w, "env") /\ mxZettelBinding = Nobody /\ binding = None
    /\ mxZettelBinding' = w
    /\ missed' = {}
    /\ Become(w, [request[w] EXCEPT !.pc = "start"])
    /\ UNCHANGED <<storeVars, recent, observing, templateCache, binding, dag, ignored, late>>

(* reportError makes another page, from the template for errors and with    *)
(* the code, which is loaded again; if that fails, the answer needs neither. *)
(* Mutant: an error in the page for errors is reported by another such page.*)
AfterAnyError(r) == [Idle EXCEPT !.pc = "env", !.template = ErrorTemplateZid, !.failing = TRUE]
AfterError(r) ==
    IF r.failing THEN Idle ELSE [Idle EXCEPT !.pc = "env", !.template = ErrorTemplateZid, !.failing = TRUE]

AfterLoading(r) == [Idle EXCEPT !.pc = "template", !.template = r.template, !.failing = r.failing]

(* The end of loadAllSxnCodeZettel and of getParentEnv: an error leaves     *)
(* nothing.                                                                 *)
Finish(w, error, bind, graph) ==
    /\ mxZettelBinding' = Nobody
    /\ binding' = IF error THEN binding ELSE bind
    /\ dag' = IF error THEN dag ELSE graph
    /\ Become(w, IF error THEN AfterError(request[w]) ELSE AfterLoading(request[w]))

(* buildSxnCodeDigraph reads the start zettel, *)
ReadStart(w) ==
    /\ At(w, "start")
    /\ IF Exists(StartSxnZid)
       THEN /\ Become(w, [request[w] EXCEPT !.pc = "build", !.stack = <<[zid |-> StartSxnZid, pre |-> store[StartSxnZid].pre]>>,
                                            !.graph = AddVertex(NoGraph, StartSxnZid)])
            /\ UNCHANGED codeVars
       ELSE /\ Finish(w, FALSE, RootBinding, NoGraph)
            /\ missed' = missed \cup {StartSxnZid}
    /\ UNCHANGED <<storeVars, recent, observing, templateCache, ignored, late>>

(* takes the last zettel that was read, unless it was worked on, *)
NextZettel(w) ==
    LET r == request[w]
        top == Last(r.stack)
    IN  /\ At(w, "build") /\ r.todo = <<>> /\ r.stack # <<>>
        /\ Become(w, [r EXCEPT !.stack = Front(@), !.curr = top.zid, !.marked = @ \cup {top.zid},
                               !.todo = IF top.zid \in r.marked THEN <<>> ELSE top.pre])
        /\ UNCHANGED <<storeVars, recent, observing, templateCache, codeVars, ignored, late>>

(* and reads its precursors.                                                *)
ReadPrecursor(w) ==
    LET r == request[w]
        p == Head(r.todo)
    IN  /\ At(w, "build") /\ r.todo # <<>>
        /\ IF Exists(p)
           THEN /\ Become(w, [r EXCEPT !.todo = Tail(@), !.stack = Append(@, [zid |-> p, pre |-> store[p].pre]), !.graph = AddEdges(@, r.curr, {p})])
                /\ UNCHANGED missed
           ELSE /\ Become(w, [r EXCEPT !.todo = Tail(@)])
                /\ missed' = missed \cup {p}
        /\ UNCHANGED <<storeVars, recent, observing, templateCache, mxZettelBinding, binding, dag, ignored, late>>

SxnCodeDigraph(graph) ==
    TransitiveClosure(AddEdges(AddEdges(graph, StartSxnZid, {BaseSxnZid}), BaseSxnZid, {PreludeSxnZid}), StartSxnZid)
NeedBase(w) ==
    /\ At(w, "build") /\ request[w].todo = <<>> /\ request[w].stack = <<>>
    /\ Become(w, [request[w] EXCEPT !.pc = "order", !.graph = SxnCodeDigraph(@)])
    /\ UNCHANGED <<storeVars, recent, observing, templateCache, codeVars, ignored, late>>
OrderZettel(w) ==
    /\ At(w, "order")
    /\ IF IsDAG(request[w].graph)
       THEN Become(w, [request[w] EXCEPT !.pc = "load", !.order = SortReverse(request[w].graph)]) /\ UNCHANGED codeVars
       ELSE Finish(w, TRUE, None, NoGraph) /\ UNCHANGED missed
    /\ UNCHANGED <<storeVars, recent, observing, templateCache, ignored, late>>

LoadZettel(w) ==
    LET r == request[w]
        z == Head(r.order)
    IN  /\ At(w, "load")
        /\ IF r.order = <<>> THEN Finish(w, FALSE, {r.loaded}, r.graph)
           ELSE IF Exists(z)
           THEN Become(w, [r EXCEPT !.order = Tail(@), !.loaded = Append(@, [zid |-> z, version |-> store[z].version])]) /\ UNCHANGED codeVars
           ELSE Finish(w, TRUE, None, NoGraph)
        /\ UNCHANGED <<storeVars, recent, observing, templateCache, missed, ignored, late>>

-----------------------------------------------------------------------------
(* getSxnTemplate *)

UseTemplate(w) ==
    /\ At(w, "template") /\ request[w].template \in DOMAIN templateCache
    /\ Become(w, Idle)
    /\ UNCHANGED <<storeVars, recent, observing, templateCache, codeVars, ignored, late>>
ReadTemplate(w) ==
    LET t == request[w].template IN
    /\ At(w, "template") /\ t \notin DOMAIN templateCache
    /\ Become(w, IF Exists(t) THEN [request[w] EXCEPT !.pc = "compile", !.read = store[t].version, !.overtaken = FALSE] ELSE AfterError(request[w]))
    /\ UNCHANGED <<storeVars, recent, observing, templateCache, codeVars, ignored, late>>
setSxnCache(w) ==
    LET t == request[w].template IN
    /\ At(w, "compile")
    /\ templateCache' = [z \in DOMAIN templateCache \cup {t} |-> IF z = t THEN request[w].read ELSE templateCache[z]]
    /\ late' = IF request[w].overtaken THEN late \cup {t} ELSE late \ {t}
    /\ Become(w, Idle)
    /\ UNCHANGED <<storeVars, recent, observing, codeVars, ignored>>

-----------------------------------------------------------------------------
Observe == notifier \/ observeTemplates \/ observeCode
Lock(w) == UseBinding(w) \/ StartLoading(w)
Serve(w) ==
    \/ ReadStart(w) \/ NextZettel(w) \/ ReadPrecursor(w) \/ NeedBase(w) \/ OrderZettel(w) \/ LoadZettel(w)
    \/ UseTemplate(w) \/ ReadTemplate(w) \/ setSxnCache(w)
Next ==
    \/ \E z \in DOMAIN Contents : Write(z) \/ Delete(z)
    \/ Reload
    \/ Observe
    \/ \E w \in Workers : Begin(w) \/ Lock(w) \/ Serve(w)
Spec == Init /\ [][Next]_vars

(* Whoever waits for a mutex gets it: Go's mutexes are handed to the one    *)
(* that waits longest after a millisecond.                                  *)
FairSpec ==
    /\ Spec
    /\ WF_vars(notifier \/ observeTemplates) /\ SF_vars(observeCode)
    /\ \A w \in Workers : SF_vars(Lock(w)) /\ WF_vars(Serve(w))

-----------------------------------------------------------------------------
Calm == infos = <<>> /\ observing = NoReport

(* A template in the cache is the zettel's present one when all is reported,*)
(* unless its last report was ignored, or a request stored what it had read *)
(* before the report was delivered.                                         *)
TemplateIsCurrent ==
    Calm => \A t \in DOMAIN templateCache :
        (Exists(t) /\ templateCache[t] = store[t].version) \/ t \in ignored \cup late

(* The zettel that would be loaded now: what the start zettel needs, and    *)
(* the base and the prelude code.                                           *)
FollowsPrecursors(S) == \A z \in S : ToSet(store[z].pre) \cap DOMAIN store \subseteq S
AllNeeded ==
    IF ~Exists(StartSxnZid) THEN {}
    ELSE {BaseSxnZid, PreludeSxnZid} \cup
         {z \in DOMAIN store : \A S \in SUBSET DOMAIN store : StartSxnZid \in S /\ FollowsPrecursors(S) => z \in S}

(* When nothing is left to be reported, the code that is used is the        *)
(* present code of all zettel that are needed, although zettel were changed *)
(* while it was loaded; unless a report on one of them was ignored, or a    *)
(* zettel was needed before it existed.                                     *)
CodeAsIfLoadedNow ==
    Calm /\ ignored \cap DOMAIN dag = {} /\ missed \cap DOMAIN store = {} =>
        \A bind \in binding : ToSet(bind) = {[zid |-> z, version |-> store[z].version] : z \in AllNeeded}

(* Every zettel of the graph is loaded once, after all zettel it needs;     *)
(* code with a cycle is not loaded.                                         *)
LoadedInOrder ==
    \A bind \in binding :
        LET place(z) == {i \in DOMAIN bind : bind[i].zid = z} IN
        /\ \A z \in DOMAIN dag : Cardinality(place(z)) = 1
        /\ \A z \in DOMAIN dag : \A p \in dag[z] : \A i \in place(z), j \in place(p) : j < i

(* The code that is kept is as current as what would be loaded now.        *)
CodeIsCurrent == CodeAsIfLoadedNow /\ LoadedInOrder
=============================================================================
