--------------------------- MODULE WebCacheProofs ---------------------------
(* What the user interface keeps of templates and of code, for any number   *)
(* of requests, zettel and changes: first the templates, then what the      *)
(* operations on graphs return, then the code.                              *)
EXTENDS WebCache, FiniteSetTheorems, TLAPS

Reasons == {"OnZettel", "OnDelete", "OnReload"}
Infos == [reason : Reasons, zid : (DOMAIN Contents) \cup {Invalid}]

(* A record that has what a request for a template is about.                *)
IsRequest(r) == {"pc", "template", "read", "overtaken"} \subseteq DOMAIN r

ShapeOK ==
    /\ infos \in Seq(Infos)
    /\ observing \in [reason : Reasons \cup {"none", "code", "all code"}, zid : (DOMAIN Contents) \cup {Invalid}]
    /\ DOMAIN request = Workers
    /\ \A w \in Workers : IsRequest(request[w])
    /\ \A w \in Workers : ~At(w, "idle") => request[w].template \in Templates
    /\ DOMAIN templateCache \subseteq Templates
    /\ DOMAIN Predefined \subseteq DOMAIN store

(* The user interface is still to drop the template t.                      *)
ToBeDropped(t) ==
    \/ \E i \in DOMAIN infos : infos[i].zid = t
    \/ observing.reason \in {"OnZettel", "OnDelete"} /\ observing.zid = t
    \/ observing.reason = "OnReload"

Current(t, version) == Exists(t) /\ version = store[t].version

(* What is in the cache, or will be, is current; or it will be dropped; or  *)
(* the report was ignored, or came while the template was compiled.         *)
CacheOK ==
    \A t \in DOMAIN templateCache :
        Current(t, templateCache[t]) \/ ToBeDropped(t) \/ t \in ignored \cup late
CompiledOK ==
    \A w \in Workers : At(w, "compile") =>
        \/ Current(request[w].template, request[w].read)
        \/ ToBeDropped(request[w].template)
        \/ request[w].template \in ignored
        \/ request[w].overtaken

IInv == ShapeOK /\ CacheOK /\ CompiledOK

(* A step that changes one request only, but neither store nor reports nor  *)
(* the cache, and does not read a template.                                 *)
LEMMA OtherRequest ==
  ASSUME IInv, NEW w \in Workers, NEW r, Become(w, r), IsRequest(r), r.pc # "compile",
         r.pc # "idle" => r.template \in Templates,
         UNCHANGED <<store, infos, observing, templateCache, ignored, late>>
  PROVE  IInv'
<1>1. /\ DOMAIN request' = Workers /\ request'[w] = r
      /\ \A x \in Workers \ {w} : request'[x] = request[x]
  BY DEF Become, IInv, ShapeOK
<1>2. ShapeOK'
  BY <1>1 DEF IInv, ShapeOK, At
<1>3. CacheOK'
  BY DEF IInv, CacheOK, Current, ToBeDropped, Exists
<1>4. CompiledOK'
  BY <1>1 DEF IInv, CompiledOK, Current, ToBeDropped, Exists, At
<1> QED
  BY <1>2, <1>3, <1>4 DEF IInv

LEMMA IdleRequest == IsRequest(Idle) /\ Idle.pc = "idle"
  BY DEF IsRequest, Idle

(* What a request does next when the code is loaded, or after an error.     *)
LEMMA AfterLoad ==
  ASSUME NEW r, r.template \in Templates, NEW s, s = AfterLoading(r) \/ s = AfterError(r)
  PROVE  /\ IsRequest(s) /\ s.pc \in {"idle", "env", "template"}
         /\ s.pc # "idle" => s.template \in Templates
         /\ DOMAIN s = DOMAIN Idle /\ s.marked = {} /\ s.todo = <<>> /\ s.loaded = <<>>
<1>1. CASE s = AfterLoading(r)
  BY <1>1 DEF AfterLoading, IsRequest, Idle
<1>2. CASE s = Idle
  BY <1>2 DEF IsRequest, Idle
<1>3. CASE s = [Idle EXCEPT !.pc = "env", !.template = ErrorTemplateZid, !.failing = TRUE]
  BY <1>3, TemplatesAssumption DEF IsRequest, Idle
<1> QED
  BY <1>1, <1>2, <1>3 DEF AfterError

-----------------------------------------------------------------------------
LEMMA InitIInv == Init => IInv
<1> SUFFICES ASSUME Init PROVE IInv
  OBVIOUS
<1>1. ShapeOK
  BY IdleRequest DEF Init, ShapeOK, Infos, NoReport, Report, At
<1>2. CacheOK /\ CompiledOK
  BY IdleRequest DEF Init, CacheOK, CompiledOK, At
<1> QED
  BY <1>1, <1>2 DEF IInv

(* A change is reported; so what was current is, or will be dropped.        *)
LEMMA ReportedKeeps ==
  ASSUME IInv, NEW z \in (DOMAIN Contents) \cup {Invalid}, NEW reason \in Reasons, Reported(reason, z),
         DOMAIN Predefined \subseteq DOMAIN store',
         \A t : t # z => (Exists(t)' <=> Exists(t)) /\ (Exists(t) => store'[t] = store[t])
  PROVE  IInv'
<1> DEFINE info == Report(reason, z)
<1>1. info \in Infos /\ info.zid = z /\ infos \in Seq(Infos) /\ infos' = Append(infos, info)
  BY DEF Report, Infos, Reported, IInv, ShapeOK
<1> HIDE DEF info
<1>2. /\ infos' \in Seq(Infos) /\ DOMAIN infos \subseteq DOMAIN infos'
      /\ \A i \in DOMAIN infos : infos'[i] = infos[i]
      /\ Len(infos) + 1 \in DOMAIN infos' /\ infos'[Len(infos) + 1] = info
  BY <1>1
<1>3. UNCHANGED <<observing, templateCache, request, ignored, late>>
  BY DEF Reported
<1>4. ToBeDropped(z)' /\ \A t : ToBeDropped(t) => ToBeDropped(t)'
  BY <1>1, <1>2, <1>3 DEF ToBeDropped
<1>5. \A t, v : t # z /\ Current(t, v) => Current(t, v)'
  BY DEF Current, Exists
<1>6. ShapeOK'
  BY <1>2, <1>3 DEF IInv, ShapeOK, At
<1>7. CacheOK'
  BY <1>3, <1>4, <1>5 DEF IInv, CacheOK
<1>8. CompiledOK'
  BY <1>3, <1>4, <1>5 DEF IInv, CompiledOK, At
<1> QED
  BY <1>6, <1>7, <1>8 DEF IInv

LEMMA ChangeKeeps ==
  ASSUME IInv, NEW z \in DOMAIN Contents, Write(z) \/ Delete(z)
  PROVE  IInv'
<1>1. DOMAIN Predefined \subseteq DOMAIN store
  BY DEF IInv, ShapeOK
<1>2. /\ DOMAIN Predefined \subseteq DOMAIN store'
      /\ \A t : t # z => (Exists(t)' <=> Exists(t)) /\ (Exists(t) => store'[t] = store[t])
  <2>1. CASE Write(z)
    BY <1>1, <2>1 DEF Write, Exists
  <2>2. CASE Delete(z)
    BY <1>1, <2>2 DEF Delete, Exists
  <2> QED
    BY <2>1, <2>2
<1> QED
  BY <1>2, ReportedKeeps DEF Write, Delete, Reasons

LEMMA ReloadKeeps == IInv /\ Reload => IInv'
  BY ReportedKeeps DEF Reload, Reasons, Exists, IInv, ShapeOK

-----------------------------------------------------------------------------
LEMMA notifierKeeps == IInv /\ notifier => IInv'
<1> SUFFICES ASSUME IInv, notifier PROVE IInv'
  OBVIOUS
<1> DEFINE i == Head(infos)
<1>1. /\ infos \in Seq(Infos) /\ infos # <<>> /\ infos' = Tail(infos) /\ observing = NoReport
      /\ UNCHANGED <<store, templateCache, request, late>>
  BY DEF notifier, IInv, ShapeOK
<1>2. /\ i \in Infos /\ infos' \in Seq(Infos) /\ 1 \in DOMAIN infos /\ i = infos[1]
      /\ \A k \in DOMAIN infos : k = 1 \/ (k - 1 \in DOMAIN infos' /\ infos'[k - 1] = infos[k])
  BY <1>1
<1>3. \/ ignored' = ignored \cup {i.zid} /\ observing' = observing
      \/ observing' = i /\ ignored' = IF i.reason = "OnReload" THEN {} ELSE ignored \ {i.zid}
  BY DEF notifier
<1> HIDE DEF i
<1>4. ASSUME NEW t, ToBeDropped(t) \/ t \in ignored
      PROVE  ToBeDropped(t)' \/ t \in ignored'
  <2>1. CASE ToBeDropped(t)
    <3>1. PICK k \in DOMAIN infos : infos[k].zid = t
      BY <1>1, <2>1 DEF ToBeDropped, NoReport, Report
    <3>2. CASE k = 1
      BY <1>2, <1>3, <3>1, <3>2 DEF ToBeDropped, Infos, Reasons
    <3>3. CASE k # 1
      BY <1>2, <3>1, <3>3 DEF ToBeDropped
    <3> QED
      BY <3>2, <3>3
  <2>2. CASE t \in ignored
    BY <1>2, <1>3, <2>2 DEF ToBeDropped, Infos, Reasons
  <2> QED
    BY <1>4, <2>1, <2>2
<1>5. ShapeOK'
  BY <1>1, <1>2, <1>3 DEF IInv, ShapeOK, Infos, At
<1>6. CacheOK'
  BY <1>1, <1>4 DEF IInv, CacheOK, Current, Exists
<1>7. CompiledOK'
  BY <1>1, <1>4 DEF IInv, CompiledOK, Current, Exists, At
<1> QED
  BY <1>5, <1>6, <1>7 DEF IInv

(* What is dropped is no longer in the cache; a request that compiles it is *)
(* overtaken.                                                               *)
LEMMA observeTemplatesKeeps == IInv /\ observeTemplates => IInv'
<1> SUFFICES ASSUME IInv, observeTemplates PROVE IInv'
  OBVIOUS
<1>1. /\ infos' = infos /\ UNCHANGED <<store, ignored>> /\ observing.reason \in Reasons
      /\ DOMAIN templateCache' = DOMAIN templateCache \ Dropped
      /\ \A t \in DOMAIN templateCache' : templateCache'[t] = templateCache[t]
      /\ late' = late \ Dropped
      /\ DOMAIN request' = Workers
      /\ observing' = [observing EXCEPT !.reason = IF observing.reason = "OnReload" THEN "all code" ELSE "code"]
  BY DEF observeTemplates, storeVars, Reasons
<1>2. \A w \in Workers :
         /\ DOMAIN request'[w] = DOMAIN request[w]
         /\ request'[w].pc = request[w].pc /\ request'[w].template = request[w].template
         /\ request'[w].read = request[w].read
         /\ request'[w].overtaken = (request[w].overtaken \/ (At(w, "compile") /\ request[w].template \in Dropped))
  BY DEF observeTemplates, IInv, ShapeOK, IsRequest
<1>3. ShapeOK'
  BY <1>1, <1>2 DEF IInv, ShapeOK, IsRequest, At
<1>4. ASSUME NEW t \in Templates \ Dropped PROVE ToBeDropped(t) => ToBeDropped(t)'
  BY <1>1 DEF ToBeDropped, Dropped, Reasons
<1>5. \A t, v : Current(t, v)' <=> Current(t, v)
  BY <1>1 DEF Current, Exists
<1>6. CacheOK'
  BY <1>1, <1>4, <1>5 DEF IInv, CacheOK, ShapeOK
<1>7. CompiledOK'
  <2> SUFFICES ASSUME NEW w \in Workers, At(w, "compile")'
               PROVE  \/ Current(request[w].template, request[w].read)'
                      \/ ToBeDropped(request[w].template)'
                      \/ (request[w].template \in ignored)'
                      \/ request[w].overtaken'
    BY DEF CompiledOK
  <2>1. At(w, "compile") /\ request[w].template \in Templates
    BY <1>2 DEF At, IInv, ShapeOK
  <2>2. PICK t \in Templates : t = request[w].template
    BY <2>1
  <2>3. PICK v : v = request[w].read
    OBVIOUS
  <2>4. request'[w].template = t /\ request'[w].read = v
    BY <1>2, <2>2, <2>3
  <2>5. \/ Current(t, v) \/ ToBeDropped(t) \/ t \in ignored \/ request[w].overtaken
    BY <2>1, <2>2, <2>3 DEF IInv, CompiledOK
  <2>6. t \in Dropped \/ request[w].overtaken => request'[w].overtaken
    BY <1>2, <2>1, <2>2
  <2>7. Current(t, v)' \/ ToBeDropped(t)' \/ t \in ignored' \/ request'[w].overtaken
    BY <1>1, <1>4, <1>5, <2>5, <2>6
  <2> QED
    BY <2>4, <2>7
<1> QED
  BY <1>3, <1>6, <1>7 DEF IInv

LEMMA observeCodeKeeps == IInv /\ observeCode => IInv'
<1> SUFFICES ASSUME IInv, observeCode PROVE IInv'
  OBVIOUS
<1>1. /\ UNCHANGED <<store, infos, templateCache, request, ignored, late>>
      /\ observing.reason \in {"code", "all code"} /\ observing' = NoReport
  BY DEF observeCode, storeVars
<1>2. \A t : ToBeDropped(t)' <=> ToBeDropped(t)
  BY <1>1 DEF ToBeDropped, NoReport, Report
<1>3. ShapeOK'
  BY <1>1 DEF IInv, ShapeOK, NoReport, Report, At
<1>4. CacheOK' /\ CompiledOK'
  BY <1>1, <1>2 DEF IInv, CacheOK, CompiledOK, Current, Exists, At
<1> QED
  BY <1>3, <1>4 DEF IInv

-----------------------------------------------------------------------------
(* A step of getParentEnv and of the loading of code.                       *)
LEMMA LoadingKeeps ==
  ASSUME IInv, NEW w \in Workers,
         \/ Begin(w) \/ Lock(w)
         \/ ReadStart(w) \/ NextZettel(w) \/ ReadPrecursor(w) \/ NeedBase(w) \/ OrderZettel(w) \/ LoadZettel(w)
  PROVE  IInv'
<1> DEFINE r == request[w]
<1>1. IsRequest(r) /\ (r.pc # "idle" => r.template \in Templates)
  BY DEF IInv, ShapeOK, At
<1>2. UNCHANGED <<store, infos, observing, templateCache, ignored, late>>
  BY DEF Begin, Lock, UseBinding, StartLoading, ReadStart, NextZettel, ReadPrecursor, NeedBase, OrderZettel,
         LoadZettel, storeVars
<1>3. ASSUME NEW t \in Templates, NEW pc \in {"env", "template"},
             Become(w, [Idle EXCEPT !.pc = pc, !.template = t])
      PROVE  IInv'
  <2>1. PICK s : s = [Idle EXCEPT !.pc = pc, !.template = t]
    OBVIOUS
  <2>2. IsRequest(s) /\ s.pc = pc /\ s.template = t
    BY <2>1 DEF IsRequest, Idle
  <2> QED
    BY <1>2, <1>3, <2>1, <2>2, OtherRequest
<1>4. ASSUME NEW s, Become(w, s), IsRequest(s), s.template = r.template, ~At(w, "idle"),
             s.pc \notin {"compile", "idle"}
      PROVE  IInv'
  BY <1>1, <1>2, <1>4, OtherRequest DEF At
<1>5. CASE Begin(w)
  BY <1>3, <1>5 DEF Begin
<1>6. CASE Lock(w)
  BY <1>1, <1>4, <1>6 DEF Lock, UseBinding, StartLoading, At, IsRequest
<1>7. ASSUME NEW error, NEW bind, NEW graph, Finish(w, error, bind, graph), ~At(w, "idle")
      PROVE  IInv'
  <2>1. PICK s : s = IF error THEN AfterError(r) ELSE AfterLoading(r)
    OBVIOUS
  <2>2. s = AfterLoading(r) \/ s = AfterError(r)
    BY <2>1
  <2>3. r.template \in Templates
    BY <1>1, <1>7 DEF At
  <2>4. IsRequest(s) /\ s.pc # "compile" /\ (s.pc # "idle" => s.template \in Templates)
    BY <2>2, <2>3, AfterLoad
  <2>5. Become(w, s)
    BY <1>7, <2>1 DEF Finish
  <2> QED
    BY <1>2, <2>4, <2>5, OtherRequest
<1>8. CASE ReadStart(w)
  <2>1. CASE Exists(StartSxnZid)
    BY <1>1, <1>4, <1>8, <2>1 DEF ReadStart, At, IsRequest
  <2>2. CASE ~Exists(StartSxnZid)
    BY <1>7, <1>8, <2>2 DEF ReadStart, At
  <2> QED
    BY <2>1, <2>2
<1>9. CASE NextZettel(w)
  BY <1>1, <1>4, <1>9 DEF NextZettel, At, IsRequest
<1>10. CASE ReadPrecursor(w)
  BY <1>1, <1>4, <1>10 DEF ReadPrecursor, At, IsRequest
<1>11. CASE NeedBase(w)
  BY <1>1, <1>4, <1>11 DEF NeedBase, At, IsRequest
<1>12. CASE OrderZettel(w)
  <2>1. CASE IsDAG(request[w].graph)
    BY <1>1, <1>4, <1>12, <2>1 DEF OrderZettel, At, IsRequest
  <2>2. CASE ~IsDAG(request[w].graph)
    BY <1>7, <1>12, <2>2 DEF OrderZettel, At
  <2> QED
    BY <2>1, <2>2
<1>13. CASE LoadZettel(w)
  <2>1. CASE r.order # <<>> /\ Exists(Head(r.order))
    BY <1>1, <1>4, <1>13, <2>1 DEF LoadZettel, At, IsRequest
  <2>2. CASE r.order = <<>> \/ ~Exists(Head(r.order))
    BY <1>7, <1>13, <2>2 DEF LoadZettel, At
  <2> QED
    BY <2>1, <2>2
<1> QED
  BY <1>5, <1>6, <1>8, <1>9, <1>10, <1>11, <1>12, <1>13

(* A template is read as it is; it is stored as what it was then.           *)
LEMMA TemplateKeeps ==
  ASSUME IInv, NEW w \in Workers, UseTemplate(w) \/ ReadTemplate(w) \/ setSxnCache(w)
  PROVE  IInv'
<1> DEFINE r == request[w]
           t == r.template
<1>1. IsRequest(r) /\ t \in Templates /\ DOMAIN request = Workers
  BY DEF IInv, ShapeOK, At, UseTemplate, ReadTemplate, setSxnCache
<1>2. CASE UseTemplate(w)
  BY <1>2, OtherRequest, IdleRequest DEF UseTemplate, storeVars
<1>3. CASE ReadTemplate(w) /\ ~Exists(t)
  <2>1. PICK s : s = AfterError(r)
    OBVIOUS
  <2>2. IsRequest(s) /\ s.pc # "compile" /\ (s.pc # "idle" => s.template \in Templates)
    BY <1>1, <2>1, AfterLoad
  <2> QED
    BY <1>3, <2>1, <2>2, OtherRequest DEF ReadTemplate, storeVars
<1>4. CASE ReadTemplate(w) /\ Exists(t)
  <2>1. PICK s : s = [r EXCEPT !.pc = "compile", !.read = store[t].version, !.overtaken = FALSE]
    OBVIOUS
  <2>2. IsRequest(s) /\ s.pc = "compile" /\ s.read = store[t].version /\ s.template = t
    BY <1>1, <2>1 DEF IsRequest
  <2>3. /\ UNCHANGED <<store, infos, observing, templateCache, ignored, late>>
        /\ DOMAIN request' = Workers /\ request'[w] = s
        /\ \A x \in Workers \ {w} : request'[x] = request[x]
    BY <1>1, <1>4, <2>1 DEF ReadTemplate, Become, storeVars
  <2>4. ShapeOK'
    BY <1>1, <2>2, <2>3 DEF IInv, ShapeOK, At
  <2>5. CacheOK'
    BY <2>3 DEF IInv, CacheOK, Current, ToBeDropped, Exists
  <2>6. Current(t, s.read)'
    BY <1>4, <2>2, <2>3 DEF Current, Exists
  <2>7. CompiledOK'
    <3>1. ASSUME NEW x \in Workers \ {w}, At(x, "compile")'
          PROVE  \/ Current(request[x].template, request[x].read)'
                 \/ ToBeDropped(request[x].template)'
                 \/ (request[x].template \in ignored)'
                 \/ request[x].overtaken'
      BY <2>3, <3>1 DEF IInv, CompiledOK, Current, ToBeDropped, Exists, At
    <3>2. Current(request[w].template, request[w].read)'
      BY <2>2, <2>3, <2>6
    <3> QED
      BY <3>1, <3>2 DEF CompiledOK
  <2> QED
    BY <2>4, <2>5, <2>7 DEF IInv
<1>5. CASE setSxnCache(w)
  <2>1. /\ UNCHANGED <<store, infos, observing, ignored>>
        /\ DOMAIN templateCache' = DOMAIN templateCache \cup {t} /\ templateCache'[t] = r.read
        /\ \A x \in DOMAIN templateCache \ {t} : templateCache'[x] = templateCache[x]
        /\ late' = IF r.overtaken THEN late \cup {t} ELSE late \ {t}
        /\ DOMAIN request' = Workers /\ request'[w] = Idle
        /\ \A x \in Workers \ {w} : request'[x] = request[x]
        /\ r.pc = "compile"
    BY <1>1, <1>5 DEF setSxnCache, Become, storeVars, At
  <2> HIDE DEF r, t
  <2>2. ShapeOK'
    BY <1>1, <2>1, IdleRequest DEF IInv, ShapeOK, At
  <2>3. /\ \A x : ToBeDropped(x)' <=> ToBeDropped(x)
        /\ \A x, v : Current(x, v)' <=> Current(x, v)
    BY <2>1 DEF ToBeDropped, Current, Exists
  <2>4. Current(t, r.read) \/ ToBeDropped(t) \/ t \in ignored \/ r.overtaken
    BY <2>1 DEF IInv, CompiledOK, At, r, t
  <2>5. CacheOK'
    BY <2>1, <2>3, <2>4 DEF IInv, CacheOK
  <2>6. CompiledOK'
    BY <2>1, <2>3, IdleRequest DEF IInv, CompiledOK, At
  <2> QED
    BY <2>2, <2>5, <2>6 DEF IInv
<1> QED
  BY <1>2, <1>3, <1>4, <1>5

LEMMA NextIInv == IInv /\ [Next]_vars => IInv'
<1> SUFFICES ASSUME IInv, [Next]_vars PROVE IInv'
  OBVIOUS
<1>1. ASSUME NEW z \in DOMAIN Contents, Write(z) \/ Delete(z) PROVE IInv'
  BY <1>1, ChangeKeeps
<1>2. CASE Reload
  BY <1>2, ReloadKeeps
<1>3. CASE Observe
  BY <1>3, notifierKeeps, observeTemplatesKeeps, observeCodeKeeps DEF Observe
<1>4. ASSUME NEW w \in Workers, Begin(w) \/ Lock(w) \/ Serve(w) PROVE IInv'
  BY <1>4, LoadingKeeps, TemplateKeeps DEF Serve
<1>5. CASE UNCHANGED vars
  BY <1>5 DEF IInv, ShapeOK, CacheOK, CompiledOK, Current, ToBeDropped, Exists, At, vars, storeVars
<1> QED
  BY <1>1, <1>2, <1>3, <1>4, <1>5 DEF Next

(* However many requests compile templates while these are changed, what    *)
(* stays in templateCache after the last observe is the present template,   *)
(* but for the two ways to miss a change that the property names.           *)
THEOREM TemplatesStayCurrent == Spec => []TemplateIsCurrent
<1>1. IInv => TemplateIsCurrent
  <2> SUFFICES ASSUME IInv, Calm, NEW t \in DOMAIN templateCache
               PROVE  (Exists(t) /\ templateCache[t] = store[t].version) \/ t \in ignored \cup late
    BY DEF TemplateIsCurrent
  <2>1. ~ToBeDropped(t)
    BY DEF ToBeDropped, Calm, NoReport, Report
  <2> QED
    BY <2>1 DEF IInv, CacheOK, Current
<1> QED
  BY <1>1, InitIInv, NextIInv, PTL DEF Spec

-----------------------------------------------------------------------------
(* Graphs as the code makes them: every edge leads to a vertex.             *)
IsGraph(dg) ==
    /\ IsFiniteSet(DOMAIN dg) /\ DOMAIN dg \subseteq Int
    /\ dg = [v \in DOMAIN dg |-> dg[v]]
    /\ \A v \in DOMAIN dg : dg[v] \subseteq DOMAIN dg

LEMMA LeastNumber ==
  ASSUME NEW T \in SUBSET Nat, T # {}
  PROVE  \E n \in T : \A m \in T : n <= m
<1>1. IsWellFoundedOn(OpToRel(<, Nat), Nat)
  BY NatLessThanWellFounded
<1>2. PICK n \in T : \A m \in T : ~(<<m, n>> \in OpToRel(<, Nat))
  BY <1>1, WFMin
<1>3. \A m \in T : ~(m < n)
  BY <1>2 DEF OpToRel
<1> QED
  BY <1>3

(* taken of SortReverse, up to round m                                      *)
IsTaken(dg, f, m) ==
    f = [i \in 0 .. m |-> IF i = 0 THEN {} ELSE {v \in DOMAIN dg : dg[v] \subseteq f[i - 1]}]

LEMMA TakenExists ==
  ASSUME NEW dg, NEW n \in Nat
  PROVE  \E f : IsTaken(dg, f, n)
<1> DEFINE Bad == {m \in Nat : ~ \E f : IsTaken(dg, f, m)}
<1> SUFFICES ASSUME Bad # {} PROVE FALSE
  OBVIOUS
<1>1. PICK m \in Bad : \A k \in Bad : m <= k
  BY LeastNumber
<1>2. m # 0
  <2>1. IsTaken(dg, [i \in 0 .. 0 |-> {}], 0)
    BY DEF IsTaken
  <2> QED
    BY <2>1, <1>1
<1>3. PICK g : IsTaken(dg, g, m - 1)
  BY <1>1, <1>2
<1> DEFINE f == [i \in 0 .. m |-> IF i < m THEN g[i] ELSE {v \in DOMAIN dg : dg[v] \subseteq g[m - 1]}]
<1>4. \A i \in 0 .. m - 1 : g[i] = IF i = 0 THEN {} ELSE {v \in DOMAIN dg : dg[v] \subseteq g[i - 1]}
  BY <1>3 DEF IsTaken
<1>5. \A i \in 0 .. m : f[i] = IF i = 0 THEN {} ELSE {v \in DOMAIN dg : dg[v] \subseteq f[i - 1]}
  <2> SUFFICES ASSUME NEW i \in 0 .. m
               PROVE  f[i] = IF i = 0 THEN {} ELSE {v \in DOMAIN dg : dg[v] \subseteq f[i - 1]}
    OBVIOUS
  <2>1. CASE i = 0
    <3>1. m \in Nat /\ 0 < m
      BY <1>1, <1>2
    <3>2. f[0] = g[0]
      BY <3>1
    <3>3. 0 \in 0 .. m - 1
      BY <3>1
    <3> HIDE DEF f, Bad
    <3>4. g[0] = {}
      BY <3>3, <1>4
    <3> QED
      BY <2>1, <3>2, <3>4
  <2>2. CASE i # 0
    <3>1. f[i - 1] = g[i - 1]
      BY <2>2
    <3>2. f[i] = {v \in DOMAIN dg : dg[v] \subseteq g[i - 1]}
      <4>1. CASE i = m
        BY <4>1, <1>1
      <4>2. CASE i < m
        <5>1. i \in 0 .. m - 1 /\ f[i] = g[i]
          BY <4>2, <1>1
        <5> QED
          BY <5>1, <2>2, <1>4
      <4> QED
        BY <4>1, <4>2, <1>1
    <3> QED
      BY <3>1, <3>2, <2>2
  <2> QED
    BY <2>1, <2>2
<1>6. f = [i \in 0 .. m |-> f[i]]
  OBVIOUS
<1> HIDE DEF f
<1>7. IsTaken(dg, f, m)
  BY <1>5, <1>6 DEF IsTaken
<1> QED
  BY <1>1, <1>7

LEMMA TakenIs ==
  ASSUME NEW dg, IsGraph(dg)
  PROVE  /\ Taken(dg)[0] = {}
         /\ \A i \in 1 .. Cardinality(DOMAIN dg) :
               Taken(dg)[i] = {v \in DOMAIN dg : dg[v] \subseteq Taken(dg)[i - 1]}
<1> DEFINE n == Cardinality(DOMAIN dg)
<1>1. n \in Nat /\ Rounds(dg) = 0 .. n
  BY FS_CardinalityType DEF IsGraph, Rounds
<1> DEFINE f == CHOOSE f : IsTaken(dg, f, n)
<1>2. IsTaken(dg, f, n)
  BY <1>1, TakenExists
<1>3. Taken(dg) = f
  BY <1>1 DEF Taken, IsTaken, Rounds
<1> HIDE DEF f
<1>4. \A i \in 0 .. n : f[i] = IF i = 0 THEN {} ELSE {v \in DOMAIN dg : dg[v] \subseteq f[i - 1]}
  BY <1>2 DEF IsTaken
<1> HIDE DEF n
<1>5. f[0] = {}
  <2>1. 0 \in 0 .. n
    BY <1>1
  <2> QED
    BY <2>1, <1>4
<1>6. \A i \in 1 .. n : f[i] = {v \in DOMAIN dg : dg[v] \subseteq f[i - 1]}
  <2> SUFFICES ASSUME NEW i \in 1 .. n PROVE f[i] = {v \in DOMAIN dg : dg[v] \subseteq f[i - 1]}
    OBVIOUS
  <2>1. i \in 0 .. n /\ i # 0
    OBVIOUS
  <2> QED
    BY <2>1, <1>4
<1> QED
  BY <1>3, <1>5, <1>6 DEF n

LEMMA TakenGrows ==
  ASSUME NEW dg, IsGraph(dg)
  PROVE  /\ \A i \in Rounds(dg) : Taken(dg)[i] \subseteq DOMAIN dg
         /\ \A i, j \in Rounds(dg) : i <= j => Taken(dg)[i] \subseteq Taken(dg)[j]
<1> DEFINE n == Cardinality(DOMAIN dg)
           T == Taken(dg)
<1>1. n \in Nat /\ Rounds(dg) = 0 .. n
  BY FS_CardinalityType DEF IsGraph, Rounds
<1>2. T[0] = {} /\ \A i \in 1 .. n : T[i] = {v \in DOMAIN dg : dg[v] \subseteq T[i - 1]}
  BY <1>1, TakenIs
<1> HIDE DEF n, T
<1>3. \A i \in 0 .. n : T[i] \subseteq DOMAIN dg
  <2> SUFFICES ASSUME NEW i \in 0 .. n PROVE T[i] \subseteq DOMAIN dg
    OBVIOUS
  <2>1. i = 0 \/ i \in 1 .. n
    BY <1>1
  <2> QED
    BY <2>1, <1>2
<1>4. \A i \in 1 .. n : T[i - 1] \subseteq T[i]
  <2> DEFINE Bad == {i \in 1 .. n : ~(T[i - 1] \subseteq T[i])}
  <2> SUFFICES ASSUME Bad # {} PROVE FALSE
    OBVIOUS
  <2>1. Bad \subseteq Nat
    OBVIOUS
  <2>2. PICK i \in Bad : \A k \in Bad : i <= k
    BY <2>1, LeastNumber
  <2>3. i \in 1 .. n /\ ~(T[i - 1] \subseteq T[i])
    OBVIOUS
  <2>4. i # 1
    BY <2>3, <1>2
  <2>5. i - 1 \in 1 .. n
    BY <2>3, <2>4, <1>1
  <2>6. i - 1 \notin Bad
    BY <2>2, <2>5
  <2>7. i - 1 \in 1 .. n /\ i - 1 \notin Bad
    BY <2>5, <2>6
  <2>8. T[i - 1 - 1] \subseteq T[i - 1]
    BY <2>7
  <2>9. /\ T[i - 1] = {v \in DOMAIN dg : dg[v] \subseteq T[i - 1 - 1]}
        /\ T[i] = {v \in DOMAIN dg : dg[v] \subseteq T[i - 1]}
    BY <2>3, <2>7, <1>2
  <2>10. T[i - 1] \subseteq T[i]
    BY <2>8, <2>9
  <2> QED
    BY <2>3, <2>10
<1>5. \A i, j \in 0 .. n : i <= j => T[i] \subseteq T[j]
  <2> SUFFICES ASSUME NEW i \in 0 .. n PROVE \A j \in 0 .. n : i <= j => T[i] \subseteq T[j]
    OBVIOUS
  <2> DEFINE Bad == {j \in 0 .. n : i <= j /\ ~(T[i] \subseteq T[j])}
  <2> SUFFICES ASSUME Bad # {} PROVE FALSE
    OBVIOUS
  <2>1. Bad \subseteq Nat
    OBVIOUS
  <2>2. PICK j \in Bad : \A k \in Bad : j <= k
    BY <2>1, LeastNumber
  <2>3. j \in 0 .. n /\ i <= j /\ ~(T[i] \subseteq T[j]) /\ j # i
    OBVIOUS
  <2>4. j - 1 \in 0 .. n /\ i <= j - 1 /\ j - 1 \notin Bad /\ j \in 1 .. n
    BY <2>2, <2>3, <1>1
  <2>5. T[i] \subseteq T[j - 1] /\ T[j - 1] \subseteq T[j]
    BY <2>4, <1>4
  <2> QED
    BY <2>3, <2>5
<1> QED
  BY <1>1, <1>3, <1>5 DEF T

(* After as many rounds as there are vertices nothing more can be taken.    *)
LEMMA TakenIsFull ==
  ASSUME NEW dg, IsGraph(dg), NEW v \in DOMAIN dg,
         dg[v] \subseteq Taken(dg)[Cardinality(DOMAIN dg)]
  PROVE  v \in Taken(dg)[Cardinality(DOMAIN dg)]
<1> DEFINE n == Cardinality(DOMAIN dg)
           T == Taken(dg)
           Ready(S) == {u \in DOMAIN dg : dg[u] \subseteq S}
           Bad == {i \in 0 .. n : ~(Cardinality(T[i]) >= i \/ Ready(T[i]) = T[i])}
<1>1. n \in Nat /\ Rounds(dg) = 0 .. n /\ IsFiniteSet(DOMAIN dg)
  BY FS_CardinalityType DEF IsGraph, Rounds
<1>2. T[0] = {} /\ \A i \in 1 .. n : T[i] = Ready(T[i - 1])
  BY <1>1, TakenIs
<1>3. /\ \A i \in 0 .. n : T[i] \subseteq DOMAIN dg
      /\ \A i, j \in 0 .. n : i <= j => T[i] \subseteq T[j]
  BY <1>1, TakenGrows
<1>4. \A i \in 0 .. n : IsFiniteSet(T[i]) /\ Cardinality(T[i]) \in Nat
  BY <1>1, <1>3, FS_Subset, FS_CardinalityType
<1> SUFFICES n \in Rounds(dg) => v \in T[n]
  BY <1>1
<1> HIDE DEF T, n, Ready
<1>5. Bad = {}
  <2> SUFFICES ASSUME Bad # {} PROVE FALSE
    OBVIOUS
  <2>1. Bad \subseteq Nat
    OBVIOUS
  <2>2. PICK i \in Bad : \A k \in Bad : i <= k
    BY <2>1, LeastNumber
  <2>3. i \in 0 .. n /\ ~(Cardinality(T[i]) >= i \/ Ready(T[i]) = T[i])
    OBVIOUS
  <2>4. i # 0
    BY <2>3, <1>1, <1>4
  <2>5. i \in 1 .. n /\ i - 1 \in 0 .. n /\ i - 1 \notin Bad
    BY <2>2, <2>3, <2>4, <1>1
  <2>6. Cardinality(T[i - 1]) >= i - 1 \/ Ready(T[i - 1]) = T[i - 1]
    BY <2>5
  <2>7. T[i] = Ready(T[i - 1]) /\ T[i - 1] \subseteq T[i]
    BY <2>5, <1>2, <1>3
  <2>8. T[i] # T[i - 1]
    BY <2>3, <2>7
  <2>9. Cardinality(T[i - 1]) < Cardinality(T[i])
    <3>1. IsFiniteSet(T[i]) /\ T[i - 1] \in SUBSET T[i]
      BY <2>5, <2>7, <1>4
    <3>2. Cardinality(T[i - 1]) <= Cardinality(T[i]) /\ Cardinality(T[i - 1]) # Cardinality(T[i])
      BY <3>1, <2>8, FS_Subset
    <3> QED
      BY <3>2, <2>5, <1>4
  <2>10. Cardinality(T[i]) >= i
    BY <2>5, <2>6, <2>7, <2>8, <2>9, <1>4
  <2> QED
    BY <2>3, <2>10
<1>6. n \in 0 .. n
  BY <1>1
<1>7. v \in Ready(T[n])
  BY DEF Ready, T, n
<1>8. CASE Ready(T[n]) = T[n]
  BY <1>7, <1>8
<1>9. CASE Cardinality(T[n]) >= n
  <2>1. T[n] \in SUBSET DOMAIN dg /\ Cardinality(T[n]) <= Cardinality(DOMAIN dg)
    BY <1>1, <1>3, <1>6, FS_Subset
  <2>2. Cardinality(DOMAIN dg) = Cardinality(T[n])
    BY <2>1, <1>9, <1>1, <1>4, <1>6 DEF n
  <2>3. DOMAIN dg = T[n]
    BY <2>1, <2>2, <1>1, FS_Subset
  <2> QED
    BY <2>3
<1> QED
  BY <1>5, <1>6, <1>8, <1>9

-----------------------------------------------------------------------------
LEMMA ReachIs ==
  ASSUME NEW dg, IsGraph(dg), NEW v \in DOMAIN dg
  PROVE  LET reach == ReachableVertices(dg, v) IN
         /\ reach \subseteq DOMAIN dg
         /\ dg[v] \subseteq reach
         /\ \A u \in reach : dg[u] \subseteq reach
         /\ \A S \in SUBSET DOMAIN dg :
               dg[v] \subseteq S /\ (\A u \in S : dg[u] \subseteq S) => reach \subseteq S
<1> DEFINE reach == ReachableVertices(dg, v)
           Keeps(S) == dg[v] \subseteq S /\ (\A u \in S : dg[u] \subseteq S)
<1>1. Succ(dg, v) \cap DOMAIN dg = dg[v]
  BY DEF Succ, IsGraph
<1>2. \A S \in SUBSET DOMAIN dg : Closed(dg, S) <=> \A u \in S : dg[u] \subseteq S
  BY DEF Closed, IsGraph
<1>3. \A w : w \in reach <=> w \in DOMAIN dg /\ \A S \in SUBSET DOMAIN dg : Keeps(S) => w \in S
  BY <1>1, <1>2 DEF ReachableVertices
<1>4. dg[v] \subseteq reach
  BY <1>3 DEF IsGraph
<1>5. ASSUME NEW u \in reach, NEW w \in dg[u] PROVE w \in reach
  <2>1. u \in DOMAIN dg /\ w \in DOMAIN dg
    BY <1>3, <1>5 DEF IsGraph
  <2>2. \A S \in SUBSET DOMAIN dg : Keeps(S) => w \in S
    BY <1>3, <1>5
  <2> QED
    BY <1>3, <2>1, <2>2
<1> QED
  BY <1>3, <1>4, <1>5

(* All that is not on a cycle is taken.                                     *)
LEMMA AcyclicIsTaken ==
  ASSUME NEW dg, IsGraph(dg), IsDAG(dg)
  PROVE  Taken(dg)[Cardinality(DOMAIN dg)] = DOMAIN dg
<1> DEFINE n == Cardinality(DOMAIN dg)
           R == DOMAIN dg \ Taken(dg)[n]
           Reach(v) == ReachableVertices(dg, v)
<1>1. Taken(dg)[n] \subseteq DOMAIN dg
  BY TakenGrows, FS_CardinalityType DEF IsGraph, Rounds
<1> SUFFICES ASSUME R # {} PROVE FALSE
  BY <1>1
<1>2. \A v \in R : \E w \in R : w \in dg[v]
  BY TakenIsFull DEF IsGraph
<1>3. \A v \in R : IsFiniteSet(Reach(v)) /\ Cardinality(Reach(v)) \in Nat
  BY ReachIs, FS_Subset, FS_CardinalityType DEF IsGraph
<1> DEFINE Sizes == {Cardinality(Reach(v)) : v \in R}
<1>4. PICK v \in R : \A w \in R : Cardinality(Reach(v)) <= Cardinality(Reach(w))
  <2>1. Sizes \in SUBSET Nat /\ Sizes # {}
    BY <1>3
  <2>2. PICK m \in Sizes : \A k \in Sizes : m <= k
    BY <2>1, LeastNumber
  <2> QED
    BY <2>2
<1>5. PICK w \in R : w \in dg[v]
  BY <1>2
<1>6. w \in Reach(v) /\ Reach(w) \subseteq Reach(v)
  BY <1>5, ReachIs
<1>7. w \notin Reach(w)
  BY DEF IsDAG
<1>8. Cardinality(Reach(w)) < Cardinality(Reach(v))
  <2>1. Reach(w) \in SUBSET Reach(v) /\ Reach(w) # Reach(v)
    BY <1>6, <1>7
  <2>2. Cardinality(Reach(w)) <= Cardinality(Reach(v)) /\ Cardinality(Reach(v)) # Cardinality(Reach(w))
    BY <2>1, <1>3, FS_Subset
  <2> QED
    BY <2>2, <1>3
<1> QED
  BY <1>3, <1>4, <1>8

LEMMA BeforeIsOrder ==
  ASSUME NEW dg, IsGraph(dg)
  PROVE  /\ \A u \in DOMAIN dg : ~Before(dg, u, u)
         /\ \A u, v \in DOMAIN dg : u # v => Before(dg, u, v) \/ Before(dg, v, u)
         /\ \A u, v, w \in DOMAIN dg :
               Before(dg, u, v) /\ Before(dg, v, w) => Before(dg, u, w)
<1> DEFINE T == Taken(dg)
           Earlier(u, v) == \E i \in Rounds(dg) : u \in T[i] /\ v \notin T[i]
           Same(u, v) == \A i \in Rounds(dg) : u \in T[i] <=> v \in T[i]
<1>1. \A u, v : Before(dg, u, v) <=> Earlier(u, v) \/ (u > v /\ Same(u, v))
  BY DEF Before
<1>2. Rounds(dg) \subseteq Int /\ DOMAIN dg \subseteq Int
  BY FS_CardinalityType DEF IsGraph, Rounds
<1>3. \A i, j \in Rounds(dg) : i <= j => T[i] \subseteq T[j]
  BY TakenGrows
<1>4. \A u, v : Earlier(u, v) => \A i \in Rounds(dg) : v \in T[i] => u \in T[i]
  BY <1>2, <1>3
<1>5. \A u, v, w : Earlier(u, v) /\ Earlier(v, w) => Earlier(u, w)
  BY <1>4
<1>6. \A u, v, w : Earlier(u, v) /\ Same(v, w) => Earlier(u, w)
  OBVIOUS
<1>7. \A u, v, w : Same(u, v) /\ Earlier(v, w) => Earlier(u, w)
  OBVIOUS
<1>8. \A u, v, w : Same(u, v) /\ Same(v, w) => Same(u, w)
  OBVIOUS
<1>9. \A u, v : Earlier(u, v) \/ Earlier(v, u) \/ Same(u, v)
  OBVIOUS
<1>10. \A u : ~Earlier(u, u)
  OBVIOUS
<1>11. \A u, v : Same(u, v) => Same(v, u)
  OBVIOUS
<1> HIDE DEF Earlier, Same
<1>12. \A u \in DOMAIN dg : ~Before(dg, u, u)
  BY <1>1, <1>2, <1>10
<1>13. \A u, v \in DOMAIN dg : u # v => Before(dg, u, v) \/ Before(dg, v, u)
  BY <1>1, <1>2, <1>9, <1>11
<1>14. \A u, v, w \in DOMAIN dg : Before(dg, u, v) /\ Before(dg, v, w) => Before(dg, u, w)
  BY <1>1, <1>2, <1>5, <1>6, <1>7, <1>8
<1> QED
  BY <1>12, <1>13, <1>14

-----------------------------------------------------------------------------
(* The place of a vertex in the order.                                      *)
Place(dg, v) == Cardinality({u \in DOMAIN dg : Before(dg, u, v)}) + 1

LEMMA PlaceOfBefore ==
  ASSUME NEW dg, IsGraph(dg)
  PROVE  /\ \A v \in DOMAIN dg : Place(dg, v) \in 1 .. Cardinality(DOMAIN dg)
         /\ \A u, v \in DOMAIN dg : Before(dg, u, v) => Place(dg, u) < Place(dg, v)
         /\ \A u, v \in DOMAIN dg : u # v => Place(dg, u) # Place(dg, v)
<1> DEFINE V == DOMAIN dg
           n == Cardinality(V)
           Smaller(v) == {u \in V : Before(dg, u, v)}
<1>1. IsFiniteSet(V) /\ n \in Nat
  BY FS_CardinalityType DEF IsGraph
<1>2. ASSUME NEW S \in SUBSET V, NEW T \in SUBSET V, S \subseteq T, S # T
      PROVE  Cardinality(S) \in Nat /\ Cardinality(T) \in Nat /\ Cardinality(S) < Cardinality(T)
  <2>1. IsFiniteSet(S) /\ IsFiniteSet(T) /\ Cardinality(S) \in Nat /\ Cardinality(T) \in Nat
    BY <1>1, FS_Subset, FS_CardinalityType
  <2>2. Cardinality(S) <= Cardinality(T) /\ Cardinality(T) # Cardinality(S)
    BY <1>2, <2>1, FS_Subset
  <2> QED
    BY <2>1, <2>2
<1>3. \A v \in V : Smaller(v) \subseteq V /\ v \notin Smaller(v)
  BY BeforeIsOrder
<1>4. \A u, v \in V : Before(dg, u, v) => Smaller(u) \subseteq Smaller(v) /\ u \in Smaller(v)
  BY BeforeIsOrder
<1>5. \A u, v \in V : u # v => Before(dg, u, v) \/ Before(dg, v, u)
  BY BeforeIsOrder
<1>6. \A v : Place(dg, v) = Cardinality(Smaller(v)) + 1
  BY DEF Place
<1> HIDE DEF V, n, Smaller
<1>7. ASSUME NEW v \in V PROVE Place(dg, v) \in 1 .. n
  <2>1. Cardinality(Smaller(v)) \in Nat /\ Cardinality(Smaller(v)) < n
    BY <1>2, <1>3 DEF n
  <2> QED
    BY <1>1, <1>6, <2>1
<1>8. ASSUME NEW u \in V, NEW v \in V, Before(dg, u, v) PROVE Place(dg, u) < Place(dg, v)
  <2>1. /\ Cardinality(Smaller(u)) \in Nat /\ Cardinality(Smaller(v)) \in Nat
        /\ Cardinality(Smaller(u)) < Cardinality(Smaller(v))
    BY <1>2, <1>3, <1>4, <1>8
  <2> QED
    BY <1>6, <2>1
<1>9. ASSUME NEW u \in V, NEW v \in V, u # v PROVE Place(dg, u) # Place(dg, v)
  BY <1>1, <1>5, <1>7, <1>8, <1>9
<1> QED
  BY <1>7, <1>8, <1>9 DEF V, n

(* SortReverse lists the vertices of a graph without cycles, each once, and *)
(* what it leads to before it.                                              *)
LEMMA Sorted ==
  ASSUME NEW dg, IsGraph(dg), IsDAG(dg)
  PROVE  LET list == SortReverse(dg) IN
         /\ list \in Seq(DOMAIN dg)
         /\ \A v \in DOMAIN dg : \E i \in DOMAIN list : list[i] = v
         /\ \A i, j \in DOMAIN list : list[i] = list[j] => i = j
         /\ \A i, j \in DOMAIN list : list[j] \in dg[list[i]] => j < i
<1> DEFINE V == DOMAIN dg
           n == Cardinality(V)
           T == Taken(dg)
           list == SortReverse(dg)
           p == [v \in V |-> Place(dg, v)]
<1>1. IsFiniteSet(V) /\ n \in Nat /\ T[n] = V /\ Rounds(dg) = 0 .. n
  BY FS_CardinalityType, AcyclicIsTaken DEF IsGraph, Rounds
<1>2. list = [i \in 1 .. n |-> CHOOSE v \in V : Place(dg, v) = i]
  BY <1>1 DEF SortReverse, Place
<1>3. p \in Injection(V, 1 .. n)
  BY PlaceOfBefore DEF Injection, IsInjective
<1>4. p \in Surjection(V, 1 .. n)
  <2>1. IsFiniteSet(1 .. n) /\ Cardinality(1 .. n) = n
    <3>1. IsFiniteSet(1 .. n) /\ Cardinality(1 .. n) = IF 1 > n THEN 0 ELSE n - 1 + 1
      BY <1>1, FS_Interval
    <3> HIDE DEF n
    <3> QED
      BY <1>1, <3>1
  <2> HIDE DEF p
  <2> QED
    BY <1>3, <2>1, FS_Injection
<1>5. \A i \in 1 .. n : \E v \in V : Place(dg, v) = i
  BY <1>4 DEF Surjection
<1>6. \A i \in 1 .. n : list[i] \in V /\ Place(dg, list[i]) = i
  BY <1>2, <1>5
<1>7. \A u \in V, v \in V : u \in dg[v] => Before(dg, u, v)
  <2> SUFFICES ASSUME NEW u \in V, NEW v \in V, u \in dg[v] PROVE Before(dg, u, v)
    OBVIOUS
  <2> DEFINE Rs == {i \in 0 .. n : v \in T[i]}
  <2>1. T[0] = {} /\ \A i \in 1 .. n : T[i] = {x \in DOMAIN dg : dg[x] \subseteq T[i - 1]}
    BY TakenIs
  <2> HIDE DEF T, n
  <2>2. Rs \in SUBSET Nat /\ n \in Rs
    BY <1>1
  <2>3. PICK i \in Rs : \A k \in Rs : i <= k
    BY <2>2, LeastNumber
  <2>4. i \in 0 .. n /\ i # 0 /\ v \in T[i]
    BY <2>3, <2>1
  <2>5. i \in 1 .. n /\ i - 1 \in 0 .. n /\ i - 1 \notin Rs
    BY <2>3, <2>4, <1>1
  <2>6. u \in T[i - 1] /\ v \notin T[i - 1]
    BY <2>4, <2>5, <2>1
  <2> QED
    BY <2>5, <2>6, <1>1 DEF Before, T
<1>8. list \in Seq(V) /\ DOMAIN list = 1 .. n
  BY <1>1, <1>2, <1>6
<1>9. \A v \in V : Place(dg, v) \in 1 .. n
  BY PlaceOfBefore
<1>10. \A u, v \in V : Place(dg, u) = Place(dg, v) => u = v
  BY PlaceOfBefore
<1>11. \A u, v \in V : Before(dg, u, v) => Place(dg, u) < Place(dg, v)
  BY PlaceOfBefore
<1> HIDE DEF list, n, V
<1>12. \A v \in V : \E i \in DOMAIN list : list[i] = v
  BY <1>6, <1>8, <1>9, <1>10
<1>13. \A i, j \in DOMAIN list : list[i] = list[j] => i = j
  BY <1>6, <1>8
<1>14. \A i, j \in DOMAIN list : list[j] \in dg[list[i]] => j < i
  BY <1>6, <1>7, <1>8, <1>11
<1> QED
  BY <1>8, <1>12, <1>13, <1>14 DEF list, V

-----------------------------------------------------------------------------
Loading == {"start", "build", "order", "load"}
CodeFields == {"pc", "template", "stack", "curr", "todo", "marked", "graph", "order", "loaded"}

(* The report that a zettel has changed was not delivered, or was ignored.  *)
Stale(z) ==
    \/ \E i \in DOMAIN infos : infos[i].zid = z
    \/ observing.reason \in {"OnZettel", "OnDelete", "code"} /\ observing.zid = z
    \/ observing.reason \in {"OnReload", "all code"}
    \/ z \in ignored
SamePrecursors(z, pre) == Stale(z) \/ (Exists(z) /\ store[z].pre = pre)
SameVersion(z, version) == Stale(z) \/ (Exists(z) /\ store[z].version = version)
(* S are the precursors of z, but for those that were missed.               *)
Follows(z, S) ==
    Stale(z) \/ (Exists(z) /\ S \subseteq ToSet(store[z].pre) /\ ToSet(store[z].pre) \subseteq S \cup missed)

(* A graph in which everything is reached from the start zettel.            *)
Rooted(g) ==
    \A S \in SUBSET DOMAIN g : StartSxnZid \in S /\ (\A u \in S : g[u] \subseteq S) => S = DOMAIN g
StartGraph(g) == IsGraph(g) /\ StartSxnZid \in DOMAIN g /\ Rooted(g)
Complete(g) == StartGraph(g) /\ \A v \in DOMAIN g : Follows(v, g[v])
Made(h) == \E g : Complete(g) /\ h = SxnCodeDigraph(g)

(* buildSxnCodeDigraph: what is in the graph was worked on, or is to be.    *)
BuildOK(r) ==
    /\ StartGraph(r.graph)
    /\ r.stack \in Seq([zid : DOMAIN r.graph, pre : Seq(Int)])
    /\ r.marked \subseteq DOMAIN r.graph /\ r.todo \in Seq(Int)
    /\ r.todo # <<>> => r.curr \in r.marked
    /\ \A v \in r.marked : Follows(v, r.graph[v] \cup IF v = r.curr THEN ToSet(r.todo) ELSE {})
    /\ \A v \in DOMAIN r.graph \ r.marked :
          r.graph[v] = {} /\ \E i \in DOMAIN r.stack : r.stack[i].zid = v
    /\ \A i \in DOMAIN r.stack : SamePrecursors(r.stack[i].zid, r.stack[i].pre)

(* loaded and order together are the sorted zettel of the graph h.          *)
ListOK(h, loaded, order) ==
    LET list == SortReverse(h) IN
    /\ Made(h) /\ IsDAG(h)
    /\ loaded \in Seq([zid : DOMAIN h, version : Nat]) /\ order \in Seq(DOMAIN h)
    /\ Len(loaded) + Len(order) = Len(list)
    /\ \A i \in 1 .. Len(loaded) : loaded[i].zid = list[i] /\ SameVersion(list[i], loaded[i].version)
    /\ \A i \in 1 .. Len(order) : order[i] = list[Len(loaded) + i]

RequestOK(r) ==
    /\ CodeFields \subseteq DOMAIN r
    /\ r.pc \in {"env", "start"} => r.marked = {} /\ r.todo = <<>>
    /\ r.pc \in {"env", "start", "build", "order"} => r.loaded = <<>>
    /\ r.pc = "build" => BuildOK(r)
    /\ r.pc = "order" => Made(r.graph)
    /\ r.pc = "load" => ListOK(r.graph, r.loaded, r.order)
Bound(bind) ==
    \/ bind = <<>> /\ dag = NoGraph /\ StartSxnZid \in missed
    \/ ListOK(dag, bind, <<>>)

StoreOK ==
    /\ changes \in Nat
    /\ DOMAIN store \subseteq Int
    /\ \A z \in DOMAIN store : store[z] \in [version : Nat, pre : Seq(Int)]
LoaderOK ==
    \A w \in Workers : request[w].pc \in Loading => mxZettelBinding = w /\ binding = None
CodeInv ==
    /\ StoreOK /\ LoaderOK
    /\ \A w \in Workers : RequestOK(request[w])
    /\ \A bind \in binding : Bound(bind)

-----------------------------------------------------------------------------
(* The base and the prelude code are added; everything is still reached.    *)
LEMMA CodeDigraphIs ==
  ASSUME NEW g, StartGraph(g)
  PROVE  LET h == SxnCodeDigraph(g) IN
         IsGraph(h) /\ DOMAIN h = DOMAIN g \cup {BaseSxnZid, PreludeSxnZid}
<1> DEFINE g1 == AddEdges(g, StartSxnZid, {BaseSxnZid})
           g2 == AddEdges(g1, BaseSxnZid, {PreludeSxnZid})
           reach == ReachableVertices(g2, StartSxnZid)
           D == DOMAIN g \cup {BaseSxnZid, PreludeSxnZid}
<1>1. /\ IsFiniteSet(DOMAIN g) /\ DOMAIN g \subseteq Int /\ StartSxnZid \in DOMAIN g
      /\ \A v \in DOMAIN g : g[v] \subseteq DOMAIN g
  BY DEF StartGraph, IsGraph
<1>2. /\ DOMAIN g1 = DOMAIN g \cup {BaseSxnZid}
      /\ \A v \in DOMAIN g1 : g1[v] = (IF v \in DOMAIN g THEN g[v] ELSE {}) \cup (IF v = StartSxnZid THEN {BaseSxnZid} ELSE {})
  BY <1>1 DEF AddEdges
<1> HIDE DEF g1
<1>3. /\ DOMAIN g2 = D /\ g2 = [v \in D |-> g2[v]]
      /\ \A v \in D : g2[v] = (IF v \in DOMAIN g1 THEN g1[v] ELSE {}) \cup (IF v = BaseSxnZid THEN {PreludeSxnZid} ELSE {})
  BY <1>2 DEF AddEdges
<1> HIDE DEF g2
<1>4. IsGraph(g2)
  <2>1. IsFiniteSet(D)
    <3>1. IsFiniteSet({BaseSxnZid}) /\ IsFiniteSet({PreludeSxnZid})
      BY FS_Singleton
    <3>2. D = (DOMAIN g \cup {BaseSxnZid}) \cup {PreludeSxnZid}
      OBVIOUS
    <3> QED
      BY <1>1, <3>2, FS_AddElement
  <2>2. D \subseteq Int
    BY <1>1, ZidsAssumption
  <2>3. \A v \in D : g2[v] \subseteq D
    BY <1>1, <1>2, <1>3
  <2> QED
    BY <1>3, <2>1, <2>2, <2>3 DEF IsGraph
<1>5. reach \subseteq D /\ g2[StartSxnZid] \subseteq reach /\ \A u \in reach : g2[u] \subseteq reach
  BY <1>1, <1>3, <1>4, ReachIs
<1> HIDE DEF reach
<1>6. {StartSxnZid} \cup reach = D
  <2> DEFINE S == ({StartSxnZid} \cup reach) \cap DOMAIN g
  <2>1. \A u \in S : g[u] \subseteq S
    BY <1>1, <1>2, <1>3, <1>5
  <2>2. S = DOMAIN g
    BY <1>1, <2>1 DEF StartGraph, Rooted
  <2>3. BaseSxnZid \in reach
    BY <1>1, <1>2, <1>3, <1>5
  <2>4. PreludeSxnZid \in reach
    BY <1>3, <1>5, <2>3
  <2> QED
    BY <1>1, <1>5, <2>2, <2>3, <2>4
<1>7. SxnCodeDigraph(g) = g2
  BY <1>3, <1>6 DEF SxnCodeDigraph, TransitiveClosure, Succ, g1, g2, reach
<1> QED
  BY <1>3, <1>4, <1>7

(* h is the graph g with an edge from c to p.                               *)
WithEdge(h, g, c, p) ==
    /\ DOMAIN h = DOMAIN g \cup {p}
    /\ \A v \in DOMAIN h : h[v] = (IF v \in DOMAIN g THEN g[v] ELSE {}) \cup (IF v = c THEN {p} ELSE {})

(* A zettel that was read is in the graph.                                  *)
LEMMA EdgeKeepsGraph ==
  ASSUME NEW g, StartGraph(g), NEW c \in DOMAIN g, NEW p \in Int, NEW h, h = AddEdges(g, c, {p})
  PROVE  StartGraph(h) /\ WithEdge(h, g, c, p)
<1> DEFINE D == DOMAIN g \cup {p}
<1>1. /\ IsFiniteSet(DOMAIN g) /\ DOMAIN g \subseteq Int /\ StartSxnZid \in DOMAIN g
      /\ \A v \in DOMAIN g : g[v] \subseteq DOMAIN g
  BY DEF StartGraph, IsGraph
<1>2. /\ DOMAIN h = D /\ h = [v \in D |-> h[v]]
      /\ \A v \in D : h[v] = (IF v \in DOMAIN g THEN g[v] ELSE {}) \cup (IF v = c THEN {p} ELSE {})
  BY DEF AddEdges
<1>3. IsFiniteSet(D)
  BY <1>1, FS_AddElement
<1>4. IsGraph(h)
  <2>1. D \subseteq Int /\ \A v \in D : h[v] \subseteq D
    BY <1>1, <1>2
  <2>2. h = [v \in DOMAIN h |-> h[v]]
    BY <1>2
  <2> HIDE DEF D
  <2> QED
    BY <1>2, <1>3, <2>1, <2>2 DEF IsGraph
<1>5. Rooted(h)
  <2> SUFFICES ASSUME NEW S \in SUBSET D, StartSxnZid \in S, \A u \in S : h[u] \subseteq S PROVE S = D
    BY <1>2 DEF Rooted
  <2> DEFINE R == S \cap DOMAIN g
  <2>1. \A u \in R : g[u] \subseteq R
    BY <1>1, <1>2
  <2>2. R = DOMAIN g
    BY <1>1, <2>1 DEF StartGraph, Rooted
  <2>3. p \in S
    BY <1>2, <2>2
  <2> QED
    BY <2>2, <2>3
<1> QED
  BY <1>1, <1>2, <1>4, <1>5 DEF StartGraph, WithEdge

LEMMA MadeIsGraph ==
  ASSUME NEW h, Made(h)
  PROVE  IsGraph(h)
  BY CodeDigraphIs DEF Made, Complete

-----------------------------------------------------------------------------
(* Whatever is reported, and not yet used, leaves the graphs as right as    *)
(* they were.                                                               *)
LEMMA ListStays ==
  ASSUME NEW h, NEW loaded, NEW order, ListOK(h, loaded, order), missed \subseteq missed',
         \A v \in DOMAIN h :
            /\ Stale(v) => Stale(v)'
            /\ Stale(v)' \/ (Exists(v) => Exists(v)' /\ store'[v] = store[v])
  PROVE  ListOK(h, loaded, order)'
<1>1. PICK g : Complete(g) /\ h = SxnCodeDigraph(g)
  BY DEF ListOK, Made
<1>2. DOMAIN g \subseteq DOMAIN h /\ IsGraph(h)
  BY <1>1, CodeDigraphIs DEF Complete
<1>3. \A v \in DOMAIN h : \A S : Follows(v, S) => Follows(v, S)'
  BY DEF Follows
<1>4. \A v \in DOMAIN h : \A n : SameVersion(v, n) => SameVersion(v, n)'
  BY DEF SameVersion
<1>5. Complete(g)'
  BY <1>1, <1>2, <1>3 DEF Complete
<1>6. Made(h)'
  BY <1>1, <1>5 DEF Made
<1>7. SortReverse(h) \in Seq(DOMAIN h)
  BY <1>2, Sorted DEF ListOK
<1>8. Len(loaded) \in Nat /\ Len(order) \in Nat /\ Len(SortReverse(h)) \in Nat
  BY <1>7 DEF ListOK
<1>9. \A i \in 1 .. Len(loaded) : SortReverse(h)[i] \in DOMAIN h
  BY <1>7, <1>8 DEF ListOK
<1> QED
  BY <1>4, <1>6, <1>9 DEF ListOK

LEMMA MadeStays ==
  ASSUME NEW h, Made(h), missed \subseteq missed',
         \A v : /\ Stale(v) => Stale(v)'
                /\ Stale(v)' \/ (Exists(v) => Exists(v)' /\ store'[v] = store[v])
  PROVE  Made(h)'
<1>1. \A v, S : Follows(v, S) => Follows(v, S)'
  BY DEF Follows
<1>2. \A g : Complete(g) => Complete(g)'
  BY <1>1 DEF Complete
<1> QED
  BY <1>2 DEF Made

LEMMA BuildStays ==
  ASSUME NEW r, BuildOK(r), missed \subseteq missed',
         \A v : /\ Stale(v) => Stale(v)'
                /\ Stale(v)' \/ (Exists(v) => Exists(v)' /\ store'[v] = store[v])
  PROVE  BuildOK(r)'
<1>1. \A v, S : Follows(v, S) => Follows(v, S)'
  BY DEF Follows
<1>2. \A v, pre : SamePrecursors(v, pre) => SamePrecursors(v, pre)'
  BY DEF SamePrecursors
<1> QED
  BY <1>1, <1>2 DEF BuildOK

LEMMA BoundStays ==
  ASSUME NEW bind, Bound(bind), UNCHANGED dag, missed \subseteq missed',
         \A v \in DOMAIN dag :
            /\ Stale(v) => Stale(v)'
            /\ Stale(v)' \/ (Exists(v) => Exists(v)' /\ store'[v] = store[v])
  PROVE  Bound(bind)'
<1>1. CASE bind = <<>> /\ dag = NoGraph /\ StartSxnZid \in missed
  BY <1>1 DEF Bound
<1>2. CASE ListOK(dag, bind, <<>>)
  <2>1. PICK h : h = dag
    OBVIOUS
  <2>2. ListOK(h, bind, <<>>)'
    BY <1>2, <2>1, ListStays
  <2>3. ListOK(dag, bind, <<>>)'
    BY <2>1, <2>2
  <2> QED
    BY <2>3 DEF Bound
<1> QED
  BY <1>1, <1>2 DEF Bound

LEMMA RequestStays ==
  ASSUME NEW r, RequestOK(r), missed \subseteq missed',
         \A v : /\ Stale(v) => Stale(v)'
                /\ Stale(v)' \/ (Exists(v) => Exists(v)' /\ store'[v] = store[v])
  PROVE  RequestOK(r)'
<1>1. r.pc = "build" => BuildOK(r)'
  BY BuildStays DEF RequestOK
<1>2. r.pc = "order" => Made(r.graph)'
  BY MadeStays DEF RequestOK
<1>3. r.pc = "load" => ListOK(r.graph, r.loaded, r.order)'
  BY ListStays DEF RequestOK
<1> QED
  BY <1>1, <1>2, <1>3 DEF RequestOK

(* Only what the code is loaded with counts.                                *)
LEMMA SameRequest ==
  ASSUME NEW r, NEW s, RequestOK(r), CodeFields \subseteq DOMAIN s, \A x \in CodeFields : s[x] = r[x]
  PROVE  RequestOK(s)
<1>1. /\ s.pc = r.pc /\ s.stack = r.stack /\ s.curr = r.curr /\ s.todo = r.todo /\ s.marked = r.marked
      /\ s.graph = r.graph /\ s.order = r.order /\ s.loaded = r.loaded
  BY DEF CodeFields
<1>2. BuildOK(r) => BuildOK(s)
  <2> SUFFICES ASSUME BuildOK(r) PROVE BuildOK(s)
    OBVIOUS
  <2> DEFINE Worked(q) == \A v \in q.marked : Follows(v, q.graph[v] \cup IF v = q.curr THEN ToSet(q.todo) ELSE {})
             Rest(q) == \A v \in DOMAIN q.graph \ q.marked :
                           q.graph[v] = {} /\ \E i \in DOMAIN q.stack : q.stack[i].zid = v
             Read(q) == \A i \in DOMAIN q.stack : SamePrecursors(q.stack[i].zid, q.stack[i].pre)
  <2>1. Worked(r) /\ Rest(r) /\ Read(r)
    BY DEF BuildOK
  <2>2. Worked(s)
    BY <1>1, <2>1
  <2>3. Rest(s) /\ Read(s)
    BY <1>1, <2>1
  <2> QED
    BY <1>1, <2>2, <2>3 DEF BuildOK
<1> QED
  BY <1>1, <1>2 DEF RequestOK

LEMMA EnvironmentKeeps ==
  ASSUME CodeInv, UNCHANGED <<mxZettelBinding, binding, dag, missed>>, StoreOK',
         \A v : /\ Stale(v) => Stale(v)'
                /\ Stale(v)' \/ (Exists(v) => Exists(v)' /\ store'[v] = store[v]),
         \A w \in Workers :
            CodeFields \subseteq DOMAIN request'[w] /\ \A x \in CodeFields : request'[w][x] = request[w][x]
  PROVE  CodeInv'
<1>1. LoaderOK'
  <2>1. \A w \in Workers : request'[w].pc = request[w].pc
    BY DEF CodeFields
  <2> QED
    BY <2>1 DEF CodeInv, LoaderOK
<1>2. ASSUME NEW w \in Workers PROVE RequestOK(request[w])'
  <2>1. PICK r : r = request[w]
    OBVIOUS
  <2>2. PICK s : s = request'[w]
    OBVIOUS
  <2>3. RequestOK(r)
    BY <2>1 DEF CodeInv
  <2>4. RequestOK(s)
    BY <2>1, <2>2, <2>3, SameRequest
  <2>5. RequestOK(s)'
    BY <2>4, RequestStays
  <2> QED
    BY <2>2, <2>5
<1>3. ASSUME NEW bind \in binding' PROVE Bound(bind)'
  BY <1>3, BoundStays DEF CodeInv
<1> QED
  BY <1>1, <1>2, <1>3 DEF CodeInv

-----------------------------------------------------------------------------
LEMMA IdleCode ==
    /\ CodeFields \subseteq DOMAIN Idle /\ Idle.marked = {} /\ Idle.todo = <<>> /\ Idle.loaded = <<>>
    /\ Idle.pc = "idle"
  BY DEF CodeFields, Idle

LEMMA InitCodeInv == Init => CodeInv
<1> SUFFICES ASSUME Init PROVE CodeInv
  OBVIOUS
<1>1. StoreOK
  BY ZidsAssumption DEF Init, StoreOK, Predefinition
<1>2. LoaderOK /\ \A w \in Workers : RequestOK(request[w])
  BY IdleCode DEF Init, LoaderOK, RequestOK, Loading
<1> QED
  BY <1>1, <1>2 DEF CodeInv, Init, None

LEMMA ChangeKeepsCode ==
  ASSUME IInv, CodeInv, NEW z \in (DOMAIN Contents) \cup {Invalid}, NEW reason, Reported(reason, z),
         DOMAIN store' \subseteq Int, \A t \in DOMAIN store' : store'[t] \in [version : Nat, pre : Seq(Int)],
         \A t : t # z => (Exists(t) => Exists(t)' /\ store'[t] = store[t])
  PROVE  CodeInv'
<1> DEFINE info == Report(reason, z)
<1>1. info.zid = z /\ infos \in Seq(Infos) /\ infos' = Append(infos, info) /\ changes' = changes + 1
  BY DEF Report, Reported, IInv, ShapeOK
<1> HIDE DEF info
<1>2. /\ DOMAIN infos \subseteq DOMAIN infos' /\ \A i \in DOMAIN infos : infos'[i] = infos[i]
      /\ Len(infos) + 1 \in DOMAIN infos' /\ infos'[Len(infos) + 1] = info
  BY <1>1
<1>3. UNCHANGED <<observing, request, ignored, mxZettelBinding, binding, dag, missed>>
  BY DEF Reported, codeVars
<1>4. Stale(z)' /\ \A v : Stale(v) => Stale(v)'
  BY <1>1, <1>2, <1>3 DEF Stale
<1>5. StoreOK'
  BY <1>1 DEF CodeInv, StoreOK
<1>6. \A w \in Workers : CodeFields \subseteq DOMAIN request[w]
  BY DEF CodeInv, RequestOK
<1> QED
  BY <1>3, <1>4, <1>5, <1>6, EnvironmentKeeps

LEMMA ZettelKeepsCode ==
  ASSUME IInv, CodeInv, NEW z \in DOMAIN Contents, Write(z) \/ Delete(z)
  PROVE  CodeInv'
<1>1. /\ changes \in Nat /\ DOMAIN store \subseteq Int
      /\ \A t \in DOMAIN store : store[t] \in [version : Nat, pre : Seq(Int)]
  BY DEF CodeInv, StoreOK
<1>2. CASE Write(z)
  <2>1. PICK pre \in Contents[z] :
           store' = [x \in DOMAIN store \cup {z} |-> IF x = z THEN [version |-> changes + 1, pre |-> pre] ELSE store[x]]
    BY <1>2 DEF Write
  <2>2. z \in Int /\ pre \in Seq(Int)
    BY ZidsAssumption
  <2>3. [version |-> changes + 1, pre |-> pre] \in [version : Nat, pre : Seq(Int)]
    BY <1>1, <2>2
  <2>4. /\ DOMAIN store' \subseteq Int /\ \A t \in DOMAIN store' : store'[t] \in [version : Nat, pre : Seq(Int)]
        /\ \A t : t # z => (Exists(t) => Exists(t)' /\ store'[t] = store[t])
    BY <1>1, <2>1, <2>2, <2>3 DEF Exists
  <2> QED
    BY <1>2, <2>4, ChangeKeepsCode DEF Write
<1>3. CASE Delete(z)
  <2>1. store' = [x \in (DOMAIN store \ {z}) \cup DOMAIN Predefined |-> IF x = z THEN Predefinition(z) ELSE store[x]]
    BY <1>3 DEF Delete
  <2>2. \A x \in DOMAIN Predefined : x \in Int /\ Predefinition(x) \in [version : Nat, pre : Seq(Int)]
    BY ZidsAssumption DEF Predefinition
  <2>3. DOMAIN Predefined \subseteq DOMAIN store
    BY DEF IInv, ShapeOK
  <2>4. /\ DOMAIN store' \subseteq Int /\ \A t \in DOMAIN store' : store'[t] \in [version : Nat, pre : Seq(Int)]
        /\ \A t : t # z => (Exists(t) => Exists(t)' /\ store'[t] = store[t])
    BY <1>1, <2>1, <2>2, <2>3 DEF Exists
  <2> QED
    BY <1>3, <2>4, ChangeKeepsCode DEF Delete
<1> QED
  BY <1>2, <1>3

LEMMA ReloadKeepsCode == IInv /\ CodeInv /\ Reload => CodeInv'
<1> SUFFICES ASSUME IInv, CodeInv, Reload PROVE CodeInv'
  OBVIOUS
<1>1. store' = store /\ Reported("OnReload", Invalid)
  BY DEF Reload
<1>2. DOMAIN store \subseteq Int /\ \A t \in DOMAIN store : store[t] \in [version : Nat, pre : Seq(Int)]
  BY DEF CodeInv, StoreOK
<1> QED
  BY <1>1, <1>2, ChangeKeepsCode DEF Exists

(* A report that is delivered, or ignored, is not forgotten.                *)
LEMMA notifierKeepsCode == IInv /\ CodeInv /\ notifier => CodeInv'
<1> SUFFICES ASSUME IInv, CodeInv, notifier PROVE CodeInv'
  OBVIOUS
<1> DEFINE i == Head(infos)
<1>1. /\ infos \in Seq(Infos) /\ infos # <<>> /\ infos' = Tail(infos) /\ observing = NoReport
      /\ UNCHANGED <<store, changes, request, mxZettelBinding, binding, dag, missed>>
  BY DEF notifier, IInv, ShapeOK, codeVars
<1>2. /\ i \in Infos /\ 1 \in DOMAIN infos /\ i = infos[1]
      /\ \A k \in DOMAIN infos : k = 1 \/ (k - 1 \in DOMAIN infos' /\ infos'[k - 1] = infos[k])
  BY <1>1
<1>3. \/ ignored' = ignored \cup {i.zid} /\ observing' = observing
      \/ observing' = i /\ ignored' = IF i.reason = "OnReload" THEN {} ELSE ignored \ {i.zid}
  BY DEF notifier
<1> HIDE DEF i
<1>4. ASSUME NEW t, Stale(t) PROVE Stale(t)'
  <2>1. CASE \E k \in DOMAIN infos : infos[k].zid = t
    <3>1. PICK k \in DOMAIN infos : infos[k].zid = t
      BY <2>1
    <3>2. CASE k = 1
      BY <1>2, <1>3, <3>1, <3>2 DEF Stale, Infos, Reasons
    <3>3. CASE k # 1
      BY <1>2, <3>1, <3>3 DEF Stale
    <3> QED
      BY <3>2, <3>3
  <2>2. CASE t \in ignored
    BY <1>2, <1>3, <2>2 DEF Stale, Infos, Reasons
  <2> QED
    BY <1>1, <1>4, <2>1, <2>2 DEF Stale, NoReport, Report
<1>5. StoreOK' /\ \A v : Exists(v) => Exists(v)' /\ store'[v] = store[v]
  BY <1>1 DEF CodeInv, StoreOK, Exists
<1>6. \A w \in Workers : CodeFields \subseteq DOMAIN request[w]
  BY DEF CodeInv, RequestOK
<1> QED
  BY <1>1, <1>4, <1>5, <1>6, EnvironmentKeeps

LEMMA observeTemplatesKeepsCode == IInv /\ CodeInv /\ observeTemplates => CodeInv'
<1> SUFFICES ASSUME IInv, CodeInv, observeTemplates PROVE CodeInv'
  OBVIOUS
<1>1. /\ UNCHANGED <<store, changes, infos, ignored, mxZettelBinding, binding, dag, missed>>
      /\ observing.reason \in Reasons
      /\ observing' = [observing EXCEPT !.reason = IF observing.reason = "OnReload" THEN "all code" ELSE "code"]
  BY DEF observeTemplates, storeVars, codeVars, Reasons
<1>2. observing \in [reason : Reasons \cup {"none", "code", "all code"}, zid : (DOMAIN Contents) \cup {Invalid}]
  BY DEF IInv, ShapeOK
<1>3. \A v : Stale(v) => Stale(v)'
  BY <1>1, <1>2 DEF Stale, Reasons
<1>4. StoreOK' /\ \A v : Exists(v) => Exists(v)' /\ store'[v] = store[v]
  BY <1>1 DEF CodeInv, StoreOK, Exists
<1>5. \A w \in Workers :
         CodeFields \subseteq DOMAIN request'[w] /\ \A x \in CodeFields : request'[w][x] = request[w][x]
  <2>1. \A w \in Workers : CodeFields \subseteq DOMAIN request[w]
    BY DEF CodeInv, RequestOK
  <2> QED
    BY <2>1 DEF observeTemplates, CodeFields
<1> QED
  BY <1>1, <1>3, <1>4, <1>5, EnvironmentKeeps

(* The code is dropped if the zettel is part of it; nobody loads it now.    *)
LEMMA observeCodeKeepsCode == IInv /\ CodeInv /\ observeCode => CodeInv'
<1> SUFFICES ASSUME IInv, CodeInv, observeCode PROVE CodeInv'
  OBVIOUS
<1>1. /\ UNCHANGED <<store, changes, infos, ignored, mxZettelBinding, missed, request>>
      /\ observing.reason \in {"code", "all code"} /\ observing' = NoReport /\ mxZettelBinding = Nobody
      /\ \/ binding' = None
         \/ /\ binding' = binding /\ dag' = dag
            /\ observing.reason = "code" /\ observing.zid \notin DOMAIN dag
  BY DEF observeCode, storeVars, MayLock, HasVertex
<1>2. \A w \in Workers : request[w].pc \notin Loading
  BY <1>1, WorkersAssumption DEF CodeInv, LoaderOK
<1>3. StoreOK' /\ LoaderOK'
  BY <1>1, <1>2 DEF CodeInv, StoreOK, LoaderOK
<1>4. \A w \in Workers : RequestOK(request[w])'
  BY <1>1, <1>2 DEF CodeInv, RequestOK, Loading
<1>5. ASSUME NEW bind \in binding' PROVE Bound(bind)'
  <2>1. dag' = dag /\ bind \in binding /\ observing.reason = "code" /\ observing.zid \notin DOMAIN dag
    BY <1>1, <1>5 DEF None
  <2>2. \A v \in DOMAIN dag : Stale(v) => Stale(v)'
    BY <1>1, <2>1 DEF Stale
  <2>3. Bound(bind)
    BY <2>1 DEF CodeInv
  <2> QED
    BY <1>1, <2>1, <2>2, <2>3, BoundStays DEF Exists
<1> QED
  BY <1>3, <1>4, <1>5 DEF CodeInv

-----------------------------------------------------------------------------
(* A step of a request, while nobody else loads the code or nothing of it   *)
(* changes.                                                                 *)
LEMMA WorkerKeeps ==
  ASSUME IInv, CodeInv, NEW w \in Workers, NEW s, Become(w, s),
         UNCHANGED <<store, changes, infos, observing, ignored>>,
         \/ UNCHANGED <<mxZettelBinding, binding, missed>>
         \/ \A x \in Workers \ {w} : request[x].pc \notin Loading,
         RequestOK(s)', s.pc \in Loading => mxZettelBinding' = w /\ binding' = None,
         \A bind \in binding' : Bound(bind)'
  PROVE  CodeInv'
<1>1. request'[w] = s /\ \A x \in Workers \ {w} : request'[x] = request[x]
  BY DEF Become, IInv, ShapeOK
<1>2. StoreOK'
  BY DEF CodeInv, StoreOK
<1>3. LoaderOK'
  BY <1>1 DEF CodeInv, LoaderOK
<1>4. ASSUME NEW x \in Workers \ {w} PROVE RequestOK(request[x])'
  <2>1. PICK r : r = request[x]
    OBVIOUS
  <2>2. RequestOK(r)
    BY <2>1 DEF CodeInv
  <2>3. RequestOK(r)'
    <3>1. CASE UNCHANGED missed
      BY <2>2, <3>1, RequestStays DEF Stale, Exists
    <3>2. CASE r.pc \notin Loading
      BY <2>2, <3>2 DEF RequestOK, Loading
    <3> QED
      BY <2>1, <3>1, <3>2
  <2> QED
    BY <1>1, <2>1, <2>3
<1>5. RequestOK(request[w])'
  BY <1>1
<1> QED
  BY <1>2, <1>3, <1>4, <1>5 DEF CodeInv

(* A step that loads nothing.                                               *)
LEMMA QuietKeepsCode ==
  ASSUME IInv, CodeInv, NEW w \in Workers,
         Begin(w) \/ UseBinding(w) \/ UseTemplate(w) \/ ReadTemplate(w) \/ setSxnCache(w)
  PROVE  CodeInv'
<1>1. UNCHANGED <<store, changes, infos, observing, ignored, mxZettelBinding, binding, dag, missed>>
  BY DEF Begin, UseBinding, UseTemplate, ReadTemplate, setSxnCache, storeVars, codeVars
<1>2. \A bind \in binding' : Bound(bind)'
  BY <1>1, BoundStays DEF CodeInv, Stale, Exists
<1>3. RequestOK(request[w])
  BY DEF CodeInv
<1>4. ASSUME NEW s, Become(w, s), CodeFields \subseteq DOMAIN s, s.pc \in {"template", "compile", "idle", "env"},
             s.pc = "env" => s.marked = {} /\ s.todo = <<>> /\ s.loaded = <<>>
      PROVE  CodeInv'
  <2>1. RequestOK(s)'
    BY <1>4 DEF RequestOK
  <2> QED
    BY <1>1, <1>2, <1>4, <2>1, WorkerKeeps DEF Loading
<1>5. CASE Begin(w)
  <2>1. PICK t \in Templates : Become(w, [Idle EXCEPT !.pc = "env", !.template = t])
    BY <1>5 DEF Begin
  <2>2. PICK s : s = [Idle EXCEPT !.pc = "env", !.template = t]
    OBVIOUS
  <2>3. CodeFields \subseteq DOMAIN s /\ s.pc = "env" /\ s.marked = {} /\ s.todo = <<>> /\ s.loaded = <<>>
    BY <2>2, IdleCode DEF CodeFields
  <2> QED
    BY <1>4, <2>1, <2>2, <2>3
<1>6. CASE UseBinding(w)
  <2>1. PICK s : s = [request[w] EXCEPT !.pc = "template"]
    OBVIOUS
  <2>2. CodeFields \subseteq DOMAIN s /\ s.pc = "template"
    BY <1>3, <2>1 DEF RequestOK, CodeFields
  <2> QED
    BY <1>4, <1>6, <2>1, <2>2 DEF UseBinding
<1>7. CASE UseTemplate(w) \/ setSxnCache(w)
  BY <1>4, <1>7, IdleCode DEF UseTemplate, setSxnCache
<1>8. CASE ReadTemplate(w)
  <2>1. PICK s : s = [request[w] EXCEPT !.pc = "compile", !.read = store[request[w].template].version, !.overtaken = FALSE]
    OBVIOUS
  <2>2. CodeFields \subseteq DOMAIN s /\ s.pc = "compile"
    BY <1>3, <2>1 DEF RequestOK, CodeFields
  <2>3. request[w].template \in Templates
    BY <1>8 DEF ReadTemplate, IInv, ShapeOK, At
  <2>4. PICK e : e = AfterError(request[w])
    OBVIOUS
  <2>5. /\ CodeFields \subseteq DOMAIN e /\ e.pc \in {"idle", "env", "template"}
        /\ e.marked = {} /\ e.todo = <<>> /\ e.loaded = <<>>
    BY <2>3, <2>4, AfterLoad, IdleCode
  <2>6. Become(w, s) \/ Become(w, e)
    BY <1>8, <2>1, <2>4 DEF ReadTemplate
  <2>7. CASE Become(w, s)
    BY <1>4, <2>2, <2>7
  <2>8. CASE Become(w, e)
    BY <1>4, <2>5, <2>8
  <2> QED
    BY <2>6, <2>7, <2>8
<1> QED
  BY <1>5, <1>6, <1>7, <1>8

(* The mutex is held from the start to the end.                             *)
LEMMA OnlyLoader ==
  ASSUME CodeInv, NEW w \in Workers,
         request[w].pc \in Loading \/ mxZettelBinding = Nobody
  PROVE  \A x \in Workers \ {w} : request[x].pc \notin Loading
  BY WorkersAssumption DEF CodeInv, LoaderOK

LEMMA StartKeepsCode ==
  ASSUME IInv, CodeInv, NEW w \in Workers, StartLoading(w)
  PROVE  CodeInv'
<1>1. /\ UNCHANGED <<store, changes, infos, observing, ignored, binding>> /\ request[w].pc = "env"
      /\ mxZettelBinding = Nobody /\ binding = None /\ mxZettelBinding' = w
  BY DEF StartLoading, storeVars, At
<1>2. PICK s : s = [request[w] EXCEPT !.pc = "start"]
  OBVIOUS
<1>3. Become(w, s)
  BY <1>2 DEF StartLoading
<1>4. RequestOK(request[w])
  BY DEF CodeInv
<1>5. CodeFields \subseteq DOMAIN s /\ s.pc = "start" /\ s.marked = {} /\ s.todo = <<>> /\ s.loaded = <<>>
  BY <1>1, <1>2, <1>4 DEF RequestOK, CodeFields
<1>6. RequestOK(s)'
  BY <1>5 DEF RequestOK
<1>7. \A x \in Workers \ {w} : request[x].pc \notin Loading
  BY <1>1, OnlyLoader
<1> QED
  BY <1>1, <1>3, <1>6, <1>7, WorkerKeeps DEF None

(* The end of a load, of whatever outcome.                                  *)
LEMMA FinishKeepsCode ==
  ASSUME IInv, CodeInv, NEW w \in Workers, request[w].pc \in Loading,
         NEW error, NEW bind, NEW graph, Finish(w, error, bind, graph),
         UNCHANGED <<store, changes, infos, observing, ignored>>,
         ~error => \A b \in bind : Bound(b)'
  PROVE  CodeInv'
<1>1. PICK s : s = IF error THEN AfterError(request[w]) ELSE AfterLoading(request[w])
  OBVIOUS
<1>2. Become(w, s)
  BY <1>1 DEF Finish
<1>3. /\ CodeFields \subseteq DOMAIN s /\ s.pc \in {"idle", "env", "template"}
      /\ s.marked = {} /\ s.todo = <<>> /\ s.loaded = <<>>
  <2>1. request[w].template \in Templates
    BY DEF IInv, ShapeOK, At, Loading
  <2>2. s = AfterLoading(request[w]) \/ s = AfterError(request[w])
    BY <1>1
  <2> QED
    BY <2>1, <2>2, AfterLoad, IdleCode
<1>4. RequestOK(s)'
  BY <1>3 DEF RequestOK
<1>5. \A b \in binding' : Bound(b)'
  <2>1. binding = None
    BY DEF CodeInv, LoaderOK
  <2> QED
    BY <2>1 DEF Finish, None
<1>6. \A x \in Workers \ {w} : request[x].pc \notin Loading
  BY OnlyLoader
<1> QED
  BY <1>2, <1>3, <1>4, <1>5, <1>6, WorkerKeeps DEF Loading

(* A step of a load that goes on.                                           *)
LEMMA LoadGoesOn ==
  ASSUME IInv, CodeInv, NEW w \in Workers, request[w].pc \in Loading, NEW s, Become(w, s), s.pc \in Loading,
         UNCHANGED <<store, changes, infos, observing, ignored, mxZettelBinding, binding>>, RequestOK(s)'
  PROVE  CodeInv'
<1>1. mxZettelBinding = w /\ binding = None
  BY DEF CodeInv, LoaderOK
<1>2. \A x \in Workers \ {w} : request[x].pc \notin Loading
  BY OnlyLoader
<1> QED
  BY <1>1, <1>2, WorkerKeeps DEF None

-----------------------------------------------------------------------------
LEMMA FirstGraph ==
  LET g == AddVertex(NoGraph, StartSxnZid) IN
  StartGraph(g) /\ DOMAIN g = {StartSxnZid} /\ g[StartSxnZid] = {}
<1> DEFINE g == AddVertex(NoGraph, StartSxnZid)
<1>1. DOMAIN g = {StartSxnZid} /\ g = [v \in DOMAIN g |-> g[v]] /\ g[StartSxnZid] = {}
  BY DEF AddVertex, NoGraph
<1> HIDE DEF g
<1>2. IsFiniteSet({StartSxnZid}) /\ {StartSxnZid} \subseteq Int
  BY FS_Singleton, ZidsAssumption
<1>3. IsGraph(g)
  BY <1>1, <1>2 DEF IsGraph
<1>4. Rooted(g)
  BY <1>1 DEF Rooted
<1> QED
  BY <1>1, <1>3, <1>4 DEF StartGraph, g

LEMMA ReadStartKeepsCode ==
  ASSUME IInv, CodeInv, NEW w \in Workers, ReadStart(w)
  PROVE  CodeInv'
<1>1. UNCHANGED <<store, changes, infos, observing, ignored>> /\ request[w].pc = "start"
  BY DEF ReadStart, storeVars, At
<1>2. RequestOK(request[w]) /\ request[w].pc \in Loading
  BY <1>1 DEF CodeInv, Loading
<1>3. CASE Exists(StartSxnZid)
  <2>1. PICK g : g = AddVertex(NoGraph, StartSxnZid)
    OBVIOUS
  <2>2. PICK pre : pre = store[StartSxnZid].pre
    OBVIOUS
  <2>3. pre \in Seq(Int) /\ UNCHANGED <<mxZettelBinding, binding, missed>>
    BY <1>3, <2>2 DEF CodeInv, StoreOK, Exists, ReadStart, codeVars
  <2>4. PICK s : s = [request[w] EXCEPT !.pc = "build", !.stack = <<[zid |-> StartSxnZid, pre |-> pre]>>, !.graph = g]
    OBVIOUS
  <2>5. Become(w, s)
    BY <1>3, <2>4, <2>1, <2>2 DEF ReadStart
  <2>6. /\ CodeFields \subseteq DOMAIN s /\ s.pc = "build" /\ s.graph = g /\ s.marked = {} /\ s.todo = <<>>
        /\ s.loaded = <<>> /\ s.stack = <<[zid |-> StartSxnZid, pre |-> pre]>>
    BY <1>1, <1>2, <2>4 DEF RequestOK, CodeFields
  <2>7. StartGraph(g) /\ DOMAIN g = {StartSxnZid} /\ g[StartSxnZid] = {}
    BY <2>1, FirstGraph
  <2>8. /\ s.stack \in Seq([zid : DOMAIN g, pre : Seq(Int)]) /\ DOMAIN s.stack = {1}
        /\ s.stack[1].zid = StartSxnZid /\ s.stack[1].pre = pre
    BY <2>3, <2>6, <2>7
  <2>9. SamePrecursors(StartSxnZid, pre)'
    BY <1>1, <1>3, <2>2 DEF SamePrecursors, Exists
  <2>10. BuildOK(s)'
    <3>1. \A i \in DOMAIN s.stack : SamePrecursors(s.stack[i].zid, s.stack[i].pre)'
      BY <2>8, <2>9
    <3>2. \A v \in DOMAIN s.graph \ s.marked : s.graph[v] = {} /\ \E i \in DOMAIN s.stack : s.stack[i].zid = v
      BY <2>6, <2>7, <2>8
    <3>3. s.todo \in Seq(Int)
      BY <2>6
    <3> QED
      BY <2>6, <2>7, <2>8, <3>1, <3>2, <3>3 DEF BuildOK
  <2>11. RequestOK(s)'
    BY <2>6, <2>10 DEF RequestOK
  <2> QED
    BY <1>1, <1>2, <2>3, <2>5, <2>6, <2>11, LoadGoesOn DEF Loading
<1>4. CASE ~Exists(StartSxnZid)
  <2>1. Finish(w, FALSE, RootBinding, NoGraph) /\ missed' = missed \cup {StartSxnZid}
    BY <1>4 DEF ReadStart
  <2>2. \A b \in RootBinding : Bound(b)'
    BY <2>1 DEF RootBinding, Finish, Bound
  <2> QED
    BY <1>1, <1>2, <2>1, <2>2, FinishKeepsCode
<1> QED
  BY <1>3, <1>4

LEMMA ToSetOfTail ==
  ASSUME NEW T, NEW q \in Seq(T), q # <<>>
  PROVE  Head(q) \in T /\ Tail(q) \in Seq(T) /\ ToSet(q) = {Head(q)} \cup ToSet(Tail(q))
<1>1. PICK n \in Nat : n = Len(q) /\ n >= 1
  OBVIOUS
<1>2. PICK t : t = Tail(q)
  OBVIOUS
<1>3. /\ Head(q) \in T /\ t \in Seq(T) /\ Head(q) = q[1]
      /\ DOMAIN q = 1 .. n /\ DOMAIN t = 1 .. n - 1 /\ \A i \in 1 .. n - 1 : t[i] = q[i + 1]
  BY <1>1, <1>2
<1>4. \A i \in 1 .. n : i = 1 \/ (i - 1 \in 1 .. n - 1 /\ (i - 1) + 1 = i)
  BY <1>1
<1>5. \A i \in 1 .. n - 1 : i + 1 \in 1 .. n
  BY <1>1
<1>6. 1 \in 1 .. n
  BY <1>1
<1>7. ToSet(q) = {q[i] : i \in 1 .. n} /\ ToSet(t) = {t[i] : i \in 1 .. n - 1}
  BY <1>3 DEF ToSet
<1>8. ASSUME NEW x \in ToSet(q) PROVE x \in {Head(q)} \cup ToSet(t)
  <2>1. PICK i \in 1 .. n : x = q[i]
    BY <1>7
  <2>2. CASE i = 1
    BY <1>3, <2>1, <2>2
  <2>3. CASE i # 1
    <3>1. i - 1 \in 1 .. n - 1 /\ t[i - 1] = q[i]
      BY <1>3, <1>4, <2>3
    <3> QED
      BY <1>7, <2>1, <3>1
  <2> QED
    BY <2>2, <2>3
<1>9. ASSUME NEW x \in {Head(q)} \cup ToSet(t) PROVE x \in ToSet(q)
  BY <1>3, <1>5, <1>6, <1>7
<1> QED
  BY <1>2, <1>3, <1>8, <1>9

LEMMA FrontAndLast ==
  ASSUME NEW T, NEW q \in Seq(T), q # <<>>
  PROVE  LET n == Len(q) IN
         /\ n \in Nat /\ n >= 1 /\ DOMAIN q = 1 .. n
         /\ Last(q) = q[n] /\ Last(q) \in T
         /\ Front(q) \in Seq(T) /\ DOMAIN Front(q) = 1 .. n - 1
         /\ \A i \in 1 .. n - 1 : Front(q)[i] = q[i]
  BY DEF Front, Last

LEMMA SeqOfMore ==
  ASSUME NEW S, NEW T, S \subseteq T, NEW q \in Seq(S)
  PROVE  q \in Seq(T)
  OBVIOUS

LEMMA ElementOfSeq ==
  ASSUME NEW T, NEW q \in Seq(T), NEW i \in DOMAIN q
  PROVE  q[i] \in T
  OBVIOUS

LEMMA NextZettelKeepsCode ==
  ASSUME IInv, CodeInv, NEW w \in Workers, NextZettel(w)
  PROVE  CodeInv'
<1>1. PICK r : r = request[w]
  OBVIOUS
<1>2. PICK top : top = Last(r.stack)
  OBVIOUS
<1>3. PICK s : s = [r EXCEPT !.stack = Front(r.stack), !.curr = top.zid, !.marked = r.marked \cup {top.zid},
                             !.todo = IF top.zid \in r.marked THEN <<>> ELSE top.pre]
  OBVIOUS
<1>4. /\ UNCHANGED <<store, changes, infos, observing, ignored, mxZettelBinding, binding, missed>>
      /\ Become(w, s) /\ r.pc = "build" /\ r.todo = <<>> /\ r.stack # <<>>
  BY <1>1, <1>2, <1>3 DEF NextZettel, storeVars, codeVars, At
<1>5. RequestOK(r) /\ BuildOK(r) /\ r.loaded = <<>>
  BY <1>1, <1>4 DEF CodeInv, RequestOK
<1>6. /\ CodeFields \subseteq DOMAIN s /\ s.pc = "build" /\ s.graph = r.graph /\ s.loaded = <<>>
      /\ s.stack = Front(r.stack) /\ s.curr = top.zid /\ s.marked = r.marked \cup {top.zid}
      /\ s.todo = IF top.zid \in r.marked THEN <<>> ELSE top.pre
  BY <1>3, <1>4, <1>5 DEF RequestOK, CodeFields
<1>7. PICK T : T = [zid : DOMAIN r.graph, pre : Seq(Int)]
  OBVIOUS
<1>8. r.stack \in Seq(T)
  BY <1>5, <1>7 DEF BuildOK
<1>9. PICK n \in Nat :
         /\ n >= 1 /\ DOMAIN r.stack = 1 .. n /\ top = r.stack[n] /\ top \in T
         /\ s.stack \in Seq(T) /\ DOMAIN s.stack = 1 .. n - 1
         /\ \A i \in 1 .. n - 1 : s.stack[i] = r.stack[i]
  BY <1>2, <1>4, <1>6, <1>8, FrontAndLast
<1>10. top.zid \in DOMAIN r.graph /\ top.pre \in Seq(Int)
  BY <1>7, <1>9
<1>11. /\ StartGraph(r.graph) /\ r.marked \subseteq DOMAIN r.graph
       /\ \A v \in DOMAIN r.graph \ r.marked :
             r.graph[v] = {} /\ \E i \in 1 .. n : r.stack[i].zid = v
       /\ \A i \in 1 .. n : SamePrecursors(r.stack[i].zid, r.stack[i].pre)
  BY <1>5, <1>9 DEF BuildOK
<1>12. ToSet(<<>>) = {}
  BY DEF ToSet
<1>13. ASSUME NEW v \in r.marked PROVE Follows(v, r.graph[v])
  <2>1. Follows(v, r.graph[v] \cup IF v = r.curr THEN ToSet(r.todo) ELSE {})
    BY <1>5 DEF BuildOK
  <2>2. r.graph[v] \cup (IF v = r.curr THEN ToSet(r.todo) ELSE {}) = r.graph[v]
    BY <1>4, <1>12
  <2> QED
    BY <2>1, <2>2
<1>14. ASSUME NEW v \in DOMAIN s.graph \ s.marked
       PROVE  s.graph[v] = {} /\ \E i \in DOMAIN s.stack : s.stack[i].zid = v
  <2>1. v \in DOMAIN r.graph \ r.marked /\ v # top.zid
    BY <1>6
  <2>2. PICK i \in 1 .. n : r.stack[i].zid = v
    BY <1>11, <2>1
  <2>3. i \in 1 .. n - 1
    BY <1>9, <2>1, <2>2
  <2> QED
    BY <1>6, <1>9, <1>11, <2>1, <2>2, <2>3
<1>15. ASSUME NEW i \in DOMAIN s.stack PROVE SamePrecursors(s.stack[i].zid, s.stack[i].pre)
  <2>1. i \in 1 .. n /\ s.stack[i] = r.stack[i]
    BY <1>9
  <2> QED
    BY <1>11, <2>1
<1>16. ASSUME NEW v \in s.marked PROVE Follows(v, s.graph[v] \cup IF v = s.curr THEN ToSet(s.todo) ELSE {})
  <2>1. CASE v \in r.marked
    <3>1. s.graph[v] \cup (IF v = s.curr THEN ToSet(s.todo) ELSE {}) = r.graph[v]
      BY <1>6, <1>12, <2>1
    <3> QED
      BY <1>13, <2>1, <3>1
  <2>2. CASE v \notin r.marked
    <3>1. v = top.zid /\ v \in DOMAIN r.graph \ r.marked
      BY <1>6, <1>10, <2>2
    <3>2. s.graph[v] \cup (IF v = s.curr THEN ToSet(s.todo) ELSE {}) = ToSet(top.pre)
      BY <1>6, <1>11, <3>1
    <3>3. n \in 1 .. n
      BY <1>9
    <3>4. SamePrecursors(v, top.pre)
      BY <1>9, <1>11, <3>1, <3>3
    <3>5. Follows(v, ToSet(top.pre))
      BY <3>4 DEF SamePrecursors, Follows
    <3> QED
      BY <3>2, <3>5
  <2> QED
    BY <2>1, <2>2
<1>17. s.marked \subseteq DOMAIN s.graph /\ s.todo \in Seq(Int) /\ (s.todo # <<>> => s.curr \in s.marked)
  BY <1>6, <1>11, <1>10
<1>18. s.stack \in Seq([zid : DOMAIN s.graph, pre : Seq(Int)])
  BY <1>6, <1>7, <1>9
<1>19. BuildOK(s)
  BY <1>6, <1>11, <1>14, <1>15, <1>16, <1>17, <1>18 DEF BuildOK
<1>20. RequestOK(s)
  BY <1>6, <1>19 DEF RequestOK
<1>21. RequestOK(s)'
  BY <1>4, <1>20, RequestStays DEF Stale, Exists
<1> QED
  BY <1>1, <1>4, <1>6, <1>21, LoadGoesOn DEF Loading

LEMMA ReadPrecursorKeepsCode ==
  ASSUME IInv, CodeInv, NEW w \in Workers, ReadPrecursor(w)
  PROVE  CodeInv'
<1>1. PICK r : r = request[w]
  OBVIOUS
<1>2. PICK p : p = Head(r.todo)
  OBVIOUS
<1>3. /\ UNCHANGED <<store, changes, infos, observing, ignored, mxZettelBinding, binding>>
      /\ r.pc = "build" /\ r.todo # <<>>
  BY <1>1 DEF ReadPrecursor, storeVars, At
<1>4. RequestOK(r) /\ BuildOK(r) /\ r.loaded = <<>> /\ r.pc \in Loading
  BY <1>1, <1>3 DEF CodeInv, RequestOK, Loading
<1>5. /\ StartGraph(r.graph) /\ r.marked \subseteq DOMAIN r.graph /\ r.todo \in Seq(Int) /\ r.curr \in r.marked
      /\ r.stack \in Seq([zid : DOMAIN r.graph, pre : Seq(Int)])
      /\ \A v \in r.marked : Follows(v, r.graph[v] \cup IF v = r.curr THEN ToSet(r.todo) ELSE {})
      /\ \A v \in DOMAIN r.graph \ r.marked :
            r.graph[v] = {} /\ \E i \in DOMAIN r.stack : r.stack[i].zid = v
      /\ \A i \in DOMAIN r.stack : SamePrecursors(r.stack[i].zid, r.stack[i].pre)
  BY <1>3, <1>4 DEF BuildOK
<1>6. p \in Int /\ Tail(r.todo) \in Seq(Int) /\ ToSet(r.todo) = {p} \cup ToSet(Tail(r.todo))
  BY <1>2, <1>3, <1>5, ToSetOfTail
<1>7. CASE Exists(p)
  <2>1. PICK h : h = AddEdges(r.graph, r.curr, {p})
    OBVIOUS
  <2>2. PICK e : e = [zid |-> p, pre |-> store[p].pre]
    OBVIOUS
  <2>3. PICK s : s = [r EXCEPT !.todo = Tail(r.todo), !.stack = Append(r.stack, e), !.graph = h]
    OBVIOUS
  <2>4. Become(w, s) /\ UNCHANGED missed
    BY <1>1, <1>2, <1>7, <2>1, <2>2, <2>3 DEF ReadPrecursor
  <2>5. /\ CodeFields \subseteq DOMAIN s /\ s.pc = "build" /\ s.graph = h /\ s.loaded = <<>>
        /\ s.stack = Append(r.stack, e) /\ s.curr = r.curr /\ s.marked = r.marked /\ s.todo = Tail(r.todo)
    BY <1>3, <1>4, <2>3 DEF RequestOK, CodeFields
  <2>6. /\ StartGraph(h) /\ DOMAIN h = DOMAIN r.graph \cup {p}
        /\ \A v \in DOMAIN h :
              h[v] = (IF v \in DOMAIN r.graph THEN r.graph[v] ELSE {}) \cup (IF v = r.curr THEN {p} ELSE {})
    <3>1. PICK g : g = r.graph
      OBVIOUS
    <3>2. PICK c : c = r.curr
      OBVIOUS
    <3>3. StartGraph(g) /\ c \in DOMAIN g /\ h = AddEdges(g, c, {p})
      BY <1>5, <2>1, <3>1, <3>2
    <3>4. StartGraph(h) /\ WithEdge(h, g, c, p)
      BY <1>6, <3>3, EdgeKeepsGraph
    <3> QED
      BY <3>1, <3>2, <3>4 DEF WithEdge
  <2>7. e \in [zid : DOMAIN h, pre : Seq(Int)] /\ e.zid = p /\ SamePrecursors(p, e.pre)
    BY <1>7, <2>2, <2>6 DEF CodeInv, StoreOK, Exists, SamePrecursors
  <2>8. r.stack \in Seq([zid : DOMAIN h, pre : Seq(Int)])
    <3>1. [zid : DOMAIN r.graph, pre : Seq(Int)] \subseteq [zid : DOMAIN h, pre : Seq(Int)]
      BY <2>6
    <3>2. PICK S : S = [zid : DOMAIN r.graph, pre : Seq(Int)]
      OBVIOUS
    <3>3. PICK T : T = [zid : DOMAIN h, pre : Seq(Int)]
      OBVIOUS
    <3>4. S \subseteq T /\ r.stack \in Seq(S)
      BY <1>5, <3>1, <3>2, <3>3
    <3>5. r.stack \in Seq(T)
      BY <3>4, SeqOfMore
    <3> QED
      BY <3>3, <3>5
  <2>9. /\ s.stack \in Seq([zid : DOMAIN h, pre : Seq(Int)]) /\ DOMAIN s.stack = 1 .. Len(r.stack) + 1
        /\ DOMAIN r.stack = 1 .. Len(r.stack) /\ Len(r.stack) \in Nat
        /\ s.stack[Len(r.stack) + 1] = e /\ \A i \in DOMAIN r.stack : s.stack[i] = r.stack[i]
    BY <2>5, <2>7, <2>8
  <2>10. \A v \in DOMAIN s.graph \ s.marked : s.graph[v] = {} /\ \E i \in DOMAIN s.stack : s.stack[i].zid = v
    <3> SUFFICES ASSUME NEW v \in DOMAIN h \ r.marked PROVE h[v] = {} /\ \E i \in DOMAIN s.stack : s.stack[i].zid = v
      BY <2>5
    <3>1. h[v] = {}
      BY <1>5, <2>6
    <3>2. CASE v = p
      <4>1. Len(r.stack) + 1 \in DOMAIN s.stack /\ s.stack[Len(r.stack) + 1].zid = v
        BY <2>7, <2>9, <3>2
      <4> QED
        BY <3>1, <4>1
    <3>3. CASE v # p
      <4>1. PICK i \in DOMAIN r.stack : r.stack[i].zid = v
        BY <1>5, <2>6, <3>3
      <4>2. i \in DOMAIN s.stack /\ s.stack[i].zid = v
        BY <2>9, <4>1
      <4> QED
        BY <3>1, <4>2
    <3> QED
      BY <3>2, <3>3
  <2>11. \A i \in DOMAIN s.stack : SamePrecursors(s.stack[i].zid, s.stack[i].pre)
    <3> SUFFICES ASSUME NEW i \in DOMAIN s.stack PROVE SamePrecursors(s.stack[i].zid, s.stack[i].pre)
      OBVIOUS
    <3>1. i = Len(r.stack) + 1 \/ i \in DOMAIN r.stack
      BY <2>9
    <3> QED
      BY <1>5, <2>7, <2>9, <3>1
  <2>12. \A v \in s.marked : Follows(v, s.graph[v] \cup IF v = s.curr THEN ToSet(s.todo) ELSE {})
    <3> SUFFICES ASSUME NEW v \in r.marked PROVE Follows(v, h[v] \cup IF v = r.curr THEN ToSet(Tail(r.todo)) ELSE {})
      BY <2>5
    <3>1. h[v] \cup (IF v = r.curr THEN ToSet(Tail(r.todo)) ELSE {})
             = r.graph[v] \cup IF v = r.curr THEN ToSet(r.todo) ELSE {}
      BY <1>5, <1>6, <2>6
    <3> QED
      BY <1>5, <3>1
  <2>13. BuildOK(s)
    BY <1>5, <1>6, <2>5, <2>6, <2>9, <2>10, <2>11, <2>12 DEF BuildOK
  <2>14. RequestOK(s)
    BY <2>5, <2>13 DEF RequestOK
  <2>15. RequestOK(s)'
    BY <1>3, <2>4, <2>14, RequestStays DEF Stale, Exists
  <2> QED
    BY <1>1, <1>3, <1>4, <2>4, <2>5, <2>15, LoadGoesOn DEF Loading
<1>8. CASE ~Exists(p)
  <2>3. PICK s : s = [r EXCEPT !.todo = Tail(r.todo)]
    OBVIOUS
  <2>4. Become(w, s) /\ missed' = missed \cup {p}
    BY <1>1, <1>2, <1>8, <2>3 DEF ReadPrecursor
  <2>5. /\ CodeFields \subseteq DOMAIN s /\ s.pc = "build" /\ s.graph = r.graph /\ s.loaded = <<>>
        /\ s.stack = r.stack /\ s.curr = r.curr /\ s.marked = r.marked /\ s.todo = Tail(r.todo)
    BY <1>3, <1>4, <2>3 DEF RequestOK, CodeFields
  <2>6. \A v, pre : SamePrecursors(v, pre) => SamePrecursors(v, pre)'
    BY <1>3 DEF SamePrecursors, Stale, Exists
  <2>7. \A v \in s.marked : Follows(v, s.graph[v] \cup IF v = s.curr THEN ToSet(s.todo) ELSE {})'
    <3> SUFFICES ASSUME NEW v \in r.marked
                 PROVE  Follows(v, r.graph[v] \cup IF v = r.curr THEN ToSet(Tail(r.todo)) ELSE {})'
      BY <2>5
    <3>1. PICK S : S = r.graph[v] \cup IF v = r.curr THEN ToSet(r.todo) ELSE {}
      OBVIOUS
    <3>2. PICK R : R = r.graph[v] \cup IF v = r.curr THEN ToSet(Tail(r.todo)) ELSE {}
      OBVIOUS
    <3>3. R \subseteq S /\ S \subseteq R \cup {p}
      BY <1>6, <3>1, <3>2
    <3>4. Follows(v, S)
      BY <1>5, <3>1
    <3>5. Follows(v, R)'
      BY <1>3, <2>4, <3>3, <3>4 DEF Follows, Stale, Exists
    <3> QED
      BY <3>2, <3>5
  <2>8. BuildOK(s)'
    BY <1>5, <1>6, <2>5, <2>6, <2>7 DEF BuildOK
  <2>9. RequestOK(s)'
    BY <2>5, <2>8 DEF RequestOK
  <2> QED
    BY <1>1, <1>3, <1>4, <2>4, <2>5, <2>9, LoadGoesOn DEF Loading
<1> QED
  BY <1>7, <1>8

(* When nothing is left to be worked on, the graph is complete.             *)
LEMMA NeedBaseKeepsCode ==
  ASSUME IInv, CodeInv, NEW w \in Workers, NeedBase(w)
  PROVE  CodeInv'
<1>1. PICK r : r = request[w]
  OBVIOUS
<1>2. PICK s : s = [r EXCEPT !.pc = "order", !.graph = SxnCodeDigraph(r.graph)]
  OBVIOUS
<1>3. /\ UNCHANGED <<store, changes, infos, observing, ignored, mxZettelBinding, binding, missed>>
      /\ Become(w, s) /\ r.pc = "build" /\ r.todo = <<>> /\ r.stack = <<>>
  BY <1>1, <1>2 DEF NeedBase, storeVars, codeVars, At
<1>4. RequestOK(r) /\ BuildOK(r) /\ r.loaded = <<>>
  BY <1>1, <1>3 DEF CodeInv, RequestOK
<1>5. /\ CodeFields \subseteq DOMAIN s /\ s.pc = "order" /\ s.graph = SxnCodeDigraph(r.graph) /\ s.loaded = <<>>
  BY <1>2, <1>3, <1>4 DEF RequestOK, CodeFields
<1>6. PICK g : g = r.graph
  OBVIOUS
<1>7. StartGraph(g) /\ DOMAIN g \subseteq r.marked
  BY <1>3, <1>4, <1>6 DEF BuildOK
<1>8. ASSUME NEW v \in DOMAIN g PROVE Follows(v, g[v])
  <2>1. Follows(v, r.graph[v] \cup IF v = r.curr THEN ToSet(r.todo) ELSE {})
    BY <1>4, <1>7 DEF BuildOK
  <2>2. r.graph[v] \cup (IF v = r.curr THEN ToSet(r.todo) ELSE {}) = g[v]
    BY <1>3, <1>6 DEF ToSet
  <2> QED
    BY <2>1, <2>2
<1>9. Made(s.graph)
  BY <1>5, <1>6, <1>7, <1>8 DEF Made, Complete
<1>10. RequestOK(s)
  BY <1>5, <1>9 DEF RequestOK
<1>11. RequestOK(s)'
  BY <1>3, <1>10, RequestStays DEF Stale, Exists
<1> QED
  BY <1>1, <1>3, <1>5, <1>11, LoadGoesOn DEF Loading

LEMMA OrderZettelKeepsCode ==
  ASSUME IInv, CodeInv, NEW w \in Workers, OrderZettel(w)
  PROVE  CodeInv'
<1>1. PICK r : r = request[w]
  OBVIOUS
<1>2. UNCHANGED <<store, changes, infos, observing, ignored, missed>> /\ r.pc = "order" /\ r.pc \in Loading
  BY <1>1 DEF OrderZettel, storeVars, codeVars, At, Loading
<1>3. RequestOK(r) /\ Made(r.graph) /\ r.loaded = <<>>
  BY <1>1, <1>2 DEF CodeInv, RequestOK
<1>4. CASE IsDAG(r.graph)
  <2>1. PICK h : h = r.graph
    OBVIOUS
  <2>2. PICK s : s = [r EXCEPT !.pc = "load", !.order = SortReverse(h)]
    OBVIOUS
  <2>3. Become(w, s) /\ UNCHANGED codeVars
    BY <1>1, <1>4, <2>1, <2>2 DEF OrderZettel
  <2>4. /\ CodeFields \subseteq DOMAIN s /\ s.pc = "load" /\ s.graph = h /\ s.order = SortReverse(h)
        /\ s.loaded = <<>>
    BY <1>2, <1>3, <2>1, <2>2 DEF RequestOK, CodeFields
  <2>5. SortReverse(h) \in Seq(DOMAIN h)
    BY <1>3, <1>4, <2>1, MadeIsGraph, Sorted
  <2>6. ListOK(h, <<>>, SortReverse(h))
    <3>1. PICK list : list = SortReverse(h)
      OBVIOUS
    <3>2. \A i \in 1 .. Len(list) : list[i] = list[Len(<<>>) + i]
      BY <2>5, <3>1
    <3>3. <<>> \in Seq([zid : DOMAIN h, version : Nat]) /\ Len(<<>>) = 0 /\ Len(<<>>) + Len(list) = Len(list)
      BY <2>5, <3>1
    <3>4. \A i \in 1 .. Len(<<>>) : FALSE
      BY <3>3
    <3> QED
      BY <1>3, <1>4, <2>1, <2>5, <3>1, <3>2, <3>3, <3>4 DEF ListOK
  <2>7. RequestOK(s)
    BY <2>4, <2>6 DEF RequestOK
  <2>8. RequestOK(s)'
    BY <1>2, <2>7, RequestStays DEF Stale, Exists
  <2> QED
    BY <1>1, <1>2, <2>3, <2>4, <2>8, LoadGoesOn DEF Loading, codeVars
<1>5. CASE ~IsDAG(r.graph)
  <2>1. Finish(w, TRUE, None, NoGraph)
    BY <1>1, <1>5 DEF OrderZettel
  <2> QED
    BY <1>1, <1>2, <2>1, FinishKeepsCode
<1> QED
  BY <1>4, <1>5

LEMMA LoadZettelKeepsCode ==
  ASSUME IInv, CodeInv, NEW w \in Workers, LoadZettel(w)
  PROVE  CodeInv'
<1>1. PICK r : r = request[w]
  OBVIOUS
<1>2. UNCHANGED <<store, changes, infos, observing, ignored, missed>> /\ r.pc = "load" /\ r.pc \in Loading
  BY <1>1 DEF LoadZettel, storeVars, At, Loading
<1>3. RequestOK(r)
  BY <1>1 DEF CodeInv
<1>4. PICK h, loaded, order : h = r.graph /\ loaded = r.loaded /\ order = r.order
  OBVIOUS
<1>5. ListOK(h, loaded, order)
  BY <1>2, <1>3, <1>4 DEF RequestOK
<1>6. CASE order = <<>>
  <2>1. Finish(w, FALSE, {loaded}, h)
    BY <1>1, <1>4, <1>6 DEF LoadZettel
  <2>2. ListOK(h, loaded, <<>>)'
    BY <1>2, <1>5, <1>6, ListStays DEF Stale, Exists
  <2>3. \A b \in {loaded} : Bound(b)'
    BY <2>1, <2>2 DEF Finish, Bound
  <2> QED
    BY <1>1, <1>2, <2>1, <2>3, FinishKeepsCode
<1>7. CASE order # <<>> /\ ~Exists(Head(order))
  <2>1. Finish(w, TRUE, None, NoGraph)
    BY <1>1, <1>4, <1>7 DEF LoadZettel
  <2> QED
    BY <1>1, <1>2, <2>1, FinishKeepsCode
<1>8. CASE order # <<>> /\ Exists(Head(order))
  <2>1. PICK z : z = Head(order)
    OBVIOUS
  <2>2. PICK e : e = [zid |-> z, version |-> store[z].version]
    OBVIOUS
  <2>3. PICK s : s = [r EXCEPT !.order = Tail(order), !.loaded = Append(loaded, e)]
    OBVIOUS
  <2>4. Become(w, s) /\ UNCHANGED codeVars
    BY <1>1, <1>4, <1>8, <2>1, <2>2, <2>3 DEF LoadZettel
  <2>5. /\ CodeFields \subseteq DOMAIN s /\ s.pc = "load" /\ s.graph = h /\ s.order = Tail(order)
        /\ s.loaded = Append(loaded, e)
    BY <1>2, <1>3, <1>4, <2>3 DEF RequestOK, CodeFields
  <2>6. PICK list : list = SortReverse(h)
    OBVIOUS
  <2>7. PICK T : T = [zid : DOMAIN h, version : Nat]
    OBVIOUS
  <2>8. /\ loaded \in Seq(T) /\ order \in Seq(DOMAIN h) /\ Len(loaded) + Len(order) = Len(list)
        /\ \A i \in 1 .. Len(loaded) : loaded[i].zid = list[i] /\ SameVersion(list[i], loaded[i].version)
        /\ \A i \in 1 .. Len(order) : order[i] = list[Len(loaded) + i]
    BY <1>5, <2>6, <2>7 DEF ListOK
  <2>9. z \in DOMAIN h /\ z = order[1] /\ Len(order) \in Nat /\ Len(order) >= 1 /\ Len(loaded) \in Nat
    BY <1>8, <2>1, <2>8
  <2>10. z = list[Len(loaded) + 1]
    BY <2>8, <2>9
  <2>11. e \in T /\ e.zid = z /\ e.version = store[z].version /\ Exists(z) /\ SameVersion(z, e.version)
    BY <1>8, <2>1, <2>2, <2>7, <2>9 DEF CodeInv, StoreOK, Exists, SameVersion
  <2>12. PICK l, o : l = Append(loaded, e) /\ o = Tail(order)
    OBVIOUS
  <2>13. /\ l \in Seq(T) /\ Len(l) = Len(loaded) + 1 /\ l[Len(loaded) + 1] = e
         /\ \A i \in 1 .. Len(loaded) : l[i] = loaded[i]
    BY <2>8, <2>11, <2>12
  <2>14. /\ o \in Seq(DOMAIN h) /\ Len(o) = Len(order) - 1
         /\ \A i \in 1 .. Len(order) - 1 : o[i] = order[i + 1]
    BY <1>8, <2>8, <2>12
  <2>15. ASSUME NEW i \in 1 .. Len(l) PROVE l[i].zid = list[i] /\ SameVersion(list[i], l[i].version)
    <3>1. i = Len(loaded) + 1 \/ i \in 1 .. Len(loaded)
      BY <2>9, <2>13
    <3> QED
      BY <2>8, <2>10, <2>11, <2>13, <3>1
  <2>16. ASSUME NEW i \in 1 .. Len(o) PROVE o[i] = list[Len(l) + i]
    <3>1. i \in 1 .. Len(order) - 1 /\ i + 1 \in 1 .. Len(order)
      BY <2>9, <2>14
    <3>2. o[i] = list[Len(loaded) + (i + 1)]
      BY <2>8, <2>14, <3>1
    <3>3. Len(loaded) + (i + 1) = Len(l) + i
      BY <2>9, <2>13
    <3> QED
      BY <3>2, <3>3
  <2>17. Len(l) + Len(o) = Len(list)
    <3>1. (Len(loaded) + 1) + (Len(order) - 1) = Len(loaded) + Len(order)
      BY <2>9
    <3>2. Len(l) = Len(loaded) + 1 /\ Len(o) = Len(order) - 1 /\ Len(loaded) + Len(order) = Len(list)
      BY <2>8, <2>13, <2>14
    <3> QED
      BY <3>1, <3>2
  <2>18. ListOK(h, l, o)
    BY <1>5, <2>6, <2>7, <2>13, <2>14, <2>15, <2>16, <2>17 DEF ListOK
  <2>19. RequestOK(s)
    BY <2>5, <2>12, <2>18 DEF RequestOK
  <2>20. RequestOK(s)'
    BY <1>2, <2>19, RequestStays DEF Stale, Exists
  <2> QED
    BY <1>1, <1>2, <2>4, <2>5, <2>20, LoadGoesOn DEF Loading, codeVars
<1> QED
  BY <1>6, <1>7, <1>8

LEMMA NextCodeInv == IInv /\ CodeInv /\ [Next]_vars => CodeInv'
<1> SUFFICES ASSUME IInv, CodeInv, [Next]_vars PROVE CodeInv'
  OBVIOUS
<1>1. ASSUME NEW z \in DOMAIN Contents, Write(z) \/ Delete(z) PROVE CodeInv'
  BY <1>1, ZettelKeepsCode
<1>2. CASE Reload
  BY <1>2, ReloadKeepsCode
<1>3. CASE Observe
  BY <1>3, notifierKeepsCode, observeTemplatesKeepsCode, observeCodeKeepsCode DEF Observe
<1>4. ASSUME NEW w \in Workers, Begin(w) \/ Lock(w) \/ Serve(w) PROVE CodeInv'
  BY <1>4, QuietKeepsCode, StartKeepsCode, ReadStartKeepsCode, NextZettelKeepsCode, ReadPrecursorKeepsCode,
     NeedBaseKeepsCode, OrderZettelKeepsCode, LoadZettelKeepsCode DEF Lock, Serve
<1>5. CASE UNCHANGED vars
  <2>1. UNCHANGED <<store, changes, infos, observing, ignored, mxZettelBinding, binding, dag, missed, request>>
    BY <1>5 DEF vars
  <2>2. StoreOK' /\ \A w \in Workers : CodeFields \subseteq DOMAIN request[w]
    BY <2>1 DEF CodeInv, StoreOK, RequestOK
  <2> QED
    BY <2>1, <2>2, EnvironmentKeeps DEF Stale, Exists
<1> QED
  BY <1>1, <1>2, <1>3, <1>4, <1>5 DEF Next

-----------------------------------------------------------------------------
(* What is bound, and is not stale, is what would be loaded now.            *)
LEMMA BoundIsCurrent ==
  ASSUME NEW bind, Bound(bind), Calm, ignored \cap DOMAIN dag = {}, missed \cap DOMAIN store = {}
  PROVE  ToSet(bind) = {[zid |-> z, version |-> store[z].version] : z \in AllNeeded}
<1>1. CASE bind = <<>> /\ StartSxnZid \in missed
  <2>1. AllNeeded = {}
    BY <1>1 DEF AllNeeded, Exists
  <2>2. ToSet(bind) = {}
    BY <1>1 DEF ToSet
  <2> QED
    BY <2>1, <2>2
<1>2. CASE ListOK(dag, bind, <<>>)
  <2>1. PICK h : h = dag
    OBVIOUS
  <2>2. PICK g : Complete(g) /\ h = SxnCodeDigraph(g)
    BY <1>2, <2>1 DEF ListOK, Made
  <2>3. IsGraph(h) /\ DOMAIN h = DOMAIN g \cup {BaseSxnZid, PreludeSxnZid}
    BY <2>2, CodeDigraphIs DEF Complete
  <2>4. \A v \in DOMAIN h : ~Stale(v)
    BY <2>1 DEF Stale, Calm, NoReport, Report
  <2>5. \A v \in DOMAIN g : Exists(v) /\ g[v] \subseteq ToSet(store[v].pre) /\ ToSet(store[v].pre) \subseteq g[v] \cup missed
    BY <2>2, <2>3, <2>4 DEF Complete, Follows
  <2>6. /\ StartSxnZid \in DOMAIN g /\ Rooted(g) /\ DOMAIN g \subseteq DOMAIN store
        /\ \A v \in DOMAIN g : g[v] \subseteq DOMAIN g /\ g[v] = ToSet(store[v].pre) \cap DOMAIN store
    BY <2>2, <2>5 DEF Complete, StartGraph, IsGraph, Exists
  <2>7. {z \in DOMAIN store : \A S \in SUBSET DOMAIN store : StartSxnZid \in S /\ FollowsPrecursors(S) => z \in S}
           = DOMAIN g
    <3>1. FollowsPrecursors(DOMAIN g)
      BY <2>6 DEF FollowsPrecursors
    <3>2. ASSUME NEW z \in DOMAIN g, NEW S \in SUBSET DOMAIN store, StartSxnZid \in S, FollowsPrecursors(S)
          PROVE  z \in S
      <4>1. \A u \in S \cap DOMAIN g : g[u] \subseteq S \cap DOMAIN g
        BY <2>6, <3>2 DEF FollowsPrecursors
      <4>2. S \cap DOMAIN g = DOMAIN g
        BY <2>6, <3>2, <4>1 DEF Rooted
      <4> QED
        BY <4>2
    <3> QED
      BY <2>6, <3>1, <3>2
  <2>8. AllNeeded = DOMAIN h
    BY <2>3, <2>6, <2>7 DEF AllNeeded, Exists
  <2>9. PICK list : list = SortReverse(h)
    OBVIOUS
  <2>10. /\ list \in Seq(DOMAIN h) /\ \A v \in DOMAIN h : \E i \in DOMAIN list : list[i] = v
    <3>1. IsDAG(h)
      BY <1>2, <2>1 DEF ListOK
    <3> QED
      BY <2>3, <2>9, <3>1, Sorted
  <2>11. /\ bind \in Seq([zid : DOMAIN h, version : Nat]) /\ Len(bind) = Len(list)
         /\ \A i \in 1 .. Len(bind) : bind[i].zid = list[i] /\ SameVersion(list[i], bind[i].version)
    BY <1>2, <2>1, <2>9, <2>10 DEF ListOK
  <2>12. DOMAIN bind = 1 .. Len(list) /\ DOMAIN list = 1 .. Len(list)
    BY <2>10, <2>11
  <2>13. ASSUME NEW i \in DOMAIN list
         PROVE  list[i] \in DOMAIN h /\ bind[i] = [zid |-> list[i], version |-> store[list[i]].version]
    <3>1. list[i] \in DOMAIN h
      BY <2>10
    <3>2. i \in DOMAIN bind /\ bind \in Seq([zid : DOMAIN h, version : Nat])
      BY <2>11, <2>12
    <3>3. PICK T : T = [zid : DOMAIN h, version : Nat]
      OBVIOUS
    <3>4. i \in DOMAIN bind /\ bind \in Seq(T)
      BY <3>2, <3>3
    <3>5. bind[i] \in T
      BY <3>4, ElementOfSeq
    <3>6. list[i] \in DOMAIN h /\ bind[i] \in [zid : DOMAIN h, version : Nat]
      BY <3>1, <3>5, <3>3
    <3>7. bind[i].zid = list[i] /\ bind[i].version = store[list[i]].version
      BY <2>4, <2>11, <2>12, <3>6 DEF SameVersion
    <3> QED
      BY <3>6, <3>7
  <2>14. ToSet(bind) = {[zid |-> z, version |-> store[z].version] : z \in DOMAIN h}
    BY <2>10, <2>12, <2>13 DEF ToSet
  <2> QED
    BY <2>8, <2>14
<1> QED
  BY <1>1, <1>2 DEF Bound

LEMMA BoundIsInOrder ==
  ASSUME NEW bind, Bound(bind)
  PROVE  LET place(z) == {i \in DOMAIN bind : bind[i].zid = z} IN
         /\ \A z \in DOMAIN dag : Cardinality(place(z)) = 1
         /\ \A z \in DOMAIN dag : \A p \in dag[z] : \A i \in place(z), j \in place(p) : j < i
<1>1. CASE dag = NoGraph
  BY <1>1 DEF NoGraph
<1>2. CASE ListOK(dag, bind, <<>>)
  <2>1. PICK h : h = dag
    OBVIOUS
  <2>2. IsGraph(h) /\ IsDAG(h)
    BY <1>2, <2>1, MadeIsGraph DEF ListOK
  <2>3. PICK list : list = SortReverse(h)
    OBVIOUS
  <2>4. /\ list \in Seq(DOMAIN h)
        /\ \A v \in DOMAIN h : \E i \in DOMAIN list : list[i] = v
        /\ \A i, j \in DOMAIN list : list[i] = list[j] => i = j
        /\ \A i, j \in DOMAIN list : list[j] \in h[list[i]] => j < i
    BY <2>2, <2>3, Sorted
  <2>5. /\ bind \in Seq([zid : DOMAIN h, version : Nat]) /\ Len(bind) = Len(list)
        /\ \A i \in 1 .. Len(bind) : bind[i].zid = list[i]
    BY <1>2, <2>1, <2>3, <2>4 DEF ListOK
  <2>6. DOMAIN bind = DOMAIN list /\ \A i \in DOMAIN list : bind[i].zid = list[i]
    BY <2>4, <2>5
  <2> DEFINE place(z) == {i \in DOMAIN bind : bind[i].zid = z}
  <2>7. ASSUME NEW z \in DOMAIN h PROVE Cardinality(place(z)) = 1
    <3>1. PICK i \in DOMAIN list : list[i] = z
      BY <2>4
    <3>2. place(z) = {i}
      BY <2>4, <2>6, <3>1
    <3> QED
      BY <3>2, FS_Singleton
  <2>8. ASSUME NEW z \in DOMAIN h, NEW p \in h[z], NEW i \in place(z), NEW j \in place(p)
        PROVE  j < i
    BY <2>4, <2>6
  <2> QED
    BY <2>1, <2>7, <2>8
<1> QED
  BY <1>1, <1>2 DEF Bound

(* Whoever changes zettel while the code is loaded, the code that is used   *)
(* is, when all reports are delivered, what would be loaded now, each       *)
(* zettel once and after all it needs.                                      *)
THEOREM CodeStaysCurrent == Spec => []CodeIsCurrent
<1>1. CodeInv => CodeIsCurrent
  <2> SUFFICES ASSUME CodeInv PROVE CodeIsCurrent
    OBVIOUS
  <2>1. CodeAsIfLoadedNow
    BY BoundIsCurrent DEF CodeInv, CodeAsIfLoadedNow
  <2>2. LoadedInOrder
    BY BoundIsInOrder DEF CodeInv, LoadedInOrder
  <2> QED
    BY <2>1, <2>2 DEF CodeIsCurrent
<1> QED
  BY <1>1, InitIInv, NextIInv, InitCodeInv, NextCodeInv, PTL DEF Spec
=============================================================================
