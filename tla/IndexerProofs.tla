--------------------------- MODULE IndexerProofs ---------------------------
(***************************************************************************)
(* Proofs about the way from a change of a zettel to the index: for any    *)
(* number of zettel, texts, API threads and directory services, a channel  *)
(* of any length and any number of changes.                                *)
(*                                                                         *)
(* A zettel is followed when the index is right for it, when some thread   *)
(* is about to update its index, or when it is pending: what waits         *)
(* somewhere will make the indexer read it again.  An update with data     *)
(* that was read before a later change does no harm, as long as the zettel *)
(* is pending.                                                             *)
(***************************************************************************)
EXTENDS Indexer, MapStoreProofs

(* What the index should hold of a zettel *)
Fresh(z) ==
    /\ z \in indexed
    /\ forward[z] \union deadRefs[z] \subseteq References(z)
    /\ References(z) \subseteq forward[z] \union deadRefs[z] \union InverseOf(z)
Gone(z) == z \notin indexed /\ forward[z] = {} /\ deadRefs[z] = {} /\ InverseOf(z) = {}
Right(z) == IF z \in Present THEN Fresh(z) ELSE Gone(z)

TargetsOf(refs) == {ref[2] : ref \in refs}
FoundIn(zi) == UNION {zi.inverse[k] : k \in Keys}

(* What job j has found, or is still to look up, are the references of the  *)
(* present text.                                                            *)
Matches(j) ==
    /\ j.zid \in Present
    /\ j.zi.back \union j.zi.dead \union TargetsOf(j.todo) \subseteq References(j.zid)
    /\ References(j.zid) \subseteq
          TargetsOf(j.todo) \union j.zi.back \union j.zi.dead \union FoundIn(j.zi)

(* What a process is about to do is right for the present zettel.           *)
Works(j) == j.pc \in {"lookup", "remove"}
RightJob(j) == IF j.pc = "lookup" THEN Matches(j) ELSE j.zid \notin Present

Reported(z) == \E i \in DOMAIN infos : infos[i].zid = z
PendingAt(j, z) ==
    \/ j.pc = "report" /\ j.about = z
    \/ j.pc \in {"enqueue", "reload"} /\ z \in j.check
    \/ j.pc = "get" /\ j.zid = z
Pending(z) ==
    \/ Reported(z)
    \/ z \in changed \union backlog
    \/ \E p \in Procs : PendingAt(job[p], z)

WorkedOn(z) == \E p \in Procs : Works(job[p]) /\ job[p].zid = z
Followed(z) == Right(z) \/ Pending(z) \/ WorkedOn(z)
Requested == request \/ At(Indexer, "fetch")

-----------------------------------------------------------------------------
(* Which job a thread may have *)
JobOK(p, j) ==
    /\ p \notin active \union {Indexer} => j.pc = "idle"
    /\ p \in Watchers => j.pc \in {"idle", "report"}
    /\ p \in Writers => j.pc \in {"idle", "report", "lookup", "remove", "enqueue"}
    /\ p = Indexer => j.pc # "report"
    /\ j.pc = "report" => j.reason # "OnReload" /\ j.about \in Zettel
    /\ j.pc \in {"report", "lookup", "remove", "get"} =>
          j.zid \in Zettel \/ p \in Watchers \/ (p \in Writers /\ InMemory /\ j.zid = Invalid)
    /\ j.pc = "get" => j.zi = NewIndex
JobsOK == \A p \in Procs : JobOK(p, job[p])

(* A reload replaces no work: while one is asked for or fetched, there is   *)
(* no backlog, and there always is something to load.                       *)
QueueOK ==
    /\ Requested \/ At(Indexer, "reload") => backlog = {}
    /\ At(Indexer, "reload") => job[Indexer].check # {} /\ job[Indexer].check \subseteq Zettel
    /\ refreshes = 0 /\ request => At(Indexer, "idle")

NoReload == \A i \in DOMAIN infos : infos[i].reason # "OnReload" /\ infos[i].zid \in Zettel
InfosOK == refreshes = 0 => NoReload

(* Only a memory box makes the index have something for identifier 0.       *)
InvalidOK == ~InMemory => Gone(Invalid)

Shape == TypeOK /\ StoreOK /\ JobsOK /\ QueueOK /\ InfosOK /\ InvalidOK

-----------------------------------------------------------------------------
(* A writer has what is right, also while it still reports the change.      *)
WriterOK(j) ==
    /\ j.pc = "report" =>
          /\ j.zi = NewIndex
          /\ j.reason = "OnZettel" => \/ j.zid = Invalid
                                      \/ j.zid \in Present /\ j.todo = text[j.zid]
          /\ j.reason = "OnDelete" => j.zid \notin Present
          /\ j.zid # Invalid => j.zid = j.about
    /\ Works(j) /\ j.zid # Invalid => RightJob(j)
WritersOK == \A p \in Writers : WriterOK(job[p])

(* The indexer may have what is no longer right, if the zettel is pending.  *)
IndexerOK == Works(job[Indexer]) => RightJob(job[Indexer]) \/ Pending(job[Indexer].zid)

OrderOK ==
    InOrder => /\ WritersOK
               /\ IndexerOK
               /\ \A z \in Zettel : Followed(z) \/ (Requested /\ z \in Present)

(* After a calm Refresh only the indexer works.  Either the reload is still *)
(* to come, or every zettel is followed.                                    *)
CalmOK ==
    asked = "calm" =>
        /\ \A p \in Procs \ {Indexer} : At(p, "idle")
        /\ \A i \in DOMAIN infos : infos[i].reason = "OnReload"
        /\ At(Indexer, "reload") => job[Indexer].check = Present
        /\ \/ infos # <<>> \/ Requested
           \/ IndexerOK /\ \A z \in Present : Followed(z)

IndexInv == Shape /\ OrderOK /\ CalmOK

-----------------------------------------------------------------------------
(* Types and jobs *)

LEMMA ProcsAreApart ==
  /\ Indexer \in Procs /\ Indexer \notin Writers /\ Indexer \notin Watchers
  /\ \A p \in Writers \union Watchers : p \in Procs /\ p # Indexer
  BY ThreadsAssumption DEF Procs

LEMMA Zettels ==
  /\ Zettel \subseteq Zids /\ Invalid \in Zids /\ Invalid \notin Zettel
  /\ Base \subseteq Zettel /\ Storable \subseteq Zettel
  BY InvalidAssumption, BaseAssumption DEF Zettel, Storable

LEMMA NewIndexType == NewIndex \in ZettelIndex
  BY DEF NewIndex, ZettelIndex

LEMMA IdleType == Idle \in Job /\ Idle.pc = "idle"
  BY NewIndexType, Zettels DEF Idle, Job, PCs, Reasons, Text

(* A process goes on with another job.                                      *)
LEMMA OneJob ==
  ASSUME job \in [Procs -> Job], NEW p \in Procs, NEW r \in Job,
         job' = [job EXCEPT ![p] = r]
  PROVE  /\ job' \in [Procs -> Job]
         /\ job'[p] = r
         /\ \A q \in Procs : q # p => job'[q] = job[q]
  OBVIOUS

LEMMA OneJobOK ==
  ASSUME job \in [Procs -> Job], NEW p \in Procs, NEW r \in Job,
         job' = [job EXCEPT ![p] = r], JobsOK, JobOK(p, r), active' = active
  PROVE  JobsOK'
<1>1. \A q \in Procs : JobOK(q, job'[q])
  BY OneJob DEF JobsOK
<1> QED
  BY <1>1 DEF JobsOK, JobOK

(* The caller of Check is through, or has something to enqueue.             *)
LEMMA CheckJob ==
  ASSUME NEW p \in Procs, NEW S \in SUBSET Zids, job \in [Procs -> Job], Check(p, S)
  PROVE  \E r \in Job :
            /\ job' = [job EXCEPT ![p] = r]
            /\ IF S = {} THEN r = Idle ELSE r.pc = "enqueue" /\ r.check = S
<1>1. CASE S = {}
  BY <1>1, IdleType DEF Check
<1>2. CASE S # {}
  <2> DEFINE r == [Idle EXCEPT !.pc = "enqueue", !.check = S]
  <2>1. r \in Job /\ r.pc = "enqueue" /\ r.check = S
    BY IdleType DEF Idle, Job, PCs
  <2>2. job' = [job EXCEPT ![p] = r]
    BY <1>2 DEF Check
  <2> QED
    BY <1>2, <2>1, <2>2
<1> QED
  BY <1>1, <1>2

LEMMA BecomeJob ==
  ASSUME NEW p \in Procs, NEW pc \in PCs, job \in [Procs -> Job], Become(p, pc)
  PROVE  \E r \in Job : /\ job' = [job EXCEPT ![p] = r]
                        /\ r = [job[p] EXCEPT !.pc = pc] /\ r.pc = pc
<1> DEFINE r == [job[p] EXCEPT !.pc = pc]
<1>1. r \in Job /\ r.pc = pc
  BY DEF Job
<1> QED
  BY <1>1 DEF Become

(* The index and the boxes stay.                                            *)
LEMMA SameWorld ==
  ASSUME Shape, UNCHANGED <<storeVars, boxVars>>
  PROVE  /\ StoreOK' /\ StoreTypeOK' /\ InvalidOK'
         /\ stored' \subseteq Storable /\ text' \in [Zettel -> Text]
         /\ Present' = Present
         /\ \A z : Right(z)' <=> Right(z)
         /\ \A z : References(z)' = References(z)
         /\ \A j : (Matches(j)' <=> Matches(j)) /\ (RightJob(j)' <=> RightJob(j))
<1>1. StoreOK' /\ StoreTypeOK'
  BY SameStoreOK DEF Shape, StoreOK
<1>2. stored' \subseteq Storable /\ text' \in [Zettel -> Text]
  BY DEF Shape, TypeOK, boxVars
<1>3. Present' = Present /\ \A z : References(z)' = References(z)
  BY DEF boxVars, Present, References
<1>4. \A z : (Right(z)' <=> Right(z)) /\ (Gone(z)' <=> Gone(z))
  BY <1>3 DEF Right, Fresh, Gone, InverseOf, storeVars
<1>5. InvalidOK'
  BY <1>4 DEF Shape, InvalidOK
<1>6. \A j : (Matches(j)' <=> Matches(j)) /\ (RightJob(j)' <=> RightJob(j))
  BY <1>3 DEF Matches, RightJob
<1> QED
  BY <1>1, <1>2, <1>3, <1>4, <1>5, <1>6

-----------------------------------------------------------------------------
(* Every action keeps the shape of the state.                               *)

LEMMA InitShape == Init => Shape
<1> SUFFICES ASSUME Init PROVE Shape
  OBVIOUS
<1>1. StoreOK /\ StoreTypeOK
  BY InitStoreOK DEF Init, StoreOK
<1>2. text \in [Zettel -> Text] /\ stored \subseteq Storable
  <2>1. Texts \union {{}} \subseteq Text
    BY TextsAssumption DEF Text
  <2> QED
    BY <2>1, Zettels DEF Init
<1>3. infos = <<>> /\ infos \in Seq(Info) /\ Len(infos) <= MaxInfos
  BY BoundsAssumption DEF Init
<1>4. job \in [Procs -> Job] /\ \A p \in Procs : job[p].pc = "idle"
  BY IdleType DEF Init
<1>5. TypeOK
  BY <1>1, <1>2, <1>3, <1>4 DEF TypeOK, Init
<1>6. JobsOK /\ QueueOK /\ InfosOK
  BY <1>3, <1>4, ProcsAreApart DEF JobsOK, JobOK, QueueOK, InfosOK, NoReload, Requested, At, Init
<1>7. InvalidOK
  BY Zettels DEF InvalidOK, Gone, InverseOf, Init, StoreInit
<1> QED
  BY <1>1, <1>5, <1>6, <1>7 DEF Shape

(* A change of the box, with the job to report it.                          *)
LEMMA BeginShape ==
  ASSUME Shape, NEW p \in Writers \union Watchers,
         NEW zid \in Zids, NEW about \in Zettel, NEW reason \in {"OnZettel", "OnDelete"},
         NEW todo \in Text, Begin(p, zid, about, reason, todo), UNCHANGED scenario,
         zid \in Zettel \/ p \in Watchers \/ (InMemory /\ zid = Invalid),
         stored' \subseteq Storable, text' \in [Zettel -> Text]
  PROVE  /\ Shape'
         /\ p \in active /\ At(p, "idle") /\ asked' = "no"
         /\ \E r \in Job :
               /\ job' = [job EXCEPT ![p] = r]
               /\ r.pc = "report" /\ r.zid = zid /\ r.about = about /\ r.reason = reason
               /\ r.todo = todo /\ r.zi = NewIndex
         /\ UNCHANGED <<storeVars, infos, recent, queueVars, ready, refreshes>>
<1> DEFINE r == [Idle EXCEPT !.pc = "report", !.zid = zid,
                             !.about = about, !.reason = reason, !.todo = todo]
<1>1. /\ r \in Job /\ r.pc = "report" /\ r.zid = zid /\ r.about = about /\ r.reason = reason
      /\ r.todo = todo /\ r.zi = NewIndex
  BY IdleType, Zettels DEF Idle, Job, PCs, Reasons
<1>2. /\ job' = [job EXCEPT ![p] = r] /\ At(p, "idle") /\ p \in active /\ asked' = "no"
      /\ changes' = changes + 1
      /\ UNCHANGED <<storeVars, infos, recent, queueVars, ready, refreshes>>
  BY DEF Begin
<1> HIDE DEF r
<1>3. p \in Procs /\ p # Indexer /\ active' = active /\ quick' = quick
  BY ProcsAreApart DEF scenario
<1>4. job \in [Procs -> Job] /\ JobsOK
  BY DEF Shape, TypeOK
<1>5. JobOK(p, r)
  BY <1>1, <1>2, <1>3, ProcsAreApart DEF JobOK
<1>6. JobsOK' /\ job' \in [Procs -> Job] /\ job'[Indexer] = job[Indexer]
  BY <1>1, <1>2, <1>3, <1>4, <1>5, OneJobOK, OneJob, ProcsAreApart
<1>7. StoreOK' /\ StoreTypeOK' /\ InvalidOK'
  BY <1>2, SameStoreOK DEF Shape, StoreOK, InvalidOK, Gone, InverseOf, storeVars
<1>8. TypeOK'
  BY <1>2, <1>3, <1>6, <1>7 DEF Shape, TypeOK, queueVars
<1>9. QueueOK' /\ InfosOK'
  BY <1>2, <1>6 DEF Shape, QueueOK, InfosOK, NoReload, Requested, At, queueVars
<1> QED
  BY <1>1, <1>2, <1>6, <1>7, <1>8, <1>9 DEF Shape

(* Any other step of a process leaves the boxes alone.                      *)
LEMMA JobShape ==
  ASSUME Shape, StoreOK', InvalidOK', UNCHANGED <<boxVars, scenario, answer>>,
         NEW p \in Procs, NEW r \in Job, job' = [job EXCEPT ![p] = r], JobOK(p, r),
         infos' \in Seq(Info) /\ Len(infos') <= MaxInfos, InfosOK',
         recent' \in [Zids -> Reasons \union {"none"}],
         request' \in BOOLEAN, backlog' \subseteq Zettel, changed' \subseteq Zettel, QueueOK',
         ready' \in BOOLEAN, UNCHANGED boundVars
  PROVE  Shape'
<1>1. JobsOK' /\ job' \in [Procs -> Job]
  BY OneJob, OneJobOK DEF Shape, TypeOK, scenario
<1>2. StoreTypeOK'
  BY DEF StoreOK
<1>3. TypeOK'
  BY <1>1, <1>2 DEF Shape, TypeOK, boxVars, scenario, boundVars
<1> QED
  BY <1>1, <1>3 DEF Shape

LEMMA notifyChangedShape ==
  ASSUME Shape, NEW p \in Procs, notifyChanged(p), UNCHANGED scenario
  PROVE  /\ Shape' /\ p \in Writers \union Watchers
         /\ infos' = Append(infos, [reason |-> job[p].reason, zid |-> job[p].about])
         /\ \E r \in Job :
               /\ job' = [job EXCEPT ![p] = r]
               /\ IF p \in Watchers THEN r = Idle
                  ELSE r = [job[p] EXCEPT !.pc = IF job[p].reason = "OnDelete" THEN "remove" ELSE "lookup"]
<1> DEFINE new == [job[p] EXCEPT !.pc = IF job[p].reason = "OnDelete" THEN "remove" ELSE "lookup"]
           r == IF p \in Watchers THEN Idle ELSE new
           info == [reason |-> job[p].reason, zid |-> job[p].about]
<1>1. job[p] \in Job /\ job \in [Procs -> Job] /\ JobOK(p, job[p]) /\ job[p].pc = "report"
  BY DEF Shape, TypeOK, JobsOK, notifyChanged, At
<1>2. p \in Writers \union Watchers
  BY <1>1 DEF JobOK, Procs
<1>3. new \in Job /\ new.pc \in {"remove", "lookup"} /\ new.zid = job[p].zid
  BY <1>1 DEF Job, PCs
<1>4. r \in Job /\ JobOK(p, r)
  BY <1>1, <1>2, <1>3, IdleType, ProcsAreApart, ThreadsAssumption DEF JobOK
<1>5. job' = [job EXCEPT ![p] = r]
  BY <1>2 DEF notifyChanged
<1>6. /\ infos' = Append(infos, info) /\ infos \in Seq(Info) /\ info \in Info
      /\ Len(infos) < MaxInfos /\ MaxInfos \in Nat
  BY <1>1, BoundsAssumption DEF notifyChanged, Info, Job, Shape, TypeOK
<1>7. infos' \in Seq(Info) /\ Len(infos') <= MaxInfos /\ DOMAIN infos' = 1 .. (Len(infos) + 1)
  BY <1>6
<1>8. info.reason # "OnReload" /\ info.zid \in Zettel
  BY <1>1 DEF JobOK
<1>9. NoReload => NoReload'
  <2>1. \A i \in DOMAIN infos' : infos'[i] = IF i \in DOMAIN infos THEN infos[i] ELSE info
    BY <1>6
  <2> QED
    BY <1>8, <2>1 DEF NoReload
<1>10. InfosOK' /\ QueueOK'
  <2>1. job'[Indexer] = job[Indexer]
    BY <1>1, <1>2, <1>4, <1>5, OneJob, ProcsAreApart
  <2> QED
    BY <1>9, <2>1 DEF notifyChanged, Shape, InfosOK, QueueOK, Requested, At, queueVars, boundVars
<1>11. StoreOK' /\ InvalidOK'
  BY SameWorld DEF notifyChanged
<1> HIDE DEF r
<1>12. Shape'
  BY <1>4, <1>5, <1>7, <1>10, <1>11, JobShape
     DEF notifyChanged, Shape, TypeOK, queueVars
<1> QED
  BY <1>2, <1>4, <1>5, <1>6, <1>12 DEF r

LEMMA RefreshShape ==
  ASSUME Shape, Refresh, UNCHANGED scenario
  PROVE  Shape' /\ infos' # <<>> /\ refreshes' # 0
<1> DEFINE info == [reason |-> "OnReload", zid |-> Invalid]
<1>1. /\ infos' = Append(infos, info) /\ infos \in Seq(Info) /\ info \in Info
      /\ Len(infos) < MaxInfos /\ MaxInfos \in Nat /\ refreshes \in Nat /\ refreshes' = refreshes + 1
  BY BoundsAssumption, Zettels DEF Refresh, Info, Reasons, Shape, TypeOK
<1> HIDE DEF info
<1>2. infos' \in Seq(Info) /\ Len(infos') <= MaxInfos /\ infos' # <<>> /\ refreshes' # 0 /\ refreshes' \in Nat
  BY <1>1
<1>3. StoreOK' /\ StoreTypeOK' /\ InvalidOK'
  BY SameWorld DEF Refresh
<1>4. asked' \in {"no", "fetching", "calm"}
  BY DEF Refresh
<1>5. TypeOK'
  BY <1>2, <1>3, <1>4 DEF Shape, TypeOK, Refresh, scenario, boxVars, queueVars
<1>6. JobsOK' /\ QueueOK' /\ InfosOK'
  BY <1>2 DEF Refresh, Shape, JobsOK, JobOK, QueueOK, InfosOK, Requested, At, queueVars, scenario
<1> QED
  BY <1>2, <1>3, <1>5, <1>6 DEF Shape

LEMMA notifierShape ==
  ASSUME Shape, notifier, UNCHANGED scenario
  PROVE  /\ Shape' /\ infos \in Seq(Info) /\ infos # <<>> /\ infos' = Tail(infos)
         /\ NoReload => NoReload'
<1>1. /\ infos \in Seq(Info) /\ infos # <<>> /\ infos' = Tail(infos) /\ Head(infos) = infos[1]
      /\ 1 \in DOMAIN infos /\ infos[1] \in Info
  BY DEF notifier, Shape, TypeOK
<1>2. /\ infos' \in Seq(Info) /\ Len(infos') <= Len(infos) /\ Len(infos') \in Nat /\ Len(infos) \in Nat
      /\ \A i \in DOMAIN infos' : i + 1 \in DOMAIN infos /\ infos'[i] = infos[i + 1]
  BY <1>1
<1>3. NoReload => NoReload'
  BY <1>2 DEF NoReload
<1>4. StoreOK' /\ StoreTypeOK' /\ InvalidOK'
  BY SameWorld DEF notifier
<1>5. /\ recent' \in [Zids -> Reasons \union {"none"}] /\ asked' \in {"no", "fetching", "calm"}
      /\ ready' \in BOOLEAN
  BY <1>1 DEF notifier, Shape, TypeOK, Info, idxEnqueue
<1>6. request' \in BOOLEAN /\ backlog' \subseteq Zettel /\ changed' \subseteq Zettel
  BY <1>1 DEF notifier, Shape, TypeOK, Info, idxEnqueue, queueVars, Queue!RequestAll, Queue!Change, Zettel
<1>7. Len(infos') <= MaxInfos
  BY <1>2, BoundsAssumption DEF Shape, TypeOK
<1>8. TypeOK'
  BY <1>2, <1>4, <1>5, <1>6, <1>7 DEF Shape, TypeOK, notifier, scenario, boxVars
<1>9. JobsOK' /\ InfosOK'
  BY <1>3 DEF notifier, Shape, JobsOK, JobOK, InfosOK, scenario
<1>10. QueueOK'
  <2>1. CASE UNCHANGED queueVars
    BY <2>1 DEF notifier, Shape, QueueOK, Requested, At, queueVars
  <2>2. CASE Head(infos).reason = "OnReload" /\ Queue!RequestAll
    <3>1. refreshes # 0
      BY <1>1, <2>2 DEF Shape, InfosOK, NoReload
    <3> QED
      BY <2>2, <3>1 DEF notifier, Shape, QueueOK, Requested, At, Queue!RequestAll
  <2>3. CASE Queue!Change(Head(infos).zid)
    BY <2>3 DEF notifier, Shape, QueueOK, Requested, At, Queue!Change
  <2> QED
    BY <2>1, <2>2, <2>3 DEF notifier, idxEnqueue
<1> QED
  BY <1>1, <1>3, <1>4, <1>8, <1>9, <1>10 DEF Shape
-----------------------------------------------------------------------------
(* Steps that index a zettel *)

LEMMA FiledType ==
  ASSUME NEW zi \in ZettelIndex, NEW ref \in (Keys \union {Body}) \X Zettel
  PROVE  Filed(zi, ref) \in ZettelIndex
<1>1. ref[1] \in Keys \union {Body} /\ ref[2] \in Zids
  BY Zettels
<1>2. /\ zi.back \in SUBSET Zids /\ zi.dead \in SUBSET Zids
      /\ zi.inverse \in [Keys -> SUBSET Zids] /\ zi.words \in SUBSET Words
      /\ zi = [back |-> zi.back, dead |-> zi.dead, inverse |-> zi.inverse, words |-> zi.words]
  BY DEF ZettelIndex
<1>3. CASE ref[2] \notin Present
  <2>1. Filed(zi, ref) = [zi EXCEPT !.dead = zi.dead \union {ref[2]}]
    BY <1>3 DEF Filed
  <2> QED
    BY <1>1, <1>2, <2>1 DEF ZettelIndex
<1>4. CASE ref[2] \in Present /\ ref[1] = Body
  <2>1. Filed(zi, ref) = [zi EXCEPT !.back = zi.back \union {ref[2]}]
    BY <1>4 DEF Filed
  <2> QED
    BY <1>1, <1>2, <2>1 DEF ZettelIndex
<1>5. CASE ref[2] \in Present /\ ref[1] # Body
  <2> DEFINE inv == [zi.inverse EXCEPT ![ref[1]] = zi.inverse[ref[1]] \union {ref[2]}]
  <2>1. Filed(zi, ref) = [zi EXCEPT !.inverse = inv]
    BY <1>2, <1>5 DEF Filed
  <2>2. inv \in [Keys -> SUBSET Zids]
    BY <1>1, <1>2, <1>5
  <2> HIDE DEF inv
  <2> QED
    BY <1>2, <2>1, <2>2 DEF ZettelIndex
<1> QED
  BY <1>3, <1>4, <1>5

(* A reference that is looked up is found, as dead, in the body or by key.  *)
LEMMA FiledFinds ==
  ASSUME NEW zi \in ZettelIndex, NEW ref \in (Keys \union {Body}) \X Zettel
  PROVE  LET new == Filed(zi, ref) IN
         /\ new.back \union new.dead \subseteq zi.back \union zi.dead \union {ref[2]}
         /\ new.back \union new.dead \union FoundIn(new)
                = zi.back \union zi.dead \union FoundIn(zi) \union {ref[2]}
<1>1. ref[1] \in Keys \union {Body} /\ ref[2] \in Zids
  BY Zettels
<1>2. /\ zi.inverse \in [Keys -> SUBSET Zids]
      /\ zi = [back |-> zi.back, dead |-> zi.dead, inverse |-> zi.inverse, words |-> zi.words]
  BY DEF ZettelIndex
<1>3. CASE ref[2] \notin Present
  <2>1. Filed(zi, ref) = [zi EXCEPT !.dead = zi.dead \union {ref[2]}]
    BY <1>3 DEF Filed
  <2>2. /\ Filed(zi, ref).dead = zi.dead \union {ref[2]}
        /\ Filed(zi, ref).back = zi.back /\ Filed(zi, ref).inverse = zi.inverse
    BY <1>2, <2>1
  <2> QED
    BY <2>2 DEF FoundIn
<1>4. CASE ref[2] \in Present /\ ref[1] = Body
  <2>1. Filed(zi, ref) = [zi EXCEPT !.back = zi.back \union {ref[2]}]
    BY <1>4 DEF Filed
  <2>2. /\ Filed(zi, ref).back = zi.back \union {ref[2]}
        /\ Filed(zi, ref).dead = zi.dead /\ Filed(zi, ref).inverse = zi.inverse
    BY <1>2, <2>1
  <2> QED
    BY <2>2 DEF FoundIn
<1>5. CASE ref[2] \in Present /\ ref[1] # Body
  <2> DEFINE inv == [zi.inverse EXCEPT ![ref[1]] = zi.inverse[ref[1]] \union {ref[2]}]
  <2>1. Filed(zi, ref) = [zi EXCEPT !.inverse = inv]
    BY <1>2, <1>5 DEF Filed
  <2>2. /\ ref[1] \in Keys /\ inv[ref[1]] = zi.inverse[ref[1]] \union {ref[2]}
        /\ \A k \in Keys : k # ref[1] => inv[k] = zi.inverse[k]
    BY <1>1, <1>2, <1>5
  <2> HIDE DEF inv
  <2>3. /\ Filed(zi, ref).inverse = inv
        /\ Filed(zi, ref).dead = zi.dead /\ Filed(zi, ref).back = zi.back
    BY <1>2, <2>1
  <2>4. UNION {inv[k] : k \in Keys} = (UNION {zi.inverse[k] : k \in Keys}) \union {ref[2]}
    BY <2>2
  <2> QED
    BY <2>3, <2>4 DEF FoundIn
<1> QED
  BY <1>3, <1>4, <1>5

LEMMA lookupReferenceShape ==
  ASSUME Shape, NEW p \in Procs, lookupReference(p), UNCHANGED scenario
  PROVE  /\ Shape'
         /\ \E r \in Job, ref \in job[p].todo :
               /\ job' = [job EXCEPT ![p] = r]
               /\ ref \in (Keys \union {Body}) \X Zettel
               /\ job[p].pc = "lookup" /\ r.pc = "lookup" /\ r.zid = job[p].zid
               /\ r.todo = job[p].todo \ {ref} /\ r.zi = Filed(job[p].zi, ref)
<1>1. job[p] \in Job /\ job \in [Procs -> Job] /\ JobOK(p, job[p]) /\ job[p].pc = "lookup"
  BY DEF Shape, TypeOK, JobsOK, lookupReference, At
<1>2. PICK ref \in job[p].todo :
        job' = [job EXCEPT ![p] = [job[p] EXCEPT !.todo = job[p].todo \ {ref}, !.zi = Filed(job[p].zi, ref)]]
  BY DEF lookupReference
<1>3. ref \in (Keys \union {Body}) \X Zettel /\ job[p].zi \in ZettelIndex /\ job[p].todo \ {ref} \in Text
  BY <1>1 DEF Job, Text
<1> DEFINE zi == Filed(job[p].zi, ref)
           r == [job[p] EXCEPT !.todo = job[p].todo \ {ref}, !.zi = zi]
<1>4. zi \in ZettelIndex
  BY <1>3, FiledType
<1> HIDE DEF zi
<1>5. /\ r \in Job /\ r.pc = "lookup" /\ r.zid = job[p].zid
      /\ r.todo = job[p].todo \ {ref} /\ r.zi = zi
  BY <1>1, <1>3, <1>4 DEF Job
<1>6. job' = [job EXCEPT ![p] = r]
  BY <1>2 DEF zi
<1> HIDE DEF r
<1>7. JobOK(p, r)
  BY <1>1, <1>5 DEF JobOK
<1>8. StoreOK' /\ InvalidOK'
  BY SameWorld DEF lookupReference
<1>9. QueueOK' /\ InfosOK'
  <2>1. job'[Indexer] = job[Indexer] \/ (job'[Indexer].pc = "lookup" /\ job[Indexer].pc = "lookup")
    BY <1>1, <1>5, <1>6, OneJob, ProcsAreApart
  <2> QED
    BY <2>1 DEF lookupReference, Shape, QueueOK, InfosOK, NoReload, Requested, At, queueVars, boundVars
<1>10. Shape'
  BY <1>5, <1>6, <1>7, <1>8, <1>9, JobShape
     DEF lookupReference, Shape, TypeOK, queueVars
<1> QED
  BY <1>3, <1>5, <1>6, <1>10, <1>1 DEF zi

(* What a process does next, after it has updated the index.                *)
LEMMA CheckShape ==
  ASSUME Shape, NEW p \in Procs, NEW S \in SUBSET Zids, Check(p, S),
         job[p].pc \in {"lookup", "remove", "enqueue"}, p \notin Watchers,
         StoreOK', InvalidOK', UNCHANGED <<boxVars, infos, recent, ready, request, backlog, answer, boundVars>>,
         changed' \subseteq Zettel, UNCHANGED scenario
  PROVE  /\ Shape'
         /\ \E r \in Job : /\ job' = [job EXCEPT ![p] = r]
                           /\ IF S = {} THEN r = Idle ELSE r.pc = "enqueue" /\ r.check = S
<1>1. job[p] \in Job /\ job \in [Procs -> Job] /\ JobOK(p, job[p])
  BY DEF Shape, TypeOK, JobsOK
<1>2. PICK r \in Job :
         /\ job' = [job EXCEPT ![p] = r]
         /\ IF S = {} THEN r = Idle ELSE r.pc = "enqueue" /\ r.check = S
  BY <1>1, CheckJob
<1>3. r.pc \in {"idle", "enqueue"}
  BY <1>2, IdleType
<1>4. JobOK(p, r)
  BY <1>1, <1>3 DEF JobOK
<1>5. QueueOK' /\ InfosOK'
  <2>1. job'[Indexer] = job[Indexer] \/
        (job'[Indexer].pc \in {"idle", "enqueue"} /\ job[Indexer].pc \in {"lookup", "remove", "enqueue"})
    BY <1>1, <1>2, <1>3, OneJob, ProcsAreApart
  <2> QED
    BY <2>1 DEF Shape, QueueOK, InfosOK, NoReload, Requested, At, boundVars
<1>6. Shape'
  BY <1>2, <1>4, <1>5, JobShape DEF Shape, TypeOK
<1> QED
  BY <1>2, <1>6

(* An update of the index makes it right for a zettel, and leaves the       *)
(* others alone.                                                            *)
LEMMA storeIndexShape ==
  ASSUME Shape, NEW p \in Procs, storeIndex(p), UNCHANGED scenario
  PROVE  /\ Shape' /\ job[p].pc = "lookup" /\ job[p].todo = {} /\ job[p].zi \in ZettelIndex
         /\ job[p].zid \in Zids
         /\ \E r \in Job : /\ job' = [job EXCEPT ![p] = r]
                           /\ r.pc \in {"idle", "enqueue"}
         /\ \A z \in Zids : /\ z # job[p].zid /\ Right(z) => Right(z)'
                            /\ z = job[p].zid /\ Matches(job[p]) => Right(z)'
<1>1. /\ job[p] \in Job /\ job \in [Procs -> Job] /\ JobOK(p, job[p])
      /\ job[p].pc = "lookup" /\ job[p].todo = {}
  BY DEF Shape, TypeOK, JobsOK, storeIndex, At
<1>0. PICK x \in Zids, zi \in ZettelIndex : x = job[p].zid /\ zi = job[p].zi
  BY <1>1 DEF Job
<1>2. p \notin Watchers
  BY <1>1 DEF JobOK
<1>3. UpdateReferences(x, zi) /\ Check(p, UpdateToCheck(x, zi)) /\ StoreOK /\ StoreInv
  BY <1>0 DEF storeIndex, Shape, StoreOK
<1>4. StoreOK' /\ UpdateToCheck(x, zi) \subseteq Zids
  BY <1>2, <1>3, UpdateStoreOK
<1>5. /\ indexed' = indexed \union {x} /\ stored' = stored /\ text' = text
      /\ forward'[x] = zi.back /\ deadRefs'[x] = zi.dead
      /\ \A k \in Keys : otherFwd'[k][x] = IF zi.inverse[k] = {} THEN otherFwd[k][x] ELSE zi.inverse[k]
      /\ \A y \in Zids \ {x} : /\ forward'[y] = forward[y] /\ deadRefs'[y] = deadRefs[y]
                               /\ \A k \in Keys : otherFwd'[k][y] = otherFwd[k][y]
  BY <1>2, <1>3, UpdateChanges DEF UpdateReferences, storeIndex, boxVars
<1>6. ASSUME NEW z \in Zids \ {x}
      PROVE  (Gone(z) => Gone(z)') /\ (Right(z) => Right(z)')
  <2>1. InverseOf(z)' = InverseOf(z)
    BY <1>5 DEF InverseOf
  <2>2. References(z)' = References(z) /\ Present' = Present
    BY <1>5 DEF References, Present
  <2>3. forward'[z] = forward[z] /\ deadRefs'[z] = deadRefs[z] /\ (z \in indexed' <=> z \in indexed)
    BY <1>5
  <2> QED
    BY <2>1, <2>2, <2>3 DEF Right, Fresh, Gone
<1>7. Matches(job[p]) => Right(x)'
  <2> SUFFICES ASSUME Matches(job[p]) PROVE Right(x)'
    OBVIOUS
  <2>1. /\ x \in Present /\ zi.back \union zi.dead \subseteq References(x)
        /\ References(x) \subseteq zi.back \union zi.dead \union FoundIn(zi)
    BY <1>0, <1>1 DEF Matches, TargetsOf
  <2>2. FoundIn(zi) \subseteq InverseOf(x)'
    BY <1>5 DEF FoundIn, InverseOf
  <2>3. References(x)' = References(x) /\ Present' = Present /\ x \in indexed'
    BY <1>5 DEF References, Present
  <2> QED
    BY <1>5, <2>1, <2>2, <2>3 DEF Right, Fresh
<1>8. InvalidOK'
  <2>1. ~InMemory => x # Invalid
    BY <1>0, <1>1, <1>2, Zettels DEF JobOK
  <2> QED
    BY <1>6, <2>1, Zettels DEF Shape, InvalidOK
<1>9. /\ Shape'
      /\ \E r \in Job : /\ job' = [job EXCEPT ![p] = r]
                        /\ r.pc \in {"idle", "enqueue"}
  <2>1. /\ UNCHANGED <<boxVars, infos, recent, ready, request, backlog, answer, boundVars>>
        /\ changed' \subseteq Zettel
    BY DEF storeIndex, queueVars, Shape, TypeOK
  <2> QED
    BY <1>1, <1>2, <1>3, <1>4, <1>8, <2>1, CheckShape, IdleType
<1> QED
  BY <1>0, <1>1, <1>2, <1>6, <1>7, <1>9

(* Removing a zettel from the index is right if it is gone; who loses a     *)
(* reference is to be checked.                                              *)
LEMMA idxDeleteZettelShape ==
  ASSUME Shape, NEW p \in Procs, idxDeleteZettel(p), UNCHANGED scenario
  PROVE  /\ Shape' /\ job[p].pc = "remove" /\ job[p].zid \in Zids
         /\ \E r \in Job : /\ job' = [job EXCEPT ![p] = r]
                           /\ r.pc \in {"idle", "enqueue"}
                           /\ \A z \in Zids : z # job[p].zid /\ Right(z) =>
                                 Right(z)' \/ (r.pc = "enqueue" /\ z \in r.check)
         /\ \A z \in Zids : z = job[p].zid /\ z \notin Present => Right(z)'
<1>1. /\ job[p] \in Job /\ job \in [Procs -> Job] /\ JobOK(p, job[p]) /\ job[p].pc = "remove"
  BY DEF Shape, TypeOK, JobsOK, idxDeleteZettel, At
<1>0. PICK x \in Zids : x = job[p].zid
  BY <1>1 DEF Job
<1>2. p \notin Watchers
  BY <1>1 DEF JobOK
<1>3. DeleteZettel(x) /\ Check(p, DeleteToCheck(x)) /\ StoreOK /\ StoreInv
  BY <1>0 DEF idxDeleteZettel, Shape, StoreOK
<1>4. StoreOK' /\ DeleteToCheck(x) \subseteq Zids
  BY <1>2, <1>3, DeleteStoreOK
<1>5. /\ x \notin indexed' /\ stored' = stored /\ text' = text
      /\ forward'[x] = {} /\ deadRefs'[x] = {} /\ \A k \in Keys : otherFwd'[k][x] = {}
      /\ \A y \in Zids \ {x} :
            /\ y \in indexed' <=> y \in indexed
            /\ forward'[y] \subseteq forward[y] /\ deadRefs'[y] = deadRefs[y]
            /\ forward'[y] # forward[y] => y \in backward[x]
            /\ \A k \in Keys : otherFwd'[k][y] = otherFwd[k][y]
  <2>1. CASE x \notin entries
    <3>1. UNCHANGED storeVars
      BY <1>3, <2>1 DEF DeleteZettel
    <3>2. x \notin indexed /\ forward[x] = {} /\ deadRefs[x] = {} /\ \A k \in Keys : otherFwd[k][x] = {}
      BY <1>2, <1>3, <2>1 DEF StoreOK, StoreTypeOK, AbsentIsEmpty
    <3> QED
      BY <3>1, <3>2 DEF storeVars, boxVars, idxDeleteZettel
  <2>2. CASE x \in entries
    BY <1>2, <1>3, <2>2, DeleteChanges DEF DeleteZettel, boxVars, idxDeleteZettel
  <2> QED
    BY <2>1, <2>2
<1>6. ASSUME NEW z \in Zids \ {x}
      PROVE  (Gone(z) => Gone(z)') /\ (Right(z) => Right(z)' \/ z \in DeleteToCheck(x))
  <2>1. InverseOf(z)' = InverseOf(z)
    BY <1>5 DEF InverseOf
  <2>2. References(z)' = References(z) /\ Present' = Present
    BY <1>5 DEF References, Present
  <2>3. Gone(z) => Gone(z)'
    BY <1>5, <2>1 DEF Gone
  <2>4. ASSUME Fresh(z) PROVE Fresh(z)' \/ z \in DeleteToCheck(x)
    <3>1. CASE forward'[z] = forward[z]
      BY <1>5, <2>1, <2>2, <2>4, <3>1 DEF Fresh
    <3>2. CASE forward'[z] # forward[z]
      <4>1. z \in entries
        BY <1>3, <2>4 DEF Fresh, StoreOK, StoreTypeOK
      <4> QED
        BY <1>5, <3>2, <4>1 DEF DeleteToCheck
    <3> QED
      BY <3>1, <3>2
  <2> QED
    BY <2>2, <2>3, <2>4 DEF Right
<1>7. x \notin Present => Right(x)'
  <2>1. InverseOf(x)' = {} /\ Present' = Present
    BY <1>5 DEF InverseOf, Present
  <2> QED
    BY <1>5, <2>1 DEF Right, Gone
<1>8. InvalidOK'
  <2>1. ~InMemory => x # Invalid
    BY <1>0, <1>1, <1>2, Zettels DEF JobOK
  <2> QED
    BY <1>6, <2>1, Zettels DEF Shape, InvalidOK
<1>9. /\ Shape'
      /\ \E r \in Job : /\ job' = [job EXCEPT ![p] = r]
                        /\ IF DeleteToCheck(x) = {} THEN r = Idle
                           ELSE r.pc = "enqueue" /\ r.check = DeleteToCheck(x)
  <2>1. /\ UNCHANGED <<boxVars, infos, recent, ready, request, backlog, answer, boundVars>>
        /\ changed' \subseteq Zettel
    BY DEF idxDeleteZettel, queueVars, Shape, TypeOK
  <2> QED
    BY <1>1, <1>2, <1>3, <1>4, <1>8, <2>1, CheckShape
<1>10. PICK r \in Job : /\ job' = [job EXCEPT ![p] = r]
                        /\ IF DeleteToCheck(x) = {} THEN r = Idle
                           ELSE r.pc = "enqueue" /\ r.check = DeleteToCheck(x)
  BY <1>9
<1>11. /\ r.pc \in {"idle", "enqueue"}
       /\ \A z \in Zids \ {x} : Right(z) => Right(z)' \/ (r.pc = "enqueue" /\ z \in r.check)
  BY <1>6, <1>10, IdleType
<1> QED
  BY <1>0, <1>1, <1>2, <1>7, <1>9, <1>10, <1>11

LEMMA idxCheckZettelShape ==
  ASSUME Shape, NEW p \in Procs, idxCheckZettel(p), UNCHANGED scenario
  PROVE  /\ Shape' /\ job[p].pc = "enqueue"
         /\ UNCHANGED <<request, backlog, answer>>
         /\ \E x \in Zids, r \in Job :
               /\ job' = [job EXCEPT ![p] = r]
               /\ changed' = changed \union ({x} \ {Invalid})
               /\ r.pc \in {"idle", "enqueue"}
               /\ job[p].check \ {x} # {} => r.pc = "enqueue" /\ r.check = job[p].check \ {x}
<1>1. /\ job[p] \in Job /\ job \in [Procs -> Job] /\ JobOK(p, job[p]) /\ job[p].pc = "enqueue"
  BY DEF Shape, TypeOK, JobsOK, idxCheckZettel, At
<1>2. PICK x \in job[p].check : Queue!Change(x) /\ Check(p, job[p].check \ {x})
  BY DEF idxCheckZettel
<1>3. x \in Zids /\ job[p].check \ {x} \subseteq Zids /\ p \notin Watchers
  BY <1>1 DEF Job, JobOK
<1>4. /\ changed' = changed \union ({x} \ {Invalid})
      /\ UNCHANGED <<request, backlog, answer>>
  BY <1>2 DEF Queue!Change
<1>5. changed' \subseteq Zettel
  BY <1>3, <1>4 DEF Shape, TypeOK, Zettel
<1>6. StoreOK' /\ InvalidOK'
  BY SameWorld DEF idxCheckZettel
<1>7. /\ Shape'
      /\ \E r \in Job : /\ job' = [job EXCEPT ![p] = r]
                        /\ IF job[p].check \ {x} = {} THEN r = Idle
                           ELSE r.pc = "enqueue" /\ r.check = job[p].check \ {x}
  <2>1. UNCHANGED <<boxVars, infos, recent, ready, request, backlog, answer, boundVars>>
    BY <1>4 DEF idxCheckZettel
  <2> QED
    BY <1>1, <1>2, <1>3, <1>5, <1>6, <2>1, CheckShape
<1> QED
  BY <1>1, <1>3, <1>4, <1>7, IdleType
-----------------------------------------------------------------------------
(* Steps of the indexer *)

LEMMA DequeueShape ==
  ASSUME Shape, Dequeue, UNCHANGED scenario
  PROVE  /\ Shape' /\ At(Indexer, "idle")
         /\ \E r \in Job :
               /\ job' = [job EXCEPT ![Indexer] = r]
               /\ \/ r.pc = "fetch" /\ request /\ ~request' /\ UNCHANGED <<backlog, changed>>
                  \/ /\ r.pc = "get" /\ ~request /\ ~request'
                     /\ (changed \union backlog) \ {r.zid} \subseteq changed' \union backlog'
                  \/ r.pc = "asleep" /\ ~request /\ ~request' /\ UNCHANGED <<backlog, changed>>
<1>1. /\ job[Indexer] \in Job /\ job \in [Procs -> Job] /\ Indexer \in Procs
      /\ job[Indexer].pc = "idle" /\ request \in BOOLEAN
      /\ backlog \subseteq Zettel /\ changed \subseteq Zettel
  BY ProcsAreApart DEF Shape, TypeOK, Dequeue, At
<1>2. PICK r \in Job :
         /\ job' = [job EXCEPT ![Indexer] = r]
         /\ \/ Queue!TakeRequest /\ r.pc = "fetch"
            \/ /\ Queue!TakeBacklog \/ Queue!TakeChange
               /\ r.pc = "get" /\ r.zid = answer'.zid /\ r.zid \in Zettel /\ r.zi = NewIndex
               /\ (changed \union backlog) \ {r.zid} \subseteq changed' \union backlog'
            \/ Queue!TakeNothing /\ r.pc = "asleep"
  <2>1. CASE Queue!TakeRequest /\ Become(Indexer, "fetch")
    BY <1>1, <2>1, BecomeJob DEF PCs
  <2>2. CASE Queue!TakeNothing /\ Become(Indexer, "asleep")
    BY <1>1, <2>2, BecomeJob DEF PCs
  <2>3. CASE /\ Queue!TakeBacklog \/ Queue!TakeChange
             /\ job' = [job EXCEPT ![Indexer] = [Idle EXCEPT !.pc = "get", !.zid = answer'.zid]]
    <3>1. PICK z \in Zettel :
             answer'.zid = z /\ (changed \union backlog) \ {z} \subseteq changed' \union backlog'
      BY <1>1, <2>3 DEF Queue!TakeBacklog, Queue!TakeChange
    <3> DEFINE r == [Idle EXCEPT !.pc = "get", !.zid = z]
    <3>2. r \in Job /\ r.pc = "get" /\ r.zid = z /\ r.zi = NewIndex
      BY <3>1, IdleType, Zettels DEF Idle, Job, PCs
    <3> QED
      BY <2>3, <3>1, <3>2
  <2> QED
    BY <2>1, <2>2, <2>3 DEF Dequeue
<1>3. JobOK(Indexer, r)
  BY <1>2, ProcsAreApart DEF JobOK
<1>4. /\ request' \in BOOLEAN /\ backlog' \subseteq backlog /\ changed' \subseteq changed
      /\ ~request'
      /\ r.pc = "fetch" => request /\ UNCHANGED <<backlog, changed>>
      /\ r.pc = "get" => ~request
      /\ r.pc = "asleep" => ~request /\ UNCHANGED <<backlog, changed>>
  <2>1. CASE Queue!TakeRequest /\ r.pc = "fetch"
    BY <1>1, <2>1 DEF Queue!TakeRequest
  <2>2. CASE (Queue!TakeBacklog \/ Queue!TakeChange) /\ r.pc = "get"
    BY <1>1, <2>2 DEF Queue!TakeBacklog, Queue!TakeChange
  <2>3. CASE Queue!TakeNothing /\ r.pc = "asleep"
    BY <1>1, <2>3 DEF Queue!TakeNothing
  <2> QED
    BY <1>2, <2>1, <2>2, <2>3
<1>5. job'[Indexer] = r /\ job' \in [Procs -> Job] /\ JobsOK'
  BY <1>1, <1>2, <1>3, OneJob, OneJobOK DEF Shape, scenario
<1>6. QueueOK' /\ InfosOK'
  BY <1>1, <1>2, <1>4, <1>5 DEF Dequeue, Shape, QueueOK, InfosOK, NoReload, Requested, At, boundVars
<1>7. StoreOK' /\ StoreTypeOK' /\ InvalidOK'
  BY SameWorld DEF Dequeue
<1>8. TypeOK'
  BY <1>1, <1>4, <1>5, <1>7 DEF Shape, TypeOK, Dequeue, boxVars, scenario, boundVars
<1> QED
  BY <1>1, <1>2, <1>4, <1>5, <1>6, <1>7, <1>8 DEF Shape, At

LEMMA FetchZidsShape ==
  ASSUME Shape, FetchZids, UNCHANGED scenario
  PROVE  /\ Shape' /\ job[Indexer].pc = "fetch"
         /\ \E r \in Job : /\ job' = [job EXCEPT ![Indexer] = r]
                           /\ r.pc = "reload" /\ r.check = Present
<1>1. /\ job \in [Procs -> Job] /\ Indexer \in Procs /\ job[Indexer].pc = "fetch"
  BY ProcsAreApart DEF Shape, TypeOK, FetchZids, At
<1> DEFINE r == [Idle EXCEPT !.pc = "reload", !.check = Present]
<1>2. Present \subseteq Zettel /\ Present \subseteq Zids /\ Present # {}
  BY Zettels, BaseAssumption DEF Present, Shape, TypeOK
<1>3. r \in Job /\ r.pc = "reload" /\ r.check = Present
  BY <1>2, IdleType DEF Idle, Job, PCs
<1>4. job' = [job EXCEPT ![Indexer] = r]
  BY DEF FetchZids
<1> HIDE DEF r
<1>5. JobOK(Indexer, r)
  BY <1>3, ProcsAreApart DEF JobOK
<1>6. QueueOK' /\ InfosOK'
  <2>1. job'[Indexer] = r
    BY <1>1, <1>4
  <2> QED
    BY <1>1, <1>2, <1>3, <2>1
       DEF FetchZids, Shape, QueueOK, InfosOK, NoReload, Requested, At, queueVars, boundVars
<1>7. StoreOK' /\ InvalidOK'
  BY SameWorld DEF FetchZids
<1>8. Shape'
  BY <1>1, <1>3, <1>4, <1>5, <1>6, <1>7, JobShape DEF FetchZids, Shape, TypeOK, queueVars
<1> QED
  BY <1>1, <1>3, <1>4, <1>8

(* What was delivered replaces no backlog, and keeps the changes.           *)
LEMMA ReloadShape ==
  ASSUME Shape, Reload, UNCHANGED scenario
  PROVE  /\ Shape' /\ job[Indexer].pc = "reload" /\ backlog = {} /\ ~request'
         /\ backlog' = job[Indexer].check /\ changed' = changed
         /\ job' = [job EXCEPT ![Indexer] = Idle]

<1>1. /\ job \in [Procs -> Job] /\ Indexer \in Procs /\ job[Indexer].pc = "reload"
      /\ job[Indexer].check # {} /\ job[Indexer].check \subseteq Zettel /\ backlog = {}
  BY ProcsAreApart DEF Shape, TypeOK, Reload, At, QueueOK
<1>2. ~request' /\ backlog' = job[Indexer].check /\ changed' = changed /\ answer' = answer
  BY <1>1 DEF Reload, Queue!Deliver
<1>3. job' = [job EXCEPT ![Indexer] = Idle]
  BY DEF Reload
<1>4. JobOK(Indexer, Idle)
  BY IdleType, ProcsAreApart DEF JobOK
<1>5. QueueOK' /\ InfosOK'
  <2>1. job'[Indexer].pc = "idle"
    BY <1>1, <1>3, IdleType
  <2> QED
    BY <1>2, <2>1 DEF Reload, Shape, QueueOK, InfosOK, NoReload, Requested, At, boundVars
<1>6. StoreOK' /\ InvalidOK'
  BY SameWorld DEF Reload
<1>7. request' \in BOOLEAN
  BY DEF Reload, Queue!Deliver
<1>8. Shape'
  BY <1>1, <1>2, <1>3, <1>4, <1>5, <1>6, <1>7, IdleType, JobShape DEF Reload, Shape, TypeOK
<1> QED
  BY <1>1, <1>2, <1>3, <1>8

LEMMA GetZettelShape ==
  ASSUME Shape, GetZettel, UNCHANGED scenario
  PROVE  /\ Shape' /\ job[Indexer].pc = "get"
         /\ \E r \in Job : /\ job' = [job EXCEPT ![Indexer] = r]
                           /\ r.zid = job[Indexer].zid
                           /\ r.zi = NewIndex
                           /\ \/ r.pc = "lookup" /\ r.zid \in Present /\ r.todo = text[r.zid]
                              \/ r.pc = "remove" /\ r.zid \notin Present
<1>1. /\ job[Indexer] \in Job /\ job \in [Procs -> Job] /\ Indexer \in Procs
      /\ job[Indexer].pc = "get" /\ JobOK(Indexer, job[Indexer])
  BY ProcsAreApart DEF Shape, TypeOK, JobsOK, GetZettel, At
<1>2. job[Indexer].zid \in Zettel
  BY <1>1, ProcsAreApart DEF JobOK
<1>3. PICK z \in Zettel : z = job[Indexer].zid
  BY <1>2
<1> DEFINE looks == [job[Indexer] EXCEPT !.pc = "lookup", !.todo = text[z]]
           removes == [job[Indexer] EXCEPT !.pc = "remove"]
           r == IF z \in Present THEN looks ELSE removes
<1>4. text[z] \in Text
  BY DEF Shape, TypeOK
<1>5. /\ looks \in Job /\ looks.pc = "lookup" /\ looks.zid = z
      /\ looks.todo = text[z] /\ looks.zi = job[Indexer].zi
  BY <1>1, <1>3, <1>4 DEF Job, PCs
<1>6. removes \in Job /\ removes.pc = "remove" /\ removes.zid = z /\ removes.zi = job[Indexer].zi
  BY <1>1, <1>3 DEF Job, PCs
<1>7. job' = [job EXCEPT ![Indexer] = r]
  BY <1>3 DEF GetZettel
<1> HIDE DEF looks, removes
<1>8. /\ r \in Job /\ r.zid = z /\ r.pc \in {"lookup", "remove"} /\ r.zi = job[Indexer].zi
      /\ \/ r.pc = "lookup" /\ z \in Present /\ r.todo = text[z]
         \/ r.pc = "remove" /\ z \notin Present
  BY <1>5, <1>6
<1> HIDE DEF r
<1>9. JobOK(Indexer, r)
  BY <1>8, ProcsAreApart DEF JobOK
<1>10. QueueOK' /\ InfosOK'
  <2>1. job'[Indexer] = r
    BY <1>1, <1>7
  <2> QED
    BY <1>1, <1>8, <2>1
       DEF GetZettel, Shape, QueueOK, InfosOK, NoReload, Requested, At, queueVars, boundVars
<1>11. StoreOK' /\ InvalidOK'
  BY SameWorld DEF GetZettel
<1>12. Shape'
  BY <1>1, <1>7, <1>8, <1>9, <1>10, <1>11, JobShape DEF GetZettel, Shape, TypeOK, queueVars
<1> QED
  BY <1>1, <1>3, <1>7, <1>8, <1>12 DEF JobOK

LEMMA WakeShape ==
  ASSUME Shape, idxSleepService, UNCHANGED scenario
  PROVE  /\ Shape' /\ job[Indexer].pc = "asleep"
         /\ \E r \in Job : job' = [job EXCEPT ![Indexer] = r] /\ r.pc = "idle"
         /\ UNCHANGED <<storeVars, boxVars, infos, queueVars, boundVars>>
<1>1. /\ job \in [Procs -> Job] /\ Indexer \in Procs /\ job[Indexer].pc = "asleep"
      /\ Become(Indexer, "idle") /\ ready' \in BOOLEAN
      /\ UNCHANGED <<storeVars, boxVars, infos, recent, queueVars, boundVars>>
  BY ProcsAreApart DEF Shape, TypeOK, idxSleepService, WakeByTimer, WakeBySignal, At
<1>2. PICK r \in Job : job' = [job EXCEPT ![Indexer] = r] /\ r.pc = "idle"
  BY <1>1, BecomeJob DEF PCs
<1>3. JobOK(Indexer, r)
  BY <1>2, ProcsAreApart DEF JobOK
<1>4. QueueOK' /\ InfosOK'
  <2>1. job'[Indexer] = r
    BY <1>1, <1>2
  <2> QED
    BY <1>1, <1>2, <2>1 DEF Shape, QueueOK, InfosOK, NoReload, Requested, At, queueVars, boundVars
<1>5. StoreOK' /\ InvalidOK'
  BY <1>1, SameWorld
<1>6. Shape'
  BY <1>1, <1>2, <1>3, <1>4, <1>5, JobShape DEF Shape, TypeOK, queueVars
<1> QED
  BY <1>1, <1>2, <1>6

-----------------------------------------------------------------------------
(* Steps that change a zettel *)

LEMMA PutTypes ==
  ASSUME Shape, NEW z \in Storable, NEW t \in Texts, Put(z, t)
  PROVE  /\ stored' \subseteq Storable /\ text' \in [Zettel -> Text] /\ text'[z] = t /\ z \in stored'
         /\ t \in Text
         /\ \A x : x # z => (x \in stored' <=> x \in stored)
         /\ \A x \in Zettel \ {z} : text'[x] = text[x]
  BY TextsAssumption, Zettels DEF Put, Shape, TypeOK

LEMMA DropTypes ==
  ASSUME Shape, NEW z \in Storable, Drop(z)
  PROVE  /\ stored' \subseteq Storable /\ text' \in [Zettel -> Text] /\ z \notin stored'
         /\ {} \in Text
         /\ \A x : x # z => (x \in stored' <=> x \in stored)
         /\ \A x \in Zettel \ {z} : text'[x] = text[x]
  BY Zettels DEF Drop, Shape, TypeOK, Text

(* What a change of zettel z by thread p looks like.                        *)
Change(p, z, r) ==
    /\ p \in active /\ At(p, "idle") /\ asked' = "no"
    /\ job' = [job EXCEPT ![p] = r]
    /\ r.pc = "report" /\ r.about = z
    /\ \A x : x # z => (x \in stored' <=> x \in stored)
    /\ \A x \in Zettel \ {z} : text'[x] = text[x]
    /\ UNCHANGED <<storeVars, infos, recent, queueVars, ready, refreshes>>

LEMMA WriterShape ==
  ASSUME Shape, NEW w \in Writers,
         CreateZettel(w) \/ UpdateZettel(w) \/ DeleteBoxZettel(w), UNCHANGED scenario
  PROVE  /\ Shape'
         /\ \E z \in Zettel, r \in Job :
               /\ Change(w, z, r) /\ r.zi = NewIndex /\ r.zid \in {z, Invalid}
               /\ \/ /\ r.reason = "OnZettel" /\ z \in Present'
                     /\ r.todo = text'[z]
                  \/ /\ r.reason = "OnDelete" /\ z \in Storable \ stored' /\ r.zid = z
<1>1. ASSUME NEW z \in Storable \ Present, NEW t \in Texts,
             Put(z, t), Begin(w, IF InMemory THEN Invalid ELSE z, z, "OnZettel", t)
      PROVE  /\ Shape'
             /\ \E r \in Job : /\ Change(w, z, r) /\ r.zi = NewIndex /\ r.zid \in {z, Invalid}
                               /\ r.reason = "OnZettel" /\ z \in Present' /\ r.todo = text'[z]
  <2>1. z \in Zettel
    BY Zettels
  <2> DEFINE zid == IF InMemory THEN Invalid ELSE z
  <2>2. zid \in Zids /\ (zid \in Zettel \/ (InMemory /\ zid = Invalid)) /\ zid \in {z, Invalid}
    BY <2>1, Zettels
  <2> HIDE DEF zid
  <2>3. Begin(w, zid, z, "OnZettel", t)
    BY <1>1 DEF zid
  <2> QED
    BY <1>1, <2>1, <2>2, <2>3, PutTypes, BeginShape DEF Change, Present
<1>2. ASSUME NEW z \in Present \intersect Storable, NEW t \in Texts,
             Put(z, t), Begin(w, z, z, "OnZettel", t)
      PROVE  /\ Shape'
             /\ \E r \in Job : /\ Change(w, z, r) /\ r.zi = NewIndex /\ r.zid \in {z, Invalid}
                               /\ r.reason = "OnZettel" /\ z \in Present' /\ r.todo = text'[z]
  BY <1>2, Zettels, PutTypes, BeginShape DEF Change, Present
<1>3. ASSUME NEW z \in stored, Drop(z), Begin(w, z, z, "OnDelete", {})
      PROVE  /\ Shape'
             /\ \E r \in Job : /\ Change(w, z, r) /\ r.zi = NewIndex /\ r.zid = z
                               /\ r.reason = "OnDelete" /\ z \in Storable \ stored'
  <2>1. z \in Storable
    BY DEF Shape, TypeOK
  <2> QED
    BY <1>3, <2>1, Zettels, DropTypes, BeginShape DEF Change
<1>4. CASE CreateZettel(w)
  BY <1>1, <1>4, Zettels DEF CreateZettel
<1>5. CASE UpdateZettel(w)
  BY <1>2, <1>5, Zettels DEF UpdateZettel
<1>6. CASE DeleteBoxZettel(w)
  <2>1. stored \subseteq Storable
    BY DEF Shape, TypeOK
  <2> QED
    BY <1>3, <1>6, <2>1, Zettels DEF DeleteBoxZettel
<1> QED
  BY <1>4, <1>5, <1>6

LEMMA ExternalShape ==
  ASSUME Shape, NEW u \in Watchers, ExternalChange(u), UNCHANGED scenario
  PROVE  Shape' /\ \E z \in Zettel, r \in Job : Change(u, z, r)
<1>1. ASSUME NEW z \in Storable, NEW t \in Texts, Put(z, t), Begin(u, Invalid, z, "OnZettel", {})
      PROVE  Shape' /\ \E r \in Job : Change(u, z, r)
  <2>1. {} \in Text
    BY DEF Text
  <2> QED
    BY <1>1, <2>1, Zettels, PutTypes, BeginShape DEF Change
<1>2. ASSUME NEW z \in Storable, Drop(z), Begin(u, Invalid, z, "OnDelete", {})
      PROVE  Shape' /\ \E r \in Job : Change(u, z, r)
  BY <1>2, Zettels, DropTypes, BeginShape DEF Change
<1> QED
  BY <1>1, <1>2, Zettels DEF ExternalChange
-----------------------------------------------------------------------------
(* What is pending stays pending until the indexer reads the zettel.        *)

(* The boxes stay, whatever happens to the index.                           *)
LEMMA SameBox ==
  ASSUME UNCHANGED boxVars
  PROVE  /\ Present' = Present
         /\ \A z : References(z)' = References(z)
         /\ \A j : (RightJob(j)' <=> RightJob(j)) /\ (WriterOK(j)' <=> WriterOK(j))
<1>1. Present' = Present /\ text' = text /\ \A z : References(z)' = References(z)
  BY DEF boxVars, Present, References
<1>2. \A j : RightJob(j)' <=> RightJob(j)
  BY <1>1 DEF Matches, RightJob
<1> QED
  BY <1>1, <1>2 DEF WriterOK

(* One process takes a step: what it had, what was reported and what is     *)
(* queued has to go somewhere.                                              *)
LEMMA PendingKept ==
  ASSUME job \in [Procs -> Job], NEW p \in Procs, NEW r \in Job, job' = [job EXCEPT ![p] = r],
         NEW z, Reported(z) \/ z \in changed \union backlog \/ PendingAt(job[p], z) => Pending(z)'
  PROVE  Pending(z) => Pending(z)'
<1>1. ASSUME NEW q \in Procs, PendingAt(job[q], z) PROVE Pending(z)'
  <2>1. CASE q = p
    BY <1>1, <2>1
  <2>2. CASE q # p
    <3>1. job'[q] = job[q]
      BY <2>2, OneJob
    <3> QED
      BY <1>1, <3>1 DEF Pending, PendingAt
  <2> QED
    BY <2>1, <2>2
<1> QED
  BY <1>1 DEF Pending

(* A process that goes on with a job keeps the others at theirs.            *)
LEMMA WorkedOnKept ==
  ASSUME job \in [Procs -> Job], NEW p \in Procs, NEW r \in Job, job' = [job EXCEPT ![p] = r],
         NEW z, Works(job[p]) /\ job[p].zid = z => Works(r) /\ r.zid = z
  PROVE  WorkedOn(z) => WorkedOn(z)'
<1> SUFFICES ASSUME NEW q \in Procs, Works(job[q]) /\ job[q].zid = z PROVE WorkedOn(z)'
  BY DEF WorkedOn
<1>1. Works(job'[q]) /\ job'[q].zid = z
  BY OneJob
<1> QED
  BY <1>1 DEF WorkedOn, Works

Orderly == NoReload /\ (quick => infos = <<>>) /\ WritersOK /\ IndexerOK

(* The job r of a process p other than the indexer: the others stay right.  *)
LEMMA OthersRight ==
  ASSUME Shape, job \in [Procs -> Job], NEW p \in Procs, NEW r \in Job, job' = [job EXCEPT ![p] = r],
         UNCHANGED boxVars, Orderly, p \in Writers => WriterOK(r),
         p # Indexer => \A z \in Zettel : (Pending(z) => Pending(z)'),
         p = Indexer /\ Works(r) =>
            (RightJob(r) \/ \E z \in Zids : z = r.zid /\ Pending(z)')
  PROVE  WritersOK' /\ IndexerOK'
<1>1. /\ job'[p] = r /\ \A q \in Procs : q # p => job'[q] = job[q]
      /\ Writers \subseteq Procs /\ Indexer \in Procs /\ job[Indexer] \in Job
  BY OneJob, ProcsAreApart
<1>2. WritersOK'
  <2> SUFFICES ASSUME NEW q \in Writers PROVE WriterOK(job[q])'
    BY DEF WritersOK
  <2>1. PICK j \in Job : j = job'[q]
    BY <1>1
  <2>2. WriterOK(j)
    BY <1>1, <2>1 DEF Orderly, WritersOK
  <2>3. WriterOK(j)'
    BY <2>2, SameBox
  <2> QED
    BY <2>1, <2>3
<1>3. IndexerOK'
  <2>1. PICK j \in Job : j = job'[Indexer]
    BY <1>1
  <2>2. PICK z \in Zids : z = j.zid
    BY DEF Job
  <2>3. Works(j) => RightJob(j) \/ Pending(z)'
    <3>1. CASE p = Indexer
      BY <1>1, <2>1, <2>2, <3>1
    <3>2. CASE p # Indexer
      <4>1. j = job[Indexer]
        BY <1>1, <2>1, <3>2
      <4>2. Works(j) => RightJob(j) \/ Pending(z)
        BY <2>2, <4>1 DEF Orderly, IndexerOK
      <4>3. Works(j) => z \in Zettel
        BY <2>2, <4>1, ProcsAreApart DEF Shape, JobsOK, JobOK, Works
      <4> QED
        BY <3>2, <4>2, <4>3
    <3> QED
      BY <3>1, <3>2
  <2>4. RightJob(j) => RightJob(j)'
    BY SameBox
  <2>5. Works(j)' = Works(j)
    BY DEF Works
  <2> QED
    BY <2>1, <2>2, <2>3, <2>4, <2>5 DEF IndexerOK
<1> QED
  BY <1>2, <1>3
-----------------------------------------------------------------------------
(* The steps after a change *)

(* The indexer has just read zettel z.                                      *)
Read(z) ==
    /\ job'[Indexer].zid = z /\ job'[Indexer].zi.back = {}
    /\ job'[Indexer].pc = IF z \in Present THEN "lookup" ELSE "remove"

Kept ==
    /\ WritersOK' /\ IndexerOK'
    /\ \A z \in Zettel : (Followed(z) => Followed(z)')
    /\ \A z \in Zettel : (Pending(z) => Pending(z)' \/ Read(z))

LEMMA Jobs == Shape => job \in [Procs -> Job] /\ \A p \in Procs : job[p] \in Job /\ JobOK(p, job[p])
  BY DEF Shape, TypeOK, JobsOK

LEMMA notifyChangedKeeps ==
  ASSUME Shape, NEW p \in Procs, notifyChanged(p), UNCHANGED scenario, Orderly
  PROVE  Kept
<1>1. PICK r \in Job :
         /\ job' = [job EXCEPT ![p] = r]
         /\ IF p \in Watchers THEN r = Idle
            ELSE r = [job[p] EXCEPT !.pc = IF job[p].reason = "OnDelete" THEN "remove" ELSE "lookup"]
  BY notifyChangedShape
<1>2. /\ infos' = Append(infos, [reason |-> job[p].reason, zid |-> job[p].about])
      /\ p \in Writers \union Watchers /\ p # Indexer /\ job[p].pc = "report"
      /\ UNCHANGED <<storeVars, boxVars, changed, backlog>>
  BY notifyChangedShape, ProcsAreApart DEF notifyChanged, At, queueVars
<1>3. job \in [Procs -> Job] /\ job[p] \in Job /\ JobOK(p, job[p]) /\ infos \in Seq(Info)
  BY Jobs DEF Shape, TypeOK
<1>4. ASSUME NEW z PROVE (Reported(z) => Reported(z)') /\ (PendingAt(job[p], z) => Reported(z)')
  <2>1. /\ DOMAIN infos' = 1 .. (Len(infos) + 1) /\ DOMAIN infos = 1 .. Len(infos) /\ Len(infos) \in Nat
        /\ \A i \in DOMAIN infos : infos'[i] = infos[i]
        /\ infos'[Len(infos) + 1] = [reason |-> job[p].reason, zid |-> job[p].about]
    BY <1>2, <1>3
  <2>2. Len(infos) + 1 \in DOMAIN infos' /\ infos'[Len(infos) + 1].zid = job[p].about
    BY <2>1
  <2> QED
    BY <1>2, <2>1, <2>2 DEF Reported, PendingAt
<1>5. ASSUME NEW z \in Zettel PROVE Pending(z) => Pending(z)'
  <2>1. Reported(z) \/ z \in changed \union backlog \/ PendingAt(job[p], z) => Pending(z)'
    BY <1>2, <1>4 DEF Pending
  <2> QED
    BY <1>1, <1>3, <2>1, PendingKept
<1>6. ASSUME NEW z \in Zettel PROVE WorkedOn(z) => WorkedOn(z)'
  <2>1. ~Works(job[p])
    BY <1>2 DEF Works
  <2> QED
    BY <1>1, <1>3, <2>1, WorkedOnKept
<1>7. p \in Writers => WriterOK(r)
  <2> SUFFICES ASSUME p \in Writers PROVE WriterOK(r)
    OBVIOUS
  <2>1. WriterOK(job[p]) /\ p \notin Watchers
    BY ThreadsAssumption DEF Orderly, WritersOK
  <2>2. job[p].reason \in {"OnZettel", "OnDelete"}
    BY <1>2, <1>3 DEF JobOK, Job, Reasons
  <2>3. CASE job[p].reason = "OnDelete"
    <3>1. r.pc = "remove" /\ r.zid = job[p].zid
      BY <1>1, <1>3, <2>1, <2>3 DEF Job
    <3> QED
      BY <1>2, <2>1, <2>3, <3>1 DEF WriterOK, RightJob, Works
  <2>4. CASE job[p].reason = "OnZettel"
    <3>1. r.pc = "lookup" /\ r.zid = job[p].zid /\ r.zi = job[p].zi /\ r.todo = job[p].todo
      BY <1>1, <1>3, <2>1, <2>4 DEF Job
    <3>2. r.zid # Invalid => r.zid \in Present /\ r.todo = text[r.zid] /\ r.zi = NewIndex
      BY <1>2, <2>1, <2>4, <3>1 DEF WriterOK
    <3>3. r.zid # Invalid => Matches(r)
      BY <3>2 DEF Matches, TargetsOf, References, NewIndex
    <3> QED
      BY <3>1, <3>3 DEF WriterOK, RightJob, Works
  <2> QED
    BY <2>2, <2>3, <2>4
<1>8. WritersOK' /\ IndexerOK'
  BY <1>1, <1>2, <1>3, <1>5, <1>7, OthersRight
<1>9. \A z : Right(z)' <=> Right(z)
  BY <1>2, SameWorld
<1> QED
  BY <1>5, <1>6, <1>8, <1>9 DEF Kept, Followed

(* What was to be looked up is found, see FiledFinds.                       *)
LEMMA LookupMatches ==
  ASSUME NEW j \in Job, NEW r \in Job, NEW ref \in j.todo, ref \in (Keys \union {Body}) \X Zettel,
         r.zid = j.zid, r.todo = j.todo \ {ref}, r.zi = Filed(j.zi, ref), Matches(j)
  PROVE  Matches(r)
<1>1. j.zi \in ZettelIndex
  BY DEF Job
<1>2. TargetsOf(j.todo) = TargetsOf(r.todo) \union {ref[2]}
  BY DEF TargetsOf
<1>3. /\ r.zi.back \union r.zi.dead \subseteq j.zi.back \union j.zi.dead \union {ref[2]}
      /\ r.zi.back \union r.zi.dead \union FoundIn(r.zi)
             = j.zi.back \union j.zi.dead \union FoundIn(j.zi) \union {ref[2]}
  BY <1>1, FiledFinds
<1> QED
  BY <1>2, <1>3 DEF Matches

LEMMA lookupReferenceKeeps ==
  ASSUME Shape, NEW p \in Procs, lookupReference(p), UNCHANGED scenario, Orderly
  PROVE  Kept
<1>1. PICK r \in Job, ref \in job[p].todo :
         /\ job' = [job EXCEPT ![p] = r]
         /\ ref \in (Keys \union {Body}) \X Zettel
         /\ job[p].pc = "lookup" /\ r.pc = "lookup" /\ r.zid = job[p].zid
         /\ r.todo = job[p].todo \ {ref} /\ r.zi = Filed(job[p].zi, ref)
  BY lookupReferenceShape
<1>2. UNCHANGED <<storeVars, boxVars, infos, changed, backlog>>
  BY DEF lookupReference, queueVars
<1>3. job \in [Procs -> Job] /\ job[p] \in Job /\ JobOK(p, job[p])
  BY Jobs
<1>4. ASSUME NEW z \in Zettel PROVE (Pending(z) => Pending(z)') /\ (WorkedOn(z) => WorkedOn(z)')
  <2>1. ~PendingAt(job[p], z) /\ (Reported(z) => Reported(z)')
    BY <1>1, <1>2 DEF PendingAt, Reported
  <2>2. Reported(z) \/ z \in changed \union backlog \/ PendingAt(job[p], z) => Pending(z)'
    BY <1>2, <2>1 DEF Pending
  <2>3. Works(r) /\ r.zid = job[p].zid
    BY <1>1 DEF Works
  <2> QED
    BY <1>1, <1>3, <2>2, <2>3, PendingKept, WorkedOnKept
<1>5. RightJob(job[p]) => RightJob(r)
  BY <1>1, <1>3, LookupMatches DEF RightJob
<1>6. p \in Writers => WriterOK(r)
  BY <1>1, <1>5 DEF Orderly, WritersOK, WriterOK, Works
<1>7. p = Indexer => RightJob(r) \/ \E z \in Zids : z = r.zid /\ Pending(z)'
  <2> SUFFICES ASSUME p = Indexer, ~RightJob(job[p]) PROVE \E z \in Zids : z = r.zid /\ Pending(z)'
    BY <1>5
  <2>1. r.zid \in Zettel /\ Pending(r.zid)
    BY <1>1, <1>3, ProcsAreApart DEF Orderly, IndexerOK, Works, JobOK
  <2>2. PICK z \in Zettel : z = r.zid
    BY <2>1
  <2> QED
    BY <1>4, <2>1, <2>2, Zettels
<1>8. WritersOK' /\ IndexerOK'
  BY <1>1, <1>2, <1>3, <1>4, <1>6, <1>7, OthersRight
<1>9. \A z : Right(z)' <=> Right(z)
  BY <1>2, SameWorld
<1> QED
  BY <1>4, <1>8, <1>9 DEF Kept, Followed
(* Whoever updates the index does what is right, or the zettel is pending.  *)
LEMMA WorkIsRight ==
  ASSUME Shape, Orderly, NEW p \in Procs, Works(job[p]), NEW z \in Zettel, z = job[p].zid
  PROVE  RightJob(job[p]) \/ Pending(z)
<1>1. JobOK(p, job[p]) /\ p \in Writers \union Watchers \union {Indexer}
  BY Jobs DEF Procs
<1>2. p \notin Watchers
  BY <1>1 DEF JobOK, Works
<1>3. z # Invalid
  BY Zettels
<1> QED
  BY <1>1, <1>2, <1>3 DEF Orderly, WritersOK, WriterOK, IndexerOK

LEMMA storeIndexKeeps ==
  ASSUME Shape, NEW p \in Procs, storeIndex(p), UNCHANGED scenario, Orderly
  PROVE  Kept
<1>1. PICK r \in Job : job' = [job EXCEPT ![p] = r] /\ r.pc \in {"idle", "enqueue"}
  BY storeIndexShape
<1>2. UNCHANGED <<boxVars, infos, changed, backlog>> /\ job[p].pc = "lookup"
  BY storeIndexShape DEF storeIndex, queueVars
<1>3. job \in [Procs -> Job] /\ job[p] \in Job
  BY Jobs
<1>4. ASSUME NEW z \in Zettel PROVE Pending(z) => Pending(z)'
  <2>1. ~PendingAt(job[p], z) /\ (Reported(z) => Reported(z)')
    BY <1>2 DEF PendingAt, Reported
  <2>2. Reported(z) \/ z \in changed \union backlog \/ PendingAt(job[p], z) => Pending(z)'
    BY <1>2, <2>1 DEF Pending
  <2> QED
    BY <1>1, <1>3, <2>2, PendingKept
<1>5. WriterOK(r) /\ ~Works(r)
  BY <1>1 DEF WriterOK, Works
<1>6. WritersOK' /\ IndexerOK'
  BY <1>1, <1>2, <1>3, <1>4, <1>5, OthersRight
<1>7. ASSUME NEW z \in Zettel, Followed(z) PROVE Followed(z)'
  <2>1. CASE z = job[p].zid
    <3>1. RightJob(job[p]) \/ Pending(z)
      BY <1>2, <2>1, WorkIsRight DEF Works
    <3>2. RightJob(job[p]) => Right(z)'
      BY <1>2, <2>1, storeIndexShape, Zettels DEF RightJob
    <3> QED
      BY <1>4, <3>1, <3>2 DEF Followed
  <2>2. CASE z # job[p].zid
    <3>1. Right(z) => Right(z)'
      BY <2>2, storeIndexShape, Zettels
    <3>2. WorkedOn(z) => WorkedOn(z)'
      BY <1>1, <1>3, <2>2, WorkedOnKept
    <3> QED
      BY <1>4, <1>7, <3>1, <3>2 DEF Followed
  <2> QED
    BY <2>1, <2>2
<1> QED
  BY <1>4, <1>6, <1>7 DEF Kept

LEMMA idxDeleteZettelKeeps ==
  ASSUME Shape, NEW p \in Procs, idxDeleteZettel(p), UNCHANGED scenario, Orderly
  PROVE  Kept
<1>1. PICK r \in Job :
         /\ job' = [job EXCEPT ![p] = r] /\ r.pc \in {"idle", "enqueue"}
         /\ \A z \in Zids : z # job[p].zid /\ Right(z) =>
               Right(z)' \/ (r.pc = "enqueue" /\ z \in r.check)
  BY idxDeleteZettelShape
<1>2. UNCHANGED <<boxVars, infos, changed, backlog>> /\ job[p].pc = "remove"
  BY idxDeleteZettelShape DEF idxDeleteZettel, queueVars
<1>3. job \in [Procs -> Job] /\ job[p] \in Job /\ job'[p] = r
  BY <1>1, Jobs, OneJob
<1>4. ASSUME NEW z \in Zettel PROVE Pending(z) => Pending(z)'
  <2>1. ~PendingAt(job[p], z) /\ (Reported(z) => Reported(z)')
    BY <1>2 DEF PendingAt, Reported
  <2>2. Reported(z) \/ z \in changed \union backlog \/ PendingAt(job[p], z) => Pending(z)'
    BY <1>2, <2>1 DEF Pending
  <2> QED
    BY <1>1, <1>3, <2>2, PendingKept
<1>5. WriterOK(r) /\ ~Works(r)
  BY <1>1 DEF WriterOK, Works
<1>6. WritersOK' /\ IndexerOK'
  BY <1>1, <1>2, <1>3, <1>4, <1>5, OthersRight
<1>7. ASSUME NEW z \in Zettel, Followed(z) PROVE Followed(z)'
  <2>1. CASE z = job[p].zid
    <3>1. RightJob(job[p]) \/ Pending(z)
      BY <1>2, <2>1, WorkIsRight DEF Works
    <3>2. RightJob(job[p]) => Right(z)'
      BY <1>2, <2>1, idxDeleteZettelShape, Zettels DEF RightJob
    <3> QED
      BY <1>4, <3>1, <3>2 DEF Followed
  <2>2. CASE z # job[p].zid
    <3>1. Right(z) => Right(z)' \/ Pending(z)'
      <4>1. r.pc = "enqueue" /\ z \in r.check => Pending(z)'
        BY <1>3 DEF Pending, PendingAt
      <4> QED
        BY <1>1, <2>2, <4>1, Zettels
    <3>2. WorkedOn(z) => WorkedOn(z)'
      BY <1>1, <1>3, <2>2, WorkedOnKept
    <3> QED
      BY <1>4, <1>7, <3>1, <3>2 DEF Followed
  <2> QED
    BY <2>1, <2>2
<1> QED
  BY <1>4, <1>6, <1>7 DEF Kept

(* A step that touches neither index nor box, of a process that is not      *)
(* about to update the index.                                               *)
LEMMA QueueStepKeeps ==
  ASSUME Shape, Orderly, NEW p \in Procs, NEW r \in Job, job' = [job EXCEPT ![p] = r],
         UNCHANGED <<storeVars, boxVars>>, ~Works(job[p]), ~Works(r), r.pc # "report",
         \A z \in Zettel :
            Reported(z) \/ z \in changed \union backlog \/ PendingAt(job[p], z) => Pending(z)'
  PROVE  Kept
<1>1. job \in [Procs -> Job] /\ job[p] \in Job
  BY Jobs
<1>2. ASSUME NEW z \in Zettel PROVE Pending(z) => Pending(z)'
  BY <1>1, PendingKept
<1>3. ASSUME NEW z \in Zettel PROVE WorkedOn(z) => WorkedOn(z)'
  BY <1>1, WorkedOnKept
<1>4. WriterOK(r)
  BY DEF WriterOK
<1>5. WritersOK' /\ IndexerOK'
  BY <1>1, <1>2, <1>4, OthersRight
<1>6. \A z : Right(z)' <=> Right(z)
  BY SameWorld
<1> QED
  BY <1>2, <1>3, <1>5, <1>6 DEF Kept, Followed

LEMMA idxCheckZettelKeeps ==
  ASSUME Shape, NEW p \in Procs, idxCheckZettel(p), UNCHANGED scenario, Orderly
  PROVE  Kept
<1>1. PICK x \in Zids, r \in Job :
         /\ job' = [job EXCEPT ![p] = r]
         /\ changed' = changed \union ({x} \ {Invalid})
         /\ r.pc \in {"idle", "enqueue"}
         /\ job[p].check \ {x} # {} => r.pc = "enqueue" /\ r.check = job[p].check \ {x}
  BY idxCheckZettelShape
<1>2. UNCHANGED <<storeVars, boxVars, infos, backlog>> /\ job[p].pc = "enqueue"
  BY idxCheckZettelShape DEF idxCheckZettel
<1>3. job'[p] = r
  BY <1>1, Jobs
<1>4. ASSUME NEW z \in Zettel, Reported(z) \/ z \in changed \union backlog \/ PendingAt(job[p], z)
      PROVE  Pending(z)'
  <2>1. CASE Reported(z) \/ z \in changed \union backlog
    BY <1>1, <1>2, <2>1 DEF Pending, Reported
  <2>2. CASE z \in job[p].check /\ z = x
    BY <1>1, <2>2, Zettels DEF Pending
  <2>3. CASE z \in job[p].check /\ z # x
    <3>1. job'[p].pc = "enqueue" /\ z \in job'[p].check
      BY <1>1, <1>3, <2>3
    <3> QED
      BY <3>1 DEF Pending, PendingAt
  <2> QED
    BY <1>2, <1>4, <2>1, <2>2, <2>3 DEF PendingAt
<1> QED
  BY <1>1, <1>2, <1>4, QueueStepKeeps DEF Works

LEMMA DequeueKeeps ==
  ASSUME Shape, Dequeue, UNCHANGED scenario, Orderly
  PROVE  Kept
<1>1. PICK r \in Job :
         /\ job' = [job EXCEPT ![Indexer] = r]
         /\ \/ r.pc \in {"fetch", "asleep"} /\ UNCHANGED <<backlog, changed>>
            \/ /\ r.pc = "get"
               /\ (changed \union backlog) \ {r.zid} \subseteq changed' \union backlog'
  BY DequeueShape
<1>2. UNCHANGED <<storeVars, boxVars, infos>> /\ job[Indexer].pc = "idle" /\ Indexer \in Procs
  BY DequeueShape, ProcsAreApart DEF Dequeue, At
<1>3. job'[Indexer] = r
  BY <1>1, <1>2, Jobs
<1>4. ASSUME NEW z \in Zettel, Reported(z) \/ z \in changed \union backlog \/ PendingAt(job[Indexer], z)
      PROVE  Pending(z)'
  <2>1. CASE Reported(z)
    BY <1>2, <2>1 DEF Pending, Reported
  <2>2. CASE z \in changed \union backlog
    <3>1. CASE r.pc = "get" /\ r.zid = z
      BY <1>2, <1>3, <3>1 DEF Pending, PendingAt
    <3>2. CASE z \in changed' \union backlog'
      BY <3>2 DEF Pending
    <3> QED
      BY <1>1, <2>2, <3>1, <3>2
  <2> QED
    BY <1>2, <1>4, <2>1, <2>2 DEF PendingAt
<1> QED
  BY <1>1, <1>2, <1>4, QueueStepKeeps DEF Works

LEMMA FetchZidsKeeps ==
  ASSUME Shape, FetchZids, UNCHANGED scenario, Orderly
  PROVE  Kept
<1>1. PICK r \in Job : job' = [job EXCEPT ![Indexer] = r] /\ r.pc = "reload"
  BY FetchZidsShape
<1>2. /\ UNCHANGED <<storeVars, boxVars, infos, changed, backlog>>
      /\ job[Indexer].pc = "fetch" /\ Indexer \in Procs
  BY FetchZidsShape, ProcsAreApart DEF FetchZids, queueVars
<1>3. \A z \in Zettel :
         Reported(z) \/ z \in changed \union backlog \/ PendingAt(job[Indexer], z) => Pending(z)'
  BY <1>2 DEF PendingAt, Pending, Reported
<1> QED
  BY <1>1, <1>2, <1>3, QueueStepKeeps DEF Works

LEMMA ReloadKeeps ==
  ASSUME Shape, Reload, UNCHANGED scenario, Orderly
  PROVE  Kept
<1>1. /\ job' = [job EXCEPT ![Indexer] = Idle] /\ job[Indexer].pc = "reload"
      /\ backlog = {} /\ backlog' = job[Indexer].check /\ changed' = changed
      /\ UNCHANGED <<storeVars, boxVars, infos>> /\ Indexer \in Procs
  BY ReloadShape, ProcsAreApart DEF Reload
<1>2. \A z \in Zettel :
         Reported(z) \/ z \in changed \union backlog \/ PendingAt(job[Indexer], z) => Pending(z)'
  BY <1>1 DEF PendingAt, Pending, Reported
<1> QED
  BY <1>1, <1>2, IdleType, QueueStepKeeps DEF Works

LEMMA WakeKeeps ==
  ASSUME Shape, idxSleepService, UNCHANGED scenario, Orderly
  PROVE  Kept
<1>1. PICK r \in Job : job' = [job EXCEPT ![Indexer] = r] /\ r.pc = "idle"
  BY WakeShape
<1>2. /\ UNCHANGED <<storeVars, boxVars, infos, changed, backlog>>
      /\ job[Indexer].pc = "asleep" /\ Indexer \in Procs
  BY WakeShape, ProcsAreApart DEF queueVars
<1>3. \A z \in Zettel :
         Reported(z) \/ z \in changed \union backlog \/ PendingAt(job[Indexer], z) => Pending(z)'
  BY <1>2 DEF PendingAt, Pending, Reported
<1> QED
  BY <1>1, <1>2, <1>3, QueueStepKeeps DEF Works

(* Reading a zettel ends its waiting, with what is right for it.            *)
LEMMA GetZettelKeeps ==
  ASSUME Shape, GetZettel, UNCHANGED scenario, Orderly
  PROVE  Kept
<1>1. PICK r \in Job :
         /\ job' = [job EXCEPT ![Indexer] = r] /\ r.zid = job[Indexer].zid /\ r.zi = NewIndex
         /\ \/ r.pc = "lookup" /\ r.zid \in Present /\ r.todo = text[r.zid]
            \/ r.pc = "remove" /\ r.zid \notin Present
  BY GetZettelShape
<1>2. /\ UNCHANGED <<storeVars, boxVars, infos, changed, backlog>>
      /\ job[Indexer].pc = "get" /\ Indexer \in Procs /\ Indexer \notin Writers
  BY GetZettelShape, ProcsAreApart DEF GetZettel, queueVars
<1>3. job \in [Procs -> Job] /\ job[Indexer] \in Job /\ job'[Indexer] = r
  BY <1>1, <1>2, Jobs
<1>4. RightJob(r) /\ Works(r)
  <2>1. CASE r.pc = "lookup"
    BY <1>1, <2>1 DEF RightJob, Works, Matches, TargetsOf, References, NewIndex
  <2>2. CASE r.pc = "remove"
    BY <1>1, <2>2 DEF RightJob, Works
  <2> QED
    BY <1>1, <2>1, <2>2
<1>5. WritersOK' /\ IndexerOK'
  BY <1>1, <1>2, <1>3, <1>4, OthersRight
<1>6. ASSUME NEW z \in Zettel PROVE Pending(z) => Pending(z)' \/ (WorkedOn(z)' /\ Read(z))
  <2>1. CASE z = job[Indexer].zid
    <3>1. Works(job'[Indexer]) /\ job'[Indexer].zid = z
      BY <1>1, <1>3, <1>4, <2>1
    <3>2. Read(z)
      BY <1>1, <1>3, <2>1 DEF Read, NewIndex
    <3> QED
      BY <1>2, <3>1, <3>2 DEF WorkedOn, Works
  <2>2. CASE z # job[Indexer].zid
    <3>1. Reported(z) \/ z \in changed \union backlog \/ PendingAt(job[Indexer], z) => Pending(z)'
      BY <1>2, <2>2 DEF PendingAt, Pending, Reported
    <3> QED
      BY <1>1, <1>2, <1>3, <3>1, PendingKept
  <2> QED
    BY <2>1, <2>2
<1>7. ASSUME NEW z \in Zettel PROVE WorkedOn(z) => WorkedOn(z)'
  <2>1. ~Works(job[Indexer])
    BY <1>2 DEF Works
  <2> QED
    BY <1>1, <1>2, <1>3, <2>1, WorkedOnKept
<1>8. \A z : Right(z)' <=> Right(z)
  BY <1>2, SameWorld
<1> QED
  BY <1>5, <1>6, <1>7, <1>8 DEF Kept, Followed

(* A report goes into the queue.                                            *)
LEMMA notifierKeeps ==
  ASSUME Shape, notifier, UNCHANGED scenario, Orderly
  PROVE  Kept
<1>1. /\ infos \in Seq(Info) /\ infos # <<>> /\ infos' = Tail(infos) /\ ~quick
  BY notifierShape DEF Orderly
<1>2. /\ 1 \in DOMAIN infos /\ Head(infos) = infos[1]
      /\ infos[1].reason # "OnReload" /\ infos[1].zid \in Zettel
  BY <1>1 DEF Orderly, NoReload
<1>3. Queue!Change(infos[1].zid)
  BY <1>1, <1>2 DEF notifier, ignoreUpdate, idxEnqueue
<1>4. changed' = changed \union {infos[1].zid} /\ backlog' = backlog
  BY <1>2, <1>3, Zettels DEF Queue!Change
<1>5. UNCHANGED <<storeVars, boxVars, job>>
  BY DEF notifier
<1>6. ASSUME NEW z \in Zettel PROVE Reported(z) => Reported(z)' \/ z = infos[1].zid
  <2> SUFFICES ASSUME NEW i \in DOMAIN infos, infos[i].zid = z, i # 1 PROVE Reported(z)'
    BY DEF Reported
  <2>1. i - 1 \in DOMAIN infos' /\ infos'[i - 1] = infos[i]
    BY <1>1
  <2> QED
    BY <2>1 DEF Reported
<1>7. \A z \in Zettel : Pending(z) => Pending(z)'
  BY <1>4, <1>5, <1>6 DEF Pending, PendingAt
<1>8. WritersOK' /\ IndexerOK'
  <2>1. job[Indexer] \in Job /\ Indexer \in Procs /\ \A p \in Writers : job[p] \in Job
    BY Jobs, ProcsAreApart
  <2>2. WritersOK'
    <3> SUFFICES ASSUME NEW p \in Writers PROVE WriterOK(job[p])'
      BY DEF WritersOK
    <3>1. PICK j \in Job : j = job[p] /\ j = job'[p]
      BY <1>5, <2>1
    <3>2. WriterOK(j)'
      BY <1>5, <3>1, SameBox DEF Orderly, WritersOK
    <3> QED
      BY <3>1, <3>2
  <2>3. IndexerOK'
    <3> SUFFICES ASSUME Works(job[Indexer])' PROVE (RightJob(job[Indexer]) \/ Pending(job[Indexer].zid))'
      BY DEF IndexerOK
    <3>1. PICK j \in Job : j = job[Indexer] /\ j = job'[Indexer]
      BY <1>5, <2>1
    <3>2. Works(j) /\ JobOK(Indexer, j)
      BY <2>1, <3>1, Jobs DEF Works
    <3>3. PICK z \in Zettel : z = j.zid
      BY <3>2, ProcsAreApart DEF JobOK, Works
    <3>4. RightJob(j) \/ Pending(z)
      BY <3>1, <3>2, <3>3 DEF Orderly, IndexerOK
    <3>5. RightJob(j)' \/ Pending(z)'
      BY <1>5, <1>7, <3>4, SameBox
    <3> QED
      BY <3>1, <3>3, <3>5
  <2> QED
    BY <2>2, <2>3
<1>9. ASSUME NEW z \in Zettel PROVE (Right(z) => Right(z)') /\ (WorkedOn(z) => WorkedOn(z)')
  BY <1>5, SameWorld DEF WorkedOn, Works
<1> QED
  BY <1>7, <1>8, <1>9 DEF Kept, Followed

(* All that goes on after a change.                                         *)
Work ==
    \/ \E p \in Procs : notifyChanged(p) \/ Index(p)
    \/ notifier
    \/ idxWorkService
    \/ idxSleepService

LEMMA WorkKeeps ==
  ASSUME Shape, Work, UNCHANGED scenario, Orderly
  PROVE  Kept
<1>1. ASSUME NEW p \in Procs, Index(p) PROVE Kept
  BY <1>1, lookupReferenceKeeps, storeIndexKeeps, idxDeleteZettelKeeps, idxCheckZettelKeeps DEF Index
<1>2. CASE idxWorkService
  BY <1>2, DequeueKeeps, FetchZidsKeeps, ReloadKeeps, GetZettelKeeps DEF idxWorkService
<1> QED
  BY <1>1, <1>2, notifyChangedKeeps, notifierKeeps, WakeKeeps DEF Work
-----------------------------------------------------------------------------
(* The invariant *)

LEMMA InitIndexInv == Init => IndexInv
<1> SUFFICES ASSUME Init PROVE IndexInv
  OBVIOUS
<1>1. Shape
  BY InitShape
<1>2. \A p \in Procs : job[p] = Idle
  BY DEF Init
<1>3. \A p \in Procs : job[p].pc = "idle"
  BY <1>2, IdleType
<1>4. WritersOK /\ IndexerOK
  BY <1>3, ProcsAreApart DEF WritersOK, WriterOK, IndexerOK, Works
<1>5. \A z \in Zettel : z \notin Present => Right(z)
  BY Zettels DEF Right, Gone, InverseOf, Init, StoreInit
<1>6. OrderOK
  BY <1>4, <1>5 DEF OrderOK, Followed, Requested, Init
<1>7. CalmOK
  BY DEF CalmOK, Init
<1> QED
  BY <1>1, <1>6, <1>7 DEF IndexInv

LEMMA WorkShape ==
  ASSUME Shape, Work, UNCHANGED scenario
  PROVE  /\ Shape' /\ UNCHANGED <<boxVars, changes, refreshes>>
         /\ asked' \in {asked, "no"}
<1>1. ASSUME NEW p \in Procs, Index(p) \/ notifyChanged(p)
      PROVE  Shape' /\ UNCHANGED <<boxVars, changes, refreshes, asked>>
  <2>1. Shape'
    BY <1>1, notifyChangedShape, lookupReferenceShape, storeIndexShape, idxDeleteZettelShape,
       idxCheckZettelShape DEF Index
  <2>2. UNCHANGED <<boxVars, changes, refreshes, asked>>
    BY <1>1 DEF Index, notifyChanged, lookupReference, storeIndex, idxDeleteZettel, idxCheckZettel, boundVars
  <2> QED
    BY <2>1, <2>2
<1>2. CASE idxWorkService
  BY <1>2, DequeueShape, FetchZidsShape, ReloadShape, GetZettelShape
     DEF idxWorkService, Dequeue, FetchZids, Reload, GetZettel, boundVars
<1>3. CASE notifier
  BY <1>3, notifierShape DEF notifier
<1>4. CASE idxSleepService
  BY <1>4, WakeShape DEF boundVars
<1> QED
  BY <1>1, <1>2, <1>3, <1>4 DEF Work

(* A request for everything is passed on until all zettel are pending.      *)
LEMMA RequestPassed ==
  ASSUME Shape, Work, UNCHANGED scenario, Requested, NEW z \in Present,
         At(Indexer, "reload") => job[Indexer].check = Present \/ ~request
  PROVE  Requested' \/ (Pending(z)' /\ ~Works(job'[Indexer]))
<1>1. /\ job \in [Procs -> Job] /\ Indexer \in Procs /\ request \in BOOLEAN /\ Present \subseteq Zettel
      /\ job[Indexer] \in Job /\ JobOK(Indexer, job[Indexer])
  BY Jobs, ProcsAreApart, Zettels DEF Present, Shape, TypeOK
<1>2. ASSUME NEW p \in Procs, Index(p) \/ notifyChanged(p)
      PROVE  Requested'
  <2>1. request' = request
    BY <1>2, idxCheckZettelShape
       DEF Index, notifyChanged, lookupReference, storeIndex, idxDeleteZettel, queueVars
  <2>2. job[p].pc \in {"report", "lookup", "remove", "enqueue"}
    BY <1>2 DEF Index, notifyChanged, lookupReference, storeIndex, idxDeleteZettel, idxCheckZettel, At
  <2>3. \E r \in Job : job' = [job EXCEPT ![p] = r]
    BY <1>2, notifyChangedShape, lookupReferenceShape, storeIndexShape, idxDeleteZettelShape,
       idxCheckZettelShape DEF Index
  <2>4. p # Indexer => job'[Indexer] = job[Indexer]
    BY <1>1, <2>3
  <2> QED
    BY <2>1, <2>2, <2>4 DEF Requested, At
<1>3. CASE Dequeue
  <2>1. PICK r \in Job : /\ job' = [job EXCEPT ![Indexer] = r]
                         /\ r.pc = "fetch" \/ ~request
    BY <1>3, DequeueShape
  <2>2. job[Indexer].pc = "idle"
    BY <1>3, DequeueShape DEF At
  <2> QED
    BY <1>1, <2>1, <2>2 DEF Requested, At
<1>4. CASE FetchZids
  <2>1. PICK r \in Job : job' = [job EXCEPT ![Indexer] = r] /\ r.pc = "reload" /\ r.check = Present
    BY <1>4, FetchZidsShape
  <2>2. job'[Indexer] = r
    BY <1>1, <2>1
  <2> QED
    BY <1>1, <2>1, <2>2 DEF Pending, PendingAt, Works
<1>5. CASE Reload
  <2>1. /\ job[Indexer].pc = "reload" /\ backlog' = job[Indexer].check
        /\ job' = [job EXCEPT ![Indexer] = Idle]
    BY <1>5, ReloadShape
  <2>2. job'[Indexer].pc = "idle"
    BY <1>1, <2>1, IdleType
  <2> QED
    BY <2>1, <2>2 DEF Requested, At, Pending, Works
<1>6. CASE GetZettel
  <2>1. job[Indexer].pc = "get" /\ request' = request
    BY <1>6, GetZettelShape DEF GetZettel, queueVars
  <2> QED
    BY <2>1 DEF Requested, At
<1>7. CASE idxSleepService
  <2>1. job[Indexer].pc = "asleep" /\ request' = request
    BY <1>7, WakeShape DEF queueVars
  <2> QED
    BY <2>1 DEF Requested, At
<1>8. CASE notifier
  <2>1. job' = job /\ (request' = request \/ request')
    BY <1>8 DEF notifier, idxEnqueue, queueVars, Queue!RequestAll, Queue!Change
  <2> QED
    BY <1>1, <2>1 DEF Requested, At
<1> QED
  BY <1>2, <1>3, <1>4, <1>5, <1>6, <1>7, <1>8 DEF Work, idxWorkService

LEMMA WorkOrder ==
  ASSUME IndexInv, Work, UNCHANGED scenario
  PROVE  OrderOK'
<1> SUFFICES ASSUME InOrder' PROVE (WritersOK /\ IndexerOK /\
                 \A z \in Zettel : Followed(z) \/ (Requested /\ z \in Present))'
  BY DEF OrderOK
<1>1. Shape /\ Shape' /\ refreshes' = refreshes /\ Present' = Present
  BY WorkShape, SameBox DEF IndexInv
<1>2. InOrder /\ refreshes = 0 /\ ~quick
  BY <1>1 DEF InOrder, scenario
<1>3. Orderly /\ \A z \in Zettel : Followed(z) \/ (Requested /\ z \in Present)
  BY <1>1, <1>2 DEF Orderly, IndexInv, OrderOK, Shape, InfosOK
<1>4. Kept
  BY <1>1, <1>3, WorkKeeps
<1>5. ASSUME NEW z \in Zettel, Requested, z \in Present
      PROVE  Requested' \/ Pending(z)'
  <2>1. At(Indexer, "reload") => ~request
    BY <1>1, <1>2 DEF Shape, QueueOK, At
  <2> QED
    BY <1>1, <1>5, <2>1, RequestPassed
<1>6. ASSUME NEW z \in Zettel PROVE Followed(z)' \/ (Requested' /\ z \in Present')
  <2>1. CASE Followed(z)
    BY <1>4, <2>1 DEF Kept
  <2>2. CASE Requested /\ z \in Present
    BY <1>1, <1>5, <2>2 DEF Followed
  <2> QED
    BY <1>3, <2>1, <2>2
<1> QED
  BY <1>4, <1>6 DEF Kept

LEMMA WorkCalm ==
  ASSUME IndexInv, Work, UNCHANGED scenario
  PROVE  CalmOK'
<1> SUFFICES ASSUME asked' = "calm"
             PROVE  /\ \A p \in Procs \ {Indexer} : At(p, "idle")'
                    /\ (\A i \in DOMAIN infos : infos[i].reason = "OnReload")'
                    /\ (At(Indexer, "reload") => job[Indexer].check = Present)'
                    /\ \/ (infos # <<>>)' \/ Requested'
                       \/ IndexerOK' /\ (\A z \in Present : Followed(z))'
  BY DEF CalmOK
<1>1. Shape /\ Shape' /\ Present' = Present /\ asked = "calm"
  BY WorkShape, SameBox DEF IndexInv
<1>2. /\ \A p \in Procs \ {Indexer} : job[p].pc = "idle"
      /\ \A i \in DOMAIN infos : infos[i].reason = "OnReload"
      /\ job[Indexer].pc = "reload" => job[Indexer].check = Present
      /\ infos # <<>> \/ Requested \/ (IndexerOK /\ \A z \in Present : Followed(z))
  BY <1>1 DEF IndexInv, CalmOK, At
<1>3. /\ job \in [Procs -> Job] /\ Indexer \in Procs /\ JobOK(Indexer, job[Indexer])
      /\ Present \subseteq Zettel
  BY <1>1, Jobs, ProcsAreApart, Zettels DEF Present, Shape, TypeOK
<1>4. CASE notifier
  <2>1. /\ job' = job /\ infos # <<>> /\ infos \in Seq(Info) /\ infos' = Tail(infos)
    BY <1>1, <1>4, notifierShape DEF notifier
  <2>2. /\ Head(infos) = infos[1] /\ 1 \in DOMAIN infos
        /\ \A i \in DOMAIN infos' : i + 1 \in DOMAIN infos /\ infos'[i] = infos[i + 1]
    BY <2>1
  <2>3. infos[1].reason = "OnReload"
    BY <1>2, <2>2
  <2>4. Requested'
    BY <1>4, <2>2, <2>3 DEF notifier, idxEnqueue, Queue!RequestAll, Requested
  <2> QED
    BY <1>1, <1>2, <2>1, <2>2, <2>4 DEF At
<1>5. CASE Index(Indexer) \/ idxWorkService \/ idxSleepService
  <2>1. infos' = infos
    BY <1>5 DEF Index, lookupReference, storeIndex, idxDeleteZettel, idxCheckZettel, idxWorkService,
          idxSleepService, Dequeue, FetchZids, Reload, GetZettel, WakeByTimer, WakeBySignal
  <2>2. \E r \in Job : job' = [job EXCEPT ![Indexer] = r] /\ (r.pc = "reload" => r.check = Present)
    <3>1. CASE Index(Indexer)
      <4>1. \E r \in Job : job' = [job EXCEPT ![Indexer] = r] /\ r.pc # "reload"
        BY <1>1, <1>3, <3>1, lookupReferenceShape, storeIndexShape, idxDeleteZettelShape, idxCheckZettelShape
           DEF Index
      <4> QED
        BY <4>1
    <3>2. CASE idxWorkService
      BY <1>1, <3>2, DequeueShape, FetchZidsShape, ReloadShape, GetZettelShape, IdleType DEF idxWorkService
    <3>3. CASE idxSleepService
      BY <1>1, <3>3, WakeShape
    <3> QED
      BY <1>5, <3>1, <3>2, <3>3
  <2>3. /\ \A p \in Procs \ {Indexer} : job'[p].pc = "idle"
        /\ job'[Indexer].pc = "reload" => job'[Indexer].check = Present
    BY <1>2, <1>3, <2>2
  <2>4. (infos # <<>>)' \/ Requested' \/ (IndexerOK' /\ (\A z \in Present : Followed(z))')
    <3>1. CASE infos # <<>>
      BY <2>1, <3>1
    <3>2. CASE Requested
      <4>1. \A z \in Present : Requested' \/ (Pending(z)' /\ ~Works(job'[Indexer]))
        BY <1>1, <1>2, <3>2, RequestPassed DEF At
      <4>2. Requested' \/ ~Works(job'[Indexer])
        <5>1. PICK z : z \in Present
          BY BaseAssumption DEF Present
        <5> QED
          BY <4>1, <5>1
      <4> QED
        BY <1>1, <4>1, <4>2 DEF Followed, IndexerOK, Works
    <3>3. CASE infos = <<>> /\ IndexerOK /\ \A z \in Present : Followed(z)
      <4>1. Orderly
        BY <1>2, <1>3, <3>3, ProcsAreApart DEF Orderly, NoReload, WritersOK, WriterOK, Works
      <4>2. Kept
        BY <1>1, <4>1, WorkKeeps
      <4> QED
        BY <1>1, <1>3, <3>3, <4>2 DEF Kept
    <3> QED
      BY <1>2, <3>1, <3>2, <3>3
  <2> QED
    BY <1>1, <1>2, <2>1, <2>3, <2>4 DEF At
<1>6. ASSUME NEW p \in Procs, notifyChanged(p) \/ Index(p), p # Indexer PROVE FALSE
  <2>1. job[p].pc \in {"report", "lookup", "remove", "enqueue"}
    BY <1>6 DEF notifyChanged, Index, lookupReference, storeIndex, idxDeleteZettel, idxCheckZettel, At
  <2> QED
    BY <1>2, <1>6, <2>1
<1>7. CASE notifyChanged(Indexer)
  BY <1>3, <1>7 DEF JobOK, notifyChanged, At
<1> QED
  BY <1>3, <1>4, <1>5, <1>6, <1>7 DEF Work
(* A change makes its zettel pending, and leaves the others as they were.   *)
LEMMA ChangeKeeps ==
  ASSUME Shape, Shape', UNCHANGED scenario, NEW p \in Writers \union Watchers,
         NEW z \in Zettel, NEW r \in Job, Change(p, z, r)
  PROVE  /\ Pending(z)' /\ (IndexerOK => IndexerOK')
         /\ \A x \in Zettel \ {z} :
               /\ Followed(x) => Followed(x)'
               /\ Pending(x) => Pending(x)'
               /\ x \in Present' <=> x \in Present
               /\ Requested /\ x \in Present => Requested' /\ x \in Present'
<1>1. /\ job \in [Procs -> Job] /\ job' = [job EXCEPT ![p] = r] /\ job[p].pc = "idle"
      /\ p \in Procs /\ p # Indexer /\ Indexer \in Procs /\ job[Indexer] \in Job
      /\ job'[p] = r /\ job'[Indexer] = job[Indexer]
      /\ r.pc = "report" /\ r.about = z /\ UNCHANGED <<storeVars, infos, request, changed, backlog>>
  BY Jobs, ProcsAreApart, OneJob DEF Change, At, queueVars
<1>2. Pending(z)'
  BY <1>1 DEF Pending, PendingAt
<1>3. ASSUME NEW x \in Zettel PROVE (Pending(x) => Pending(x)') /\ (WorkedOn(x) => WorkedOn(x)')
  <2>1. Reported(x) \/ x \in changed \union backlog \/ PendingAt(job[p], x) => Pending(x)'
    BY <1>1 DEF PendingAt, Pending, Reported
  <2>2. ~Works(job[p])
    BY <1>1 DEF Works
  <2> QED
    BY <1>1, <2>1, <2>2, PendingKept, WorkedOnKept
<1>4. ASSUME NEW x \in Zettel \ {z}
      PROVE  (x \in Present' <=> x \in Present) /\ References(x)' = References(x) /\ (Right(x)' <=> Right(x))
  <2>1. (x \in Present' <=> x \in Present) /\ References(x)' = References(x)
    BY DEF Change, Present, References
  <2> QED
    BY <1>1, <2>1 DEF Right, Fresh, Gone, InverseOf, storeVars
<1>5. IndexerOK => IndexerOK'
  <2> SUFFICES ASSUME IndexerOK, Works(job[Indexer])' PROVE (RightJob(job[Indexer]) \/ Pending(job[Indexer].zid))'
    BY DEF IndexerOK
  <2>1. PICK j \in Job : j = job[Indexer] /\ j = job'[Indexer]
    BY <1>1
  <2>2. Works(j) /\ JobOK(Indexer, j)
    BY <1>1, <2>1, Jobs DEF Works
  <2>3. PICK x \in Zettel : x = j.zid
    BY <2>2, ProcsAreApart DEF JobOK, Works
  <2>4. RightJob(j) \/ Pending(x)
    BY <2>1, <2>2, <2>3 DEF IndexerOK
  <2>5. x # z => (RightJob(j)' <=> RightJob(j))
    BY <1>4, <2>3 DEF RightJob, Matches
  <2>6. RightJob(j)' \/ Pending(x)'
    BY <1>2, <1>3, <2>4, <2>5
  <2> QED
    BY <2>1, <2>3, <2>6
<1>6. Requested => Requested'
  BY <1>1 DEF Requested, At
<1> QED
  BY <1>2, <1>3, <1>4, <1>5, <1>6 DEF Followed

LEMMA WriterOrder ==
  ASSUME IndexInv, NEW w \in Writers,
         CreateZettel(w) \/ UpdateZettel(w) \/ DeleteBoxZettel(w), UNCHANGED scenario
  PROVE  IndexInv'
<1>1. Shape
  BY DEF IndexInv
<1>2. Shape'
  BY <1>1, WriterShape
<1>3. PICK z \in Zettel, r \in Job :
         /\ Change(w, z, r) /\ r.zi = NewIndex /\ r.zid \in {z, Invalid}
         /\ \/ /\ r.reason = "OnZettel" /\ z \in Present'
               /\ r.todo = text'[z]
            \/ /\ r.reason = "OnDelete" /\ z \in Storable \ stored' /\ r.zid = z
  BY <1>1, WriterShape
<1>4. /\ Pending(z)' /\ (IndexerOK => IndexerOK')
      /\ \A x \in Zettel \ {z} :
            /\ Followed(x) => Followed(x)'
            /\ Requested /\ x \in Present => Requested' /\ x \in Present'
  BY <1>1, <1>2, <1>3, ChangeKeeps
<1>5. CalmOK'
  BY <1>3 DEF Change, CalmOK
<1>6. ASSUME InOrder'
      PROVE  (WritersOK /\ IndexerOK /\ \A x \in Zettel : Followed(x) \/ (Requested /\ x \in Present))'
  <2>1. InOrder
    BY <1>3, <1>6 DEF InOrder, scenario, Change
  <2>2. w \in active /\ w \notin Watchers
    BY <1>3, ThreadsAssumption DEF Change
  <2>3. Overlaid = {} /\ active = {w}
    BY <2>1, <2>2 DEF InOrder
  <2>4. WriterOK(r)'
    <3>1. z \in Storable \ stored' => z \notin Present'
      BY <2>3 DEF Storable, Present
    <3> QED
      BY <1>3, <3>1 DEF Change, WriterOK, Works
  <2>5. WritersOK'
    <3> SUFFICES ASSUME NEW q \in Writers PROVE WriterOK(job[q])'
      BY DEF WritersOK
    <3>1. q \in Procs /\ w \in Procs /\ job \in [Procs -> Job] /\ job' = [job EXCEPT ![w] = r]
      BY <1>1, <1>3, Jobs, ProcsAreApart DEF Change
    <3>2. CASE q = w
      BY <2>4, <3>1, <3>2, OneJob DEF WriterOK
    <3>3. CASE q # w
      <4>1. job'[q] = job[q] /\ job[q].pc = "idle"
        BY <1>1, <2>3, <3>1, <3>3, ProcsAreApart DEF Shape, JobsOK, JobOK
      <4> QED
        BY <4>1 DEF WriterOK, Works
    <3> QED
      BY <3>2, <3>3
  <2>6. IndexerOK'
    BY <1>4, <2>1 DEF IndexInv, OrderOK
  <2>7. ASSUME NEW x \in Zettel PROVE Followed(x)' \/ (Requested' /\ x \in Present')
    BY <1>4, <2>1 DEF IndexInv, OrderOK, Followed
  <2> QED
    BY <2>5, <2>6, <2>7
<1> QED
  BY <1>2, <1>5, <1>6 DEF IndexInv, OrderOK

LEMMA ExternalOrder ==
  ASSUME IndexInv, NEW u \in Watchers, ExternalChange(u), UNCHANGED scenario
  PROVE  IndexInv'
<1>1. Shape /\ Shape'
  BY ExternalShape DEF IndexInv
<1>2. PICK z \in Zettel, r \in Job : Change(u, z, r)
  BY <1>1, ExternalShape
<1>3. /\ Pending(z)' /\ (IndexerOK => IndexerOK')
      /\ \A x \in Zettel \ {z} :
            /\ Followed(x) => Followed(x)'
            /\ Requested /\ x \in Present => Requested' /\ x \in Present'
  BY <1>1, <1>2, ChangeKeeps
<1>4. CalmOK'
  BY <1>2 DEF Change, CalmOK
<1>5. ASSUME InOrder'
      PROVE  (WritersOK /\ IndexerOK /\ \A x \in Zettel : Followed(x) \/ (Requested /\ x \in Present))'
  <2>1. InOrder
    BY <1>2, <1>5 DEF InOrder, scenario, Change
  <2>2. active \subseteq Watchers
    BY <1>2, <2>1, ThreadsAssumption DEF InOrder, Change
  <2>3. WritersOK'
    <3> SUFFICES ASSUME NEW q \in Writers PROVE WriterOK(job[q])'
      BY DEF WritersOK
    <3>1. q \in Procs /\ q \notin active' \union {Indexer}
      BY <2>2, ProcsAreApart, ThreadsAssumption DEF scenario
    <3>2. job'[q].pc = "idle"
      BY <1>1, <3>1 DEF Shape, JobsOK, JobOK
    <3> QED
      BY <3>2 DEF WriterOK, Works
  <2>4. IndexerOK'
    BY <1>3, <2>1 DEF IndexInv, OrderOK
  <2>5. ASSUME NEW x \in Zettel PROVE Followed(x)' \/ (Requested' /\ x \in Present')
    BY <1>3, <2>1 DEF IndexInv, OrderOK, Followed
  <2> QED
    BY <2>3, <2>4, <2>5
<1> QED
  BY <1>1, <1>4, <1>5 DEF IndexInv, OrderOK

LEMMA RefreshOrder ==
  ASSUME IndexInv, Refresh, UNCHANGED scenario
  PROVE  IndexInv'
<1>1. Shape' /\ infos' # <<>> /\ refreshes' # 0 /\ infos \in Seq(Info) /\ Present' = Present
  BY RefreshShape DEF IndexInv, Shape, TypeOK, Refresh, Present, boxVars
<1>2. OrderOK'
  BY <1>1 DEF OrderOK, InOrder
<1>3. CalmOK'
  <2> SUFFICES ASSUME asked' = "calm"
               PROVE  /\ \A p \in Procs \ {Indexer} : At(p, "idle")'
                      /\ \A i \in DOMAIN infos' : infos'[i].reason = "OnReload"
                      /\ ~At(Indexer, "reload")'
    BY <1>1 DEF CalmOK
  <2>1. /\ infos = <<>> /\ \A p \in Writers \union Watchers : At(p, "idle")
        /\ ~At(Indexer, "reload") /\ job' = job
        /\ infos' = Append(infos, [reason |-> "OnReload", zid |-> Invalid])
    BY DEF Refresh
  <2>2. \A i \in DOMAIN infos' : infos'[i].reason = "OnReload"
    BY <2>1
  <2> QED
    BY <2>1, <2>2 DEF At, Procs
<1> QED
  BY <1>1, <1>2, <1>3 DEF IndexInv

LEMMA NextIndexInv == IndexInv /\ [Next]_vars => IndexInv'
<1> SUFFICES ASSUME IndexInv, [Next]_vars PROVE IndexInv'
  OBVIOUS
<1>1. CASE Work /\ UNCHANGED scenario
  BY <1>1, WorkShape, WorkOrder, WorkCalm DEF IndexInv
<1>2. CASE Next
  BY <1>1, <1>2, WriterOrder, ExternalOrder, RefreshOrder DEF Next, Step, Work
<1>3. CASE UNCHANGED vars
  <2>1. UNCHANGED <<storeVars, boxVars, infos, recent, queueVars, ready, job, scenario, boundVars>>
    BY <1>3 DEF vars
  <2>2. Shape'
    <3>1. StoreOK' /\ StoreTypeOK' /\ InvalidOK' /\ stored' \subseteq Storable /\ text' \in [Zettel -> Text]
      BY <2>1, SameWorld DEF IndexInv
    <3>2. TypeOK'
      BY <2>1, <3>1 DEF IndexInv, Shape, TypeOK, queueVars, scenario, boundVars
    <3>3. JobsOK' /\ QueueOK' /\ InfosOK'
      BY <2>1 DEF IndexInv, Shape, JobsOK, JobOK, QueueOK, InfosOK, NoReload, Requested, At,
                  queueVars, scenario, boundVars
    <3> QED
      BY <3>1, <3>2, <3>3 DEF Shape
  <2>3. OrderOK' /\ CalmOK'
    <3>1. Present' = Present /\ \A j : (RightJob(j)' <=> RightJob(j)) /\ (WriterOK(j)' <=> WriterOK(j))
      BY <2>1, SameBox
    <3>2. \A z : Right(z)' <=> Right(z)
      BY <2>1, SameWorld DEF IndexInv
    <3>3. \A z : (Pending(z)' <=> Pending(z)) /\ (WorkedOn(z)' <=> WorkedOn(z))
      BY <2>1 DEF Pending, PendingAt, Reported, WorkedOn, Works, queueVars
    <3>4. (WritersOK' <=> WritersOK) /\ (IndexerOK' <=> IndexerOK)
      BY <2>1, <3>1, <3>3 DEF WritersOK, IndexerOK, Works
    <3>5. (InOrder' <=> InOrder) /\ (Requested' <=> Requested)
      BY <2>1 DEF InOrder, Requested, At, scenario, boundVars, queueVars
    <3>6. \A z : Followed(z)' <=> Followed(z)
      BY <3>2, <3>3 DEF Followed
    <3> QED
      BY <2>1, <3>1, <3>4, <3>5, <3>6 DEF IndexInv, OrderOK, CalmOK, At, boundVars
  <2> QED
    BY <2>2, <2>3 DEF IndexInv
<1> QED
  BY <1>2, <1>3

LEMMA AlwaysIndexInv == Spec => []IndexInv
  BY InitIndexInv, NextIndexInv, PTL DEF Spec

-----------------------------------------------------------------------------
(* Who references what.  A zettel that is gone is not referenced in the     *)
(* index, or it is still to be removed from there.                          *)
Removing(x) == \E p \in Procs : job[p].pc = "remove" /\ job[p].zid = x

(* Only what may be a zettel is referenced.                                 *)
TargetsOK ==
    /\ \A z \in Zids : forward[z] \subseteq Zettel
    /\ \A p \in Procs : job[p].zi.back \subseteq Zettel

(* A writer changes nothing before it has updated the index; what the       *)
(* indexer has found may be deleted meanwhile, but then this is pending.    *)
FoundOK ==
    /\ \A p \in Writers : Works(job[p]) => job[p].zi.back \subseteq Present
    /\ Works(job[Indexer]) => \A x \in job[Indexer].zi.back : x \in Present \/ Pending(x)
Referenced(x) == \E y \in Zids : x \in forward[y]
GoneOK == \A x \in Zettel : x \in Present \/ ~Referenced(x) \/ Pending(x) \/ Removing(x)

ReferenceInv == TargetsOK /\ (InOrder => FoundOK /\ GoneOK)

LEMMA NewIndexIsEmpty == NewIndex.back = {} /\ Idle.zi.back = {}
  BY DEF NewIndex, Idle

LEMMA InitReferenceInv == Init => ReferenceInv
<1> SUFFICES ASSUME Init PROVE ReferenceInv
  OBVIOUS
<1>1. \A p \in Procs : job[p] = Idle
  BY DEF Init
<1>2. \A p \in Procs : job[p].pc = "idle" /\ job[p].zi.back = {}
  BY <1>1, IdleType, NewIndexIsEmpty
<1>3. TargetsOK /\ GoneOK
  BY <1>2, Zettels DEF TargetsOK, GoneOK, Referenced, Init, StoreInit
<1>4. FoundOK
  BY <1>2, ProcsAreApart DEF FoundOK, Works
<1> QED
  BY <1>3, <1>4 DEF ReferenceInv

(* A step of process p that leaves the index.                               *)
LEMMA QueueStepReferences ==
  ASSUME IndexInv, ReferenceInv, UNCHANGED <<storeVars, boxVars, scenario, refreshes>>,
         NEW p \in Procs, NEW r \in Job, job' = [job EXCEPT ![p] = r], InOrder => Kept,
         r.pc = "remove" \/ job[p].pc # "remove", job[p].pc = "remove" => r.zid = job[p].zid,
         r.zi.back \subseteq Zettel,
         InOrder /\ p \in Writers /\ Works(r) => r.zi.back \subseteq Present,
         InOrder /\ p = Indexer /\ Works(r) => \A x \in r.zi.back : x \in Present \/ Pending(x)
  PROVE  ReferenceInv'
<1>1. /\ job \in [Procs -> Job] /\ job'[p] = r /\ \A q \in Procs : q # p => job'[q] = job[q]
      /\ Writers \subseteq Procs /\ Indexer \in Procs /\ Present' = Present
  BY Jobs, OneJob, ProcsAreApart, SameBox DEF IndexInv
<1>2. TargetsOK'
  BY <1>1 DEF ReferenceInv, TargetsOK, storeVars
<1>3. ASSUME InOrder PROVE FoundOK' /\ GoneOK'
  <2>1. Kept /\ FoundOK /\ GoneOK
    BY <1>3 DEF ReferenceInv
  <2>2. ASSUME NEW q \in Writers, Works(job'[q]) PROVE job'[q].zi.back \subseteq Present
    BY <1>1, <1>3, <2>1, <2>2 DEF FoundOK
  <2>3. ASSUME NEW x \in job'[Indexer].zi.back, Works(job'[Indexer]) PROVE x \in Present \/ Pending(x)'
    <3>1. x \in Zettel
      BY <1>1, <1>2, <2>3 DEF TargetsOK
    <3>2. x \in Present \/ Pending(x)
      BY <1>1, <1>3, <2>1, <2>3 DEF FoundOK
    <3>3. ~Read(x)
      BY <2>3 DEF Read
    <3> QED
      BY <2>1, <3>1, <3>2, <3>3 DEF Kept
  <2>4. FoundOK'
    BY <1>1, <2>2, <2>3 DEF FoundOK, Works
  <2>5. ASSUME NEW x \in Zettel PROVE Removing(x) => Removing(x)'
    BY <1>1 DEF Removing
  <2>6. ASSUME NEW x \in Zettel \ Present PROVE Pending(x) => Pending(x)' \/ Removing(x)'
    BY <1>1, <2>1 DEF Kept, Read, Removing
  <2>7. GoneOK'
    BY <1>1, <2>1, <2>5, <2>6 DEF GoneOK, Referenced, storeVars
  <2> QED
    BY <2>4, <2>7
<1>4. InOrder' => InOrder
  BY DEF InOrder, scenario
<1> QED
  BY <1>2, <1>3, <1>4 DEF ReferenceInv

(* A step of process p that stores what it has found, or removes a zettel:  *)
(* who references x now has done so before, or p has found x.               *)
LEMMA StoreStepReferences ==
  ASSUME IndexInv, IndexInv', ReferenceInv, UNCHANGED <<boxVars, scenario, refreshes>>,
         NEW p \in Procs, NEW r \in Job, job' = [job EXCEPT ![p] = r], InOrder => Kept,
         ~Works(r), r.zi.back = {}, p \notin Watchers,
         \A x, y \in Zids : x \in forward'[y] =>
            /\ x \in forward[y] \/ (Works(job[p]) /\ x \in job[p].zi.back)
            /\ ~(job[p].pc = "remove" /\ job[p].zid = x)
  PROVE  ReferenceInv'
<1>1. /\ job \in [Procs -> Job] /\ job'[p] = r /\ \A q \in Procs : q # p => job'[q] = job[q]
      /\ Writers \subseteq Procs /\ Indexer \in Procs /\ Present' = Present
  BY Jobs, OneJob, ProcsAreApart, SameBox DEF IndexInv
<1>2. forward \in [Zids -> SUBSET Zids] /\ forward' \in [Zids -> SUBSET Zids]
  BY DEF IndexInv, Shape, StoreOK, StoreInv, LinksInv
<1>3. TargetsOK'
  <2>1. ASSUME NEW y \in Zids, NEW x \in forward'[y] PROVE x \in Zettel
    BY <1>2, <2>1 DEF ReferenceInv, TargetsOK
  <2> QED
    BY <1>1, <2>1 DEF ReferenceInv, TargetsOK
<1>4. ASSUME InOrder PROVE FoundOK' /\ GoneOK'
  <2>1. Kept /\ FoundOK /\ GoneOK
    BY <1>4 DEF ReferenceInv
  <2>2. ASSUME NEW x \in Zettel, Pending(x), ~Read(x) PROVE Pending(x)'
    BY <2>1, <2>2 DEF Kept
  <2>3. ASSUME NEW x \in job'[Indexer].zi.back, Works(job'[Indexer]) PROVE x \in Present \/ Pending(x)'
    <3>1. job'[Indexer] = job[Indexer] /\ x \in Zettel
      BY <1>1, <1>3, <2>3 DEF TargetsOK
    <3>2. x \in Present \/ Pending(x)
      BY <2>1, <2>3, <3>1 DEF FoundOK
    <3>3. ~Read(x)
      BY <2>3 DEF Read
    <3> QED
      BY <2>2, <3>1, <3>2, <3>3
  <2>4. FoundOK'
    BY <1>1, <2>1, <2>3 DEF FoundOK, Works
  <2>5. ASSUME NEW x \in Zettel \ Present, Referenced(x)' PROVE Pending(x)' \/ Removing(x)'
    <3>1. PICK y \in Zids : x \in forward'[y]
      BY <2>5 DEF Referenced
    <3>2. x \in Zids
      BY Zettels
    <3>3. Pending(x) \/ (\E q \in Procs \ {p} : job[q].pc = "remove" /\ job[q].zid = x)
      <4>1. CASE x \in forward[y]
        <5>1. Pending(x) \/ Removing(x)
          BY <2>1, <2>5, <4>1 DEF GoneOK, Referenced
        <5> QED
          BY <3>1, <3>2, <5>1 DEF Removing
      <4>2. CASE Works(job[p]) /\ x \in job[p].zi.back
        <5>1. p \in Writers \/ p = Indexer
          BY DEF Procs
        <5> QED
          BY <2>1, <2>5, <4>2, <5>1 DEF FoundOK
      <4> QED
        BY <3>1, <3>2, <4>1, <4>2
    <3>4. (\E q \in Procs \ {p} : job[q].pc = "remove" /\ job[q].zid = x) => Removing(x)'
      BY <1>1 DEF Removing
    <3>5. Read(x) => Removing(x)'
      BY <1>1, <2>5 DEF Read, Removing
    <3> QED
      BY <2>2, <3>3, <3>4, <3>5
  <2>6. GoneOK'
    BY <1>1, <2>5 DEF GoneOK
  <2> QED
    BY <2>4, <2>6
<1>5. InOrder' => InOrder
  BY DEF InOrder, scenario
<1> QED
  BY <1>3, <1>4, <1>5 DEF ReferenceInv

LEMMA KeptInOrder ==
  ASSUME IndexInv, Work, UNCHANGED scenario, InOrder
  PROVE  Kept /\ Orderly
<1>1. Shape /\ Orderly
  BY DEF Orderly, IndexInv, OrderOK, Shape, InfosOK, InOrder
<1> QED
  BY <1>1, WorkKeeps

LEMMA CheckFindsNothing ==
  ASSUME job \in [Procs -> Job], NEW p \in Procs, NEW S, Check(p, S)
  PROVE  job'[p].zi.back = {}
<1>1. [Idle EXCEPT !.pc = "enqueue", !.check = S].zi = NewIndex
  BY DEF Idle
<1> QED
  BY <1>1, NewIndexIsEmpty DEF Check

(* The steps of the queue and of the indexer that find nothing.             *)
LEMMA QueueReferences ==
  ASSUME IndexInv, ReferenceInv, UNCHANGED scenario,
         \/ \E p \in Procs : notifyChanged(p) \/ idxCheckZettel(p)
         \/ idxWorkService \/ idxSleepService
  PROVE  ReferenceInv'
<1>1. Work /\ Shape /\ job \in [Procs -> Job] /\ Indexer \in Procs
  BY Jobs, ProcsAreApart DEF Work, Index, IndexInv
<1>2. UNCHANGED boxVars /\ refreshes' = refreshes /\ (InOrder => Kept /\ Orderly)
  BY <1>1, WorkShape, KeptInOrder
<1>3. ASSUME NEW p \in Procs, notifyChanged(p) PROVE ReferenceInv'
  <2>1. PICK r \in Job :
         /\ job' = [job EXCEPT ![p] = r]
         /\ IF p \in Watchers THEN r = Idle
            ELSE r = [job[p] EXCEPT !.pc = IF job[p].reason = "OnDelete" THEN "remove" ELSE "lookup"]
    BY <1>1, <1>3, notifyChangedShape
  <2>2. /\ job[p] \in Job /\ job[p].pc = "report" /\ UNCHANGED storeVars /\ p # Indexer
        /\ p \in Writers => p \notin Watchers
    BY <1>1, <1>3, notifyChangedShape, ProcsAreApart, ThreadsAssumption DEF notifyChanged, At
  <2>3. r.zi = job[p].zi \/ r.zi.back = {}
    BY <2>1, <2>2, NewIndexIsEmpty DEF Job
  <2>4. r.zi.back \subseteq Zettel
    BY <2>3 DEF ReferenceInv, TargetsOK
  <2>5. InOrder /\ p \in Writers => r.zi.back = {}
    BY <1>2, <2>2, <2>3, NewIndexIsEmpty DEF Orderly, WritersOK, WriterOK
  <2> QED
    BY <1>2, <2>1, <2>2, <2>4, <2>5, QueueStepReferences
<1>4. ASSUME NEW p \in Procs, idxCheckZettel(p) PROVE ReferenceInv'
  <2>1. PICK r \in Job : job' = [job EXCEPT ![p] = r] /\ r.pc \in {"idle", "enqueue"}
    BY <1>1, <1>4, idxCheckZettelShape
  <2>2. UNCHANGED storeVars /\ job[p].pc = "enqueue" /\ job'[p] = r /\ \E S : Check(p, S)
    BY <1>1, <1>4, <2>1, idxCheckZettelShape DEF idxCheckZettel
  <2>3. r.zi.back = {}
    BY <1>1, <2>2, CheckFindsNothing
  <2> QED
    BY <1>2, <2>1, <2>2, <2>3, QueueStepReferences DEF Works
<1>5. ASSUME NEW r \in Job, job' = [job EXCEPT ![Indexer] = r], UNCHANGED storeVars,
             job[Indexer].pc # "remove", Works(r) => r.zi.back = {},
             r.zi = job[Indexer].zi \/ r.zi.back = {}
      PROVE  ReferenceInv'
  <2>1. r.zi.back \subseteq Zettel
    BY <1>1, <1>5 DEF ReferenceInv, TargetsOK
  <2> QED
    BY <1>1, <1>2, <1>5, <2>1, QueueStepReferences, ProcsAreApart
<1>6. CASE idxWorkService \/ idxSleepService
  <2>1. UNCHANGED storeVars
    BY <1>6 DEF idxWorkService, idxSleepService, Dequeue, FetchZids, Reload, GetZettel, WakeByTimer, WakeBySignal
  <2>2. \E r \in Job : /\ job' = [job EXCEPT ![Indexer] = r] /\ job[Indexer].pc # "remove"
                       /\ Works(r) => r.zi = NewIndex
    BY <1>1, <1>6, DequeueShape, FetchZidsShape, ReloadShape, GetZettelShape, WakeShape, IdleType
       DEF idxWorkService, Works, At
  <2>3. job'[Indexer].zi = job[Indexer].zi \/ job'[Indexer].zi = NewIndex
    <3>1. CASE Dequeue
      BY <1>1, <3>1 DEF Dequeue, Become, Idle, Job
    <3>2. CASE FetchZids
      BY <1>1, <3>2 DEF FetchZids, Idle
    <3>3. CASE Reload
      BY <1>1, <3>3 DEF Reload, Idle
    <3>4. CASE GetZettel
      BY <1>1, <3>4 DEF GetZettel, Job
    <3>5. CASE idxSleepService
      BY <1>1, <3>5 DEF idxSleepService, WakeByTimer, WakeBySignal, Become, Job
    <3> QED
      BY <1>6, <3>1, <3>2, <3>3, <3>4, <3>5 DEF idxWorkService
  <2> QED
    BY <1>1, <1>5, <2>1, <2>2, <2>3, NewIndexIsEmpty
<1> QED
  BY <1>3, <1>4, <1>6

LEMMA notifierReferences ==
  ASSUME IndexInv, ReferenceInv, UNCHANGED scenario, notifier
  PROVE  ReferenceInv'
<1>1. Work /\ Shape /\ job \in [Procs -> Job] /\ Indexer \in Procs /\ Indexer \notin Writers
  BY Jobs, ProcsAreApart DEF Work, IndexInv
<1>2. UNCHANGED boxVars /\ refreshes' = refreshes /\ (InOrder => Kept /\ Orderly)
  BY <1>1, WorkShape, KeptInOrder
<1>3. PICK r \in Job : r = job[Indexer] /\ job' = [job EXCEPT ![Indexer] = r] /\ UNCHANGED storeVars
  BY <1>1 DEF notifier
<1>4. r.zi.back \subseteq Zettel
  BY <1>1, <1>3 DEF ReferenceInv, TargetsOK
<1>5. InOrder /\ Works(r) => \A x \in r.zi.back : x \in Present \/ Pending(x)
  BY <1>3 DEF ReferenceInv, FoundOK
<1> QED
  BY <1>1, <1>2, <1>3, <1>4, <1>5, QueueStepReferences

(* Whatever is found is present when it is looked up.                       *)
LEMMA lookupReferences ==
  ASSUME IndexInv, ReferenceInv, UNCHANGED scenario, NEW p \in Procs, lookupReference(p)
  PROVE  ReferenceInv'
<1>1. Work /\ Shape /\ job \in [Procs -> Job] /\ job[p] \in Job
  BY Jobs DEF Work, Index, IndexInv
<1>2. UNCHANGED boxVars /\ refreshes' = refreshes /\ (InOrder => Kept)
  BY <1>1, WorkShape, KeptInOrder
<1>3. PICK r \in Job, ref \in job[p].todo :
         /\ job' = [job EXCEPT ![p] = r] /\ ref \in (Keys \union {Body}) \X Zettel
         /\ job[p].pc = "lookup" /\ r.pc = "lookup" /\ r.zi = Filed(job[p].zi, ref)
  BY <1>1, lookupReferenceShape
<1>4. PICK zi \in ZettelIndex : zi = job[p].zi
  BY <1>1 DEF Job
<1>5. r.zi.back \subseteq zi.back \union (Present \intersect {ref[2]})
  BY <1>3, <1>4 DEF Filed, ZettelIndex
<1>6. ref[2] \in Zettel /\ zi.back \subseteq Zettel
  BY <1>3, <1>4 DEF ReferenceInv, TargetsOK
<1>7. Works(job[p]) /\ UNCHANGED storeVars
  BY <1>3 DEF Works, lookupReference
<1> QED
  BY <1>2, <1>3, <1>4, <1>5, <1>6, <1>7, QueueStepReferences DEF ReferenceInv, FoundOK

LEMMA storeReferences ==
  ASSUME IndexInv, IndexInv', ReferenceInv, UNCHANGED scenario, NEW p \in Procs,
         storeIndex(p) \/ idxDeleteZettel(p)
  PROVE  ReferenceInv'
<1>1. /\ Work /\ Shape /\ StoreInv /\ StoreOK /\ job \in [Procs -> Job] /\ job[p] \in Job
      /\ JobOK(p, job[p])
  BY Jobs DEF Work, Index, IndexInv, Shape, StoreOK
<1>2. UNCHANGED boxVars /\ refreshes' = refreshes /\ (InOrder => Kept)
  BY <1>1, WorkShape, KeptInOrder
<1>3. PICK r \in Job : job' = [job EXCEPT ![p] = r] /\ r.pc \in {"idle", "enqueue"}
  BY <1>1, storeIndexShape, idxDeleteZettelShape
<1>4. job'[p] = r /\ \E S : Check(p, S)
  BY <1>1, <1>3 DEF storeIndex, idxDeleteZettel
<1>5. r.zi.back = {} /\ ~Works(r)
  BY <1>1, <1>3, <1>4, CheckFindsNothing DEF Works
<1>6. PICK z \in Zids, zi \in ZettelIndex : z = job[p].zid /\ zi = job[p].zi
  BY <1>1 DEF Job
<1>7. /\ p \notin Watchers
      /\ \A x, y \in Zids : x \in forward'[y] =>
            /\ x \in forward[y] \/ (Works(job[p]) /\ x \in job[p].zi.back)
            /\ ~(job[p].pc = "remove" /\ job[p].zid = x)
  <2>1. CASE storeIndex(p)
    <3>1. job[p].pc = "lookup" /\ UpdateReferences(z, zi)
      BY <1>6, <2>1 DEF storeIndex, At
    <3>2. forward'[z] = zi.back /\ \A y \in Zids \ {z} : forward'[y] = forward[y]
      BY <1>1, <3>1, UpdateChanges
    <3> QED
      BY <1>1, <1>6, <3>1, <3>2 DEF JobOK, Works
  <2>2. CASE idxDeleteZettel(p)
    <3>1. job[p].pc = "remove" /\ DeleteZettel(z)
      BY <1>6, <2>2 DEF idxDeleteZettel, At
    <3>2. \A x, y \in Zids : x \in forward'[y] => x \in forward[y] /\ x # z
      <4>1. CASE z \in entries
        <5>1. /\ forward'[z] = {} /\ backward'[z] = {}
              /\ \A y \in Zids \ {z} : forward'[y] \subseteq forward[y]
          BY <1>1, <3>1, <4>1, DeleteChanges
        <5>2. \A y \in Zids : z \in forward'[y] => y \in backward'[z] \/ y = z
          BY DEF IndexInv, Shape, StoreOK, StoreInv, LinksInv, ForwardBackwardMatch
        <5> QED
          BY <5>1, <5>2
      <4>2. CASE z \notin entries
        <5>1. forward' = forward /\ \A y \in Zids : z \notin forward[y]
          BY <1>1, <3>1, <4>2 DEF DeleteZettel, storeVars, StoreOK, AbsentIsEmpty
        <5> QED
          BY <5>1
      <4> QED
        BY <4>1, <4>2
    <3> QED
      BY <1>1, <1>6, <3>1, <3>2 DEF JobOK
  <2> QED
    BY <2>1, <2>2
<1> QED
  BY <1>2, <1>3, <1>5, <1>7, StoreStepReferences

(* A change deletes one zettel at most, which is pending then.              *)
LEMMA ChangeReferences ==
  ASSUME IndexInv, IndexInv', ReferenceInv, UNCHANGED scenario,
         \/ \E w \in Writers : CreateZettel(w) \/ UpdateZettel(w) \/ DeleteBoxZettel(w)
         \/ \E u \in Watchers : ExternalChange(u)
  PROVE  ReferenceInv'
<1>1. Shape /\ Shape'
  BY DEF IndexInv
<1>0. PICK p \in Writers \union Watchers :
         \/ p \in Writers /\ (CreateZettel(p) \/ UpdateZettel(p) \/ DeleteBoxZettel(p))
         \/ p \in Watchers /\ ExternalChange(p)
  OBVIOUS
<1>2. PICK z \in Zettel, r \in Job : Change(p, z, r)
  BY <1>1, <1>0, WriterShape, ExternalShape
<1>3. /\ Pending(z)'
      /\ \A x \in Zettel \ {z} : (Pending(x) => Pending(x)') /\ (x \in Present' <=> x \in Present)
  BY <1>1, <1>2, ChangeKeeps
<1>4. /\ job \in [Procs -> Job] /\ p \in Procs /\ p # Indexer /\ Indexer \in Procs
      /\ job' = [job EXCEPT ![p] = r] /\ job[p].pc = "idle" /\ r.pc = "report"
      /\ UNCHANGED <<storeVars, refreshes>>
  BY <1>1, <1>2, Jobs, ProcsAreApart DEF Change, At
<1>5. job'[p] = r /\ \A q \in Procs : q # p => job'[q] = job[q]
  BY <1>4
<1>6. r.zi.back = {}
  <2>1. ASSUME NEW zid, NEW about, NEW reason, NEW todo, Begin(p, zid, about, reason, todo)
        PROVE  r.zi.back = {}
    <3>1. r = [Idle EXCEPT !.pc = "report", !.zid = zid, !.about = about, !.reason = reason, !.todo = todo]
      BY <1>4, <1>5, <2>1 DEF Begin
    <3>2. r.zi = NewIndex
      BY <3>1 DEF Idle
    <3> QED
      BY <3>2, NewIndexIsEmpty
  <2>2. CASE CreateZettel(p)
    BY <2>1, <2>2 DEF CreateZettel
  <2>3. CASE UpdateZettel(p)
    BY <2>1, <2>3 DEF UpdateZettel
  <2>4. CASE DeleteBoxZettel(p)
    BY <2>1, <2>4 DEF DeleteBoxZettel
  <2>5. CASE ExternalChange(p)
    BY <2>1, <2>5 DEF ExternalChange
  <2> QED
    BY <1>0, <2>2, <2>3, <2>4, <2>5
<1>7. TargetsOK'
  BY <1>4, <1>5, <1>6 DEF ReferenceInv, TargetsOK, storeVars
<1>8. ASSUME InOrder PROVE FoundOK' /\ GoneOK'
  <2>1. FoundOK /\ GoneOK
    BY <1>8 DEF ReferenceInv
  <2>2. ASSUME NEW q \in Writers PROVE ~Works(job'[q])
    <3>1. CASE q \in active
      <4>1. q = p
        BY <1>2, <1>8, <3>1, ThreadsAssumption DEF Change, InOrder
      <4> QED
        BY <1>4, <1>5, <4>1 DEF Works
    <3>2. CASE q \notin active
      <4>1. job'[q].pc = "idle"
        BY <1>1, <3>2, ProcsAreApart DEF Shape, JobsOK, JobOK, scenario
      <4> QED
        BY <4>1 DEF Works
    <3> QED
      BY <3>1, <3>2
  <2>3. FoundOK'
    <3>1. ASSUME Works(job'[Indexer]), NEW x \in job'[Indexer].zi.back PROVE x \in Present' \/ Pending(x)'
      <4>1. job'[Indexer] = job[Indexer] /\ x \in Zettel
        BY <1>4, <1>5, <1>7, <3>1 DEF TargetsOK
      <4>2. x \in Present \/ Pending(x)
        BY <2>1, <3>1, <4>1 DEF FoundOK
      <4> QED
        BY <1>3, <4>1, <4>2
    <3> QED
      BY <2>2, <3>1 DEF FoundOK, Works
  <2>4. ASSUME NEW x \in Zettel PROVE Removing(x) => Removing(x)'
    BY <1>4, <1>5 DEF Removing
  <2>5. GoneOK'
    BY <1>3, <1>4, <2>1, <2>4 DEF GoneOK, Referenced, storeVars
  <2> QED
    BY <2>3, <2>5
<1>9. InOrder' => InOrder
  BY <1>4 DEF InOrder, scenario
<1> QED
  BY <1>7, <1>8, <1>9 DEF ReferenceInv

LEMMA RefreshReferences ==
  ASSUME IndexInv, ReferenceInv, Refresh, UNCHANGED scenario
  PROVE  ReferenceInv'
<1>1. refreshes' # 0 /\ UNCHANGED <<storeVars, job>>
  BY RefreshShape DEF IndexInv, Refresh
<1> QED
  BY <1>1 DEF ReferenceInv, TargetsOK, InOrder, storeVars

LEMMA NextReferenceInv == IndexInv /\ IndexInv' /\ ReferenceInv /\ [Next]_vars => ReferenceInv'
<1> SUFFICES ASSUME IndexInv, IndexInv', ReferenceInv, [Next]_vars PROVE ReferenceInv'
  OBVIOUS
<1>1. CASE Next
  <2>1. UNCHANGED scenario
    BY <1>1 DEF Next
  <2>2. ASSUME NEW p \in Procs, notifyChanged(p) \/ Index(p) PROVE ReferenceInv'
    BY <2>1, <2>2, QueueReferences, lookupReferences, storeReferences DEF Index
  <2> QED
    BY <1>1, <2>1, <2>2, QueueReferences, notifierReferences, ChangeReferences, RefreshReferences DEF Next, Step
<1>2. CASE UNCHANGED vars
  <2>1. UNCHANGED <<storeVars, boxVars, infos, queueVars, job, scenario, boundVars>>
    BY <1>2 DEF vars
  <2>2. /\ \A x : (Pending(x)' <=> Pending(x)) /\ (Removing(x)' <=> Removing(x))
        /\ Present' = Present /\ (InOrder' <=> InOrder)
    BY <2>1 DEF Pending, PendingAt, Reported, Removing, Present, InOrder, boxVars, queueVars, boundVars, scenario
  <2> QED
    BY <2>1, <2>2 DEF ReferenceInv, TargetsOK, FoundOK, GoneOK, Referenced, Works, storeVars
<1> QED
  BY <1>1, <1>2

LEMMA AlwaysReferenceInv == Spec => [](IndexInv /\ ReferenceInv)
  BY InitIndexInv, NextIndexInv, InitReferenceInv, NextReferenceInv, PTL DEF Spec

(* When nothing is left to be done, a followed zettel is right in the index.*)
LEMMA SettledIsRight ==
  ASSUME Shape, Settled, NEW z, Followed(z)
  PROVE  Right(z)
<1>1. /\ \A p \in Procs : job[p].pc \in {"idle", "asleep"}
      /\ DOMAIN infos = {} /\ backlog = {} /\ changed = {}
  BY DEF Settled, At
<1> QED
  BY <1>1 DEF Followed, Pending, PendingAt, Reported, WorkedOn, Works

-----------------------------------------------------------------------------
(* However many zettel there are and whatever references them, the index is *)
(* that of the present zettel when all work is done: idxUpdateZettel,       *)
(* idxDeleteZettel, the notifier and the indexer may run in any order, as   *)
(* long as changes come from one writer or from outside.                    *)
THEOREM IndexIsFollowed == Spec => []IndexFollows
<1>1. ASSUME IndexInv, InOrder, Settled
      PROVE  ContentIsIndexed /\ GoneIsForgotten
  <2>1. Shape /\ ~Requested
    BY <1>1 DEF IndexInv, Settled, Requested, At
  <2>2. \A z \in Zettel : Right(z)
    BY <1>1, <2>1, SettledIsRight DEF IndexInv, OrderOK
  <2>3. ContentIsIndexed
    <3>1. Present \subseteq Zettel
      BY <2>1, Zettels DEF Present, Shape, TypeOK
    <3> QED
      BY <2>2, <3>1 DEF ContentIsIndexed, Right, Fresh
  <2>4. ASSUME NEW z \in (IF InMemory THEN Zettel ELSE Zids) \ Present PROVE Gone(z)
    <3>1. CASE z = Invalid /\ ~InMemory
      BY <2>1, <3>1 DEF Shape, InvalidOK
    <3>2. CASE z \in Zettel
      BY <2>2, <2>4, <3>2 DEF Right
    <3> QED
      BY <2>4, <3>1, <3>2, Zettels DEF Zettel
  <2> QED
    BY <2>3, <2>4 DEF GoneIsForgotten, Gone
<1>2. IndexInv => IndexFollows
  BY <1>1 DEF IndexInv, Shape, IndexFollows, ContentIsIndexed, GoneIsForgotten
<1> QED
  BY <1>2, AlwaysIndexInv, PTL

(* When all work is done, what the index takes for a reference to a zettel  *)
(* is one, and what is none is among the dead references: the referrers     *)
(* DeleteZettel returns are indexed again, and who has just stored a        *)
(* reference to what was deleted meanwhile will be returned.                *)
THEOREM ReferrersStayIndexed == Spec => []ReferrersAreIndexed
<1>1. ASSUME IndexInv, ReferenceInv, InOrder, Settled PROVE ForwardIsPresent
  <2>1. /\ \A p \in Procs : job[p].pc \in {"idle", "asleep"}
        /\ DOMAIN infos = {} /\ backlog = {} /\ changed = {}
    BY <1>1 DEF Settled, At
  <2>2. \A x \in Zettel \ Present : ~Referenced(x)
    BY <1>1, <2>1 DEF ReferenceInv, GoneOK, Removing, Pending, PendingAt, Reported
  <2>3. forward \in [Zids -> SUBSET Zids]
    BY <1>1 DEF IndexInv, Shape, StoreOK, StoreInv, LinksInv
  <2>4. ASSUME NEW z \in Zids, NEW x \in forward[z] PROVE x \in Present
    <3>1. x \in Zettel /\ x \in Zids
      BY <1>1, <2>3, <2>4 DEF ReferenceInv, TargetsOK
    <3> QED
      BY <2>2, <2>4, <3>1 DEF Referenced
  <2> QED
    BY <2>4 DEF ForwardIsPresent
<1>2. ASSUME IndexFollows, ForwardIsPresent, InOrder, Settled PROVE DeadIsComplete
  <2> SUFFICES ASSUME NEW z \in stored, NEW x \in References(z), x \notin Present
               PROVE  x \in deadRefs[z] \union InverseOf(z)
    BY DEF DeadIsComplete
  <2>1. z \in Present /\ z \in Zids
    BY <1>2, Zettels DEF Present, IndexFollows, TypeOK
  <2>2. x \notin forward[z]
    BY <1>2, <2>1 DEF ForwardIsPresent
  <2> QED
    BY <1>2, <2>1, <2>2 DEF IndexFollows, ContentIsIndexed
<1>3. IndexInv /\ ReferenceInv /\ IndexFollows => ReferrersAreIndexed
  BY <1>1, <1>2 DEF ReferrersAreIndexed, ForwardIsPresent, DeadIsComplete
<1> QED
  BY <1>3, AlwaysReferenceInv, IndexIsFollowed, PTL

(* After a calm Refresh, with no change since, every zettel is indexed with *)
(* its references, whoever made changes before and however fast.            *)
THEOREM RefreshRepairs == Spec => []CalmRefreshRepairs
<1>1. ASSUME IndexInv, asked = "calm", Settled
      PROVE  ContentIsIndexed
  <2>1. Shape /\ ~Requested /\ infos = <<>>
    BY <1>1 DEF IndexInv, Settled, Requested, At
  <2>2. \A z \in Present : Right(z)
    BY <1>1, <2>1, SettledIsRight DEF IndexInv, CalmOK
  <2> QED
    BY <2>2 DEF ContentIsIndexed, Right, Fresh
<1>2. IndexInv => CalmRefreshRepairs
  BY <1>1 DEF CalmRefreshRepairs, ContentIsIndexed
<1> QED
  BY <1>2, AlwaysIndexInv, PTL

(* Whoever updates the index, it can be read from both ends of a reference, *)
(* but for one of a zettel to itself, and keeps no trace of what has no     *)
(* entry.                                                                   *)
THEOREM IndexAgrees == Spec => [](BothEndsAgree /\ AbsentIsEmpty)
<1>1. IndexInv => BothEndsAgree /\ AbsentIsEmpty
  BY StoreAgrees DEF IndexInv, Shape, StoreOK
<1> QED
  BY <1>1, AlwaysIndexInv, PTL
=============================================================================
