------------------------------ MODULE Indexer ------------------------------
(***************************************************************************)
(* How the index follows the boxes: box/manager/box.go, indexer.go and the *)
(* notifier of manager.go.                                                 *)
(*                                                                         *)
(* A change of a zettel comes from an API call, which stores the zettel,   *)
(* reports the change on the channel "infos" and then updates the index    *)
(* itself, or from outside, where the box only reports it.  The notifier   *)
(* puts what was reported into the queue of the indexer; the indexer takes *)
(* one identifier after the other, reads the zettel again and updates the  *)
(* index.  None of these steps holds a lock that excludes the others.      *)
(*                                                                         *)
(* The queue is used as IndexWork promises it, the index is MapStore.  The *)
(* boxes are one box that can be written and a set of predefined zettel    *)
(* behind it; an operation of a box is atomic.  A text is the set of its   *)
(* references: pairs of an inverse key, or Body, and an identifier.        *)
(***************************************************************************)
EXTENDS MapStore, Sequences, FiniteSets

CONSTANTS
    Invalid,        \* id.Invalid
    Base,           \* the zettel of the constant box, without references
    Overlaid,       \* those of them that may be stored in the other box, too
    Texts,          \* the texts that are written
    Writers,        \* threads that serve API calls
    Watchers,       \* directory services that see changes from outside
    Indexer,        \* the background task idxIndexer
    InMemory,       \* the box is a memory box
    MaxInfos,       \* capacity of the channel infos: 10 per box
    MaxChanges,     \* bound: changes of zettel
    MaxRefreshes    \* bound: calls of Refresh

Body == "body"
Zettel == Zids \ {Invalid}
Storable == (Zettel \ Base) \union Overlaid
Procs == Writers \union Watchers \union {Indexer}
Reasons == {"OnZettel", "OnDelete", "OnReload"}
Text == SUBSET ((Keys \union {Body}) \X Zettel)

ASSUME InvalidAssumption == Invalid \in Zids
ASSUME ThreadsAssumption == Writers \intersect Watchers = {} /\ Indexer \notin Writers \union Watchers
ASSUME BaseAssumption == Base \subseteq Zettel /\ Base # {} /\ Overlaid \subseteq Base
ASSUME TextsAssumption == Texts \subseteq Text
ASSUME BoundsAssumption == MaxInfos \in Nat \ {0} /\ MaxChanges \in Nat /\ MaxRefreshes \in Nat

VARIABLES
    stored,     \* zettel in the box that can be written
    text,       \* their texts
    infos,      \* Manager.infos
    recent,     \* destutterCache: the last reason that was not ignored
    request, backlog, changed, answer,      \* anteroomQueue, see IndexWork
    ready,      \* a signal waits in Manager.idxReady
    job,        \* what each process is doing
    quick,      \* a change may follow another one within 500 ms
    active,     \* the writers and watchers that make changes
    changes, refreshes,     \* counters for the bounds
    asked       \* history: how Refresh was called, if its report was not
                \* ignored and no change came after it

boxVars == <<stored, text>>
queueVars == <<request, backlog, changed, answer>>
boundVars == <<changes, refreshes, asked>>
scenario == <<quick, active>>
vars == <<storeVars, boxVars, infos, recent, queueVars, ready, job, scenario, boundVars>>

Queue == INSTANCE IndexWork WITH Zids <- Zettel, NeverIndexed <- {Invalid}

NewIndex == [back |-> {}, dead |-> {}, inverse |-> [k \in Keys |-> {}], words |-> {}]

(* "zid" is indexed, "about" is reported; "todo" are the references that    *)
(* are still to be looked up, "zi" is what was found out so far, "check"    *)
(* are the identifiers UpdateReferences, DeleteZettel or FetchZids          *)
(* returned.                                                                *)
Idle == [pc |-> "idle", zid |-> Invalid, about |-> Invalid, reason |-> "OnReload",
         todo |-> {}, zi |-> NewIndex, check |-> {}]

PCs == {"idle", "report", "get", "lookup", "remove", "enqueue", "fetch", "reload", "asleep"}
Job == [pc : PCs, zid : Zids, about : Zids, reason : Reasons,
        todo : Text, zi : ZettelIndex, check : SUBSET Zids]
Info == [reason : Reasons, zid : Zids]

TypeOK ==
    /\ StoreTypeOK
    /\ stored \subseteq Storable
    /\ text \in [Zettel -> Text]
    /\ infos \in Seq(Info) /\ Len(infos) <= MaxInfos
    /\ recent \in [Zids -> Reasons \union {"none"}]
    /\ request \in BOOLEAN /\ backlog \subseteq Zettel /\ changed \subseteq Zettel
    /\ ready \in BOOLEAN /\ quick \in BOOLEAN /\ active \subseteq Writers \union Watchers
    /\ changes \in Nat /\ refreshes \in Nat /\ asked \in {"no", "fetching", "calm"}
    /\ job \in [Procs -> Job]

(* Start: the boxes have zettel, the index is empty, the queue was Reset.   *)
Init ==
    /\ StoreInit
    /\ stored \in SUBSET Storable
    /\ text \in {f \in [Zettel -> Texts \union {{}}] : \A z \in Zettel \ stored : f[z] = {}}
    /\ infos = <<>>
    /\ recent = [z \in Zids |-> "none"]
    /\ request = TRUE /\ backlog = {} /\ changed = {} /\ answer = Queue!Nothing
    /\ ready = FALSE
    /\ job = [p \in Procs |-> Idle]
    /\ quick \in BOOLEAN /\ active \in SUBSET (Writers \union Watchers)
    /\ changes = 0 /\ refreshes = 0 /\ asked = "no"

Present == stored \union Base
References(z) == {ref[2] : ref \in text[z]}
At(p, pc) == job[p].pc = pc

-----------------------------------------------------------------------------
(* Operations of the manager.  Each one first changes the box, which then   *)
(* reports the change (notifyChanged), and goes on with the index.          *)

Begin(p, zid, about, reason, todo) ==
    /\ At(p, "idle") /\ p \in active
    /\ changes < MaxChanges
    /\ changes' = changes + 1
    /\ asked' = "no"
    /\ job' = [job EXCEPT ![p] = [Idle EXCEPT !.pc = "report", !.zid = zid,
                                   !.about = about, !.reason = reason, !.todo = todo]]
    /\ UNCHANGED <<storeVars, infos, recent, queueVars, ready, refreshes>>

Put(z, t) ==
    /\ stored' = stored \union {z}
    /\ text' = [text EXCEPT ![z] = t]

Drop(z) ==
    /\ stored' = stored \ {z}
    /\ text' = [text EXCEPT ![z] = {}]

(* The box finds a new identifier.  A directory box sets it in the metadata *)
(* that the manager passed; a memory box sets it in a clone, and what the   *)
(* manager indexes has no identifier.                                       *)
CreateZettel(w) ==
    \E z \in Storable \ Present, t \in Texts :
        /\ Put(z, t)
        /\ Begin(w, IF InMemory THEN Invalid ELSE z, z, "OnZettel", t)

(* Who updates a zettel has read it before (usecase/update_zettel.go).      *)
UpdateZettel(w) ==
    \E z \in Present \intersect Storable, t \in Texts :
        /\ Put(z, t)
        /\ Begin(w, z, z, "OnZettel", t)

(* Only a box that can be written deletes; a predefined zettel of the same  *)
(* identifier shows up again.                                               *)
DeleteBoxZettel(w) ==
    \E z \in stored :
        /\ Drop(z)
        /\ Begin(w, z, z, "OnDelete", {})

(* A file is created, changed or removed with another tool.                 *)
ExternalChange(u) ==
    \E z \in Storable :
        \/ \E t \in Texts : Put(z, t) /\ Begin(u, Invalid, z, "OnZettel", {})
        \/ z \in stored /\ Drop(z) /\ Begin(u, Invalid, z, "OnDelete", {})

(* The report blocks while the channel is full.                             *)
notifyChanged(p) ==
    /\ At(p, "report")
    /\ Len(infos) < MaxInfos
    /\ infos' = Append(infos, [reason |-> job[p].reason, zid |-> job[p].about])
    /\ job' = [job EXCEPT ![p] =
                  IF p \in Watchers THEN Idle
                  ELSE [job[p] EXCEPT !.pc = IF job[p].reason = "OnDelete"
                                             THEN "remove" ELSE "lookup"]]
    /\ UNCHANGED <<storeVars, boxVars, recent, queueVars, ready, boundVars>>

(* The boxes of this model have nothing to refresh.                         *)
Refresh ==
    /\ refreshes < MaxRefreshes
    /\ refreshes' = refreshes + 1
    /\ asked' = IF infos # <<>> \/ \E p \in Writers \union Watchers : ~At(p, "idle") THEN "no"
                ELSE IF At(Indexer, "reload") THEN "fetching" ELSE "calm"
    /\ Len(infos) < MaxInfos
    /\ infos' = Append(infos, [reason |-> "OnReload", zid |-> Invalid])
    /\ UNCHANGED <<storeVars, boxVars, recent, queueVars, ready, job, changes>>

-----------------------------------------------------------------------------
(* The notifier *)

(* A report that follows another one of the same reason within 500 ms is    *)
(* dropped.                                                                 *)
ignoreUpdate(info) == quick /\ recent[info.zid] = info.reason

(* Mutant: nothing is done for OnReload. *)
EnqueueNoReload(info) ==
    /\ IF info.reason = "OnReload" THEN UNCHANGED queueVars ELSE Queue!Change(info.zid)
    /\ ready' = TRUE

idxEnqueue(info) ==
    /\ IF info.reason = "OnReload" THEN Queue!RequestAll ELSE Queue!Change(info.zid)
    /\ ready' = TRUE

(* The cache expires with time, so that ignoring is possible and not        *)
(* certain.                                                                 *)
notifier ==
    /\ infos # <<>>
    /\ infos' = Tail(infos)
    /\ \/ /\ ignoreUpdate(Head(infos))
          /\ asked' = IF Head(infos).reason = "OnReload" THEN "no" ELSE asked
          /\ UNCHANGED <<recent, queueVars, ready>>
       \/ /\ recent' = IF quick THEN [recent EXCEPT ![Head(infos).zid] = Head(infos).reason]
                       ELSE recent
          /\ idxEnqueue(Head(infos))
          /\ UNCHANGED asked
    /\ UNCHANGED <<storeVars, boxVars, job, changes, refreshes>>

-----------------------------------------------------------------------------
(* idxUpdateZettel and idxDeleteZettel, by whoever calls them *)

Become(p, pc) == job' = [job EXCEPT ![p] = [job[p] EXCEPT !.pc = pc]]

(* The caller is through with a zettel when nothing is left to enqueue.     *)
Check(p, S) ==
    job' = [job EXCEPT ![p] = IF S = {} THEN Idle
                              ELSE [Idle EXCEPT !.pc = "enqueue", !.check = S]]

(* What hasZettel says of a reference decides where it is filed.            *)
Filed(zi, ref) ==
    IF ref[2] \notin Present THEN [zi EXCEPT !.dead = @ \union {ref[2]}]
    ELSE IF ref[1] = Body THEN [zi EXCEPT !.back = @ \union {ref[2]}]
    ELSE [zi EXCEPT !.inverse[ref[1]] = @ \union {ref[2]}]

(* One call of hasZettel, in idxProcessData or idxUpdateValue.  The code    *)
(* looks up the references in a fixed order, here any order is possible.    *)
lookupReference(p) ==
    /\ At(p, "lookup")
    /\ \E ref \in job[p].todo :
        job' = [job EXCEPT ![p] =
            [job[p] EXCEPT !.todo = @ \ {ref}, !.zi = Filed(job[p].zi, ref)]]
    /\ UNCHANGED <<storeVars, boxVars, infos, recent, queueVars, ready, boundVars>>

storeIndex(p) ==
    /\ At(p, "lookup")
    /\ job[p].todo = {}
    /\ UpdateReferences(job[p].zid, job[p].zi)
    /\ Check(p, UpdateToCheck(job[p].zid, job[p].zi))
    /\ UNCHANGED <<boxVars, infos, recent, queueVars, ready, boundVars>>

idxDeleteZettel(p) ==
    /\ At(p, "remove")
    /\ DeleteZettel(job[p].zid)
    /\ Check(p, DeleteToCheck(job[p].zid))
    /\ UNCHANGED <<boxVars, infos, recent, queueVars, ready, boundVars>>

(* The identifiers to check are enqueued without a signal in idxReady.      *)
idxCheckZettel(p) ==
    /\ At(p, "enqueue")
    /\ \E z \in job[p].check :
        /\ Queue!Change(z)
        /\ Check(p, job[p].check \ {z})
    /\ UNCHANGED <<storeVars, boxVars, infos, recent, ready, boundVars>>

-----------------------------------------------------------------------------
(* The indexer *)

Dequeue ==
    /\ At(Indexer, "idle")
    /\ \/ Queue!TakeRequest /\ Become(Indexer, "fetch")
       \/ /\ Queue!TakeBacklog \/ Queue!TakeChange
          /\ job' = [job EXCEPT ![Indexer] = [Idle EXCEPT !.pc = "get", !.zid = answer'.zid]]
       \/ Queue!TakeNothing /\ Become(Indexer, "asleep")
    /\ UNCHANGED <<storeVars, boxVars, infos, recent, ready, boundVars>>

(* Mutant: the predefined zettel are not fetched. *)
FetchStoredOnly ==
    /\ At(Indexer, "fetch")
    /\ job' = [job EXCEPT ![Indexer] = [Idle EXCEPT !.pc = "reload", !.check = stored]]
    /\ UNCHANGED <<storeVars, boxVars, infos, recent, queueVars, ready, boundVars>>

FetchZids ==
    /\ At(Indexer, "fetch")
    /\ job' = [job EXCEPT ![Indexer] = [Idle EXCEPT !.pc = "reload", !.check = Present]]
    /\ UNCHANGED <<storeVars, boxVars, infos, recent, queueVars, ready, boundVars>>

(* Mutant: what was requested is requested again by its delivery.           *)
ReloadAgain ==
    /\ At(Indexer, "reload")
    /\ Queue!Deliver(job[Indexer].check)
    /\ job' = [job EXCEPT ![Indexer] = [Idle EXCEPT !.pc = "fetch"]]
    /\ UNCHANGED <<storeVars, boxVars, infos, recent, ready, boundVars>>

Reload ==
    /\ At(Indexer, "reload")
    /\ Queue!Deliver(job[Indexer].check)
    /\ job' = [job EXCEPT ![Indexer] = Idle]
    /\ UNCHANGED <<storeVars, boxVars, infos, recent, ready, boundVars>>

GetZettel ==
    /\ At(Indexer, "get")
    /\ LET z == job[Indexer].zid IN
        job' = [job EXCEPT ![Indexer] =
            IF z \in Present THEN [job[Indexer] EXCEPT !.pc = "lookup", !.todo = text[z]]
            ELSE [job[Indexer] EXCEPT !.pc = "remove"]]
    /\ UNCHANGED <<storeVars, boxVars, infos, recent, queueVars, ready, boundVars>>

(* idxSleepService: woken by the signal, or after 15 seconds. *)
WakeByTimer ==
    /\ At(Indexer, "asleep")
    /\ Become(Indexer, "idle")
    /\ UNCHANGED <<storeVars, boxVars, infos, recent, queueVars, ready, boundVars>>

WakeBySignal ==
    /\ At(Indexer, "asleep")
    /\ ready
    /\ ready' = FALSE
    /\ Become(Indexer, "idle")
    /\ UNCHANGED <<storeVars, boxVars, infos, recent, queueVars, boundVars>>

-----------------------------------------------------------------------------
Index(p) ==
    \/ lookupReference(p)
    \/ storeIndex(p)
    \/ idxDeleteZettel(p)
    \/ idxCheckZettel(p)

idxWorkService == Dequeue \/ FetchZids \/ Reload \/ GetZettel
idxSleepService == WakeByTimer \/ WakeBySignal

Step ==
    \/ \E w \in Writers : CreateZettel(w) \/ UpdateZettel(w) \/ DeleteBoxZettel(w)
    \/ \E u \in Watchers : ExternalChange(u)
    \/ \E p \in Procs : notifyChanged(p) \/ Index(p)
    \/ Refresh
    \/ notifier
    \/ idxWorkService
    \/ idxSleepService

Next == Step /\ UNCHANGED scenario

Spec == Init /\ [][Next]_vars

(* Every goroutine runs; the timer of the indexer fires. *)
FairSpec ==
    /\ Spec
    /\ WF_vars(notifier /\ UNCHANGED scenario)
    /\ WF_vars((idxWorkService \/ Index(Indexer)) /\ UNCHANGED scenario)
    /\ WF_vars(WakeByTimer /\ UNCHANGED scenario)
    /\ \A p \in Writers \union Watchers : WF_vars((notifyChanged(p) \/ Index(p)) /\ UNCHANGED scenario)

-----------------------------------------------------------------------------
(* Nothing is reported, waiting or being worked on. *)
Settled ==
    /\ \A p \in Procs \ {Indexer} : At(p, "idle")
    /\ At(Indexer, "asleep")
    /\ infos = <<>>
    /\ ~request /\ backlog = {} /\ changed = {}

InverseOf(z) == UNION {otherFwd[k][z] : k \in Keys}

(* The index is up to date once everything has been worked on: every zettel *)
(* is indexed, with the references of its present text.  What it referenced *)
(* by a key that no longer occurs may be left (updateMetadataReferences).   *)
ContentIsIndexed ==
    Settled => \A z \in Present :
        /\ z \in indexed
        /\ forward[z] \union deadRefs[z] \subseteq References(z)
        /\ References(z) \subseteq forward[z] \union deadRefs[z] \union InverseOf(z)

(* A zettel that is gone is no longer found, and references nothing; but a  *)
(* memory box leaves an entry of the identifier 0, see CreateZettel.        *)
GoneIsForgotten ==
    Settled => \A z \in (IF InMemory THEN Zettel ELSE Zids) \ Present :
        z \notin indexed /\ forward[z] = {} /\ deadRefs[z] = {} /\ InverseOf(z) = {}

(* Changes come from outside, or from one thread that never uncovers a      *)
(* predefined zettel by a deletion; none comes so fast that its report is   *)
(* ignored.  Two sources may index the same zettel in the wrong order.      *)
InOrder ==
    /\ active \subseteq Watchers \/ (Overlaid = {} /\ \E w \in Writers : active = {w})
    /\ ~quick /\ refreshes = 0

(* Whatever the order in which the box, the channel, the queue and the index*)
(* see a change, in the end the index is that of the present zettel.        *)
IndexFollows == TypeOK /\ (InOrder => ContentIsIndexed /\ GoneIsForgotten)

(* Whatever is referenced as a zettel is one: who references a zettel that  *)
(* is deleted is indexed again.                                             *)
ForwardIsPresent == Settled => \A z \in Zids : forward[z] \subseteq Present

(* "Property that contains all references that does not identify a zettel": *)
(* only a reference by a key may still be taken for one to a zettel, since  *)
(* DeleteZettel does not report who references a zettel by a key.           *)
DeadIsComplete ==
    Settled => \A z \in stored : References(z) \ Present \subseteq deadRefs[z] \union InverseOf(z)

(* Who references a zettel that is deleted is indexed again, so that what   *)
(* is referenced as a zettel is one, and what is not is a dead reference.   *)
ReferrersAreIndexed == InOrder => ForwardIsPresent /\ DeadIsComplete

(* Refresh repairs the index, whatever went wrong before, once everything   *)
(* is stored and reported and the indexer is not just fetching identifiers. *)
CalmRefreshRepairs == asked = "calm" => ContentIsIndexed

(* Whatever happens, the indexer comes to rest when the changes do.         *)
Settles == []<>Settled
=============================================================================
