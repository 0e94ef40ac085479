------------------------------- MODULE DirBox -------------------------------
(***************************************************************************)
(* A directory box, box/dirbox and box/notify.                             *)
(*                                                                         *)
(* The notifier watches the directory and sends events, one at a time and  *)
(* unbuffered, to the directory service, which keeps an entry for each     *)
(* zettel.  A call of the box looks into these entries, and lets a file    *)
(* service read or write the files; all commands for one zettel go to the  *)
(* same file service.  A call waits for a bounded time only, the command   *)
(* it sent is still executed.                                              *)
(*                                                                         *)
(* The content of a file is the number of the call that wrote it, or       *)
(* Foreign, if that was another program.                                   *)
(***************************************************************************)
EXTENDS DirEntry

CONSTANTS
    Zids,           \* identifiers in use
    NewZids,        \* those among them that GetNewZid may return
    ZidName,        \* the file name that is only the identifier
    Kinds,          \* what is stored, see SetupFromMetaContent
    Clients,        \* threads that call the box
    WorkerOf,       \* getFileChan: the file service of an identifier
    Watch,          \* fsdirNotifier, otherwise simpleDirNotifier
    Scenarios       \* what the directory contains at first, and bounds: how
                    \* many changes, calls, ... a behaviour has

Foreign == 0
Budget == [{"outside", "moves", "calls", "refreshes", "timeouts", "failures"} -> Nat]
Workers == {WorkerOf[z] : z \in Zids}
Nobody == "nobody"

ASSUME ZidsAssumption ==
    /\ NewZids \subseteq Zids /\ NoZid \notin Zids
    /\ ZidOf \in [Names -> Zids \union {NoZid}]
ASSUME ClientsAssumption == Nobody \notin Clients
ASSUME KindsAssumption == Kinds \subseteq [ext : STRING, extWithMeta : STRING, full : BOOLEAN]
ASSUME ScenariosAssumption ==
    \A s \in Scenarios : s.files \subseteq Names /\ IsFiniteSet(s.files) /\ s.budget \in Budget

(* The box makes names from others, with the same identifier: the name that *)
(* is only the identifier, a name without its extension, and with another.  *)
IsNameOf(z, name) == name \in Names /\ ZidOf[name] = z
ASSUME FilesAssumption ==
    /\ \A z \in Zids : IsNameOf(z, ZidName[z]) /\ Len(ZidName[z]) = 1
    /\ \A n \in Names : ZidOf[n] \in Zids =>
        LET base == calcBaseName(n, n) IN
        /\ IsNameOf(ZidOf[n], base)
        /\ \A kind \in Kinds : /\ IsNameOf(ZidOf[n], Append(base, kind.ext))
                              /\ IsNameOf(ZidOf[n], Append(base, kind.extWithMeta))

VARIABLES
    disk,       \* files of the directory: what they contain
    dirThere,   \* the directory is where it should be
    osEvents,   \* events of the file system that the notifier has not taken
    notifier,   \* what the notifier does, and the names it has still to list
    state,      \* DirService.state
    known,      \* DirService.entries is not nil
    entries,    \* DirService.entries
    listing,    \* newEntries is not nil
    newEntries,
    notes,      \* reports of the current event, before they are delivered
    call,       \* what each client is doing
    worker,     \* what each file service is doing
    budget,     \* what is left for this behaviour
    unreported, \* history: appeared or vanished since it was last reported
    excused,    \* history: zettel where something went wrong, or foreign
    spoiled     \* history: zettel whose entry may not match, see Lossy

fileVars == <<disk, dirThere, osEvents, spoiled>>
serviceVars == <<state, known, entries, listing, newEntries, notes>>
vars == <<fileVars, notifier, serviceVars, call, worker, budget, unreported, excused>>

NoCall == [pc |-> "idle", op |-> "none", zid |-> NoZid, entry |-> NewEntry, id |-> 0, seen |-> {}]
NoJob == [client |-> Nobody, op |-> "none", entry |-> NewEntry, id |-> 0,
          todo |-> <<>>, ok |-> TRUE, seen |-> {}]

Calls == [pc : {"idle", "enter", "drop", "send", "wait", "notify"},
          op : {"none", "create", "update", "delete", "get"},
          zid : Zids \union {NoZid}, entry : Entry, id : Nat, seen : SUBSET Nat]
Jobs == [client : Clients \union {Nobody}, op : {"none", "create", "update", "delete", "get"},
         entry : Entry, id : Nat, todo : Seq(Names), ok : BOOLEAN, seen : SUBSET Nat]

Events == [op : {"Write", "Remove"}, name : Names]
              \union [op : {"DirRename", "DirCreate"}, name : {NoName}]

IsEntries(f) == DOMAIN f \subseteq Zids /\ \A z \in DOMAIN f : f[z] \in Entry

TypeOK ==
    /\ DOMAIN disk \subseteq Names /\ \A n \in DOMAIN disk : disk[n] \in Nat
    /\ osEvents \in Seq(Events) /\ {dirThere, known, listing} \subseteq BOOLEAN
    /\ notifier.pc \in {"make", "fetch", "error", "list", "loop"} /\ notifier.names \in Seq(Names)
    /\ state \in {"DsStarting", "DsWorking", "DsMissing"}
    /\ IsEntries(entries) /\ IsEntries(newEntries)
    /\ ~known => entries = <<>>
    /\ notes \subseteq (Zids \X {"OnZettel", "OnDelete"})
    /\ call \in [Clients -> Calls] /\ worker \in [Workers -> Jobs]
    /\ unreported \subseteq Zids /\ budget \in Budget

(* What is known to lose files: a metadata file beside one of extension     *)
(* "zettel"; a file with several extensions, which may be taken first for   *)
(* content and then for metadata; a call that changes a zettel whose files  *)
(* the box does not know yet, and meanwhile there is another such call,     *)
(* another program, or no directory; a call that fails half way, or whose   *)
(* client does not wait for the end.                                        *)
Plain(name) == Len(name) = 1 \/ (Len(name) = 2 /\ Ext(name) # "")
Mixed(names) ==
    {ZidOf[n] : n \in {n \in names : Ext(n) = ""}}
        \intersect {ZidOf[n] : n \in {n \in names : Ext(n) = zettel}}
Lossy(names) == Mixed(names) \union {ZidOf[n] : n \in {n \in names : ~Plain(n)}}

(* The box is started with any files of a scenario in its directory. *)
Init ==
    /\ \E scenario \in Scenarios :
        /\ disk = [n \in scenario.files |-> Foreign]
        /\ budget = scenario.budget
    /\ dirThere = TRUE
    /\ osEvents = <<>>
    /\ notifier = [pc |-> "make", names |-> <<>>]
    /\ state = "DsStarting"
    /\ known = FALSE /\ entries = <<>>
    /\ listing = FALSE /\ newEntries = <<>>
    /\ notes = {}
    /\ call = [c \in Clients |-> NoCall]
    /\ worker = [k \in Workers |-> NoJob]
    /\ unreported = {}
    /\ excused = {}
    /\ spoiled = Lossy(DOMAIN disk)

FilesIn(z) == IF dirThere THEN {n \in DOMAIN disk : ZidOf[n] = z} ELSE {}
Changing == {call[c].zid : c \in {c \in Clients : call[c].op \in {"create", "update", "delete"}}}
Spoil(zids) == spoiled' = spoiled \union zids

Spend(what) == budget[what] > 0 /\ budget' = [budget EXCEPT ![what] = @ - 1]
Changed(before, after) ==
    unreported' = unreported \union {z \in Zids : (z \in DOMAIN before) # (z \in DOMAIN after)}

-----------------------------------------------------------------------------
(* The file system and other programs *)

Event(op, name) == IF Watch THEN Append(osEvents, [op |-> op, name |-> name]) ELSE osEvents

Write(name, content) ==
    /\ disk' = With(disk, name, content)
    /\ osEvents' = Event("Write", name)

RemoveFrom(name) ==
    /\ disk' = Without(disk, name)
    /\ osEvents' = Event("Remove", name)

OtherProgram ==
    /\ Spend("outside")
    /\ dirThere
    /\ \E name \in Names :
        /\ \/ Write(name, Foreign)
           \/ name \in DOMAIN disk /\ RemoveFrom(name)
        /\ Spoil(Lossy(DOMAIN disk') \union ({ZidOf[name]} \intersect Changing))
        /\ excused' = excused \union {ZidOf[name]}
    /\ UNCHANGED <<dirThere, notifier, serviceVars, call, worker, unreported>>

(* The directory is moved away, and moved back. *)
MoveDirectory ==
    /\ Spend("moves")
    /\ dirThere' = ~dirThere
    /\ osEvents' = Event(IF dirThere THEN "DirRename" ELSE "DirCreate", NoName)
    /\ Spoil(Changing)
    /\ UNCHANGED <<disk, notifier, serviceVars, call, worker, unreported, excused>>

-----------------------------------------------------------------------------
(* The notifier, and what the service does with its events: handleEvent.    *)
(* The service is ready for an event when all reports are delivered.        *)

Goto(pc, names) == notifier' = [pc |-> pc, names |-> names]
Present(name) == dirThere /\ name \in DOMAIN disk
envVars == <<fileVars, call, worker, excused>>

SendMake ==
    /\ notifier.pc = "make" /\ notes = {}
    /\ listing' = TRUE /\ newEntries' = <<>>
    /\ Goto("fetch", <<>>)
    /\ UNCHANGED <<envVars, state, known, entries, notes, budget, unreported>>

(* The names of the files in alphabetical order. *)
Sorted(names) ==
    [i \in 1 .. Cardinality(names) |->
        CHOOSE n \in names : Cardinality({m \in names : Rank[m] < Rank[n]}) + 1 = i]

Fetch ==
    /\ notifier.pc = "fetch"
    /\ IF dirThere
       THEN Goto("list", Sorted(DOMAIN disk))
       ELSE Goto("error", <<>>)
    /\ UNCHANGED <<envVars, serviceVars, budget, unreported>>

(* Mutant: after an error, the notifier tries again at once. *)
ErrorAgain ==
    /\ notifier.pc = "error" /\ notes = {}
    /\ listing' = FALSE /\ newEntries' = <<>>
    /\ Goto("make", <<>>)
    /\ UNCHANGED <<envVars, state, known, entries, notes, budget, unreported>>

SendError ==
    /\ notifier.pc = "error" /\ notes = {}
    /\ listing' = FALSE /\ newEntries' = <<>>
    /\ Goto("list", <<>>)
    /\ UNCHANGED <<envVars, state, known, entries, notes, budget, unreported>>

SendList ==
    /\ notifier.pc = "list" /\ notifier.names # <<>> /\ notes = {}
    /\ newEntries' = IF listing THEN onUpdateFileEvent(newEntries, Head(notifier.names))
                     ELSE newEntries
    /\ Goto("list", Tail(notifier.names))
    /\ UNCHANGED <<envVars, state, known, entries, listing, notes, budget, unreported>>

onCreateDirectory(before, after) ==
    ((DOMAIN after) \X {"OnZettel"}) \union ((DOMAIN before \ DOMAIN after) \X {"OnDelete"})

(* The last list event: the new entries replace all others. *)
SendEnd ==
    /\ notifier.pc = "list" /\ notifier.names = <<>> /\ notes = {}
    /\ known' = listing /\ entries' = newEntries
    /\ listing' = FALSE /\ newEntries' = <<>>
    /\ state' = "DsWorking"
    /\ notes' = onCreateDirectory(entries, newEntries)
    /\ Changed(entries, newEntries)
    /\ Goto("loop", <<>>)
    /\ UNCHANGED <<envVars, budget>>

(* Refresh waits until the notifier is in its loop. *)
Refresh ==
    /\ Spend("refreshes")
    /\ notifier.pc = "loop"
    /\ Goto("make", <<>>)
    /\ UNCHANGED <<envVars, serviceVars, unreported>>

Handle(after, reports) ==
    /\ entries' = after
    /\ Changed(entries, after)
    /\ notes' = reports
    /\ UNCHANGED <<known, state, listing, newEntries, notifier>>

HandleUpdate(name) ==
    IF known
    THEN Handle(onUpdateFileEvent(entries, name), UpdateReports(entries, name) \X {"OnZettel"})
    ELSE Handle(entries, {})

HandleDelete(name) ==
    IF known
    THEN Handle(onDeleteFileEvent(entries, name), ({ZidOf[name]} \ {NoZid}) \X {"OnDelete"})
    ELSE Handle(entries, {})

onDestroyDirectory ==
    /\ known' = FALSE /\ entries' = <<>>
    /\ state' = "DsMissing"
    /\ listing' = FALSE /\ newEntries' = <<>>
    /\ notes' = (DOMAIN entries) \X {"OnDelete"}
    /\ Changed(entries, <<>>)
    /\ UNCHANGED notifier

processEvent(event) ==
    CASE event.op = "Write" ->
            IF Present(event.name) THEN HandleUpdate(event.name) ELSE Handle(entries, {})
      [] event.op = "Remove" -> HandleDelete(event.name)
      [] event.op = "DirRename" -> onDestroyDirectory
      [] event.op = "DirCreate" ->
            Goto("make", <<>>) /\ UNCHANGED <<serviceVars, unreported>>

readAndProcessEvent ==
    /\ notifier.pc = "loop" /\ notes = {}
    /\ osEvents # <<>>
    /\ osEvents' = Tail(osEvents)
    /\ processEvent(Head(osEvents))
    /\ UNCHANGED <<disk, dirThere, spoiled, call, worker, budget, excused>>

(* notifyChange of the service; the channel is read by the manager. *)
Report ==
    /\ \E note \in notes :
        /\ notes' = notes \ {note}
        /\ unreported' = unreported \ {note[1]}
    /\ UNCHANGED <<envVars, notifier, state, known, entries, listing, newEntries, budget>>

-----------------------------------------------------------------------------
(* Calls of the box.  The manager does not call a box before it has started. *)

(* The box knows the files of the zettel, up to those the call will write.  *)
Knows(op, z, e) ==
    /\ dirThere /\ z \notin Changing
    /\ FilesIn(z) \subseteq FilesOf(e)
    /\ FilesOf(e) \subseteq FilesIn(z) \union (IF op = "delete" THEN {} ELSE {e.meta, e.content})

Become(c, pc) == call' = [call EXCEPT ![c].pc = pc]
Finish(c) == call' = [call EXCEPT ![c] = NoCall]
Begin(c, op, pc, z, e) ==
    /\ call[c].pc = "idle"
    /\ state # "DsStarting"
    /\ Spend("calls")
    /\ call' = [call EXCEPT ![c] =
            [pc |-> pc, op |-> op, zid |-> z, entry |-> e, id |-> budget.calls, seen |-> {}]]
    /\ Spoil(IF op = "get" THEN {}
             ELSE Lossy(FilesOf(e)) \union (IF Knows(op, z, e) THEN {} ELSE {z}))
    /\ UNCHANGED <<disk, dirThere, osEvents, notifier, state, known, listing, newEntries, notes, worker>>

(* SetNewDirEntry reserves the identifier. *)
CreateZettel(c) ==
    /\ known
    /\ \E z \in NewZids \ DOMAIN entries, kind \in Kinds :
        /\ Begin(c, "create", "send", z, SetupFromMetaContent(NewEntry, kind, ZidName[z]))
        /\ entries' = With(entries, z, NewEntry)
        /\ Changed(entries, entries')
        /\ UNCHANGED excused

(* The zettel may be new in this box. *)
UpdateZettel(c) ==
    /\ \E z \in Zids, kind \in Kinds :
        Begin(c, "update", "enter", z,
              SetupFromMetaContent(EntryOf(entries, z), kind, ZidName[z]))
    /\ UNCHANGED <<entries, unreported, excused>>

DeleteZettel(c) ==
    /\ \E z \in DOMAIN entries : Begin(c, "delete", "drop", z, entries[z])
    /\ UNCHANGED <<entries, unreported, excused>>

GetZettel(c) ==
    /\ \E z \in DOMAIN entries : Begin(c, "get", "send", z, entries[z])
    /\ UNCHANGED <<entries, unreported, excused>>

(* UpdateDirEntry: before the files of an update are written, and after     *)
(* those of a new zettel.  UpdateZettel ignores that there is no directory. *)
UpdateDirEntry(c) ==
    /\ call[c].pc = "enter"
    /\ entries' = IF known THEN With(entries, call[c].zid, call[c].entry) ELSE entries
    /\ Changed(entries, entries')
    /\ Become(c, IF call[c].op = "create" THEN "notify" ELSE "send")
    /\ UNCHANGED <<fileVars, notifier, state, known, listing, newEntries, notes, worker,
                   budget, excused>>

DeleteDirEntry(c) ==
    /\ call[c].pc = "drop"
    /\ entries' = Without(entries, call[c].zid)
    /\ Changed(entries, entries')
    /\ IF known THEN Become(c, "send") ELSE Finish(c)
    /\ UNCHANGED <<fileVars, notifier, state, known, listing, newEntries, notes, worker,
                   budget, excused>>

notifyChanged(c) ==
    /\ call[c].pc = "notify"
    /\ unreported' = unreported \ {call[c].zid}
    /\ Finish(c)
    /\ UNCHANGED <<fileVars, notifier, serviceVars, worker, budget, excused>>

(* The result of the file service, or of its timeout.                       *)
Return(c, ok) ==
    IF ok /\ call[c].op = "create" THEN Become(c, "enter")
    ELSE IF call[c].op = "create" \/ (ok /\ call[c].op \in {"update", "delete"})
         THEN Become(c, "notify")
    ELSE Finish(c)

-----------------------------------------------------------------------------
(* The file services *)

Named(name) == IF name = NoName THEN <<>> ELSE <<name>>
Unnamed(e) == e.meta = NoName /\ e.content = NoName

(* The files in the order in which a command touches them. *)
FilesFor(op, e) ==
    IF op = "delete" THEN Named(e.content) \o Named(e.meta) \o e.useless
    ELSE Named(e.meta) \o Named(e.content)

(* Mutant: any file service that is free takes the command. *)
SendToAny(c) ==
    /\ call[c].pc = "send"
    /\ \E k \in Workers :
        /\ worker[k] = NoJob
        /\ worker' = [worker EXCEPT ![k] =
            [client |-> c, op |-> call[c].op, entry |-> call[c].entry, id |-> call[c].id,
             todo |-> FilesFor(call[c].op, call[c].entry),
             ok |-> ~Unnamed(call[c].entry), seen |-> {}]]
    /\ Become(c, "wait")
    /\ UNCHANGED <<fileVars, notifier, serviceVars, budget, unreported, excused>>

(* The channel of a file service is not buffered. *)
Send(c) ==
    /\ call[c].pc = "send"
    /\ worker[WorkerOf[call[c].zid]] = NoJob
    /\ worker' = [worker EXCEPT ![WorkerOf[call[c].zid]] =
            [client |-> c, op |-> call[c].op, entry |-> call[c].entry, id |-> call[c].id,
             todo |-> FilesFor(call[c].op, call[c].entry),
             ok |-> ~Unnamed(call[c].entry), seen |-> {}]]
    /\ Become(c, "wait")
    /\ UNCHANGED <<fileVars, notifier, serviceVars, budget, unreported, excused>>

Done(k, ok, seen, rest) ==
    worker' = [worker EXCEPT ![k].todo = rest, ![k].ok = @ /\ ok, ![k].seen = @ \union seen]

(* fileSetZettel: the metadata file, then the content file. *)
WriteFile(k) ==
    /\ worker[k].todo # <<>> /\ worker[k].op \in {"create", "update"}
    /\ IF dirThere
       THEN /\ Write(Head(worker[k].todo), worker[k].id)
            /\ Spoil(Lossy(DOMAIN disk'))
            /\ Done(k, TRUE, {}, Tail(worker[k].todo))
            /\ UNCHANGED excused
       ELSE /\ Done(k, FALSE, {}, <<>>)
            /\ excused' = excused \union {ZidOf[Head(worker[k].todo)]}
            /\ UNCHANGED <<disk, osEvents, spoiled>>
    /\ UNCHANGED <<dirThere, notifier, serviceVars, call, budget, unreported>>

(* Writing fails, e.g. because the disk is full. *)
WriteFails(k) ==
    /\ worker[k].todo # <<>> /\ worker[k].op \in {"create", "update"}
    /\ Spend("failures")
    /\ Done(k, FALSE, {}, <<>>)
    /\ excused' = excused \union {ZidOf[Head(worker[k].todo)]}
    /\ Spoil({ZidOf[Head(worker[k].todo)]})
    /\ UNCHANGED <<disk, dirThere, osEvents, notifier, serviceVars, call, unreported>>

(* fileGetMetaContent: both are read, even if the first cannot be read. *)
ReadFile(k) ==
    /\ worker[k].todo # <<>> /\ worker[k].op = "get"
    /\ LET name == Head(worker[k].todo)
       IN  Done(k, Present(name), IF Present(name) THEN {disk[name]} ELSE {}, Tail(worker[k].todo))
    /\ UNCHANGED <<fileVars, notifier, serviceVars, call, budget, unreported, excused>>

(* fileDeleteZettel: a file that is missing does not keep the others. *)
RemoveFile(k) ==
    /\ worker[k].todo # <<>> /\ worker[k].op = "delete"
    /\ LET name == Head(worker[k].todo)
       IN  /\ Done(k, Present(name), {}, Tail(worker[k].todo))
           /\ IF Present(name) THEN RemoveFrom(name) ELSE UNCHANGED <<disk, osEvents>>
    /\ UNCHANGED <<dirThere, spoiled, notifier, serviceVars, call, budget, unreported, excused>>

(* The command has been executed; the client may have gone. *)
Answer(k) ==
    /\ worker[k] # NoJob /\ worker[k].todo = <<>>
    /\ worker' = [worker EXCEPT ![k] = NoJob]
    /\ LET c == worker[k].client
       IN  IF c = Nobody THEN UNCHANGED call
           ELSE IF call[c].op = "get" /\ worker[k].ok
                THEN call' = [call EXCEPT ![c] =
                        [NoCall EXCEPT !.op = "get", !.zid = call[c].zid, !.seen = worker[k].seen]]
                ELSE Return(c, worker[k].ok)
    /\ UNCHANGED <<fileVars, notifier, serviceVars, budget, unreported, excused>>

(* serviceTimeout: the client goes on with an error. *)
Timeout(c) ==
    /\ call[c].pc = "wait"
    /\ Spend("timeouts")
    /\ worker' = [k \in Workers |->
            IF worker[k].client = c THEN [worker[k] EXCEPT !.client = Nobody] ELSE worker[k]]
    /\ Return(c, FALSE)
    /\ Spoil(IF call[c].op = "get" THEN {} ELSE {call[c].zid})
    /\ UNCHANGED <<disk, dirThere, osEvents, notifier, serviceVars, unreported, excused>>

-----------------------------------------------------------------------------
Notifier == SendMake \/ Fetch \/ SendError \/ SendList \/ SendEnd \/ readAndProcessEvent

Call(c) ==
    \/ CreateZettel(c)
    \/ UpdateZettel(c)
    \/ DeleteZettel(c)
    \/ GetZettel(c)

Proceed(c) == UpdateDirEntry(c) \/ DeleteDirEntry(c) \/ notifyChanged(c) \/ Send(c)
Work(k) == WriteFile(k) \/ ReadFile(k) \/ RemoveFile(k) \/ Answer(k)

Next ==
    \/ OtherProgram
    \/ MoveDirectory
    \/ Notifier
    \/ Report
    \/ Refresh
    \/ \E c \in Clients : Call(c) \/ Proceed(c) \/ Timeout(c)
    \/ \E k \in Workers : Work(k) \/ WriteFails(k)

Spec == Init /\ [][Next]_vars

(* The goroutines of notifier, service, file services and clients run. *)
FairSpec ==
    /\ Spec
    /\ WF_vars(Notifier) /\ WF_vars(Report)
    /\ \A c \in Clients : SF_vars(Proceed(c))
    /\ \A k \in Workers : WF_vars(Work(k))

-----------------------------------------------------------------------------
Settled ==
    /\ notifier.pc = "loop" /\ osEvents = <<>> /\ notes = {}
    /\ \A c \in Clients : call[c].pc = "idle"
    /\ \A k \in Workers : worker[k] = NoJob

(* Once all events are handled, the entries know all files, and no others:  *)
(* a file that lost its place to a better one is found again when that one  *)
(* vanishes.                                                                *)
EntriesMatchDisk == Settled => \A z \in Zids \ spoiled : FilesIn(z) = FilesOf(EntryOf(entries, z))

(* What appears in the directory or vanishes from it is reported.           *)
PresenceIsReported == Settled => unreported \subseteq spoiled

(* The box shows the directory, and reports what changes there.             *)
BoxFollowsDisk == TypeOK /\ EntriesMatchDisk /\ PresenceIsReported

(* Metadata and content that are read together were written together,      *)
(* whatever calls, events and scans were between the look at the entries    *)
(* and the reading; unless another program wrote one of them.               *)
ReadsAreWhole ==
    \A c \in Clients :
        call[c].zid \notin excused \union spoiled => Cardinality(call[c].seen) <= 1

(* "an empty directory entry with an unused identifier" (SetNewDirEntry):   *)
(* no two calls create the same zettel.                                     *)
CreatesAreDistinct ==
    \A c, d \in Clients :
        c # d /\ call[c].pc # "idle" /\ call[d].pc # "idle"
              /\ call[c].op = "create" /\ call[d].op = "create"
            => call[c].zid # call[d].zid

(* Whatever happens, the box comes to rest: every call ends.                *)
Settles == <>[]Settled
=============================================================================
