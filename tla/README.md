# Zettelstore: specifications

TLA+ specifications of Zettelstore: how changes of zettel reach the index, how directories,
services, requests and caches behave when several goroutines work on them, and what the algorithms
on queries, Zettelmarkup, transclusion and sets of identifiers compute. TLC checks them on small
instances; TLAPS proves the most important invariants for every instance.

Check a module with `tlc -config Indexer.cfg MCIndexer.tla`, prove one with
`tlapm AnteroomProofs.tla`. `PROJECT.json` lists components, runs, hazards and,
for each definition, the lines of source it stands for.

## The system

A *box* stores zettel: a directory of files, a zip file, memory, constants that are
part of the program, or zettel that are computed. The *manager* chains the
configured boxes; the first one can be written, and a zettel in it hides zettel of
the same identifier in later boxes. Everything else (use cases, web server,
adapters) calls the manager, and a policy decorates it with access checks. The
*kernel* starts, stops and configures the services.

| Part | State | Operations | Talks to |
|------|-------|-----------|----------|
| Manager, `box/manager/box.go`, `manager.go` | boxes, start state, observers, channel `infos`, locks `mgrMx`, `stateMx`, `mappingMx` | create, get, update, delete, select, refresh, reindex, start, stop | boxes (calls), index (calls), mapper (calls) |
| Notifier, `manager.go` | destutter cache | takes reports from `infos` | index queue (calls), mapper, observers (callbacks) |
| Index queue, `anteroom.go` | list of rooms with identifiers | enqueue, reset, reload, dequeue | |
| Indexer, `indexer.go` | the zettel it works on, `idxReady`, a timer | index one zettel after the other | queue, boxes, index |
| Index, `mapstore/mapstore.go` | references in both directions, dead references, words | update, delete, search, enrich | returns zettel to be checked |
| Identifier mapping, `zidmapper.go` | old → new numbers, counters | number, delete, read, parse | mapping zettel in the first box |
| Directory service, `box/notify` | map of directory entries, its state | file events, requests, rescans | file system, `infos` |
| Directory box, `box/dirbox` | file workers | box operations | directory service, files, `infos` |
| Memory box, `box/membox` | zettel, bytes used | box operations | `infos` |
| Kernel, `kernel/impl` | services, next and current configuration | start, restart, stop, configure | services, configuration zettel |
| Log store, `kernel/impl/log.go` | ring of messages | write, read | |
| Policy, `auth/policy`; tokens, `auth/impl` | none | decisions, log in, renew | configuration, boxes |
| Queries, `query`, `usecase/query.go` | the search of one query | parse, print, select, sort, cut, follow directives | index, boxes |
| Zettelmarkup, `parser`, `encoder`, `ast` | a syntax tree | parse, post-process, clean, write | |
| Metadata and files, `zettel/meta` | metadata | parse, write, take from forms | files |
| Evaluation, `evaluator` | count, costs, memo | transclude, embed, lists | boxes |
| Web interface, `web/adapter/webui` | caches of templates and code | render, observe | boxes, manager (callback) |
| Sets and graphs of identifiers, `zettel/id` | sorted sequences, adjacency | union, intersection, difference, closure | |

What is hard about it:

* A change arrives twice: the API call updates the index itself, and the box reports
  the change, so that the indexer does it again. The two are not ordered. Changes of
  files from outside arrive only as reports.
* The indexer asks whether referenced zettel exist *before* it updates the index; the
  index returns zettel whose references may be wrong now, and they are queued again.
* A reload (after start and refresh) takes two steps, and changes arrive in between.
* Reports are dropped when they repeat within 500 ms.
* The entries of a directory are changed by file events, by box calls and by scans that replace all of them,
  while the files are written by other goroutines, whose answer may come too late.
* The mapping has two activities at once, and must survive a restart through the text of a zettel.
* Services are started, restarted, stopped and configured from several sessions, and the
  configuration zettel overrides values at any time.
* The policy is asked about what was read, and the box changes what is there.
* The web interface loads code and templates while they are changed.
* Queries ask the index first to have less to look at, sets are merged in place, iteration over a map has any order.
* What is written as Zettelmarkup or into files must be read as what it was.
* The channel of reports is bounded, and the locks of the manager are held while boxes report.

`hazards` in `PROJECT.json` lists the most important cases of these with their lines, and the property that would
catch each of them, or why there is none.

## Modules

| Module | Models | State ↔ code |
|--------|--------|--------------|
| `IndexWork` | what the queue promises the indexer | a request for everything, a backlog from the last reload, a set of changed zettel; no code of its own |
| `Anteroom` | `anteroom.go` | `rooms` is the linked list from `first` to `last`; a room has `waiting`, `curLoad`, `reload`; `fetching` says that the indexer is between `arReload` and `Reload` |
| `MapStore` | `mapstore.go`, `store/` | the fields of `zettelData` as functions on identifiers, empty where there is no entry; `deadIn` is `ms.dead`, `wordIn` is `ms.words` and `ms.urls` |
| `MapStoreCalls` | every sequence of calls of `store.Store` | adds what the caller gave (`given`) and was told to check (`pending`) |
| `Indexer` | `indexer.go`, the notifier, create/update/delete/refresh of the manager | composes `MapStore` and `IndexWork`; `job` is where each goroutine is; `infos`, `recent`, `ready` are the channel, the destutter cache and `idxReady`; `active` are the goroutines that change zettel in a behaviour |
| `ZidMapper` | `zidmapper.go`, `createMapping`, `deleteMapping`, `setupIdentifierMapping` | `toNew`, the three counters, `stored` (text of the mapping zettel), `op` (who holds `mappingMx`), `fetch` (`FetchAsBytes`) |
| `DirEntry` | `box/notify/entry.go`, the choice among duplicate files in `directory.go` | an entry is the fields of `DirEntry` and the useless files; a file name is its base and its extensions |
| `DirBox` | `box/notify`, `box/dirbox` | `entries`, `newEntries`, `dsState` of the service; `notifier` is where it is, `osEvents` what the system tells it; `call` is each client, `worker` each file service; `disk` the files |
| `Kernel` | `kernel/impl` | `next`, `cur`, `started` per service; `todo` is what each thread still has to do in `doStartService`, `doRestartService`, `doStopService`; `updates` are the goroutines of `observe` |
| `Policy` | `auth/policy` | decisions as operators on the keys that the policies look at |
| `Requests` | `auth/impl`, `auth/policy/box.go`, the login and the create, get, update, delete and select use cases | `store` is the box, `tokens` those that were handed out, `request` each client's step |
| `IdSet`, `Digraph` | `zettel/id/set.go`, `digraph.go` | a set is nil or a sequence; a loop over sequences is its round, applied as often as the sequences are long; a graph maps a vertex to its successors; what the loops over a stack compute is the least closed set of vertices |
| `QueryText` | parser and printer of `query` | a query as a record; a text is a sequence of words |
| `QuerySelect`, `QueryResult` | `select.go`, `retrieve.go`, what the indexer collects; `compiled.go`, `sorter.go`, `SelectMeta` | operators that return the set of possible results |
| `QueryRun` | `usecase/query.go`, `context.go`, `unlinked.go`, `collect` | `list`, `rest` of the directives, `queue`, `seen`, `costs` and `tagZids` of `contextTask`; one read of a zettel is one step |
| `ZmkParser`, `ZmkBlocks`, `ZmkTree`, `ZmkEncode`, `Cleaner` | `parser/zettelmark`, the post-processor, `encoder/zmkenc`, `encoder/textenc`, `parser/cleaner` | one EXTENDS the other; a node is a record with its kind, inline elements and blocks |
| `ZettelFile` | `zettel/meta`, `webui/forms.go`, `api/request.go`, the file formats of `dirbox/service.go` | metadata as a function of keys, texts as sequences of characters |
| `Evaluator`, `ListAction` | `evaluator/evaluator.go`; `evaluator/list.go`, `api/query.go`, `webui/lists.go` | the evaluator's fields are a record that each operator returns with its result |
| `WebCache` | `webui.go`, `sxn_code.go`, `template.go` | `templateCache`, `binding`, `dag`, `mxZettelBinding`; `request` is each request's step; `infos`, `recent` the manager's notifier |
| `MC…` | instances for TLC; for the algorithms also the questions and the properties | |
| `…Proofs` | theorems about the module they are named after; `MapStoreProofs` also has those about `IdSet`, whose sets the index is made of, and says what the operations of the index keep and change, for `IndexerProofs` | |

One action is one critical section of the code, or one call of another component.
`EnqueueZettel`, `Reset`, `Reload`, `Dequeue` hold the mutex of the queue, so each is
an action. `UpdateReferences` and `DeleteZettel` hold that of the index. Indexing one
zettel is several actions: reading it, one question per reference, the update, and
one `EnqueueZettel` for each zettel to be checked; and all of these interleave with
every other goroutine. A call of the directory box is several actions, too: the entry, the command to
a file service, each file that service touches, the answer, the report.

`Indexer` uses the queue as `IndexWork`, not as `Anteroom`. This is justified by
`ImplementsIndexWork`, which TLC checks and `ImplementsIndexWorkSpec` proves.

The algorithms on texts, queries, trees and sets work on one value, sequentially; they are operators.
Their MC module chooses a question in `Init`, answers it in one step, and compares the answer
with a definition of its own: what the documentation says, or what the reverse algorithm makes of it.
Where Go leaves a choice (the order of a map, a random number) the operator returns all possible results.

Definitions whose comment says "Mutant" are not part of a specification: each one is
a plausible mistake in the definition that follows it. Replacing that definition by it must
violate the property named in `PROJECT.json`; this shows that the property says something
about the code.

Abstractions:

* A zettel is its set of references (`Indexer`), what was found in it (`MapStore`), who wrote it (`DirBox`),
  the keys the policy reads (`Requests`), a version and its precursors (`WebCache`). URLs are
  indexed like words. Metadata copies and statistics in the index are left out.
* The boxes of `Indexer` are one writable box and the predefined zettel behind it, and an
  operation on a box is atomic there; `DirBox` shows it step by step.
* The references of a zettel are looked up in any order (in the code in a fixed one).
* The destutter cache has no clock: a repeated report *may* be dropped, if `quick`; if not
  `quick`, changes are assumed to be more than 500 ms apart.
* New identifiers of zettel (`ZidMapper`) are numbers; the mapping zettel says what the mapper wrote; `zm.toOld` is not modelled, it is written
  together with `toNew` and never read there.
* Texts are sequences of characters from small alphabets, in which letters stand for words.
* Costs in `QueryRun` are counted in tenths, and the logarithm is rounded.
* Signatures, hashes and HTTP are left out: a token is what it says, and cannot be forged.

## Runs

| Run | Question | Instance |
|-----|----------|----------|
| `anteroom` | Are the rooms well-formed, do they implement `IndexWork`, does nothing wait forever? | 4 zettel, one of them never indexed, rooms of 2: three rooms are needed, one can be full, one reload room in front |
| `mapstore` | Do both ends of every reference agree, does the store say what it was given, are stale lists reported, whatever is called? | 2 zettel, one inverse key, one word, all sets of references: all histories, since the state is finite |
| `zidmapper` | Are numbers unique and kept, and those of the manual its own? | 2 predefined (one is in no box at first), 2 manual, 2 other zettel; 4 choices of zettel that may appear, restarted at any time but for the largest; 2 numbers for the manual, of which 3 may be drawn |
| `indexer` | Does the index follow the boxes, are referrers indexed again, does a refresh repair the index, does it come to rest? | 3 zettel, one predefined, a channel of 1; an API client or another program makes 2 changes, or both do, with 1 refresh |
| `dirbox` | Do the entries follow the files, is what is read together what was written together, does it come to rest? | 2 zettel with 4 file names each, 2 clients, 10 kinds of scenario with up to 4 disturbances: changes by others, a directory that comes and goes, two calls at once and during scans, lost answers, failed writes |
| `dirbox_rescan` | Do calls that create zettel get different identifiers? (no) | two calls, one refresh, an empty directory |
| `kernel` | Do services run in order, with the configuration shown, until the program ends? | 5 services, 1 session with 2 commands, 1 change of the configuration zettel, 1 failed start, 2 owners, 2 box URIs |
| `requests` | Do policy and tokens keep what they promise when requests interleave? | 2 clients, 3 zettel, 2 identifications, 3 configurations; either 2 log-ins and 2 requests, or 1 of each with 2 renewals over 3 units of time |
| `webcache` | Are caches current, do requests and reports end? | 2 requests, which make a page that reports an error if need be, 6 zettel, 2 changes |
| `query` | Do printing, selecting, sorting and cutting, set operations and directives compute what they should? | texts of 3 words, 2 search values, 3 zettel to select from; 6 zettel to follow, one may vanish |
| `query_unlinked` | Does `UNLINKED PHRASE` find a phrase of two words in a text? (no) | as `query`, nothing vanishes |
| `documents` | Is what is written read as the same, are trees clean, are zettel stored as they are; is everything expanded, are cycles reported, does the limit hold, do lists show all? | all texts of up to 4 pieces of an alphabet for each kind of element, metadata of up to 3 lines (`MCMarkup`); 3 zettel, 2 elements in the first one, limits 0, 1 and 9, lists of up to 3 zettel, 2 or 3 actions (`MCEvaluator`) |

Why the bounds are enough: every case that the comments of the code and the hazards speak of happens within them.
Two changes give create/delete, update/update, and a change of a referenced and a
referring zettel; the initial states are all contents of the box, so that a change may hit any
situation. The channel of 1 is full often. Two clients of the directory box can create, delete and write the same zettel at
the same time; each scenario combines two kinds of disturbance. Rooms of 2 are filled by 3 zettel. The graph of the
web interface has a cycle, a zettel needed twice, and one that does not exist. Bounds of the modules (`MaxChanges`,
`Budgets`, `MaxCommands`, …) count what the environment does and never cut a reaction of the code short.

Several properties are conjunctions of named parts; the comments of the parts say what each of them means. `Settled` (`Indexer`, `DirBox`) and
`Calm` (`WebCache`) is the moment when nothing is left to do: before that the index cannot follow the boxes. `Settles`
and `IsAnswered` say that this moment comes.

Some properties except what the code is known not to do. `DirBox.spoiled` collects the zettel whose entry and files
may go different ways: a call changes a zettel whose entry does not show its files at that moment (during a scan, while events
are pending), and so does one that begins while another has not ended; another program, or a directory that comes and goes, interferes with a
call; a write fails, an answer is lost; a file `Z` without extension lies beside `Z.zettel`, or a file has several extensions
(`Lossy`). `excused` are those that another program wrote, or whose files could not be written at the
time. `WebCache.ignored` are reports dropped within 500 ms, `late` templates stored after a report
had overtaken them, `missed` precursors that did not exist when the code was loaded (they count if they exist now). `Serial` and `Overlap` in `Kernel` exclude
commands that run at once, and configuration updates that overtake each other. In the exceptions of `ReadsBack`, `SearchIsExact`, `MetadataIsEnough` and
`TextIsKept` the code does not do what one would expect; see below.

Fairness is what a Go scheduler and the timer give: a goroutine that can run does so
(weak fairness for notifier, indexer, services, workers, and for the rest of an operation that has begun); the
timer of the indexer fires; a command sent to a file service is taken in the end, and who waits for
`mxZettelBinding` gets it (strong fairness: Go's channels and mutexes serve those who wait longest first). Nobody is obliged to change a zettel, call
`Refresh`, type a command or send a request. In `Anteroom` the indexer goes on to dequeue, and `FetchZids` returns.

`CHECK_DEADLOCK` is off where a behaviour ends: the budget of the environment is used up and everything is at rest
(`dirbox`, `dirbox_rescan`, `requests`), the program has exited (`kernel`), the question is answered (`query`, `query_unlinked`,
`documents`). It is on elsewhere, where the code must always be able to go on.

## What the runs show

The passing runs hold with the exceptions named above. Two runs show a disagreement.

* `query_unlinked`: `checkWords` skips a list of inline elements that has less than `2*len(words)-1` elements, as if there were a node
  between two words; the parser makes one text of adjacent words, so that a paragraph that is one text is never searched for a phrase of
  two or more words. The manual says that it finds all zettel that contain the phrase (`00001007721200`).
* `dirbox_rescan`: `CreateZettel` reserves an identifier by an empty entry ("an unused identifier", `SetNewDirEntry`). When a scan of the directory ends,
  its entries replace all others (`handleEvent`), also the reserved one, if its files were not there when the directory was read. A second
  `CreateZettel` in the same minute gets the same identifier, and overwrites the files of the first.

The modules show more that is not among the runs, with other constants or without an exception. About the index and the mapping:

* `ContentIsIndexed` fails with two API clients (`Writers = {w, v}`, two changes): index updates of one
  zettel may be applied in the wrong order.
* It fails with `quick` and one watcher, two changes: a report is dropped although the
  one it repeats was already worked on.
* It fails with `Overlaid = Base` and one change: deleting the changed version of a predefined
  zettel removes the index data of the original one, if the indexer was faster.
* An existing zettel is shown as dead with one watcher and three changes: it appears, disappears, and
  appears again before its referrer is indexed.
* `DeadIsComplete` excepts references by a key: who names a deleted zettel as precursor is not checked, and the
  reference is still taken for one to a zettel (`Keys = {folge}`).
* `GoneIsForgotten` fails with one client and a refresh: `Reset` drops the reported deletion of a zettel that
  the indexer stores after it was deleted, and a reload looks only at zettel that exist.
* A refresh that comes between `FetchZids` and `Reload` is lost.
* A precursor that is removed and added again is missing in `folge` of the other zettel.
* `CreateZettel` with a memory box indexes identifier 0.
* A zettel that references itself and has no entry loses the backward end of that reference: `getOrCreateEntry` makes an entry for it, which
  `UpdateReferences` then replaces by its own (`Replaced`). The manual says of `backward` that all zettel that reference the zettel are in it
  (`00001006020000`). `BothEndsAgree` excepts references of a zettel to itself; all others have both ends.
* With a manual, a restart does not restore counter and flag of manual numbers: numbers of the manual are given twice, and only these (`Injective`). The mapping zettel is not
  written at start, because the manager refuses its own update.
* `FetchAsBytes` removes the number of a predefined zettel that is in no box, which the first fetch finds at every start. If it is stored later (the default home
  zettel, for instance) it gets an ordinary number. `PredefinedKept` says what is left: the predefined number is nobody else's, and what is part of the program keeps its own.
* Nothing stops the counter of manual numbers at `00zw`: it runs into the predefined numbers behind it, and then into the ordinary ones. `overrun` says that this happened;
  the properties speak of the time before.

About the directory: an update of an entry during a scan, or while the directory is missing, is lost; a metadata file named by the identifier alone is mixed up with `Z.zettel`; a listing with metadata
fails while an entry is reserved that has no files; a failed update leaves its entry and is not reported.

About the kernel: two sessions, or a session and the shutdown, start and stop services at once (`cmd.go` does not take `kern.mx`);
`doUpdate` fails when the configuration service was stopped meanwhile; two updates of the configuration may be applied in the wrong order; an
invalid `box-uri-n` has removed the later ones; a value set between `Start` and `SwitchNextToCur` is shown but not used.

About queries: `!word` alone finds nothing if no zettel has the word; a search that is part of another one may suppress it although they are negated or
have different operators; values without letters or digits, short timestamps, less and greater are lost when the index is asked; the printed form drops an operator
or looks like a directive for some values. A subordinate or superior zettel costs 1.5 in a context, and 1.2 in the manual; several common tags
make it cheaper; of several zettel a context starts with, only what the first one reaches is exempt from the maximum cost, while the manual exempts what any
of them reaches directly (`00001007720300`). `ContextIsCheapest` takes the costs of the code, and demands a list between the two readings of that exemption. `UNLINKED`
leaves out zettel that reference the given one, as the manual says (`00001007721200`), and also those the given one references; `UnlinkedIsUnlinked` demands the former only.

About Zettelmarkup: `[[`, `{{`, `--`, `|` and `%%` in a text are not escaped when it is written, and
blank texts at the limit of 50 nested blocks repeat without end; the cleaner does not look into headings and marks. The parser of
the model agrees with all 395 cases of `zettelmark_test.go` that do not need entities.

About evaluation: the count of transclusions is reset after each newly evaluated zettel, so that `max-transclusions` bounds what is put in
for each zettel and not for the page (`LimitHolds`); an action that begins with `N` is taken for `NUMBERED`, and of several REINDEX
actions only the first one is removed. A cycle is reported in the tree of a zettel on its way, and in the page if it is one of transclusions; of a zettel that is embedded
only the text that was searched for is shown, so that the report may not be seen.

About requests: a session cookie is accepted for every route, also when a token for the API is renewed. The token of a young web session is then returned as a
token for the API, with the time it has left, but is not accepted as one (`RenewalHolds` demands an API token only for an API token).

About the web interface: a zettel that did not exist when the code needed it is not loaded when it appears, since it is no vertex of `dag`; the
precursors of the base and the prelude code are followed only if the start code needs these by its own precursors (`AllNeeded`).

## Proofs

| Theorem | Says | Argument |
|---------|------|----------|
| `RoomsStaySound` (`AnteroomProofs`) | `RoomsAreSound`: type correctness, `NoEmptyRoom`, `ReloadIsFirst`, `WaitsOnce`, `LoadIsBound` | the first four together are inductive: `EnqueueZettel` needs `ReloadIsFirst` to know that the last room is the place to look at, `Reload` to know that nothing of an older reload is left; `LoadIsBound` follows with one lemma for what a filled and a popped room hold |
| `ImplementsIndexWorkSpec` (`AnteroomProofs`) | every operation on the rooms is the operation of `IndexWork` on three sets | `ReloadIsFirst` makes the backlog the first room, `WaitsOnce` makes a popped identifier vanish from the set of changes, `NoEmptyRoom` makes no rooms mean no work |
| `IndexIsConsistent` (`MapStoreProofs`) | `BothEndsAgree`: links between two zettel at both ends, words exact, no references of zettel that are gone | the groups of variables of links, words, dead and inverse references are independent; one lemma per group and operation, all based on what `Refiled` does at one point |
| `StoreStaysAsGiven` (`MapStoreProofs`) | `StoreIsAsGiven`: the index holds what the last update of a zettel gave it, or the zettel is returned for a check | inductive together with `StoreInv`, the invariant of `IndexIsConsistent`: a deletion changes the references of the zettel that link to the deleted one only, and each of these has an entry (`AbsentIsEmpty`), hence is returned |
| `UnindexedStayReported` (`MapStoreProofs`) | `UnindexedAreReported`: a referenced zettel that was never indexed is returned when its entry is made | only an update makes entries: for the zettel itself, which is indexed then, and for those it references and did not before, which it returns |
| `SetsComputeSets` (`MapStoreProofs`) | what `SetsAreSets` checks on short slices: the operations of `id.Set` leave sorted slices with the elements of union, intersection and difference, for slices of any length | one invariant for each loop, shown by the least round that would break it (see below) |
| `NumbersStayUnique` (`ZidMapperProofs`) | `NumbersAreUnique`, also after restarts: a number means one zettel, but for those of the manual after a restart; predefined numbers are nobody else's, and zettel of the program keep theirs | every given number is below its counter and not a predefined one of another zettel; the counter goes back only over the last number, which nobody has any more. The stored numbers are unique in the same sense, and below the counter that `parseAndUpdate` makes of them, even if they are older than the last ones given |
| `ManualNumbersStay` (`ZidMapperProofs`) | `ManualNumbers`: only zettel of the manual have its numbers, also after restarts with what the mapper stored | the set of numbers that a zettel may ever get is fixed by its kind; what is stored is a part of what was given, so that parsing it keeps this |
| `NumbersAreKept` (`ZidMapperProofs`) | `KeepsNumber`: no step but a restart changes a number | `GetZidN` looks again when it holds the lock; nothing else overwrites a number |
| `RolesStayGranted` (`RequestsProofs`) | `RolesAreGranted`: only an owner makes users or changes what they are | the invariant says in addition that an update that was permitted, and is not yet stored, writes user data that are granted; `granted` only grows, so that this remains true whatever other requests do between the check and the update |
| `AnswersStayPermitted` (`RequestsProofs`) | `AnswersArePermitted` | each answer is added by a step whose guard asks the policy; one lemma shows what reading implies, and the configuration does not change |
| `RightsStayOrdered` (`RequestsProofs`) | `RightsAreOrdered` for all users, zettel and configurations | lemmas about the decisions: writing needs reading, deleting needs writing, a higher role keeps both, and creating, too, except that a reader may not create, while a creator, who is below, may |
| `RenewalsStayTrue` (`RequestsProofs`) | `RenewalHolds`: a renewed token lives as long as the client was told, and is one for the API if one was sent | a token expires its kind's lifetime after it was issued, for every token ever handed out; the rest is arithmetic of quarters |
| `ServicesStayOrdered` (`KernelProofs`) | `ServicesAreOrdered`: a service runs only if all it depends on do | the list of what a command still has to do is `Workable`: after each of its steps the running services are closed under dependencies. One lemma on each way to make such a list (start, restart, stop), from lemmas on sorted lists of services |
| `ConfigTakesEffect` (`KernelProofs`) | `ConfigIsEffective`: managers and site use the values that are shown | a manager has the values of `InEffect`: the next ones between `Start` and `SwitchNextToCur`, the current ones otherwise. A running service is switched before the next step of any list (`SwitchesStarted`) |
| `OwnerIsKept` (`KernelProofs`) | `OwnerAndModeStay`: an owner is not replaced, read-only mode is not left | the owner in effect is the one given first, since `SetOwner` refuses another one |
| `IndexIsFollowed` (`IndexerProofs`) | `IndexFollows`: when all work is done, the index is that of the present zettel | see below |
| `ReferrersStayIndexed` (`IndexerProofs`) | `ReferrersAreIndexed`: what is referenced exists, what does not exist is a dead reference | see below |
| `RefreshRepairs` (`IndexerProofs`) | `CalmRefreshRepairs`: a refresh in a calm moment repairs the index, whatever went wrong before | the reload is still to come, or every present zettel is followed; there is no other condition: two writers, watchers and dropped reports are allowed before |
| `IndexAgrees` (`IndexerProofs`) | `BothEndsAgree` and `AbsentIsEmpty` hold under any interleaving of updates | `StoreOK` of `MapStoreProofs` is kept by each call of the index |
| `BoxIsFollowed` (`DirBoxProofs`) | `BoxFollowsDisk`: when all is done, the entries know just the files there are, and what appeared or vanished was reported | see below |
| `TemplatesStayCurrent` (`WebCacheProofs`) | `TemplateIsCurrent`: when nothing is left to do, a cached template is the present one | a version in the cache, or one that a request compiles, is the present one, or a report that will drop it is still to be observed, or it is one of the two exceptions (`ignored`, `late`) |
| `CodeStaysCurrent` (`WebCacheProofs`) | `CodeIsCurrent`: when nothing is left to do, the code that is kept is what would be loaded now, each zettel once and after all it needs | see below |

The proof about the indexer. A zettel is *followed* when the index is right for it, a goroutine is about to update its
index, or it is *pending*: reported, queued, to be checked, or just taken from the queue, so that it will be read again. The invariant
`IndexInv` says that every zettel is followed, or all of them will be requested by a reload. Three facts keep it. The
goroutine that changed a zettel has read what it has written, because it is the only one that writes, and updates the index after it has reported. The
indexer may have read the zettel before it was changed, and store what is no longer right; but then it is pending, because whoever
changed it has still to report it, or has reported it. A zettel whose references are taken away by a deletion is returned by the index and stays in `check` until
it is queued. When nothing is left to do nothing is pending, so that the index is right. The second invariant, `ReferenceInv`, is about
what is gone: it is referenced nowhere, pending, or just being removed from the index. What a writer has found stays present until it
has stored it; what the indexer has found may be deleted meanwhile, but then is pending.

The hypothesis of both is `InOrder`: all changes come from outside, or from one API goroutine that never uncovers a predefined
zettel; reports are not dropped. "What the runs show" says how the index goes wrong without each of these. It is a condition on
the behaviour, not an assumption about constants: `active`, `quick` are variables, and the run has behaviours of all kinds.

The proof about the code of the web interface. A zettel is *stale* when a report of its change is not delivered, or was ignored. The
invariant `CodeInv` says of a graph under construction that everything in it is reached from the start zettel, and that the edges of each
zettel that was worked on are its present precursors, but for those that were missed, or it is stale; what was not worked on is on the
stack. So a graph that is finished, and has no stale zettel, holds exactly the zettel that are closed under precursors from the start
zettel on (`BoundIsCurrent`). The mutex keeps `observeCode` away from a load, so that a zettel read by it cannot cease to be stale before
the code is bound; afterwards it is part of `dag`, and its report drops the code. The order comes from lemmas about
`Digraph`: in a graph without cycles each round of `SortReverse` takes at least one vertex (`AcyclicIsTaken`, by the least number of reachable
vertices), so that all of them have a place, and what a vertex leads to was taken before it (`Sorted`).

The proof about sets of identifiers is about functions, not about a behaviour. `LoopKeeps` says once what a loop invariant gives: the
variables after each round are those of a function on the rounds, and of the rounds after which the invariant does not hold none can be the least. Its
parameter is not an operator but a function from rounds to the sets of allowed variables, which the provers can instantiate. The loops of
`IntersectOrSet`, `ISubstract` and `Diff` run through two slices: what one has passed is below all that is left in the other
(`Apart`), so that an element that is passed alone is in one slice only; what is moved to the front never overtakes the place that is
read (`Moving`: the first slice from there on is as it was); and a round that does not end advances one of the two, so that after as many rounds as both are
long one of them has ended. The binary search needs ascending slices, which is why every operation is shown to keep them.

The proof about the directory box has the longest invariant, `IInv` of `DirBoxProofs`. Its parts:

* *Events* (`EventsOK`): the last event about a file tells whether it exists, so that whoever handles all events knows the directory. A move of the
  directory is in the queue until it is known. Files that exclude each other (`Z` and `Z.zettel`) are separated by the removal of one of them.
* *Entries* (`EntriesOK`): of a zettel that is not spoiled, an entry knows a file just as long as it exists, or an event about it is pending, or a call is about to
  write or remove it. The same holds, while a list is sent, for the new entries together with the names still to send
  (`ListsOK`): what changes after the directory was read has an event that is handled after the list.
* *Entry* (`WellFormed`): no file is listed twice, metadata and content have their roles, and no useless file is better than the one in use. Adding a file,
  removing one, and looking at all useless files again keep this, and change the set of files by just that file. The last is a recursive
  function over a sequence: its result is not computed, but an invariant of its steps is shown for every index, by the least index for which it would not hold.
* *Calls* (`ClientsOK`, `WorkersOK`, `ChangesOK`): the file service of a zettel works for the call that waits for it; a call that changes a zettel not spoiled is
  the only one, and its entry has the files it found and those it writes.
* *Reports* (`ReportsOK`): what is unreported has a report in the queue, or a call that will end with one.

When nothing is left to do, no event, report or call is pending, and what remains of the invariant is `BoxFollowsDisk`. The hypothesis
`Watch` is the choice of `fsdirNotifier`: without events (`simpleDirNotifier`) entries follow the directory only when it is scanned.

The theorems of `KernelProofs` have the hypotheses `Serial` and `~ Overlap`, with which the run is made: one command at a time, and
none between the moment an update of the configuration has read the zettel and the moment it is done. Two sessions may start and stop services at once, and leave a
service running without one it depends on; that is said above.

The modules hold the lemmas and some theorems about the parts, which these cite.

Assumptions: those of the modules (finitely many identifiers for the queue; ranges of manual, predefined and
other numbers do not overlap in the mapper; nobody is no metadata; lifetimes above zero; API goroutines, other programs and the indexer are
different; the channel has at least one place; identifiers are numbers, and nobody is no request; no two file names have the same place in the alphabet, and the
names the box makes of the identifier and of a name of a zettel are names of the same zettel). The theorems about the mapper hold with restarts at any time, if nobody else writes the mapping zettel. They say nothing of
the time after more manual numbers were drawn than there are, and numbers of the manual may come twice after a restart.

Not proved, checked by TLC only:

* Liveness, which is out of reach of the prover: `NoStarvation`, `Settles`, `ShutsDown`, `Ends`, `IsAnswered`.
* The properties of queries, markup, metadata and evaluation, whose operators are recursive over trees and texts: the theorems of the
  library about induction take an operator as a parameter, which the provers cannot instantiate. (Loops over slices are proved by least
  counterexamples instead, see above; `SetsAreSets` itself, which is about the answers of the run, has no theorem, but `SetsComputeSets` says the same of all sets.)
* `ReadsAreWhole` of `DirBox`. It is not true of all directories: which of two files of the same extension is used depends on the order
  in which they are found, if the better name is not the shorter one, and a new scan may find them in another order than the events told. In the run the extension decides.

## Plan

1. Done: queue, index, mapper, and their composition with the notifier; directory service and box; kernel; policy and
   requests; queries; Zettelmarkup; metadata and files; evaluation; caches of the web interface.
2. Proofs done: queue and its refinement, index and its sets, mapper, requests, kernel, indexer, directory box, caches of the web interface. Left:
   `ReadsAreWhole` under a condition on the names of the files.
3. The locks of the manager: `mgrMx` with waiting writers, the bounded channel, refresh, start, stop and the notifier's own
   mapping update, composed with `DirBox` and `WebCache`, whose callbacks may close a circle of waiting.
4. Stop and restart of a directory box, and a crash while files are written.

## Not modelled

* The computed boxes and the log store (they keep no state that others depend on), the capacity of the memory box, the zip box (read once).
* HTML, SHTML, Sz and Markdown encoders, feeds, drawings, the Markdown parser: they write or read for other programs, and
  nothing of the system reads what they wrote.
* HTTP, routing, cookies, cryptography, the delay after a failed log in, `GetAllZettel`, which the policy passes on unasked.
* Command line flags, configuration files, profiling, the console's commands that only show something.
* The locks of the manager, and what waits for them (see the plan).
* Go's panics, except that of `doUpdate`; running out of memory or disk.
