------------------------------- MODULE Kernel -------------------------------
(***************************************************************************)
(* The kernel, kernel/impl: it starts, restarts and stops the services in   *)
(* the order of their dependencies, keeps a next and a current              *)
(* configuration of each, and lets the configuration service follow the     *)
(* configuration zettel.                                                    *)
(*                                                                          *)
(* A thread works through a list of steps: main starts the program, the     *)
(* shutdown thread stops it, a session executes what the administrator      *)
(* types.  Only the first two hold kern.mx.                                 *)
(***************************************************************************)
EXTENDS Naturals, Sequences, FiniteSets

CONSTANTS
    Sessions,       \* connections to the administration console
    Owners,         \* identifiers of possible owners
    NoOwner,        \* id.Invalid
    Sites,          \* values of a configuration key, here the site name
    NoSite,         \* the configuration zettel does not mention the key
    Uris,           \* box URIs that can be parsed
    FirstConfigs,   \* what the program may be started with
    MaxUri,         \* bound: numbers of box URIs
    MaxCommands,    \* bound: commands of all sessions
    MaxChanges,     \* bound: changes of the configuration zettel
    MaxFailures,    \* bound: services that cannot be started
    Serial,         \* one command at a time, and none while main starts
    Overlap         \* a change while the previous one is not worked on

Services == {"core", "config", "auth", "box", "web"}
Threads == {"main", "shutdown"} \union Sessions
None == "none"

depStart == [
    core |-> {},
    config |-> {"core"},
    auth |-> {"core"},
    box |-> {"core", "config", "auth"},
    web |-> {"config", "auth", "box"}]

depStop == [s \in Services |-> {t \in Services : s \in depStart[t]}]

ASSUME SitesAssumption == NoSite \notin Sites /\ None \notin Sites \union {NoSite} /\ NoOwner \notin Owners
ASSUME SwitchesAssumption == {Serial, Overlap} \subseteq BOOLEAN
ASSUME BoundsAssumption == {MaxUri, MaxCommands, MaxChanges, MaxFailures} \subseteq Nat

VARIABLES
    started,    \* IsStarted of each service
    frozen,     \* srvConfig.frozen
    next, cur,  \* srvConfig.next and srvConfig.cur of all services
    applied,    \* services whose current configuration is not nil
    orig,       \* configService.orig: the value before any zettel was read
    authMgr,    \* authService.manager, if any: what it was created with
    boxMgr,     \* boxService.manager: likewise
    todo,       \* the steps each thread has to do
    zettel,     \* the site name in the configuration zettel
    updates,    \* goroutines of observe: what they have read, if they have
    phase,      \* of the program
    budget

threadVars == <<todo, phase, budget>>
configVars == <<frozen, next, cur, applied>>
vars == <<started, configVars, orig, authMgr, boxMgr, zettel, updates, threadVars>>

Config == [owner : Owners \union {NoOwner}, readonly : BOOLEAN, site : Sites,
           dirtype : {"notify", "simple"}, uris : UNION {[D -> Uris] : D \in SUBSET (1 .. MaxUri)}]
ServiceOf == [owner |-> "auth", readonly |-> "auth", site |-> "config",
              dirtype |-> "box", uris |-> "box"]
ASSUME FirstConfigsAssumption == FirstConfigs \subseteq Config

Steps == [do : {"start", "switch", "stop"}, srv : Services]

TypeOK ==
    /\ started \subseteq Services /\ applied \subseteq Services
    /\ frozen \in BOOLEAN
    /\ next \in Config /\ cur \in Config
    /\ orig \in Sites \union {None}
    /\ \A t \in Threads : todo[t] \in Seq(Steps)
    /\ zettel \in Sites \union {NoSite}
    /\ \A u \in updates : u.read \in Sites \union {NoSite, None}
    /\ phase \in {"setup", "up", "interrupted", "down", "exited"}
    /\ ("auth" \in started) = (authMgr # {}) /\ Cardinality(authMgr) <= 1
    /\ ("box" \in started) = (boxMgr # {}) /\ Cardinality(boxMgr) <= 1
    /\ ("config" \in started) = (orig # None)

(* setServiceConfig has set what the program was started with. *)
Init ==
    /\ started = {}
    /\ frozen = FALSE
    /\ next \in FirstConfigs
    /\ cur = next /\ applied = {}
    /\ orig = None /\ authMgr = {} /\ boxMgr = {}
    /\ todo = [t \in Threads |-> <<>>]
    /\ zettel \in Sites \union {NoSite}
    /\ updates = {}
    /\ phase = "setup"
    /\ budget = [commands |-> MaxCommands, changes |-> MaxChanges, failures |-> MaxFailures]

Spend(what) == budget[what] > 0 /\ budget' = [budget EXCEPT ![what] = @ - 1]

-----------------------------------------------------------------------------
(* sortDependency *)

(* A service that is already as it should be hides what is behind it. *)
Reach(s, deps, ready) ==
    LET reach[t \in Services] ==
            IF t \in ready THEN {} ELSE {t} \union UNION {reach[d] : d \in deps[t]}
    IN  reach[s]

StartOrder == <<"core", "config", "auth", "box", "web">>

(* depStop is built from a map: its order is not determined. *)
StopOrders == {<<"web", "box", "config", "auth", "core">>, <<"web", "box", "auth", "config", "core">>}

Only(s, S) == IF s \in S THEN <<s>> ELSE <<>>
InSet(order, S) ==
    Only(order[1], S) \o Only(order[2], S) \o Only(order[3], S) \o Only(order[4], S) \o Only(order[5], S)
Reversed(order) == [i \in DOMAIN order |-> order[Len(order) + 1 - i]]
Stopping(order) == [i \in DOMAIN order |-> [do |-> "stop", srv |-> order[i]]]

(* A service is started, then its next configuration becomes current. *)
Starting(order) ==
    [i \in 1 .. 2 * Len(order) |->
        [do |-> IF i % 2 = 1 THEN "start" ELSE "switch", srv |-> order[(i + 1) \div 2]]]

doStartService(s) == {Starting(InSet(StartOrder, Reach(s, depStart, started)))}
StopOrdersOf(s) == {InSet(o, Reach(s, depStop, Services \ started)) : o \in StopOrders}

doStopService(s) == {Stopping(o) : o \in StopOrdersOf(s)}

(* Mutant: the services are started in the order in which they are stopped. *)
RestartSameOrder(s) == {Stopping(o) \o Starting(o) : o \in StopOrdersOf(s)}

doRestartService(s) == {Stopping(o) \o Starting(Reversed(o)) : o \in StopOrdersOf(s)}

-----------------------------------------------------------------------------
(* Steps of threads *)

Busy(t) == todo[t] # <<>>
Calm == Overlap \/ \A u \in updates : u.read = None
Running == phase # "exited"

Step(t, do, s) ==
    /\ Running /\ Calm
    /\ Busy(t)
    /\ Head(todo[t]) = [do |-> do, srv |-> s]

Proceed(t) == todo' = [todo EXCEPT ![t] = Tail(@)]

(* The boxes are numbered from 1 up to the first gap. *)
UriList(config) == [i \in {i \in 1 .. MaxUri : 1 .. i \subseteq DOMAIN config.uris} |-> config.uris[i]]

(* observe starts a goroutine. *)
Observe == updates' = updates \union {[id |-> Cardinality(updates), read |-> None]}

StartCore(t) ==
    /\ Step(t, "start", "core")
    /\ started' = started \union {"core"}
    /\ Proceed(t)
    /\ UNCHANGED <<configVars, orig, authMgr, boxMgr, zettel, updates, phase, budget>>

StartConfig(t) ==
    /\ Step(t, "start", "config")
    /\ started' = started \union {"config"}
    /\ orig' = next.site
    /\ Proceed(t)
    /\ UNCHANGED <<configVars, authMgr, boxMgr, zettel, updates, phase, budget>>

StartAuth(t) ==
    /\ Step(t, "start", "auth")
    /\ started' = started \union {"auth"}
    /\ authMgr' = {[owner |-> next.owner, readonly |-> next.readonly]}
    /\ Proceed(t)
    /\ UNCHANGED <<configVars, orig, boxMgr, zettel, updates, phase, budget>>

StartWeb(t) ==
    /\ Step(t, "start", "web")
    /\ started' = started \union {"web"}
    /\ Proceed(t)
    /\ UNCHANGED <<configVars, orig, authMgr, boxMgr, zettel, updates, phase, budget>>

(* setBox makes the configuration service look at the zettel. *)
StartBox(t) ==
    /\ Step(t, "start", "box")
    /\ started' = started \union {"box"}
    /\ boxMgr' = {[auth |-> authMgr, uris |-> UriList(next)]}
    /\ Observe
    /\ Proceed(t)
    /\ UNCHANGED <<configVars, orig, authMgr, zettel, phase, budget>>

(* A box does not exist, or the address of the web server is in use. *)
StartFails(t) ==
    /\ \E s \in {"box", "web"} : Step(t, "start", s)
    /\ Spend("failures")
    /\ todo' = [todo EXCEPT ![t] = <<>>]
    /\ UNCHANGED <<started, configVars, orig, authMgr, boxMgr, zettel, updates, phase>>

(* The part of a configuration that belongs to some services. *)
Take(part, from, services) ==
    [key \in DOMAIN ServiceOf |-> IF ServiceOf[key] \in services THEN part[key] ELSE from[key]]

SwitchNextToCur(t) ==
    /\ \E s \in Services :
        /\ Step(t, "switch", s)
        /\ cur' = Take(next, cur, {s})
        /\ applied' = applied \union {s}
    /\ Proceed(t)
    /\ UNCHANGED <<started, frozen, next, orig, authMgr, boxMgr, zettel, updates, phase, budget>>

Stop(t) ==
    /\ \E s \in Services :
        /\ Step(t, "stop", s)
        /\ started' = started \ {s}
        /\ orig' = IF s = "config" THEN None ELSE orig
        /\ authMgr' = IF s = "auth" THEN {} ELSE authMgr
        /\ boxMgr' = IF s = "box" THEN {} ELSE boxMgr
    /\ Proceed(t)
    /\ UNCHANGED <<configVars, zettel, updates, phase, budget>>

-----------------------------------------------------------------------------
(* Setting a configuration value.  Until a service is started the first     *)
(* time, there is no current configuration.                                 *)

(* Mutant: the owner can be replaced. *)
SetAnyOwner(value) == next' = [next EXCEPT !.owner = value]

SetOwner(value) ==
    /\ "auth" \in applied => cur.owner = NoOwner
    /\ next' = [next EXCEPT !.owner = value]

SetReadonly(value) ==
    /\ "auth" \in applied => ~cur.readonly
    /\ next' = [next EXCEPT !.readonly = value]

SetDirType(value) == ~frozen /\ next' = [next EXCEPT !.dirtype = value]

(* The numbers that follow are removed, up to the first gap. *)
SetUri(number, value) ==
    LET following == {j \in number + 1 .. MaxUri : \A k \in number + 1 .. j : k \in DOMAIN next.uris}
        kept == DOMAIN next.uris \ following
    IN  next' = [next EXCEPT !.uris =
            IF number = 0 THEN [i \in kept |-> next.uris[i]]
            ELSE [i \in kept \union {number} |-> IF i = number THEN value ELSE next.uris[i]]]

SetConfig ==
    /\ \/ \E owner \in Owners \union {NoOwner} : SetOwner(owner)
       \/ \E readonly \in BOOLEAN : SetReadonly(readonly)
       \/ \E dirtype \in {"notify", "simple"} : SetDirType(dirtype)
       \/ \E number \in 0 .. MaxUri, uri \in Uris : SetUri(number, uri)
    /\ UNCHANGED <<started, frozen, cur, applied, orig, authMgr, boxMgr, todo, zettel, updates, phase>>

-----------------------------------------------------------------------------
(* The program, and the administrator *)

Quiet == \A t \in Threads : ~Busy(t)

(* Start: freeze all configurations, then run the command "run". *)
Start ==
    /\ phase = "setup"
    /\ frozen' = TRUE
    /\ phase' = "up"
    /\ \E steps \in doStartService("web") : todo' = [todo EXCEPT !["main"] = steps]
    /\ UNCHANGED <<started, next, cur, applied, orig, authMgr, boxMgr, zettel, updates, budget>>

(* A session does not take kern.mx. *)
Command(c) ==
    /\ phase \in {"up", "interrupted", "down"}
    /\ ~Busy(c) /\ (Serial => Quiet /\ phase = "up") /\ Calm
    /\ Spend("commands")

cmdStart(c) ==
    /\ Command(c)
    /\ \E s \in Services : \E steps \in doStartService(s) : todo' = [todo EXCEPT ![c] = steps]
    /\ UNCHANGED <<started, configVars, orig, authMgr, boxMgr, zettel, updates, phase>>

cmdRestart(c) ==
    /\ Command(c)
    /\ \E s \in Services : \E steps \in doRestartService(s) : todo' = [todo EXCEPT ![c] = steps]
    /\ UNCHANGED <<started, configVars, orig, authMgr, boxMgr, zettel, updates, phase>>

cmdStop(c) ==
    /\ Command(c)
    /\ \E s \in Services : \E steps \in doStopService(s) : todo' = [todo EXCEPT ![c] = steps]
    /\ UNCHANGED <<started, configVars, orig, authMgr, boxMgr, zettel, updates, phase>>

cmdSetConfig(c) == Command(c) /\ SetConfig

(* A signal, or the command "shutdown". *)
Interrupt ==
    /\ phase = "up"
    /\ phase' = "interrupted"
    /\ UNCHANGED <<started, configVars, orig, authMgr, boxMgr, zettel, updates, todo, budget>>

(* Mutant: nothing happens if the core service was stopped by a command. *)
ShutdownOfRunning ==
    /\ phase = "interrupted" /\ "core" \in started
    /\ ~Busy("main") /\ (Serial => Quiet) /\ Calm
    /\ phase' = "down"
    /\ \E steps \in doStopService("core") : todo' = [todo EXCEPT !["shutdown"] = steps]
    /\ UNCHANGED <<started, configVars, orig, authMgr, boxMgr, zettel, updates, budget>>

(* StopService of the kernel service takes kern.mx.  The kernel counts as   *)
(* started; behind it is the core service.                                  *)
doShutdown ==
    /\ phase = "interrupted"
    /\ ~Busy("main") /\ (Serial => Quiet) /\ Calm
    /\ phase' = "down"
    /\ \E steps \in doStopService("core") : todo' = [todo EXCEPT !["shutdown"] = steps]
    /\ UNCHANGED <<started, configVars, orig, authMgr, boxMgr, zettel, updates, budget>>

(* WaitForShutdown returns, the process ends. *)
Exit ==
    /\ phase = "down" /\ ~Busy("shutdown")
    /\ phase' = "exited"
    /\ UNCHANGED <<started, configVars, orig, authMgr, boxMgr, zettel, updates, todo, budget>>

-----------------------------------------------------------------------------
(* The configuration zettel *)

(* An observer of the box is told. *)
ChangeZettel ==
    /\ Running
    /\ boxMgr # {}
    /\ Overlap \/ updates = {}
    /\ Spend("changes")
    /\ \E site \in (Sites \union {NoSite}) \ {zettel} : zettel' = site
    /\ Observe
    /\ UNCHANGED <<started, configVars, orig, authMgr, boxMgr, todo, phase>>

(* doUpdate, first half: the box may have been stopped. *)
FetchUpdate ==
    /\ Running
    /\ \E u \in updates :
        /\ u.read = None
        /\ updates' = IF boxMgr = {} THEN updates \ {u}
                      ELSE (updates \ {u}) \union {[u EXCEPT !.read = zettel]}
    /\ UNCHANGED <<started, configVars, orig, authMgr, boxMgr, zettel, threadVars>>

(* Mutant: the zettel is stored as the next configuration only. *)
ApplyToNext ==
    /\ Running
    /\ \E u \in updates :
        /\ u.read # None /\ orig # None
        /\ updates' = updates \ {u}
        /\ next' = [next EXCEPT !.site = IF u.read = NoSite THEN orig ELSE u.read]
    /\ UNCHANGED <<started, frozen, cur, applied, orig, authMgr, boxMgr, zettel, threadVars>>

(* Second half.  If the service was stopped meanwhile, orig.Pairs fails.    *)
ApplyUpdate ==
    /\ Running
    /\ \E u \in updates :
        /\ u.read # None
        /\ updates' = updates \ {u}
        /\ IF orig = None
           THEN phase' = "exited" /\ UNCHANGED configVars
           ELSE /\ next' = [next EXCEPT !.site = IF u.read = NoSite THEN orig ELSE u.read]
                /\ cur' = Take(next', cur, {"config"})
                /\ applied' = applied \union {"config"}
                /\ UNCHANGED <<frozen, phase>>
    /\ UNCHANGED <<started, orig, authMgr, boxMgr, zettel, todo, budget>>

-----------------------------------------------------------------------------
Work(t) ==
    \/ StartCore(t)
    \/ StartConfig(t)
    \/ StartAuth(t)
    \/ StartBox(t)
    \/ StartWeb(t)
    \/ SwitchNextToCur(t)
    \/ Stop(t)

Next ==
    \/ Start
    \/ \E t \in Threads : Work(t) \/ StartFails(t)
    \/ \E c \in Sessions : cmdStart(c) \/ cmdRestart(c) \/ cmdStop(c) \/ cmdSetConfig(c)
    \/ Interrupt
    \/ doShutdown
    \/ Exit
    \/ ChangeZettel
    \/ FetchUpdate
    \/ ApplyUpdate

Spec == Init /\ [][Next]_vars

(* All goroutines run; nobody is obliged to type a command. *)
FairSpec ==
    /\ Spec
    /\ WF_vars(Start) /\ WF_vars(doShutdown) /\ WF_vars(Exit)
    /\ WF_vars(FetchUpdate) /\ WF_vars(ApplyUpdate)
    /\ \A t \in Threads : WF_vars(Work(t))

-----------------------------------------------------------------------------
(* A service runs only while the services it uses run, whatever is started, *)
(* restarted or stopped, even if that fails half way: doStartService,       *)
(* doRestartService, doStopService.                                         *)
DependenciesRun == \A s \in started : depStart[s] \subseteq started

(* What runs was made from the configuration that is shown as the current   *)
(* one, and from the managers that run: Start, SwitchNextToCur.             *)
RunsAsConfigured ==
    Quiet =>
        /\ authMgr \subseteq {[owner |-> cur.owner, readonly |-> cur.readonly]}
        /\ \A mgr \in boxMgr :
            /\ mgr.auth = authMgr
            /\ mgr.uris = UriList(cur)

(* The configuration zettel wins: doUpdate.                                 *)
ConfigFollowsZettel ==
    Running /\ Quiet /\ updates = {} /\ boxMgr # {} /\ zettel # NoSite => cur.site = zettel

(* The values that are shown are those in effect.                           *)
ConfigIsEffective == RunsAsConfigured /\ ConfigFollowsZettel

(* "Changing an existing owner not allowed", "system in readonly mode cannot *)
(* change this mode": not even with several restarts.                        *)
OwnerAndModeStay ==
    [][\A mgr \in authMgr' :
        /\ \A old \in authMgr : old.owner \in {NoOwner, mgr.owner}
        /\ "auth" \in applied =>
            /\ cur.owner \in {NoOwner, mgr.owner}
            /\ cur.readonly => mgr.readonly]_vars

(* After the last step all services have been stopped in order: doShutdown. *)
EndsInOrder == phase = "exited" => started = {}

(* Services start after those they use, and stop before them, to the end.   *)
ServicesAreOrdered == TypeOK /\ DependenciesRun /\ EndsInOrder

(* An interrupt ends the program. *)
ShutsDown == phase = "interrupted" ~> phase = "exited"
=============================================================================
