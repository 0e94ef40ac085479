---------------------------- MODULE KernelProofs ----------------------------
(***************************************************************************)
(* Theorems of Kernel, for every set of values, of first configurations,    *)
(* of sessions, and any number of commands, changes and failures.  As in    *)
(* the run, they are about commands that come one after the other.          *)
(***************************************************************************)
EXTENDS Kernel, FiniteSetTheorems, SequenceTheorems, TLAPS

StartOf(s) == [do |-> "start", srv |-> s]
SwitchOf(s) == [do |-> "switch", srv |-> s]
StopOf(s) == [do |-> "stop", srv |-> s]

(* The services that will run before step i of a list, if R run now.        *)
RunsAt(q, i, R) ==
    (R \ {s \in Services : \E j \in 1 .. i - 1 : q[j] = StopOf(s)})
    \union {s \in Services : \E j \in 1 .. i - 1 : q[j] = StartOf(s)}

Closed(R) == \A s \in R : depStart[s] \subseteq R

(* A list that can be worked through: it stops before it starts, never      *)
(* leaves a service without one that it uses, starts only what does not     *)
(* run, and makes the configuration of what it started current at once.     *)
StopsFirst(q) == \A i, j \in DOMAIN q : i < j /\ q[j].do = "stop" => q[i].do = "stop"
KeepsClosed(q, R) == \A i \in 1 .. Len(q) + 1 : Closed(RunsAt(q, i, R))
StartsStopped(q, R) == \A i \in DOMAIN q : q[i].do = "start" => q[i].srv \notin RunsAt(q, i, R)
SwitchesStarted(q) ==
    /\ \A i \in DOMAIN q : q[i].do = "start" => i + 1 \in DOMAIN q /\ q[i + 1] = SwitchOf(q[i].srv)
    /\ \A i \in DOMAIN q : q[i].do = "switch" /\ i > 1 => q[i - 1] = StartOf(q[i].srv)

Workable(q, R) ==
    /\ q \in Seq(Steps)
    /\ StopsFirst(q)
    /\ KeepsClosed(q, R)
    /\ StartsStopped(q, R)
    /\ SwitchesStarted(q)

(* The service has been started, its configuration is not yet current.      *)
Switching(s) == \E t \in Threads : Busy(t) /\ Head(todo[t]) = SwitchOf(s)

InEffect(s) == IF Switching(s) THEN next ELSE cur

TodoOK ==
    /\ todo \in [Threads -> Seq(Steps)]
    /\ \A t, u \in Threads : Busy(t) /\ Busy(u) => t = u
    /\ \A t \in Threads : Busy(t) => Workable(todo[t], started)

PhaseOK ==
    /\ phase = "setup" => Quiet /\ started = {}
    /\ phase = "down" =>
        /\ \A t \in Threads \ {"shutdown"} : ~Busy(t)
        /\ \A i \in DOMAIN todo["shutdown"] : todo["shutdown"][i].do = "stop"
        /\ RunsAt(todo["shutdown"], Len(todo["shutdown"]) + 1, started) = {}

ManagersOK ==
    /\ \A mgr \in authMgr :
        mgr = [owner |-> InEffect("auth").owner, readonly |-> InEffect("auth").readonly]
    /\ \A mgr \in boxMgr : mgr.auth = authMgr /\ mgr.uris = UriList(InEffect("box"))

OwnerOK ==
    "auth" \in applied =>
        /\ cur.owner \in {NoOwner, next.owner}
        /\ cur.readonly => next.readonly

SiteOK ==
    /\ cur.site = next.site
    /\ \A u \in updates :
        /\ u = [id |-> u.id, read |-> u.read]
        /\ u.read # None => u.read = zettel /\ boxMgr # {}
    /\ updates = {} /\ boxMgr # {} /\ zettel # NoSite => next.site = zettel

KernelInv ==
    /\ ServicesAreOrdered
    /\ TodoOK /\ PhaseOK /\ ManagersOK /\ OwnerOK /\ SiteOK

-----------------------------------------------------------------------------
(* Lists of services *)

(* rank is the order as a function from its elements.                       *)
Ranks(rank, order) ==
    /\ rank \in [Services -> 1 .. 5]
    /\ \A i \in 1 .. 5 : order[i] \in Services /\ rank[order[i]] = i
    /\ \A t \in Services : order[rank[t]] = t

(* list holds the elements of S, in the order of their ranks.               *)
Lists(list, S, rank) ==
    /\ list \in Seq(S)
    /\ \A t \in S : \E i \in DOMAIN list : list[i] = t
    /\ \A i, j \in DOMAIN list : i < j => rank[list[i]] < rank[list[j]]

Upto(k, S, rank) == {t \in S : rank[t] <= k}

(* One more service is looked at.                                           *)
LEMMA ListsMore ==
  ASSUME NEW order, NEW rank, Ranks(rank, order), NEW S \in SUBSET Services,
         NEW k \in 0 .. 4, NEW above, above = k + 1,
         NEW list, Lists(list, Upto(k, S, rank), rank)
  PROVE  Lists(list \o Only(order[above], S), Upto(above, S, rank), rank)
<1> DEFINE Lower == {t \in S : rank[t] <= k}
           Upper == {t \in S : rank[t] <= k + 1}
           new == order[above]
<1>1. /\ list \in Seq(Lower)
      /\ \A t \in Lower : \E i \in DOMAIN list : list[i] = t
      /\ \A i, j \in DOMAIN list : i < j => rank[list[i]] < rank[list[j]]
  BY DEF Lists, Upto
<1>2. new \in Services /\ rank[new] = k + 1 /\ \A t \in Services : rank[t] = k + 1 => t = new
  BY DEF Ranks
<1>3. \A t \in Services : rank[t] \in Nat
  BY DEF Ranks
<1>4. CASE new \in S
  <2> DEFINE longer == Append(list, new)
  <2>1. list \o Only(new, S) = longer
    BY <1>4, <1>1 DEF Only
  <2>2. Upper = Lower \union {new}
    BY <1>2, <1>3, <1>4
  <2>3. longer \in Seq(Upper)
    BY <1>1, <2>2
  <2>4. /\ DOMAIN longer = 1 .. Len(list) + 1
        /\ longer[Len(list) + 1] = new
        /\ \A i \in 1 .. Len(list) : longer[i] = list[i] /\ list[i] \in Lower
    BY <1>1
  <2>5. DOMAIN list = 1 .. Len(list) /\ Len(list) \in Nat
    BY <1>1
  <2> HIDE DEF longer
  <2>6. \A t \in Upper : \E i \in DOMAIN longer : longer[i] = t
    <3> SUFFICES ASSUME NEW t \in Upper PROVE \E i \in DOMAIN longer : longer[i] = t
      OBVIOUS
    <3>1. CASE t = new
      BY <3>1, <2>4, <2>5
    <3>2. CASE t \in Lower
      <4>1. PICK i \in DOMAIN list : list[i] = t
        BY <3>2, <1>1
      <4> QED BY <4>1, <2>4, <2>5
    <3> QED BY <3>1, <3>2, <2>2
  <2>7. \A i, j \in DOMAIN longer : i < j => rank[longer[i]] < rank[longer[j]]
    <3> SUFFICES ASSUME NEW i \in DOMAIN longer, NEW j \in DOMAIN longer, i < j
                 PROVE  rank[longer[i]] < rank[longer[j]]
      OBVIOUS
    <3>1. i \in 1 .. Len(list) /\ longer[i] = list[i] /\ list[i] \in Lower
      BY <2>4, <2>5
    <3>2. CASE j = Len(list) + 1
      <4>1. rank[list[i]] <= k /\ rank[list[i]] \in Nat
        BY <3>1, <1>3
      <4> QED BY <3>1, <3>2, <4>1, <2>4, <1>2
    <3>3. CASE j \in 1 .. Len(list)
      BY <3>1, <3>3, <2>4, <2>5, <1>1
    <3> QED BY <3>2, <3>3, <2>4, <2>5
  <2> QED BY <2>1, <2>3, <2>6, <2>7 DEF Lists, Upto
<1>5. CASE new \notin S
  <2>1. list \o Only(new, S) = list
    BY <1>5, <1>1 DEF Only
  <2>2. Upper = Lower
    BY <1>2, <1>3, <1>5
  <2> QED BY <2>1, <2>2 DEF Upto
<1> QED BY <1>4, <1>5

(* InSet(order, S) lists S.                                                 *)
LEMMA InSetLists ==
  ASSUME NEW order, NEW rank, Ranks(rank, order), NEW S \in SUBSET Services
  PROVE  Lists(InSet(order, S), S, rank)
<1> DEFINE l0 == << >>
           l1 == l0 \o Only(order[1], S)
           l2 == l1 \o Only(order[2], S)
           l3 == l2 \o Only(order[3], S)
           l4 == l3 \o Only(order[4], S)
           l5 == l4 \o Only(order[5], S)
<1>1. Upto(0, S, rank) = {} /\ Upto(5, S, rank) = S
  BY DEF Ranks, Upto
<1>2. Lists(l0, Upto(0, S, rank), rank)
  BY <1>1 DEF Lists
<1>3. l1 = Only(order[1], S)
  BY DEF Only
<1> HIDE DEF l0
<1>4. Lists(l1, Upto(1, S, rank), rank)
  BY <1>2, 1 = 0 + 1, ListsMore
<1> HIDE DEF l1
<1>5. Lists(l2, Upto(2, S, rank), rank)
  BY <1>4, 2 = 1 + 1, ListsMore
<1> HIDE DEF l2
<1>6. Lists(l3, Upto(3, S, rank), rank)
  BY <1>5, 3 = 2 + 1, ListsMore
<1> HIDE DEF l3
<1>7. Lists(l4, Upto(4, S, rank), rank)
  BY <1>6, 4 = 3 + 1, ListsMore
<1> HIDE DEF l4
<1>8. Lists(l5, Upto(5, S, rank), rank)
  BY <1>7, 5 = 4 + 1, ListsMore
<1> HIDE DEF l5
<1>9. InSet(order, S) = l5
  BY <1>3 DEF InSet, l2, l3, l4, l5
<1> QED BY <1>1, <1>8, <1>9
-----------------------------------------------------------------------------
(* What a service uses, and what uses it                                    *)

(* reachF defines Reach, one service at a time.                             *)
Reaches(reachF, deps, ready) ==
    reachF = [t \in Services |->
                IF t \in ready THEN {} ELSE {t} \union UNION {reachF[d] : d \in deps[t]}]

Descends(rank, deps) == \A t \in Services : \A d \in deps[t] : rank[d] < rank[t]

(* If there is such a function, Reach is what one expects it to be: it stops *)
(* at what is ready, and nowhere else.                                       *)
LEMMA ReachIsClosed ==
  ASSUME NEW deps \in [Services -> SUBSET Services], NEW ready, NEW s \in Services,
         NEW rank \in [Services -> 1 .. 5], Descends(rank, deps),
         \E f : Reaches(f, deps, ready)
  PROVE  /\ Reach(s, deps, ready) \subseteq Services \ ready
         /\ s \notin ready => s \in Reach(s, deps, ready)
         /\ \A t \in Reach(s, deps, ready) : deps[t] \subseteq ready \union Reach(s, deps, ready)
<1> DEFINE reachF == CHOOSE f : Reaches(f, deps, ready)
<1>1. Reaches(reachF, deps, ready)
  OBVIOUS
<1>2. Reach(s, deps, ready) = reachF[s]
  BY DEF Reach, Reaches
<1> HIDE DEF reachF
<1>3. \A t \in Services : reachF[t] = IF t \in ready THEN {} ELSE {t} \union UNION {reachF[d] : d \in deps[t]}
  BY <1>1 DEF Reaches
<1> DEFINE Good(t) == /\ reachF[t] \subseteq Services \ ready
                      /\ t \notin ready => t \in reachF[t]
                      /\ \A u \in reachF[t] : deps[u] \subseteq ready \union reachF[t]
<1>4. ASSUME NEW t \in Services, \A d \in deps[t] : Good(d)
      PROVE  Good(t)
  <2>1. CASE t \in ready
    BY <2>1, <1>3
  <2>2. CASE t \notin ready
    <3>1. reachF[t] = {t} \union UNION {reachF[d] : d \in deps[t]}
      BY <2>2, <1>3
    <3>2. reachF[t] \subseteq Services \ ready /\ t \in reachF[t]
      BY <3>1, <2>2, <1>4
    <3>3. \A d \in deps[t] : reachF[d] \subseteq reachF[t]
      BY <3>1
    <3>4. deps[t] \subseteq ready \union reachF[t]
      BY <3>3, <1>4
    <3>5. ASSUME NEW u \in reachF[t] PROVE deps[u] \subseteq ready \union reachF[t]
      <4>1. CASE u = t
        BY <4>1, <3>4
      <4>2. ASSUME NEW d \in deps[t], u \in reachF[d] PROVE deps[u] \subseteq ready \union reachF[t]
        BY <4>2, <3>3, <1>4
      <4> QED BY <4>1, <4>2, <3>1
    <3> QED BY <3>2, <3>5
  <2> QED BY <2>1, <2>2
<1>5. \A t \in Services : rank[t] \in 1 .. 5 /\ \A d \in deps[t] : d \in Services /\ rank[d] < rank[t]
  BY DEF Descends
<1> HIDE DEF Good
<1>6. \A t \in Services : rank[t] <= 1 => Good(t)
  BY <1>4, <1>5
<1>7. \A t \in Services : rank[t] <= 2 => Good(t)
  BY <1>4, <1>5, <1>6
<1>8. \A t \in Services : rank[t] <= 3 => Good(t)
  BY <1>4, <1>5, <1>7
<1>9. \A t \in Services : rank[t] <= 4 => Good(t)
  BY <1>4, <1>5, <1>8
<1>10. Good(s)
  BY <1>4, <1>5, <1>9
<1> QED BY <1>2, <1>10 DEF Good

LEMMA ReachStartExists ==
  ASSUME NEW ready
  PROVE  \E f : Reaches(f, depStart, ready)
<1> DEFINE Not(t, S) == IF t \in ready THEN {} ELSE {t} \union S
           core == Not("core", {})
           config == Not("config", core)
           auth == Not("auth", core)
           box == Not("box", core \union config \union auth)
           web == Not("web", config \union auth \union box)
           f == [t \in Services |->
                    IF t = "core" THEN core ELSE IF t = "config" THEN config
                    ELSE IF t = "auth" THEN auth ELSE IF t = "box" THEN box ELSE web]
<1>1. /\ f["core"] = core /\ f["config"] = config /\ f["auth"] = auth
      /\ f["box"] = box /\ f["web"] = web
  <2> HIDE DEF core, config, auth, box, web
  <2> QED BY DEF Services
<1> HIDE DEF f
<1>2. /\ UNION {f[d] : d \in depStart["core"]} = {}
      /\ UNION {f[d] : d \in depStart["config"]} = core
      /\ UNION {f[d] : d \in depStart["auth"]} = core
      /\ UNION {f[d] : d \in depStart["box"]} = core \union config \union auth
      /\ UNION {f[d] : d \in depStart["web"]} = config \union auth \union box
  <2> HIDE DEF core, config, auth, box, web
  <2> QED BY <1>1 DEF depStart
<1> DEFINE g == [t \in Services |-> Not(t, UNION {f[d] : d \in depStart[t]})]
<1>3. /\ g["core"] = core /\ g["config"] = config /\ g["auth"] = auth
      /\ g["box"] = box /\ g["web"] = web
  BY <1>2 DEF Services
<1>4. \A t \in Services : f[t] = g[t]
  <2> HIDE DEF g, core, config, auth, box, web
  <2> QED BY <1>1, <1>3 DEF Services
<1>5. f = g
  <2>1. DOMAIN f = Services /\ f = [t \in Services |-> f[t]]
    BY DEF f
  <2> HIDE DEF Not
  <2> QED BY <2>1, <1>4
<1> QED BY <1>5 DEF Reaches
LEMMA ReachStopExists ==
  ASSUME NEW ready
  PROVE  \E f : Reaches(f, depStop, ready)
<1> DEFINE Not(t, S) == IF t \in ready THEN {} ELSE {t} \union S
           web == Not("web", {})
           box == Not("box", web)
           auth == Not("auth", box \union web)
           config == Not("config", box \union web)
           core == Not("core", config \union auth \union box)
           f == [t \in Services |->
                    IF t = "core" THEN core ELSE IF t = "config" THEN config
                    ELSE IF t = "auth" THEN auth ELSE IF t = "box" THEN box ELSE web]
<1>1. /\ f["core"] = core /\ f["config"] = config /\ f["auth"] = auth
      /\ f["box"] = box /\ f["web"] = web
  <2> HIDE DEF core, config, auth, box, web
  <2> QED BY DEF Services
<1> HIDE DEF f
<1>2. /\ UNION {f[d] : d \in depStop["core"]} = config \union auth \union box
      /\ UNION {f[d] : d \in depStop["config"]} = box \union web
      /\ UNION {f[d] : d \in depStop["auth"]} = box \union web
      /\ UNION {f[d] : d \in depStop["box"]} = web
      /\ UNION {f[d] : d \in depStop["web"]} = {}
  <2>1. /\ depStop["core"] = {"config", "auth", "box"} /\ depStop["config"] = {"box", "web"}
        /\ depStop["auth"] = {"box", "web"} /\ depStop["box"] = {"web"} /\ depStop["web"] = {}
    BY DEF depStop, depStart, Services
  <2> HIDE DEF core, config, auth, box, web
  <2> QED BY <1>1, <2>1
<1> DEFINE g == [t \in Services |-> Not(t, UNION {f[d] : d \in depStop[t]})]
<1>3. /\ g["core"] = core /\ g["config"] = config /\ g["auth"] = auth
      /\ g["box"] = box /\ g["web"] = web
  BY <1>2 DEF Services
<1>4. \A t \in Services : f[t] = g[t]
  <2> HIDE DEF g, core, config, auth, box, web
  <2> QED BY <1>1, <1>3 DEF Services
<1>5. f = g
  <2>1. DOMAIN f = Services /\ f = [t \in Services |-> f[t]]
    BY DEF f
  <2> HIDE DEF Not
  <2> QED BY <2>1, <1>4
<1> QED BY <1>5 DEF Reaches

StartRank == [core |-> 1, config |-> 2, auth |-> 3, box |-> 4, web |-> 5]
StopRanks == {[web |-> 1, box |-> 2, config |-> 3, auth |-> 4, core |-> 5],
              [web |-> 1, box |-> 2, auth |-> 3, config |-> 4, core |-> 5]}

LEMMA StartRankOK ==
  /\ Ranks(StartRank, StartOrder)
  /\ Descends(StartRank, depStart)
  /\ depStart \in [Services -> SUBSET Services]
<1>1. StartRank \in [Services -> 1 .. 5]
  BY DEF StartRank, Services
<1>2. depStart \in [Services -> SUBSET Services]
  BY DEF depStart, Services
<1>3. \A i \in 1 .. 5 : StartOrder[i] \in Services /\ StartRank[StartOrder[i]] = i
  <2>1. \A i \in 1 .. 5 : i = 1 \/ i = 2 \/ i = 3 \/ i = 4 \/ i = 5
    OBVIOUS
  <2> QED BY <2>1 DEF StartOrder, StartRank, Services
<1>4. \A t \in Services : StartOrder[StartRank[t]] = t
  BY DEF StartOrder, StartRank, Services
<1>5. Descends(StartRank, depStart)
  BY DEF Descends, StartRank, depStart, Services
<1> QED BY <1>1, <1>2, <1>3, <1>4, <1>5 DEF Ranks

LEMMA StopRankOK ==
  /\ \A order \in StopOrders : \E rank \in StopRanks : Ranks(rank, order)
  /\ \A rank \in StopRanks : rank \in [Services -> 1 .. 5] /\ Descends(rank, depStop)
  /\ depStop \in [Services -> SUBSET Services]
<1> DEFINE o1 == <<"web", "box", "config", "auth", "core">>
           o2 == <<"web", "box", "auth", "config", "core">>
           r1 == [web |-> 1, box |-> 2, config |-> 3, auth |-> 4, core |-> 5]
           r2 == [web |-> 1, box |-> 2, auth |-> 3, config |-> 4, core |-> 5]
<1>1. StopOrders = {o1, o2} /\ StopRanks = {r1, r2}
  BY DEF StopOrders, StopRanks
<1>2. r1 \in [Services -> 1 .. 5] /\ r2 \in [Services -> 1 .. 5]
  BY DEF Services
<1>3. depStop \in [Services -> SUBSET Services]
  BY DEF depStop, Services
<1>4. \A i \in 1 .. 5 : i = 1 \/ i = 2 \/ i = 3 \/ i = 4 \/ i = 5
  OBVIOUS
<1>5. Ranks(r1, o1)
  <2>1. \A i \in 1 .. 5 : o1[i] \in Services /\ r1[o1[i]] = i
    BY <1>4 DEF Services
  <2>2. \A t \in Services : o1[r1[t]] = t
    BY DEF Services
  <2> QED BY <1>2, <2>1, <2>2 DEF Ranks
<1>6. Ranks(r2, o2)
  <2>1. \A i \in 1 .. 5 : o2[i] \in Services /\ r2[o2[i]] = i
    BY <1>4 DEF Services
  <2>2. \A t \in Services : o2[r2[t]] = t
    BY DEF Services
  <2> QED BY <1>2, <2>1, <2>2 DEF Ranks
<1>7. Descends(r1, depStop) /\ Descends(r2, depStop)
  <2>1. /\ depStop["core"] = {"config", "auth", "box"} /\ depStop["config"] = {"box", "web"}
        /\ depStop["auth"] = {"box", "web"} /\ depStop["box"] = {"web"} /\ depStop["web"] = {}
    BY DEF depStop, depStart, Services
  <2> QED BY <2>1 DEF Descends, Services
<1> HIDE DEF o1, o2, r1, r2
<1> QED BY <1>1, <1>2, <1>3, <1>5, <1>6, <1>7
-----------------------------------------------------------------------------
(* Lists of steps *)

LEMMA StepKinds ==
  ASSUME NEW s \in Services
  PROVE  /\ StartOf(s) \in Steps /\ SwitchOf(s) \in Steps /\ StopOf(s) \in Steps
         /\ StartOf(s).do = "start" /\ SwitchOf(s).do = "switch" /\ StopOf(s).do = "stop"
         /\ StartOf(s).srv = s /\ SwitchOf(s).srv = s /\ StopOf(s).srv = s
BY DEF StartOf, SwitchOf, StopOf, Steps

LEMMA StartingSteps ==
  ASSUME NEW list \in Seq(Services)
  PROVE  LET q == Starting(list) IN
         /\ q \in Seq(Steps) /\ Len(q) = 2 * Len(list)
         /\ \A k \in DOMAIN list : q[2 * k - 1] = StartOf(list[k]) /\ q[2 * k] = SwitchOf(list[k])
         /\ \A i \in DOMAIN q : \E k \in DOMAIN list : i = 2 * k - 1 \/ i = 2 * k
<1> DEFINE n == Len(list)
           q == Starting(list)
           step(i) == [do |-> IF i % 2 = 1 THEN "start" ELSE "switch", srv |-> list[(i + 1) \div 2]]
<1>1. n \in Nat /\ DOMAIN list = 1 .. n /\ \A k \in 1 .. n : list[k] \in Services
  OBVIOUS
<1>2. q = [i \in 1 .. 2 * n |-> step(i)]
  BY DEF Starting
<1> HIDE DEF n
<1>3. ASSUME NEW i \in 1 .. 2 * n
      PROVE  /\ (i + 1) \div 2 \in 1 .. n
             /\ i = 2 * ((i + 1) \div 2) - 1 \/ i = 2 * ((i + 1) \div 2)
  BY <1>1
<1>4. ASSUME NEW i \in 1 .. 2 * n PROVE step(i) \in Steps
  BY <1>1, <1>3 DEF Steps
<1>5. q \in Seq(Steps) /\ Len(q) = 2 * n /\ DOMAIN q = 1 .. 2 * n
  <2> HIDE DEF step, q
  <2>1. q \in [1 .. 2 * n -> Steps]
    BY <1>2, <1>4
  <2>2. 2 * n \in Nat
    BY <1>1
  <2> QED BY <2>1, <2>2, <1>1
<1>6. ASSUME NEW k \in 1 .. n
      PROVE  q[2 * k - 1] = StartOf(list[k]) /\ q[2 * k] = SwitchOf(list[k])
  <2>1. /\ 2 * k - 1 \in 1 .. 2 * n /\ (2 * k - 1) % 2 = 1 /\ (2 * k - 1 + 1) \div 2 = k
        /\ 2 * k \in 1 .. 2 * n /\ (2 * k) % 2 = 0 /\ (2 * k + 1) \div 2 = k
    BY <1>1
  <2>2. q[2 * k - 1] = step(2 * k - 1) /\ q[2 * k] = step(2 * k)
    <3> HIDE DEF step, q
    <3> QED BY <1>2, <2>1
  <2>3. step(2 * k - 1) = StartOf(list[k])
    BY <2>1 DEF StartOf
  <2>4. step(2 * k) = SwitchOf(list[k])
    BY <2>1 DEF SwitchOf
  <2> QED BY <2>2, <2>3, <2>4
<1> HIDE DEF q, step
<1>7. \A i \in DOMAIN q : \E k \in DOMAIN list : i = 2 * k - 1 \/ i = 2 * k
  BY <1>1, <1>3, <1>5
<1> QED BY <1>1, <1>5, <1>6, <1>7 DEF n, q

LEMMA StoppingSteps ==
  ASSUME NEW list \in Seq(Services)
  PROVE  LET q == Stopping(list) IN
         /\ q \in Seq(Steps) /\ Len(q) = Len(list)
         /\ \A k \in DOMAIN list : q[k] = StopOf(list[k])
<1> DEFINE n == Len(list)
           q == Stopping(list)
<1>1. n \in Nat /\ DOMAIN list = 1 .. n /\ \A k \in 1 .. n : list[k] \in Services
  OBVIOUS
<1>2. q = [i \in 1 .. n |-> StopOf(list[i])]
  BY <1>1 DEF Stopping, StopOf
<1> HIDE DEF n, q
<1>3. q \in [1 .. n -> Steps]
  BY <1>1, <1>2, StepKinds
<1>4. q \in Seq(Steps) /\ Len(q) = n
  BY <1>1, <1>3
<1> QED BY <1>1, <1>2, <1>4 DEF n, q

(* Services that use only what runs or what is started before.              *)
LEMMA StartingWorkable ==
  ASSUME NEW list \in Seq(Services), NEW R \in SUBSET Services, Closed(R),
         \A i \in DOMAIN list : list[i] \notin R,
         \A i, j \in DOMAIN list : i < j => list[i] # list[j],
         \A i \in DOMAIN list : \A d \in depStart[list[i]] :
            d \in R \/ \E j \in DOMAIN list : j < i /\ list[j] = d
  PROVE  Workable(Starting(list), R)
<1> DEFINE q == Starting(list)
           n == Len(list)
           Before(i) == R \union {s \in Services : \E j \in 1 .. n : 2 * j - 1 < i /\ list[j] = s}
<1>1. n \in Nat /\ DOMAIN list = 1 .. n /\ \A k \in 1 .. n : list[k] \in Services
  OBVIOUS
<1>2. /\ q \in Seq(Steps) /\ Len(q) = 2 * n
      /\ \A k \in 1 .. n : q[2 * k - 1] = StartOf(list[k]) /\ q[2 * k] = SwitchOf(list[k])
      /\ \A i \in DOMAIN q : \E k \in 1 .. n : i = 2 * k - 1 \/ i = 2 * k
  <2>1. /\ q \in Seq(Steps) /\ Len(q) = 2 * Len(list)
        /\ \A k \in DOMAIN list : q[2 * k - 1] = StartOf(list[k]) /\ q[2 * k] = SwitchOf(list[k])
        /\ \A i \in DOMAIN q : \E k \in DOMAIN list : i = 2 * k - 1 \/ i = 2 * k
    BY StartingSteps
  <2> HIDE DEF q
  <2> QED BY <1>1, <2>1
<1> HIDE DEF q, n
<1>3. DOMAIN q = 1 .. 2 * n
  BY <1>1, <1>2
<1>4. \A i \in DOMAIN q : \E k \in 1 .. n :
        \/ i = 2 * k - 1 /\ q[i] = StartOf(list[k]) /\ q[i].do = "start" /\ q[i].srv = list[k]
        \/ i = 2 * k /\ q[i] = SwitchOf(list[k]) /\ q[i].do = "switch" /\ q[i].srv = list[k]
  <2> SUFFICES ASSUME NEW i \in DOMAIN q, NEW k \in 1 .. n, i = 2 * k - 1 \/ i = 2 * k
               PROVE  \/ i = 2 * k - 1 /\ q[i] = StartOf(list[k]) /\ q[i].do = "start" /\ q[i].srv = list[k]
                      \/ i = 2 * k /\ q[i] = SwitchOf(list[k]) /\ q[i].do = "switch" /\ q[i].srv = list[k]
    BY <1>2
  <2>1. list[k] \in Services
    BY <1>1
  <2> QED BY <1>2, <2>1, StepKinds
<1>5. ASSUME NEW i \in 1 .. 2 * n + 1 PROVE RunsAt(q, i, R) = Before(i)
  <2>1. ASSUME NEW s \in Services, NEW j \in 1 .. i - 1 PROVE q[j] # StopOf(s)
    <3>1. j \in DOMAIN q
      BY <1>1, <1>3
    <3> QED BY <3>1, <1>4, StepKinds
  <2>2. ASSUME NEW s \in Services
        PROVE  (\E j \in 1 .. i - 1 : q[j] = StartOf(s)) <=> \E k \in 1 .. n : 2 * k - 1 < i /\ list[k] = s
    <3>1. ASSUME NEW j \in 1 .. i - 1, q[j] = StartOf(s)
          PROVE  \E k \in 1 .. n : 2 * k - 1 < i /\ list[k] = s
      <4>1. j \in DOMAIN q
        BY <1>1, <1>3
      <4>2. PICK k \in 1 .. n : j = 2 * k - 1 /\ q[j].srv = list[k]
        BY <1>4, <3>1, <4>1, StepKinds
      <4>3. list[k] = s
        BY <4>2, <3>1, StepKinds
      <4> QED BY <4>2, <4>3, <1>1
    <3>2. ASSUME NEW k \in 1 .. n, 2 * k - 1 < i, list[k] = s
          PROVE  \E j \in 1 .. i - 1 : q[j] = StartOf(s)
      <4>1. 2 * k - 1 \in 1 .. i - 1
        BY <3>2, <1>1
      <4> QED BY <4>1, <3>2, <1>2
    <3> QED BY <3>1, <3>2
  <2> QED BY <2>1, <2>2 DEF RunsAt
<1>6. ASSUME NEW i \in 1 .. 2 * n + 1 PROVE Closed(Before(i))
  <2> SUFFICES ASSUME NEW s \in Before(i), NEW d \in depStart[s] PROVE d \in Before(i)
    BY DEF Closed
  <2>1. CASE s \in R
    BY <2>1 DEF Closed
  <2>2. ASSUME NEW k \in 1 .. n, 2 * k - 1 < i, list[k] = s PROVE d \in Before(i)
    <3>1. d \in Services
      BY <2>2, <1>1, StartRankOK
    <3>2. CASE d \in R
      BY <3>2
    <3>3. ASSUME NEW j \in 1 .. n, j < k, list[j] = d PROVE d \in Before(i)
      <4>1. 2 * j - 1 < i
        BY <3>3, <2>2
      <4> QED BY <4>1, <3>1, <3>3
    <3> QED BY <3>2, <3>3, <2>2, <1>1
  <2> QED BY <2>1, <2>2
<1>7. KeepsClosed(q, R)
  <2>1. ASSUME NEW i \in 1 .. 2 * n + 1 PROVE Closed(RunsAt(q, i, R))
    <3>1. RunsAt(q, i, R) = Before(i) /\ Closed(Before(i))
      BY <1>5, <1>6
    <3> HIDE DEF Before
    <3> QED BY <3>1
  <2> QED BY <1>2, <2>1 DEF KeepsClosed
<1>8. StopsFirst(q)
  BY <1>4 DEF StopsFirst
<1>9. StartsStopped(q, R)
  <2> SUFFICES ASSUME NEW i \in DOMAIN q, q[i].do = "start" PROVE q[i].srv \notin Before(i)
    BY <1>1, <1>3, <1>5 DEF StartsStopped
  <2>1. PICK k \in 1 .. n : i = 2 * k - 1 /\ q[i].srv = list[k]
    BY <1>4
  <2>2. list[k] \notin R
    BY <1>1
  <2>3. ASSUME NEW j \in 1 .. n, 2 * j - 1 < i, list[j] = list[k] PROVE FALSE
    <3>1. j < k
      BY <2>1, <2>3
    <3> QED BY <3>1, <2>3, <1>1
  <2> QED BY <2>1, <2>2, <2>3
<1>10. SwitchesStarted(q)
  <2>1. ASSUME NEW i \in DOMAIN q, q[i].do = "start"
        PROVE  i + 1 \in DOMAIN q /\ q[i + 1] = SwitchOf(q[i].srv)
    <3>1. PICK k \in 1 .. n : i = 2 * k - 1 /\ q[i].srv = list[k]
      BY <1>4, <2>1
    <3>2. i + 1 = 2 * k /\ 2 * k \in 1 .. 2 * n
      BY <3>1, <1>1
    <3> QED BY <3>1, <3>2, <1>2, <1>3
  <2>2. ASSUME NEW i \in DOMAIN q, q[i].do = "switch"
        PROVE  q[i - 1] = StartOf(q[i].srv)
    <3>1. PICK k \in 1 .. n : i = 2 * k /\ q[i].srv = list[k]
      BY <1>4, <2>2
    <3> QED BY <3>1, <1>2
  <2> QED BY <2>1, <2>2 DEF SwitchesStarted
<1> QED BY <1>2, <1>7, <1>8, <1>9, <1>10 DEF Workable, q
(* Services that are stopped after those that use them.                     *)
LEMMA StoppingWorkable ==
  ASSUME NEW list \in Seq(Services), NEW R \in SUBSET Services, Closed(R),
         \A i \in DOMAIN list : \A u \in R :
            list[i] \in depStart[u] => \E j \in DOMAIN list : j < i /\ list[j] = u
  PROVE  LET q == Stopping(list) IN
         /\ Workable(q, R)
         /\ \A i \in DOMAIN q : q[i].do = "stop"
         /\ RunsAt(q, Len(q) + 1, R) = R \ {s \in Services : \E j \in DOMAIN list : list[j] = s}
<1> DEFINE q == Stopping(list)
           n == Len(list)
           Left(i) == R \ {s \in Services : \E j \in 1 .. n : j < i /\ list[j] = s}
<1>1. n \in Nat /\ DOMAIN list = 1 .. n /\ \A k \in 1 .. n : list[k] \in Services
  OBVIOUS
<1>2. /\ q \in Seq(Steps) /\ Len(q) = n
      /\ \A k \in 1 .. n : q[k] = StopOf(list[k])
  <2>1. q \in Seq(Steps) /\ Len(q) = Len(list) /\ \A k \in DOMAIN list : q[k] = StopOf(list[k])
    BY StoppingSteps
  <2> HIDE DEF q
  <2> QED BY <1>1, <2>1
<1> HIDE DEF q, n
<1>3. DOMAIN q = 1 .. n
  BY <1>1, <1>2
<1>4. \A i \in 1 .. n : q[i] = StopOf(list[i]) /\ q[i].do = "stop" /\ q[i].srv = list[i]
  BY <1>1, <1>2, StepKinds
<1>5. ASSUME NEW i \in 1 .. n + 1 PROVE RunsAt(q, i, R) = Left(i)
  <2>1. ASSUME NEW s \in Services, NEW j \in 1 .. i - 1
        PROVE  j \in 1 .. n /\ q[j] # StartOf(s) /\ (q[j] = StopOf(s) <=> list[j] = s)
    <3>1. j \in 1 .. n
      BY <1>1
    <3> QED BY <3>1, <1>4, StepKinds
  <2>2. ASSUME NEW s \in Services
        PROVE  (\E j \in 1 .. i - 1 : q[j] = StopOf(s)) <=> \E j \in 1 .. n : j < i /\ list[j] = s
    <3>1. \A j : j \in 1 .. i - 1 <=> j \in 1 .. n /\ j < i
      BY <1>1
    <3> QED BY <3>1, <2>1
  <2>3. {s \in Services : \E j \in 1 .. i - 1 : q[j] = StartOf(s)} = {}
    BY <2>1
  <2>4. {s \in Services : \E j \in 1 .. i - 1 : q[j] = StopOf(s)}
          = {s \in Services : \E j \in 1 .. n : j < i /\ list[j] = s}
    BY <2>2
  <2> QED BY <2>3, <2>4 DEF RunsAt
<1>6. ASSUME NEW i \in 1 .. n + 1 PROVE Closed(Left(i))
  <2> SUFFICES ASSUME NEW u \in Left(i), NEW d \in depStart[u] PROVE d \in Left(i)
    BY DEF Closed
  <2>1. d \in R
    BY DEF Closed
  <2>2. ASSUME NEW j \in 1 .. n, j < i, list[j] = d PROVE FALSE
    <3>1. PICK k \in 1 .. n : k < j /\ list[k] = u
      BY <1>1, <2>2
    <3>2. k < i /\ u \in Services
      BY <3>1, <2>2
    <3> QED BY <3>1, <3>2
  <2> QED BY <2>1, <2>2
<1>7. KeepsClosed(q, R)
  <2>1. ASSUME NEW i \in 1 .. n + 1 PROVE Closed(RunsAt(q, i, R))
    <3>1. RunsAt(q, i, R) = Left(i) /\ Closed(Left(i))
      BY <1>5, <1>6
    <3> HIDE DEF Left
    <3> QED BY <3>1
  <2> QED BY <1>2, <2>1 DEF KeepsClosed
<1>8. StopsFirst(q) /\ StartsStopped(q, R) /\ SwitchesStarted(q)
  BY <1>3, <1>4 DEF StopsFirst, StartsStopped, SwitchesStarted
<1>9. RunsAt(q, n + 1, R) = R \ {s \in Services : \E j \in DOMAIN list : list[j] = s}
  <2>1. RunsAt(q, n + 1, R) = Left(n + 1)
    BY <1>1, <1>5
  <2>2. \A j \in 1 .. n : j < n + 1
    BY <1>1
  <2>3. Left(n + 1) = R \ {s \in Services : \E j \in DOMAIN list : list[j] = s}
    BY <1>1, <2>2
  <2> HIDE DEF Left
  <2> QED BY <2>1, <2>3
<1> QED BY <1>2, <1>3, <1>4, <1>7, <1>8, <1>9 DEF Workable, q

(* A restart: first a list that only stops, then one that only starts.      *)
LEMMA RestartWorkable ==
  ASSUME NEW stops, NEW starts, NEW R \in SUBSET Services,
         Workable(stops, R), \A i \in DOMAIN stops : stops[i].do = "stop",
         Workable(starts, RunsAt(stops, Len(stops) + 1, R)),
         \A i \in DOMAIN starts : starts[i].do # "stop",
         starts # << >> => starts[1].do = "start"
  PROVE  Workable(stops \o starts, R)
<1> DEFINE q == stops \o starts
           n == Len(stops)
           m == Len(starts)
           R2 == RunsAt(stops, n + 1, R)
<1>1. stops \in Seq(Steps) /\ starts \in Seq(Steps)
  BY DEF Workable
<1>2. n \in Nat /\ m \in Nat /\ DOMAIN stops = 1 .. n /\ DOMAIN starts = 1 .. m
  BY <1>1
<1>3. /\ q \in Seq(Steps) /\ Len(q) = n + m /\ DOMAIN q = 1 .. n + m
      /\ \A i \in 1 .. n : q[i] = stops[i]
      /\ \A i \in 1 .. m : q[n + i] = starts[i]
  BY <1>1
<1> HIDE DEF q, n, m
<1>4. \A i \in DOMAIN q : i \in 1 .. n \/ (i - n \in 1 .. m /\ i = n + (i - n))
  BY <1>2, <1>3
<1>5. ASSUME NEW s \in Services, NEW j \in 1 .. n PROVE q[j] # StartOf(s)
  BY <1>2, <1>3, StepKinds
<1>6. ASSUME NEW s \in Services, NEW j \in 1 .. m PROVE starts[j] # StopOf(s)
  BY <1>2, StepKinds
<1>7. ASSUME NEW i \in 1 .. n + 1 PROVE RunsAt(q, i, R) = RunsAt(stops, i, R)
  <2>1. \A j \in 1 .. i - 1 : j \in 1 .. n /\ q[j] = stops[j]
    BY <1>2, <1>3
  <2> QED BY <2>1 DEF RunsAt
<1>8. ASSUME NEW k \in 1 .. m + 1 PROVE RunsAt(q, n + k, R) = RunsAt(starts, k, R2)
  <2> DEFINE stopped == {s \in Services : \E j \in 1 .. n : stops[j] = StopOf(s)}
             begun == {s \in Services : \E j \in 1 .. k - 1 : starts[j] = StartOf(s)}
  <2>1. {s \in Services : \E j \in 1 .. (n + k) - 1 : q[j] = StopOf(s)} = stopped
    <3>1. ASSUME NEW s \in Services, NEW j \in 1 .. (n + k) - 1, q[j] = StopOf(s) PROVE s \in stopped
      <4>1. j \in DOMAIN q
        BY <1>2, <1>3
      <4>2. j \in 1 .. n
        BY <4>1, <3>1, <1>3, <1>4, <1>6
      <4> QED BY <4>2, <3>1, <1>3
    <3>2. ASSUME NEW s \in Services, NEW j \in 1 .. n, stops[j] = StopOf(s)
          PROVE  \E i \in 1 .. (n + k) - 1 : q[i] = StopOf(s)
      <4>1. j \in 1 .. (n + k) - 1
        BY <1>2
      <4> QED BY <4>1, <3>2, <1>3
    <3> QED BY <3>1, <3>2
  <2>2. {s \in Services : \E j \in 1 .. (n + k) - 1 : q[j] = StartOf(s)} = begun
    <3>1. ASSUME NEW s \in Services, NEW j \in 1 .. (n + k) - 1, q[j] = StartOf(s) PROVE s \in begun
      <4>1. j - n \in 1 .. k - 1 /\ j - n \in 1 .. m /\ j = n + (j - n)
        BY <1>2, <1>5, <3>1
      <4>2. starts[j - n] = StartOf(s)
        BY <4>1, <3>1, <1>3
      <4> QED BY <4>1, <4>2
    <3>2. ASSUME NEW s \in Services, NEW j \in 1 .. k - 1, starts[j] = StartOf(s)
          PROVE  \E i \in 1 .. (n + k) - 1 : q[i] = StartOf(s)
      <4>1. n + j \in 1 .. (n + k) - 1 /\ j \in 1 .. m
        BY <1>2
      <4> QED BY <4>1, <3>2, <1>3
    <3> QED BY <3>1, <3>2
  <2>3. RunsAt(q, n + k, R) = (R \ stopped) \union begun
    <3>1. RunsAt(q, n + k, R)
            = (R \ {s \in Services : \E j \in 1 .. (n + k) - 1 : q[j] = StopOf(s)})
              \union {s \in Services : \E j \in 1 .. (n + k) - 1 : q[j] = StartOf(s)}
      BY DEF RunsAt
    <3> HIDE DEF stopped, begun
    <3> QED BY <3>1, <2>1, <2>2
  <2>4. R2 = R \ stopped
    <3>1. (n + 1) - 1 = n
      BY <1>2
    <3>2. R2 = (R \ {s \in Services : \E j \in 1 .. (n + 1) - 1 : stops[j] = StopOf(s)})
               \union {s \in Services : \E j \in 1 .. (n + 1) - 1 : stops[j] = StartOf(s)}
      BY DEF RunsAt
    <3>3. {s \in Services : \E j \in 1 .. n : stops[j] = StartOf(s)} = {}
      BY <1>3, <1>5
    <3> QED BY <3>1, <3>2, <3>3
  <2>5. {s \in Services : \E j \in 1 .. k - 1 : starts[j] = StopOf(s)} = {}
    BY <1>2, <1>6
  <2>6. RunsAt(starts, k, R2) = R2 \union begun
    BY <2>5 DEF RunsAt
  <2> QED BY <2>3, <2>4, <2>6
<1>9. KeepsClosed(stops, R) /\ KeepsClosed(starts, R2) /\ StartsStopped(starts, R2)
      /\ SwitchesStarted(starts)
  BY DEF Workable, n
<1> HIDE DEF R2
<1>10. KeepsClosed(q, R)
  <2>1. ASSUME NEW i \in 1 .. n + m + 1 PROVE Closed(RunsAt(q, i, R))
    <3>1. CASE i \in 1 .. n + 1
      <4>1. RunsAt(q, i, R) = RunsAt(stops, i, R)
        BY <3>1, <1>7
      <4>2. Closed(RunsAt(stops, i, R))
        BY <3>1, <1>9 DEF KeepsClosed, n
      <4> QED BY <4>1, <4>2
    <3>2. CASE i > n + 1
      <4>1. i - n \in 1 .. m + 1 /\ i = n + (i - n)
        BY <3>2, <1>2
      <4>2. RunsAt(q, i, R) = RunsAt(starts, i - n, R2)
        BY <4>1, <1>8
      <4>3. Closed(RunsAt(starts, i - n, R2))
        BY <4>1, <1>9 DEF KeepsClosed, m
      <4> QED BY <4>2, <4>3
    <3> QED BY <3>1, <3>2, <1>2
  <2> QED BY <1>3, <2>1 DEF KeepsClosed
<1>11. StopsFirst(q)
  <2> SUFFICES ASSUME NEW i \in DOMAIN q, NEW j \in DOMAIN q, i < j, q[j].do = "stop"
               PROVE  q[i].do = "stop"
    BY DEF StopsFirst
  <2>1. j \in 1 .. n
    BY <1>2, <1>3, <1>4
  <2>2. i \in 1 .. n
    BY <2>1, <1>2, <1>3
  <2> QED BY <2>2, <1>2, <1>3
<1>12. StartsStopped(q, R)
  <2> SUFFICES ASSUME NEW i \in DOMAIN q, q[i].do = "start" PROVE q[i].srv \notin RunsAt(q, i, R)
    BY DEF StartsStopped
  <2>1. i - n \in 1 .. m /\ i = n + (i - n)
    BY <1>2, <1>3, <1>4
  <2>2. q[i] = starts[i - n]
    BY <2>1, <1>3
  <2>3. i - n \in 1 .. m + 1
    BY <2>1, <1>2
  <2>4. RunsAt(q, i, R) = RunsAt(starts, i - n, R2)
    BY <2>1, <2>3, <1>8
  <2> QED BY <2>1, <2>2, <2>4, <1>2, <1>9 DEF StartsStopped
<1>13. SwitchesStarted(q)
  <2>1. ASSUME NEW i \in DOMAIN q, q[i].do = "start"
        PROVE  i + 1 \in DOMAIN q /\ q[i + 1] = SwitchOf(q[i].srv)
    <3>1. i - n \in 1 .. m /\ i = n + (i - n)
      BY <2>1, <1>2, <1>3, <1>4
    <3>2. q[i] = starts[i - n]
      BY <3>1, <1>3
    <3>3. i - n + 1 \in 1 .. m /\ starts[i - n + 1] = SwitchOf(starts[i - n].srv)
      BY <3>1, <3>2, <2>1, <1>2, <1>9 DEF SwitchesStarted
    <3>4. i \in Int /\ n \in Int /\ m \in Int
      BY <1>2, <1>3
    <3>5. i + 1 = n + (i - n + 1) /\ i + 1 \in 1 .. n + m
      BY <3>3, <3>4, <1>2
    <3> QED BY <3>2, <3>3, <3>5, <1>3
  <2>2. ASSUME NEW i \in DOMAIN q, q[i].do = "switch", i > 1
        PROVE  q[i - 1] = StartOf(q[i].srv)
    <3>1. i - n \in 1 .. m /\ i = n + (i - n)
      BY <2>2, <1>2, <1>3, <1>4
    <3>2. q[i] = starts[i - n]
      BY <3>1, <1>3
    <3>3. i - n # 1
      BY <3>1, <3>2, <2>2, <1>2
    <3>4. i - n > 1 /\ i - n - 1 \in 1 .. m /\ i - 1 = n + (i - n - 1)
      BY <3>1, <3>3, <1>2
    <3>5. starts[i - n - 1] = StartOf(starts[i - n].srv)
      BY <3>1, <3>2, <3>4, <2>2, <1>2, <1>9 DEF SwitchesStarted
    <3> QED BY <3>2, <3>4, <3>5, <1>3
  <2> QED BY <2>1, <2>2 DEF SwitchesStarted
<1> QED BY <1>3, <1>10, <1>11, <1>12, <1>13 DEF Workable, q
-----------------------------------------------------------------------------
(* What a command or the shutdown gives a thread to do                      *)

LEMMA StartIsWorkable ==
  ASSUME NEW s \in Services, NEW R \in SUBSET Services, Closed(R)
  PROVE  Workable(Starting(InSet(StartOrder, Reach(s, depStart, R))), R)
<1> DEFINE reached == Reach(s, depStart, R)
           list == InSet(StartOrder, reached)
<1>1. /\ reached \subseteq Services \ R
      /\ \A t \in reached : depStart[t] \subseteq R \union reached
  <2>1. StartRank \in [Services -> 1 .. 5] /\ Descends(StartRank, depStart)
        /\ depStart \in [Services -> SUBSET Services]
    BY StartRankOK DEF Ranks
  <2> QED BY <2>1, ReachStartExists, ReachIsClosed
<1> HIDE DEF reached
<1>2. Lists(list, reached, StartRank)
  BY <1>1, StartRankOK, InSetLists
<1> HIDE DEF list
<1>3. /\ list \in Seq(reached)
      /\ \A t \in reached : \E i \in DOMAIN list : list[i] = t
      /\ \A i, j \in DOMAIN list : i < j => StartRank[list[i]] < StartRank[list[j]]
  BY <1>2 DEF Lists
<1>4. list \in Seq(Services) /\ DOMAIN list = 1 .. Len(list) /\ Len(list) \in Nat
      /\ \A i \in DOMAIN list : list[i] \in reached
  BY <1>1, <1>3
<1>5. \A t \in Services : StartRank[t] \in Nat /\ \A d \in depStart[t] : StartRank[d] < StartRank[t]
  BY StartRankOK DEF Ranks, Descends
<1>6. ASSUME NEW i \in DOMAIN list, NEW j \in DOMAIN list, i < j PROVE list[i] # list[j]
  <2>1. StartRank[list[i]] < StartRank[list[j]] /\ StartRank[list[i]] \in Nat
    BY <1>1, <1>3, <1>4, <1>5, <1>6
  <2> QED BY <2>1
<1>7. ASSUME NEW i \in DOMAIN list, NEW d \in depStart[list[i]], d \notin R
      PROVE  \E j \in DOMAIN list : j < i /\ list[j] = d
  <2>1. d \in reached
    BY <1>1, <1>4, <1>7
  <2>2. PICK j \in DOMAIN list : list[j] = d
    BY <1>3, <2>1
  <2>3. StartRank[d] < StartRank[list[i]] /\ StartRank[d] \in Nat /\ StartRank[list[i]] \in Nat
    BY <1>1, <1>4, <1>5, <2>1
  <2>4. ~ (i < j) /\ i # j
    BY <1>3, <2>2, <2>3
  <2>5. j < i
    BY <2>4, <1>4
  <2> QED BY <2>2, <2>5
<1>8. Workable(Starting(list), R)
  BY <1>1, <1>4, <1>6, <1>7, StartingWorkable
<1> QED BY <1>8 DEF list, reached

(* list holds what must be stopped, with all that use it, before that.      *)
StopList(list, reached, R) ==
    /\ reached \subseteq R
    /\ \A t \in reached, u \in R : t \in depStart[u] => u \in reached
    /\ list \in Seq(Services) /\ \A i \in DOMAIN list : list[i] \in reached
    /\ \A t \in reached : \E i \in DOMAIN list : list[i] = t
    /\ \A i, j \in DOMAIN list : list[i] \in depStart[list[j]] => j < i
    /\ \A i, j \in DOMAIN list : i # j => list[i] # list[j]

LEMMA StopLists ==
  ASSUME NEW s \in Services, NEW R \in SUBSET Services, NEW order \in StopOrders
  PROVE  /\ StopList(InSet(order, Reach(s, depStop, Services \ R)), Reach(s, depStop, Services \ R), R)
         /\ s \in R => s \in Reach(s, depStop, Services \ R)
<1> DEFINE reached == Reach(s, depStop, Services \ R)
           list == InSet(order, reached)
<1>1. PICK rank \in StopRanks : Ranks(rank, order)
  BY StopRankOK
<1>2. rank \in [Services -> 1 .. 5] /\ Descends(rank, depStop) /\ depStop \in [Services -> SUBSET Services]
  BY StopRankOK
<1>3. /\ reached \subseteq Services \ (Services \ R)
      /\ s \notin Services \ R => s \in reached
      /\ \A t \in reached : depStop[t] \subseteq (Services \ R) \union reached
  <2> HIDE DEF reached
  <2>1. \E f : Reaches(f, depStop, Services \ R)
    BY ReachStopExists
  <2> QED BY <2>1, <1>2, ReachIsClosed DEF reached
<1> HIDE DEF reached
<1>4. Lists(list, reached, rank)
  BY <1>1, <1>3, InSetLists
<1> HIDE DEF list
<1>5. /\ list \in Seq(reached)
      /\ \A t \in reached : \E i \in DOMAIN list : list[i] = t
      /\ \A i, j \in DOMAIN list : i < j => rank[list[i]] < rank[list[j]]
  BY <1>4 DEF Lists
<1>6. list \in Seq(Services) /\ DOMAIN list = 1 .. Len(list) /\ Len(list) \in Nat
      /\ \A i \in DOMAIN list : list[i] \in reached /\ list[i] \in Services
  BY <1>3, <1>5
<1>7. \A t, u \in Services : t \in depStart[u] => u \in depStop[t] /\ rank[u] < rank[t]
  <2>1. \A t, u \in Services : t \in depStart[u] => u \in depStop[t]
    BY DEF depStop
  <2> QED BY <2>1, <1>2 DEF Descends
<1>8. \A t \in Services : rank[t] \in Nat
  BY <1>2
<1>9. \A t \in reached, u \in R : t \in depStart[u] => u \in reached
  BY <1>3, <1>7
<1>10. ASSUME NEW i \in DOMAIN list, NEW j \in DOMAIN list, list[i] \in depStart[list[j]]
       PROVE  j < i
  <2>1. rank[list[j]] < rank[list[i]] /\ rank[list[j]] \in Nat /\ rank[list[i]] \in Nat
    BY <1>6, <1>7, <1>8, <1>10
  <2>2. ~ (i < j) /\ i # j
    BY <1>5, <2>1
  <2> QED BY <2>2, <1>6
<1>11. ASSUME NEW i \in DOMAIN list, NEW j \in DOMAIN list, i # j
       PROVE  list[i] # list[j]
  <2>1. rank[list[i]] \in Nat /\ rank[list[j]] \in Nat
    BY <1>6, <1>8
  <2>2. i < j \/ j < i
    BY <1>6, <1>11
  <2> QED BY <2>1, <2>2, <1>5
<1> QED BY <1>3, <1>5, <1>6, <1>9, <1>10, <1>11 DEF list, reached, StopList

LEMMA StopIsWorkable ==
  ASSUME NEW s \in Services, NEW R \in SUBSET Services, Closed(R), NEW order \in StopOrders
  PROVE  LET reached == Reach(s, depStop, Services \ R)
             q == Stopping(InSet(order, reached))
         IN  /\ Workable(q, R)
             /\ \A i \in DOMAIN q : q[i].do = "stop"
             /\ RunsAt(q, Len(q) + 1, R) = R \ reached
<1> DEFINE reached == Reach(s, depStop, Services \ R)
           list == InSet(order, reached)
           q == Stopping(list)
<1>1. /\ reached \subseteq R
      /\ \A t \in reached, u \in R : t \in depStart[u] => u \in reached
      /\ list \in Seq(Services) /\ \A i \in DOMAIN list : list[i] \in reached
      /\ \A t \in reached : \E i \in DOMAIN list : list[i] = t
      /\ \A i, j \in DOMAIN list : list[i] \in depStart[list[j]] => j < i
  <2>1. StopList(list, reached, R)
    BY StopLists
  <2> HIDE DEF list, reached
  <2> QED BY <2>1 DEF StopList
<1> HIDE DEF list, reached
<1>2. \A i \in DOMAIN list : \A u \in R :
        list[i] \in depStart[u] => \E j \in DOMAIN list : j < i /\ list[j] = u
  BY <1>1
<1>3. /\ Workable(q, R)
      /\ \A i \in DOMAIN q : q[i].do = "stop"
      /\ RunsAt(q, Len(q) + 1, R) = R \ {t \in Services : \E j \in DOMAIN list : list[j] = t}
  BY <1>1, <1>2, StoppingWorkable
<1>4. {t \in Services : \E j \in DOMAIN list : list[j] = t} = reached
  BY <1>1
<1> QED BY <1>3, <1>4 DEF list, reached

LEMMA ReversedList ==
  ASSUME NEW list \in Seq(Services)
  PROVE  Reversed(list) \in Seq(Services) /\ Len(Reversed(list)) = Len(list)
<1>1. \A i \in 1 .. Len(list) : list[Len(list) + 1 - i] \in Services
  OBVIOUS
<1>2. Reversed(list) = [i \in 1 .. Len(list) |-> list[Len(list) + 1 - i]] /\ Len(list) \in Nat
  BY DEF Reversed
<1> QED BY <1>1, <1>2

LEMMA RestartIsWorkable ==
  ASSUME NEW s \in Services, NEW R \in SUBSET Services, Closed(R), NEW order \in StopOrders
  PROVE  LET list == InSet(order, Reach(s, depStop, Services \ R))
         IN  Workable(Stopping(list) \o Starting(Reversed(list)), R)
<1> DEFINE reached == Reach(s, depStop, Services \ R)
           list == InSet(order, reached)
           stops == Stopping(list)
           back == Reversed(list)
           starts == Starting(back)
           n == Len(list)
<1>1. /\ reached \subseteq R
      /\ \A t \in reached, u \in R : t \in depStart[u] => u \in reached
      /\ list \in Seq(Services) /\ \A i \in DOMAIN list : list[i] \in reached
      /\ \A t \in reached : \E i \in DOMAIN list : list[i] = t
      /\ \A i, j \in DOMAIN list : list[i] \in depStart[list[j]] => j < i
      /\ \A i, j \in DOMAIN list : i # j => list[i] # list[j]
  <2>1. StopList(list, reached, R)
    BY StopLists
  <2> HIDE DEF list, reached
  <2> QED BY <2>1 DEF StopList
<1>2. /\ Workable(stops, R)
      /\ \A i \in DOMAIN stops : stops[i].do = "stop"
      /\ RunsAt(stops, Len(stops) + 1, R) = R \ reached
  BY StopIsWorkable
<1> HIDE DEF list, reached, stops
<1>3. n \in Nat /\ DOMAIN list = 1 .. n
  BY <1>1
<1> HIDE DEF n
<1>4. /\ back = [i \in 1 .. n |-> list[n + 1 - i]]
      /\ \A i \in 1 .. n : n + 1 - i \in 1 .. n
  BY <1>3 DEF Reversed, n
<1> HIDE DEF back
<1>5. back \in Seq(Services) /\ Len(back) = n /\ DOMAIN back = 1 .. n
      /\ \A i \in 1 .. n : back[i] = list[n + 1 - i] /\ back[i] \in reached
  <2>1. \A i \in 1 .. n : list[n + 1 - i] \in Services /\ list[n + 1 - i] \in reached
    BY <1>1, <1>3, <1>4
  <2> QED BY <2>1, <1>3, <1>4
<1>6. Workable(starts, R \ reached)
  <2>1. Closed(R \ reached)
    BY <1>1, StartRankOK DEF Closed
  <2>2. \A i \in DOMAIN back : back[i] \notin R \ reached
    BY <1>5
  <2>3. ASSUME NEW i \in DOMAIN back, NEW j \in DOMAIN back, i < j PROVE back[i] # back[j]
    <3>1. n + 1 - i # n + 1 - j
      BY <2>3, <1>3, <1>5
    <3> QED BY <3>1, <1>1, <1>3, <1>4, <1>5
  <2>4. ASSUME NEW i \in DOMAIN back, NEW d \in depStart[back[i]], d \notin R \ reached
        PROVE  \E j \in DOMAIN back : j < i /\ back[j] = d
    <3>1. d \in reached
      BY <2>4, <1>1, <1>5 DEF Closed
    <3>2. PICK k \in 1 .. n : list[k] = d
      BY <3>1, <1>1, <1>3
    <3>3. n + 1 - i < k
      BY <3>2, <1>1, <1>3, <1>4, <1>5
    <3>4. n + 1 - k \in 1 .. n /\ n + 1 - k < i /\ n + 1 - (n + 1 - k) = k
      BY <3>3, <1>3, <1>5
    <3>5. back[n + 1 - k] = d
      BY <3>2, <3>4, <1>5
    <3> QED BY <3>4, <3>5, <1>5
  <2>5. R \ reached \in SUBSET Services /\ back \in Seq(Services)
    BY <1>5
  <2>6. Workable(Starting(back), R \ reached)
    <3> HIDE DEF starts
    <3> QED BY <2>1, <2>2, <2>3, <2>4, <2>5, StartingWorkable
  <2> QED BY <2>6
<1>7. /\ \A i \in DOMAIN starts : starts[i].do # "stop"
      /\ starts # << >> => starts[1].do = "start"
  <2>1. /\ starts \in Seq(Steps) /\ Len(starts) = 2 * n
        /\ \A k \in 1 .. n : starts[2 * k - 1] = StartOf(back[k]) /\ starts[2 * k] = SwitchOf(back[k])
        /\ \A i \in DOMAIN starts : \E k \in 1 .. n : i = 2 * k - 1 \/ i = 2 * k
    BY <1>5, StartingSteps
  <2> HIDE DEF starts
  <2>2. \A k \in 1 .. n : back[k] \in Services
    BY <1>5
  <2>3. ASSUME NEW i \in DOMAIN starts PROVE starts[i].do # "stop"
    <3>1. PICK k \in 1 .. n : i = 2 * k - 1 \/ i = 2 * k
      BY <2>1
    <3>2. starts[i] = StartOf(back[k]) \/ starts[i] = SwitchOf(back[k])
      BY <3>1, <2>1
    <3> QED BY <3>2, <2>2, StepKinds
  <2>4. ASSUME starts # << >> PROVE starts[1].do = "start"
    <3>1. 1 \in 1 .. n /\ 2 * 1 - 1 = 1
      BY <2>1, <2>4, <1>3
    <3>2. starts[2 * 1 - 1] = StartOf(back[1])
      BY <3>1, <2>1
    <3> QED BY <3>1, <3>2, <2>2, StepKinds
  <2> QED BY <2>3, <2>4
<1> HIDE DEF starts
<1>8. Workable(stops \o starts, R)
  BY <1>2, <1>6, <1>7, RestartWorkable
<1> QED BY <1>8 DEF stops, starts, back, list, reached
-----------------------------------------------------------------------------
(* Working through a list *)

LEMMA FirstStep ==
  ASSUME NEW R \in SUBSET Services, NEW q, Workable(q, R), q # << >>
  PROVE  /\ Head(q) = q[1] /\ q[1] \in Steps /\ q[1].srv \in Services
         /\ q[1].do = "start" => q[1].srv \notin R /\ RunsAt(q, 2, R) = R \union {q[1].srv}
         /\ q[1].do = "switch" => RunsAt(q, 2, R) = R
         /\ q[1].do = "stop" => RunsAt(q, 2, R) = R \ {q[1].srv}
         /\ Closed(RunsAt(q, 2, R))
         /\ RunsAt(q, 2, R) \subseteq Services
<1>1. q \in Seq(Steps) /\ 1 \in DOMAIN q /\ Head(q) = q[1] /\ q[1] \in Steps
  BY DEF Workable
<1>2. q[1].srv \in Services /\ q[1].do \in {"start", "switch", "stop"}
      /\ q[1] = [do |-> q[1].do, srv |-> q[1].srv]
  BY <1>1 DEF Steps
<1>3. \A s \in Services :
        /\ (\E j \in 1 .. 2 - 1 : q[j] = StopOf(s)) <=> q[1].do = "stop" /\ q[1].srv = s
        /\ (\E j \in 1 .. 2 - 1 : q[j] = StartOf(s)) <=> q[1].do = "start" /\ q[1].srv = s
  <2>1. \A j : j \in 1 .. 2 - 1 <=> j = 1
    OBVIOUS
  <2>2. \A s \in Services :
            /\ q[1] = StopOf(s) <=> q[1].do = "stop" /\ q[1].srv = s
            /\ q[1] = StartOf(s) <=> q[1].do = "start" /\ q[1].srv = s
    BY <1>2 DEF StopOf, StartOf
  <2> QED BY <2>1, <2>2
<1>4. \A s : s \in RunsAt(q, 2, R) <=>
        \/ s \in R /\ ~ (q[1].do = "stop" /\ q[1].srv = s)
        \/ q[1].do = "start" /\ q[1].srv = s
  BY <1>2, <1>3 DEF RunsAt
<1>5. q[1].do = "start" => q[1].srv \notin R
  <2>1. RunsAt(q, 1, R) = R
    BY DEF RunsAt
  <2> QED BY <2>1, <1>1 DEF Workable, StartsStopped
<1>6. Closed(RunsAt(q, 2, R))
  <2>1. 2 \in 1 .. Len(q) + 1
    BY <1>1
  <2> QED BY <2>1 DEF Workable, KeepsClosed
<1>7. RunsAt(q, 2, R) \subseteq Services
  BY <1>2, <1>4
<1>8. /\ q[1].do = "start" => RunsAt(q, 2, R) = R \union {q[1].srv}
      /\ q[1].do = "switch" => RunsAt(q, 2, R) = R
      /\ q[1].do = "stop" => RunsAt(q, 2, R) = R \ {q[1].srv}
  BY <1>4
<1> QED BY <1>1, <1>2, <1>5, <1>6, <1>7, <1>8

LEMMA LaterSteps ==
  ASSUME NEW R \in SUBSET Services, NEW q, Workable(q, R), q # << >>
  PROVE  LET R2 == RunsAt(q, 2, R)
             rest == Tail(q)
         IN  /\ Workable(rest, R2)
             /\ RunsAt(rest, Len(rest) + 1, R2) = RunsAt(q, Len(q) + 1, R)
<1> DEFINE R2 == RunsAt(q, 2, R)
           rest == Tail(q)
           n == Len(rest)
<1>1. q \in Seq(Steps)
  BY DEF Workable
<1>2. /\ rest \in Seq(Steps) /\ n \in Nat /\ DOMAIN rest = 1 .. n
      /\ Len(q) = n + 1 /\ DOMAIN q = 1 .. n + 1
      /\ \A i \in 1 .. n : rest[i] = q[i + 1]
  BY <1>1
<1>3. q[1] \in Steps /\ \A i \in 1 .. n : rest[i] \in Steps
  BY <1>1, <1>2
<1> HIDE DEF rest, n
<1>4. ASSUME NEW i \in 1 .. n + 1 PROVE RunsAt(rest, i, R2) = RunsAt(q, i + 1, R)
  <2> SUFFICES ASSUME NEW s PROVE s \in RunsAt(rest, i, R2) <=> s \in RunsAt(q, i + 1, R)
    OBVIOUS
  <2> DEFINE stopped == \E j \in 1 .. i - 1 : rest[j] = StopOf(s)
             begun == \E j \in 1 .. i - 1 : rest[j] = StartOf(s)
  <2>1. \A x : (\E j \in 1 .. (i + 1) - 1 : q[j] = x) <=> q[1] = x \/ \E j \in 1 .. i - 1 : rest[j] = x
    <3> SUFFICES ASSUME NEW x
                 PROVE  (\E j \in 1 .. (i + 1) - 1 : q[j] = x) <=> q[1] = x \/ \E j \in 1 .. i - 1 : rest[j] = x
      OBVIOUS
    <3>1. ASSUME NEW j \in 1 .. (i + 1) - 1, q[j] = x, j # 1 PROVE \E k \in 1 .. i - 1 : rest[k] = x
      <4>1. j - 1 \in 1 .. i - 1 /\ j - 1 \in 1 .. n /\ j = (j - 1) + 1
        BY <3>1, <1>2
      <4>2. rest[j - 1] = q[j]
        BY <4>1, <1>2
      <4> QED BY <4>1, <4>2, <3>1
    <3>2. ASSUME NEW j \in 1 .. i - 1, rest[j] = x PROVE \E k \in 1 .. (i + 1) - 1 : q[k] = x
      <4>1. j + 1 \in 1 .. (i + 1) - 1 /\ j \in 1 .. n
        BY <3>2, <1>2
      <4> QED BY <4>1, <3>2, <1>2
    <3>3. 1 \in 1 .. (i + 1) - 1
      BY <1>2
    <3> QED BY <3>1, <3>2, <3>3
  <2>2. s \in RunsAt(rest, i, R2) <=> (s \in R2 /\ ~ (s \in Services /\ stopped)) \/ (s \in Services /\ begun)
    BY DEF RunsAt
  <2>3. s \in RunsAt(q, i + 1, R) <=>
            \/ s \in R /\ ~ (s \in Services /\ (q[1] = StopOf(s) \/ stopped))
            \/ s \in Services /\ (q[1] = StartOf(s) \/ begun)
    <3> HIDE DEF stopped, begun
    <3>1. s \in RunsAt(q, i + 1, R) <=>
            \/ s \in R /\ ~ (s \in Services /\ \E j \in 1 .. (i + 1) - 1 : q[j] = StopOf(s))
            \/ s \in Services /\ \E j \in 1 .. (i + 1) - 1 : q[j] = StartOf(s)
      BY DEF RunsAt
    <3> QED BY <3>1, <2>1 DEF stopped, begun
  <2>4. s \in R2 <=> (s \in R /\ ~ (s \in Services /\ q[1] = StopOf(s))) \/ (s \in Services /\ q[1] = StartOf(s))
    <3>1. \A x : (\E j \in 1 .. 2 - 1 : q[j] = x) <=> q[1] = x
      OBVIOUS
    <3>2. s \in R2 <=>
            \/ s \in R /\ ~ (s \in Services /\ \E j \in 1 .. 2 - 1 : q[j] = StopOf(s))
            \/ s \in Services /\ \E j \in 1 .. 2 - 1 : q[j] = StartOf(s)
      BY DEF RunsAt
    <3> HIDE DEF R2
    <3> QED BY <3>1, <3>2
  <2>5. ASSUME s \in Services, q[1] = StartOf(s) PROVE ~ stopped
    <3> SUFFICES ASSUME NEW j \in 1 .. i - 1, rest[j] = StopOf(s) PROVE FALSE
      OBVIOUS
    <3>1. j \in 1 .. n /\ j + 1 \in DOMAIN q /\ 1 < j + 1 /\ 1 \in DOMAIN q
      BY <1>2
    <3>2. q[j + 1].do = "stop" /\ q[1].do = "start"
      BY <3>1, <2>5, <1>2, StepKinds
    <3> QED BY <3>1, <3>2 DEF Workable, StopsFirst
  <2> HIDE DEF stopped, begun, R2
  <2> QED BY <2>2, <2>3, <2>4, <2>5
<1> HIDE DEF R2
<1>5. KeepsClosed(rest, R2)
  <2>1. ASSUME NEW i \in 1 .. n + 1 PROVE Closed(RunsAt(rest, i, R2))
    <3>1. i + 1 \in 1 .. Len(q) + 1
      BY <1>2
    <3>2. Closed(RunsAt(q, i + 1, R))
      BY <3>1 DEF Workable, KeepsClosed
    <3> QED BY <3>2, <1>4
  <2> QED BY <2>1 DEF KeepsClosed, n
<1>6. StopsFirst(rest)
  <2> SUFFICES ASSUME NEW i \in DOMAIN rest, NEW j \in DOMAIN rest, i < j, rest[j].do = "stop"
               PROVE  rest[i].do = "stop"
    BY DEF StopsFirst
  <2>1. i + 1 \in DOMAIN q /\ j + 1 \in DOMAIN q /\ i + 1 < j + 1
    BY <1>2
  <2> QED BY <2>1, <1>2 DEF Workable, StopsFirst
<1>7. StartsStopped(rest, R2)
  <2> SUFFICES ASSUME NEW i \in DOMAIN rest, rest[i].do = "start"
               PROVE  rest[i].srv \notin RunsAt(rest, i, R2)
    BY DEF StartsStopped
  <2>1. i + 1 \in DOMAIN q /\ i \in 1 .. n + 1 /\ rest[i] = q[i + 1]
    BY <1>2
  <2> QED BY <2>1, <1>4 DEF Workable, StartsStopped
<1>8. SwitchesStarted(rest)
  <2>1. ASSUME NEW i \in DOMAIN rest, rest[i].do = "start"
        PROVE  i + 1 \in DOMAIN rest /\ rest[i + 1] = SwitchOf(rest[i].srv)
    <3>1. i + 1 \in DOMAIN q /\ rest[i] = q[i + 1] /\ i \in Nat
      BY <1>2
    <3>2. (i + 1) + 1 \in DOMAIN q /\ q[(i + 1) + 1] = SwitchOf(q[i + 1].srv)
      BY <3>1, <2>1 DEF Workable, SwitchesStarted
    <3>3. i + 1 \in 1 .. n
      BY <3>1, <3>2, <1>2
    <3> QED BY <3>1, <3>2, <3>3, <1>2
  <2>2. ASSUME NEW i \in DOMAIN rest, rest[i].do = "switch", i > 1
        PROVE  rest[i - 1] = StartOf(rest[i].srv)
    <3>1. i + 1 \in DOMAIN q /\ rest[i] = q[i + 1] /\ i + 1 > 1 /\ (i + 1) - 1 = i
      BY <1>2
    <3>2. q[i] = StartOf(q[i + 1].srv)
      BY <3>1, <2>2 DEF Workable, SwitchesStarted
    <3>3. i - 1 \in 1 .. n /\ (i - 1) + 1 = i
      BY <2>2, <1>2
    <3> QED BY <3>1, <3>2, <3>3, <1>2
  <2> QED BY <2>1, <2>2 DEF SwitchesStarted
<1>9. RunsAt(rest, n + 1, R2) = RunsAt(q, Len(q) + 1, R)
  <2>1. n + 1 \in 1 .. n + 1 /\ (n + 1) + 1 = Len(q) + 1
    BY <1>2
  <2> QED BY <2>1, <1>4
<1> QED BY <1>2, <1>5, <1>6, <1>7, <1>8, <1>9 DEF Workable, R2, rest, n
-----------------------------------------------------------------------------
(* New lists                                                                *)

(* A thread that has nothing to do can be given this list.                  *)
Given(q, R) == Workable(q, R) /\ (q # << >> => q[1].do # "switch")

LEMMA GivenLists ==
  ASSUME NEW s \in Services, started \subseteq Services, DependenciesRun
  PROVE  /\ \A steps \in doStartService(s) : Given(steps, started)
         /\ \A steps \in doStopService(s) :
                /\ Given(steps, started)
                /\ \A i \in DOMAIN steps : steps[i].do = "stop"
                /\ RunsAt(steps, Len(steps) + 1, started)
                    = started \ Reach(s, depStop, Services \ started)
         /\ \A steps \in doRestartService(s) : Given(steps, started)
<1>1. Closed(started)
  BY DEF Closed, DependenciesRun
<1>2. ASSUME NEW steps \in doStartService(s) PROVE Given(steps, started)
  <2> DEFINE list == InSet(StartOrder, Reach(s, depStart, started))
  <2>1. steps = Starting(list) /\ Workable(steps, started)
    BY <1>1, StartIsWorkable DEF doStartService
  <2>2. ASSUME steps # << >> PROVE steps[1].do # "switch"
    <3>1. 1 \in DOMAIN steps
      BY <2>1, <2>2 DEF Workable
    <3>2. list \in Seq(Services)
      <4>1. Reach(s, depStart, started) \subseteq Services
        BY StartRankOK, ReachStartExists, ReachIsClosed DEF Ranks
      <4>2. Lists(list, Reach(s, depStart, started), StartRank)
        BY <4>1, StartRankOK, InSetLists
      <4> HIDE DEF list
      <4> QED BY <4>1, <4>2 DEF Lists
    <3> HIDE DEF list
    <3>3. /\ Len(steps) = 2 * Len(list)
          /\ \A k \in DOMAIN list : steps[2 * k - 1] = StartOf(list[k])
      BY <3>2, <2>1, StartingSteps
    <3>4. 1 \in DOMAIN list /\ list[1] \in Services /\ 2 * 1 - 1 = 1
      BY <3>2, <3>3, <3>1, <2>1 DEF Workable
    <3>5. steps[2 * 1 - 1] = StartOf(list[1])
      BY <3>3, <3>4
    <3>6. StartOf(list[1]).do = "start"
      BY <3>4, StepKinds
    <3> QED BY <3>4, <3>5, <3>6
  <2> QED BY <2>1, <2>2 DEF Given
<1>3. ASSUME NEW steps \in doStopService(s)
      PROVE  /\ Given(steps, started)
             /\ \A i \in DOMAIN steps : steps[i].do = "stop"
             /\ RunsAt(steps, Len(steps) + 1, started)
                    = started \ Reach(s, depStop, Services \ started)
  <2>1. PICK order \in StopOrders :
            steps = Stopping(InSet(order, Reach(s, depStop, Services \ started)))
    BY DEF doStopService, StopOrdersOf
  <2>2. /\ Workable(steps, started)
        /\ \A i \in DOMAIN steps : steps[i].do = "stop"
        /\ RunsAt(steps, Len(steps) + 1, started)
                    = started \ Reach(s, depStop, Services \ started)
    BY <1>1, <2>1, StopIsWorkable
  <2>3. steps # << >> => 1 \in DOMAIN steps
    BY <2>2 DEF Workable
  <2> QED BY <2>2, <2>3 DEF Given
<1>4. ASSUME NEW steps \in doRestartService(s) PROVE Given(steps, started)
  <2>1. PICK order \in StopOrders :
            LET list == InSet(order, Reach(s, depStop, Services \ started))
            IN  steps = Stopping(list) \o Starting(Reversed(list))
    BY DEF doRestartService, StopOrdersOf
  <2> DEFINE list == InSet(order, Reach(s, depStop, Services \ started))
             stops == Stopping(list)
             starts == Starting(Reversed(list))
  <2>2. steps = stops \o starts /\ Workable(steps, started)
    BY <1>1, <2>1, RestartIsWorkable
  <2>3. /\ list \in Seq(Services)
        /\ stops \in Seq(Steps) /\ Len(stops) = Len(list)
        /\ \A k \in DOMAIN list : stops[k] = StopOf(list[k])
    <3>1. list \in Seq(Services)
      BY StopLists DEF StopList
    <3> HIDE DEF list
    <3> QED BY <3>1, StoppingSteps
  <2>4. starts \in Seq(Steps) /\ Len(starts) = 2 * Len(list)
    <3> HIDE DEF list
    <3>1. Reversed(list) \in Seq(Services) /\ Len(Reversed(list)) = Len(list)
      BY <2>3, ReversedList
    <3> QED BY <3>1, StartingSteps
  <2> HIDE DEF list, stops
  <2>5. ASSUME steps # << >> PROVE steps[1].do # "switch"
    <3>1. CASE list = << >>
      <4> HIDE DEF starts
      <4>1. stops = << >> /\ starts = << >>
        BY <3>1, <2>3, <2>4
      <4> QED BY <4>1, <2>2, <2>5
    <3>2. CASE list # << >>
      <4>1. 1 \in DOMAIN list /\ 1 \in 1 .. Len(stops) /\ list[1] \in Services
        BY <3>2, <2>3
      <4> HIDE DEF starts
      <4>2. steps[1] = stops[1]
        BY <4>1, <2>2, <2>3, <2>4
      <4> QED BY <4>1, <4>2, <2>3, StepKinds
    <3> QED BY <3>1, <3>2
  <2> QED BY <2>2, <2>5 DEF Given
<1> QED BY <1>2, <1>3, <1>4

(* The shutdown stops all services: all of them use the core service.       *)
LEMMA ShutdownStopsAll ==
  ASSUME started \subseteq Services, DependenciesRun
  PROVE  started \subseteq Reach("core", depStop, Services \ started)
<1> DEFINE reached == Reach("core", depStop, Services \ started)
<1>1. /\ "core" \in started => "core" \in reached
      /\ \A t \in reached, u \in started : t \in depStart[u] => u \in reached
  BY StopLists DEF StopOrders, StopList, Services
<1> HIDE DEF reached
<1>2. \A s \in started : depStart[s] \subseteq started
  BY DEF DependenciesRun
<1>3. /\ depStart["config"] = {"core"} /\ depStart["auth"] = {"core"}
      /\ depStart["box"] = {"core", "config", "auth"}
      /\ depStart["web"] = {"config", "auth", "box"}
  BY DEF depStart
<1>4. "config" \in started => "config" \in reached
  BY <1>1, <1>2, <1>3
<1>5. "auth" \in started => "auth" \in reached
  BY <1>1, <1>2, <1>3
<1>6. "box" \in started => "box" \in reached
  BY <1>1, <1>2, <1>3
<1>7. "web" \in started => "web" \in reached
  BY <1>1, <1>2, <1>3, <1>4
<1> QED BY <1>1, <1>4, <1>5, <1>6, <1>7 DEF Services, reached
-----------------------------------------------------------------------------
(* Steps of threads *)

LEMMA TakeFields ==
  ASSUME NEW part \in Config, NEW from \in Config, NEW S
  PROVE  /\ Take(part, from, S) \in Config
         /\ Take(part, from, S).owner = IF "auth" \in S THEN part.owner ELSE from.owner
         /\ Take(part, from, S).readonly = IF "auth" \in S THEN part.readonly ELSE from.readonly
         /\ Take(part, from, S).site = IF "config" \in S THEN part.site ELSE from.site
         /\ Take(part, from, S).uris = IF "box" \in S THEN part.uris ELSE from.uris
<1> DEFINE taken == Take(part, from, S)
<1>1. /\ ServiceOf["owner"] = "auth" /\ ServiceOf["readonly"] = "auth" /\ ServiceOf["site"] = "config"
      /\ ServiceOf["dirtype"] = "box" /\ ServiceOf["uris"] = "box"
      /\ DOMAIN ServiceOf = {"owner", "readonly", "site", "dirtype", "uris"}
  BY DEF ServiceOf
<1>2. taken = [key \in {"owner", "readonly", "site", "dirtype", "uris"} |->
                  IF ServiceOf[key] \in S THEN part[key] ELSE from[key]]
  BY <1>1 DEF Take
<1> HIDE DEF taken
<1>3. /\ taken.owner = IF "auth" \in S THEN part.owner ELSE from.owner
      /\ taken.readonly = IF "auth" \in S THEN part.readonly ELSE from.readonly
      /\ taken.site = IF "config" \in S THEN part.site ELSE from.site
      /\ taken.dirtype = IF "box" \in S THEN part.dirtype ELSE from.dirtype
      /\ taken.uris = IF "box" \in S THEN part.uris ELSE from.uris
  BY <1>1, <1>2
<1>4. taken = [owner |-> taken.owner, readonly |-> taken.readonly,
               site |-> taken.site, dirtype |-> taken.dirtype, uris |-> taken.uris]
  BY <1>2
<1>5. taken \in Config
  BY <1>3, <1>4 DEF Config
<1> QED BY <1>3, <1>5 DEF taken

(* What is known when a thread executes a step.                             *)
LEMMA AtStep ==
  ASSUME KernelInv, ~ Overlap, NEW t \in Threads, NEW do, NEW s, Step(t, do, s)
  PROVE  /\ todo[t] # << >> /\ todo[t] \in Seq(Steps) /\ Workable(todo[t], started)
         /\ todo[t][1].do = do /\ todo[t][1].srv = s /\ s \in Services
         /\ phase \notin {"setup", "exited"}
         /\ \A u \in updates : u.read = None
         /\ \A x : Switching(x) <=> do = "switch" /\ x = s
<1>1. Busy(t) /\ Head(todo[t]) = [do |-> do, srv |-> s] /\ Calm /\ Running
  BY DEF Step
<1>2. Workable(todo[t], started) /\ todo[t] # << >> /\ started \subseteq Services
  BY <1>1 DEF Busy, KernelInv, TodoOK, ServicesAreOrdered, TypeOK
<1>3. todo[t][1] = [do |-> do, srv |-> s] /\ Head(todo[t]) = todo[t][1] /\ todo[t][1].srv \in Services
  BY <1>1, <1>2, FirstStep
<1>4. phase \notin {"setup", "exited"}
  BY <1>1 DEF KernelInv, PhaseOK, Quiet, Running
<1>5. \A x : Switching(x) <=> todo[t][1] = SwitchOf(x)
  <2>1. \A u \in Threads : Busy(u) => u = t
    BY <1>1 DEF KernelInv, TodoOK
  <2> QED BY <1>1, <1>3, <2>1 DEF Switching
<1>6. \A x : Switching(x) <=> do = "switch" /\ x = s
  <2>1. \A x : [do |-> do, srv |-> s] = SwitchOf(x) <=> do = "switch" /\ x = s
    BY DEF SwitchOf
  <2> QED BY <1>3, <1>5, <2>1
<1>7. todo[t] \in Seq(Steps)
  BY <1>2 DEF Workable
<1>8. \A u \in updates : u.read = None
  BY <1>1 DEF Calm
<1> QED BY <1>2, <1>3, <1>4, <1>6, <1>7, <1>8

(* The step is done.                                                        *)
LEMMA StepDone ==
  ASSUME KernelInv, ~ Overlap, NEW t \in Threads, NEW do, NEW s, Step(t, do, s), Proceed(t),
         started' = RunsAt(todo[t], 2, started), phase' = phase
  PROVE  /\ started' \subseteq Services /\ DependenciesRun' /\ EndsInOrder'
         /\ TodoOK' /\ PhaseOK'
         /\ \A x : Switching(x)' <=> do = "start" /\ x = s
<1> DEFINE q == todo[t]
<1>1. /\ q # << >> /\ q \in Seq(Steps) /\ Workable(q, started)
      /\ q[1].do = do /\ q[1].srv = s /\ s \in Services
      /\ phase \notin {"setup", "exited"}
  BY AtStep
<1>2. started \subseteq Services /\ todo \in [Threads -> Seq(Steps)] /\ PhaseOK
      /\ (\A x, y \in Threads : Busy(x) /\ Busy(y) => x = y)
  BY DEF KernelInv, ServicesAreOrdered, TypeOK, TodoOK
<1>3. Closed(started') /\ started' \subseteq Services
  BY <1>1, <1>2, FirstStep
<1>4. DependenciesRun' /\ EndsInOrder'
  BY <1>1, <1>3 DEF Closed, DependenciesRun, EndsInOrder
<1>5. Tail(q) \in Seq(Steps) /\ Workable(Tail(q), started')
      /\ RunsAt(Tail(q), Len(Tail(q)) + 1, started') = RunsAt(q, Len(q) + 1, started)
  BY <1>1, <1>2, LaterSteps
<1>6. todo' = [todo EXCEPT ![t] = Tail(q)] /\ Busy(t)
  BY DEF Proceed, Step
<1>7. todo' \in [Threads -> Seq(Steps)] /\ todo'[t] = Tail(q) /\ \A x \in Threads \ {t} : todo'[x] = todo[x]
  BY <1>2, <1>5, <1>6
<1>8. \A x \in Threads : Busy(x)' => x = t
  BY <1>2, <1>6, <1>7 DEF Busy
<1>9. TodoOK'
  <2>1. \A x, y \in Threads : Busy(x)' /\ Busy(y)' => x = y
    BY <1>8
  <2>2. \A x \in Threads : Busy(x)' => Workable(todo'[x], started')
    BY <1>5, <1>7, <1>8
  <2> QED BY <1>7, <2>1, <2>2 DEF TodoOK
<1>10. PhaseOK'
  <2> SUFFICES ASSUME phase = "down"
               PROVE  /\ \A x \in Threads \ {"shutdown"} : ~Busy(x)'
                      /\ \A i \in DOMAIN todo'["shutdown"] : todo'["shutdown"][i].do = "stop"
                      /\ RunsAt(todo'["shutdown"], Len(todo'["shutdown"]) + 1, started') = {}
    BY <1>1 DEF PhaseOK
  <2>1. t = "shutdown"
    BY <1>2, <1>6 DEF PhaseOK
  <2>2. \A i \in DOMAIN q : q[i].do = "stop"
    BY <1>2, <2>1 DEF PhaseOK
  <2>3. \A i \in DOMAIN Tail(q) : Tail(q)[i].do = "stop"
    <3>1. \A i \in DOMAIN Tail(q) : Tail(q)[i] = q[i + 1] /\ i + 1 \in DOMAIN q
      BY <1>1
    <3> QED BY <2>2, <3>1
  <2>4. RunsAt(q, Len(q) + 1, started) = {}
    BY <1>2, <2>1 DEF PhaseOK
  <2> QED BY <2>1, <2>3, <2>4, <1>5, <1>7, <1>8
<1>11. \A x : Switching(x)' <=> do = "start" /\ x = s
  <2>1. \A x : Switching(x)' <=> Tail(q) # << >> /\ Head(Tail(q)) = SwitchOf(x)
    BY <1>7, <1>8 DEF Switching, Busy
  <2>2. Tail(q) # << >> => 2 \in DOMAIN q /\ Head(Tail(q)) = q[2]
    <3> HIDE DEF q
    <3>1. Tail(q) \in Seq(Steps) /\ Len(q) \in Nat /\ Len(Tail(q)) = Len(q) - 1
      BY <1>1
    <3>2. ASSUME Tail(q) # << >> PROVE 2 \in DOMAIN q /\ Head(Tail(q)) = q[2]
      <4>1. Len(Tail(q)) # 0
        BY <3>1, <3>2
      <4>2. 1 \in 1 .. Len(Tail(q)) /\ 2 \in DOMAIN q
        BY <4>1, <3>1, <1>1
      <4>3. Tail(q)[1] = q[2]
        BY <4>2, <1>1
      <4> QED BY <4>2, <4>3, <3>1, <3>2
    <3> QED BY <3>2
  <2>3. 2 \in DOMAIN q => Tail(q) # << >>
    <3> HIDE DEF q
    <3> QED BY <1>1
  <2>4. ASSUME do = "start" PROVE 2 \in DOMAIN q /\ q[2] = SwitchOf(s)
    <3>1. 1 \in DOMAIN q /\ SwitchesStarted(q) /\ 1 + 1 = 2
      BY <1>1 DEF Workable
    <3> HIDE DEF q
    <3>2. 1 + 1 \in DOMAIN q /\ q[1 + 1] = SwitchOf(q[1].srv)
      BY <3>1, <2>4, <1>1 DEF SwitchesStarted
    <3> QED BY <3>1, <3>2, <1>1
  <2>5. ASSUME NEW x, 2 \in DOMAIN q, q[2] = SwitchOf(x) PROVE do = "start"
    <3>1. q[2].do = "switch" /\ q[2].srv = x
      BY <2>5 DEF SwitchOf
    <3>2. q[2 - 1] = StartOf(q[2].srv)
      BY <2>5, <3>1, <1>1 DEF Workable, SwitchesStarted
    <3>3. q[1] = StartOf(x)
      BY <3>1, <3>2
    <3> QED BY <3>3, <1>1 DEF StartOf
  <2>6. \A x : SwitchOf(x) = SwitchOf(s) <=> x = s
    BY DEF SwitchOf
  <2> HIDE DEF q
  <2> QED BY <2>1, <2>2, <2>3, <2>4, <2>5, <2>6
<1> QED BY <1>3, <1>4, <1>9, <1>10, <1>11

(* A thread is given a list.                                                *)
LEMMA ListGiven ==
  ASSUME KernelInv, Quiet, NEW t \in Threads, NEW steps, Given(steps, started),
         todo' = [todo EXCEPT ![t] = steps], started' = started
  PROVE  TodoOK' /\ \A x : ~ Switching(x)' /\ ~ Switching(x)
<1>1. todo \in [Threads -> Seq(Steps)] /\ \A x \in Threads : todo[x] = << >>
  BY DEF KernelInv, TodoOK, Quiet, Busy
<1>2. steps \in Seq(Steps) /\ Workable(steps, started)
  BY DEF Given, Workable
<1>3. todo' \in [Threads -> Seq(Steps)] /\ todo'[t] = steps /\ \A x \in Threads \ {t} : todo'[x] = << >>
  BY <1>1, <1>2
<1>4. TodoOK'
  BY <1>2, <1>3 DEF TodoOK, Busy
<1>5. ASSUME NEW x PROVE ~ Switching(x)' /\ ~ Switching(x)
  <2>1. ~ Switching(x)
    BY <1>1 DEF Switching, Busy
  <2>2. steps # << >> => Head(steps) # SwitchOf(x)
    <3>1. steps # << >> => Head(steps) = steps[1] /\ steps[1].do # "switch"
      BY <1>2 DEF Given
    <3> QED BY <3>1 DEF SwitchOf
  <2>3. ~ Switching(x)'
    BY <1>3, <2>2 DEF Switching, Busy
  <2> QED BY <2>1, <2>3
<1> QED BY <1>4, <1>5
-----------------------------------------------------------------------------
(* The invariant                                                            *)

LEMMA OneManager == Cardinality({}) <= 1 /\ \A mgr : Cardinality({mgr}) <= 1
<1>1. Cardinality({}) = 0
  BY FS_EmptySet
<1>2. ASSUME NEW mgr PROVE Cardinality({mgr}) = 1
  BY FS_Singleton
<1> QED BY <1>1, <1>2

LEMMA InitKernel == Init => KernelInv
<1> SUFFICES ASSUME Init PROVE KernelInv
  OBVIOUS
<1> USE DEF Init
<1>1. next \in Config /\ cur = next
  BY FirstConfigsAssumption
<1>2. \A t \in Threads : todo[t] = << >>
  OBVIOUS
<1>3. ServicesAreOrdered
  <2>1. Cardinality(authMgr) <= 1 /\ Cardinality(boxMgr) <= 1
    BY OneManager
  <2>2. zettel \in Sites \union {NoSite} /\ orig = None /\ \A t \in Threads : todo[t] \in Seq(Steps)
    BY <1>2
  <2>3. /\ ("auth" \in started) = (authMgr # {}) /\ ("box" \in started) = (boxMgr # {})
        /\ ("config" \in started) = (orig # None)
    OBVIOUS
  <2>4. /\ started \subseteq Services /\ applied \subseteq Services /\ frozen \in BOOLEAN
        /\ phase \in {"setup", "up", "interrupted", "down", "exited"} /\ updates = {}
    OBVIOUS
  <2>5. TypeOK
    <3> HIDE DEF Init
    <3> QED BY <1>1, <2>1, <2>2, <2>3, <2>4 DEF TypeOK
  <2> QED BY <2>5 DEF ServicesAreOrdered, DependenciesRun, EndsInOrder
<1>4. TodoOK
  <2>1. todo \in [Threads -> Seq(Steps)]
    OBVIOUS
  <2> QED BY <1>2, <2>1 DEF TodoOK, Busy
<1>5. PhaseOK
  BY <1>2 DEF PhaseOK, Quiet, Busy
<1>6. ManagersOK /\ OwnerOK /\ SiteOK
  BY <1>1 DEF ManagersOK, OwnerOK, SiteOK
<1> QED BY <1>3, <1>4, <1>5, <1>6 DEF KernelInv

(* No manager and no value it was made from has changed.                    *)
LEMMA SameManagers ==
  ASSUME ManagersOK, \A x : ~ Switching(x) /\ ~ Switching(x)',
         authMgr' = authMgr, boxMgr' = boxMgr \/ boxMgr' = {},
         cur' = cur
  PROVE  ManagersOK'
BY DEF ManagersOK, InEffect, UriList

(* Nor has the site.                                                        *)
LEMMA SameSite ==
  ASSUME SiteOK, cur'.site = cur.site, next'.site = next.site, zettel' = zettel,
         updates' = updates, boxMgr' = boxMgr \/ \A u \in updates : u.read = None,
         boxMgr' # {} => boxMgr # {}
  PROVE  SiteOK'
BY DEF SiteOK

LEMMA KeepStart ==
  ASSUME KernelInv, ~ Overlap, NEW t \in Threads,
         StartCore(t) \/ StartConfig(t) \/ StartWeb(t)
  PROVE  KernelInv'
<1>1. PICK s \in {"core", "config", "web"} :
        /\ Step(t, "start", s) /\ Proceed(t)
        /\ started' = started \union {s}
        /\ orig' = IF s = "config" THEN next.site ELSE orig
        /\ UNCHANGED <<configVars, authMgr, boxMgr, zettel, updates, phase>>
  BY DEF StartCore, StartConfig, StartWeb
<1>2. /\ Workable(todo[t], started) /\ todo[t] # << >> /\ todo[t][1].do = "start" /\ todo[t][1].srv = s
      /\ \A x : ~ Switching(x)
      /\ \A u \in updates : u.read = None
  BY <1>1, AtStep
<1>3. started \subseteq Services
  BY DEF KernelInv, ServicesAreOrdered, TypeOK
<1>4. started' = RunsAt(todo[t], 2, started)
  BY <1>1, <1>2, <1>3, FirstStep
<1>5. /\ started' \subseteq Services /\ DependenciesRun' /\ EndsInOrder' /\ TodoOK' /\ PhaseOK'
      /\ \A x : Switching(x)' <=> x = s
  BY <1>1, <1>4, StepDone
<1>6. TypeOK'
  <2>1. TypeOK
    BY DEF KernelInv, ServicesAreOrdered
  <2>2. next.site \in Sites /\ next.site # None
    BY <2>1, SitesAssumption DEF TypeOK, Config
  <2>3. \A x \in Threads : todo'[x] \in Seq(Steps)
    BY <1>5 DEF TodoOK
  <2>4. ("config" \in started') = (orig' # None) /\ orig' \in Sites \union {None}
    BY <1>1, <2>1, <2>2 DEF TypeOK
  <2>5. ("auth" \in started') = (authMgr' # {}) /\ ("box" \in started') = (boxMgr' # {})
    BY <1>1, <2>1 DEF TypeOK
  <2> QED BY <1>1, <1>5, <2>1, <2>3, <2>4, <2>5 DEF TypeOK, configVars
<1>7. ManagersOK'
  <2>1. cur' = cur /\ next' = next /\ authMgr' = authMgr /\ boxMgr' = boxMgr /\ s # "auth" /\ s # "box"
    BY <1>1 DEF configVars
  <2>2. InEffect("auth")' = InEffect("auth") /\ InEffect("box")' = InEffect("box")
    BY <1>2, <1>5, <2>1 DEF InEffect
  <2> QED BY <2>1, <2>2 DEF KernelInv, ManagersOK, UriList
<1>8. OwnerOK' /\ SiteOK'
  BY <1>1, SameSite DEF configVars, KernelInv, OwnerOK
<1> QED BY <1>5, <1>6, <1>7, <1>8 DEF KernelInv, ServicesAreOrdered

LEMMA KeepStartAuth ==
  ASSUME KernelInv, ~ Overlap, NEW t \in Threads, StartAuth(t)
  PROVE  KernelInv' /\ authMgr = {}
<1>1. /\ Step(t, "start", "auth") /\ Proceed(t)
      /\ started' = started \union {"auth"}
      /\ authMgr' = {[owner |-> next.owner, readonly |-> next.readonly]}
      /\ UNCHANGED <<configVars, orig, boxMgr, zettel, updates, phase>>
  BY DEF StartAuth
<1>2. /\ Workable(todo[t], started) /\ todo[t] # << >> /\ todo[t][1].do = "start" /\ todo[t][1].srv = "auth"
      /\ \A x : ~ Switching(x)
  BY <1>1, AtStep
<1>3. TypeOK /\ DependenciesRun /\ started \subseteq Services
  BY DEF KernelInv, ServicesAreOrdered, TypeOK
<1>4. started' = RunsAt(todo[t], 2, started) /\ "auth" \notin started
  BY <1>1, <1>2, <1>3, FirstStep
<1>5. /\ started' \subseteq Services /\ DependenciesRun' /\ EndsInOrder' /\ TodoOK' /\ PhaseOK'
      /\ \A x : Switching(x)' <=> x = "auth"
  BY <1>1, <1>4, StepDone
<1>6. authMgr = {} /\ boxMgr = {}
  <2>1. "box" \notin started
    BY <1>3, <1>4 DEF DependenciesRun, depStart
  <2> QED BY <1>3, <1>4, <2>1 DEF TypeOK
<1>7. TypeOK'
  <2>1. Cardinality(authMgr') <= 1
    BY <1>1, OneManager
  <2>2. \A x \in Threads : todo'[x] \in Seq(Steps)
    BY <1>5 DEF TodoOK
  <2>3. ("config" \in started') = (orig' # None) /\ ("box" \in started') = (boxMgr' # {})
        /\ ("auth" \in started') = (authMgr' # {})
    BY <1>1, <1>3 DEF TypeOK
  <2> QED BY <1>1, <1>3, <1>5, <2>1, <2>2, <2>3 DEF TypeOK, configVars
<1>8. ManagersOK'
  <2>1. InEffect("auth")' = next'
    BY <1>5 DEF InEffect
  <2> QED BY <1>1, <1>6, <2>1 DEF ManagersOK, configVars
<1>9. OwnerOK' /\ SiteOK'
  BY <1>1, SameSite DEF configVars, KernelInv, OwnerOK
<1> QED BY <1>5, <1>6, <1>7, <1>8, <1>9 DEF KernelInv, ServicesAreOrdered

LEMMA KeepStartBox ==
  ASSUME KernelInv, ~ Overlap, NEW t \in Threads, StartBox(t)
  PROVE  KernelInv'
<1>1. /\ Step(t, "start", "box") /\ Proceed(t)
      /\ started' = started \union {"box"}
      /\ boxMgr' = {[auth |-> authMgr, uris |-> UriList(next)]}
      /\ Observe
      /\ UNCHANGED <<configVars, orig, authMgr, zettel, phase>>
  BY DEF StartBox
<1>2. /\ Workable(todo[t], started) /\ todo[t] # << >> /\ todo[t][1].do = "start" /\ todo[t][1].srv = "box"
      /\ \A x : ~ Switching(x)
      /\ \A u \in updates : u.read = None
  BY <1>1, AtStep
<1>3. TypeOK /\ DependenciesRun /\ started \subseteq Services
  BY DEF KernelInv, ServicesAreOrdered, TypeOK
<1>4. started' = RunsAt(todo[t], 2, started)
  BY <1>1, <1>2, <1>3, FirstStep
<1>5. /\ started' \subseteq Services /\ DependenciesRun' /\ EndsInOrder' /\ TodoOK' /\ PhaseOK'
      /\ \A x : Switching(x)' <=> x = "box"
  BY <1>1, <1>4, StepDone
<1>6. TypeOK'
  <2>1. Cardinality(boxMgr') <= 1
    BY <1>1, OneManager
  <2>2. \A x \in Threads : todo'[x] \in Seq(Steps)
    BY <1>5 DEF TodoOK
  <2>3. ("config" \in started') = (orig' # None) /\ ("box" \in started') = (boxMgr' # {})
        /\ ("auth" \in started') = (authMgr' # {})
    BY <1>1, <1>3 DEF TypeOK
  <2>4. \A u \in updates' : u.read \in Sites \union {NoSite, None}
    BY <1>1, <1>3 DEF TypeOK, Observe
  <2> QED BY <1>1, <1>3, <1>5, <2>1, <2>2, <2>3, <2>4 DEF TypeOK, configVars
<1>7. ManagersOK'
  <2>1. InEffect("box")' = next' /\ InEffect("auth")' = cur' /\ InEffect("auth") = cur
    BY <1>2, <1>5 DEF InEffect
  <2>2. cur' = cur /\ next' = next /\ authMgr' = authMgr
    BY <1>1 DEF configVars
  <2>3. UriList(next)' = UriList(next)
    BY <2>2 DEF UriList
  <2> QED BY <1>1, <2>1, <2>2, <2>3 DEF KernelInv, ManagersOK
<1>8. SiteOK'
  <2>1. updates' = updates \union {[id |-> Cardinality(updates), read |-> None]}
    BY <1>1 DEF Observe
  <2>2. \A u \in updates' : u.read = None /\ u = [id |-> u.id, read |-> u.read]
    BY <1>2, <2>1 DEF KernelInv, SiteOK
  <2>3. updates' # {}
    BY <2>1
  <2> QED BY <1>1, <2>2, <2>3 DEF KernelInv, SiteOK, configVars
<1>9. OwnerOK'
  BY <1>1 DEF configVars, KernelInv, OwnerOK
<1> QED BY <1>5, <1>6, <1>7, <1>8, <1>9 DEF KernelInv, ServicesAreOrdered
LEMMA KeepSwitch ==
  ASSUME KernelInv, ~ Overlap, NEW t \in Threads, SwitchNextToCur(t)
  PROVE  KernelInv'
<1>1. PICK s \in Services :
        /\ Step(t, "switch", s) /\ Proceed(t)
        /\ cur' = Take(next, cur, {s})
        /\ applied' = applied \union {s}
        /\ UNCHANGED <<started, frozen, next, orig, authMgr, boxMgr, zettel, updates, phase>>
  BY DEF SwitchNextToCur
<1>2. /\ Workable(todo[t], started) /\ todo[t] # << >> /\ todo[t][1].do = "switch" /\ todo[t][1].srv = s
      /\ \A x : Switching(x) <=> x = s
  BY <1>1, AtStep
<1>3. TypeOK /\ DependenciesRun /\ started \subseteq Services /\ next \in Config /\ cur \in Config
  BY DEF KernelInv, ServicesAreOrdered, TypeOK
<1>4. started' = RunsAt(todo[t], 2, started)
  BY <1>1, <1>2, <1>3, FirstStep
<1>5. /\ started' \subseteq Services /\ DependenciesRun' /\ EndsInOrder' /\ TodoOK' /\ PhaseOK'
      /\ \A x : ~ Switching(x)'
  BY <1>1, <1>4, StepDone
<1>6. /\ cur' \in Config
      /\ cur'.owner = IF s = "auth" THEN next.owner ELSE cur.owner
      /\ cur'.readonly = IF s = "auth" THEN next.readonly ELSE cur.readonly
      /\ cur'.site = IF s = "config" THEN next.site ELSE cur.site
      /\ cur'.uris = IF s = "box" THEN next.uris ELSE cur.uris
  <2> DEFINE S == {s}
             taken == Take(next, cur, S)
  <2>1. /\ taken \in Config
        /\ taken.owner = IF "auth" \in S THEN next.owner ELSE cur.owner
        /\ taken.readonly = IF "auth" \in S THEN next.readonly ELSE cur.readonly
        /\ taken.site = IF "config" \in S THEN next.site ELSE cur.site
        /\ taken.uris = IF "box" \in S THEN next.uris ELSE cur.uris
    <3> HIDE DEF S
    <3> QED BY <1>3, TakeFields
  <2>2. cur' = taken
    BY <1>1
  <2> HIDE DEF taken
  <2> QED BY <2>1, <2>2
<1>7. TypeOK'
  <2>1. \A x \in Threads : todo'[x] \in Seq(Steps)
    BY <1>5 DEF TodoOK
  <2> QED BY <1>1, <1>3, <1>5, <1>6, <2>1 DEF TypeOK
<1>8. ManagersOK'
  <2>1. /\ InEffect("auth")'.owner = InEffect("auth").owner
        /\ InEffect("auth")'.readonly = InEffect("auth").readonly
        /\ InEffect("box")'.uris = InEffect("box").uris
    BY <1>2, <1>5, <1>6 DEF InEffect
  <2>2. UriList(InEffect("box"))' = UriList(InEffect("box"))
    BY <2>1 DEF UriList
  <2> QED BY <1>1, <2>1, <2>2 DEF KernelInv, ManagersOK
<1>9. OwnerOK'
  <2>1. "auth" \in applied' => s = "auth" \/ "auth" \in applied
    BY <1>1
  <2> QED BY <1>1, <1>6, <2>1 DEF KernelInv, OwnerOK
<1>10. SiteOK'
  <2>1. cur'.site = cur.site
    BY <1>6 DEF KernelInv, SiteOK
  <2> QED BY <1>1, <2>1, SameSite DEF KernelInv
<1> QED BY <1>5, <1>7, <1>8, <1>9, <1>10 DEF KernelInv, ServicesAreOrdered

LEMMA KeepStop ==
  ASSUME KernelInv, ~ Overlap, NEW t \in Threads, Stop(t)
  PROVE  KernelInv'
<1>1. PICK s \in Services :
        /\ Step(t, "stop", s) /\ Proceed(t)
        /\ started' = started \ {s}
        /\ orig' = IF s = "config" THEN None ELSE orig
        /\ authMgr' = IF s = "auth" THEN {} ELSE authMgr
        /\ boxMgr' = IF s = "box" THEN {} ELSE boxMgr
        /\ UNCHANGED <<configVars, zettel, updates, phase>>
  BY DEF Stop
<1>2. /\ Workable(todo[t], started) /\ todo[t] # << >> /\ todo[t][1].do = "stop" /\ todo[t][1].srv = s
      /\ \A x : ~ Switching(x)
      /\ \A u \in updates : u.read = None
  BY <1>1, AtStep
<1>3. TypeOK /\ started \subseteq Services
  BY DEF KernelInv, ServicesAreOrdered, TypeOK
<1>4. started' = RunsAt(todo[t], 2, started)
  BY <1>1, <1>2, <1>3, FirstStep
<1>5. /\ started' \subseteq Services /\ DependenciesRun' /\ EndsInOrder' /\ TodoOK' /\ PhaseOK'
      /\ \A x : ~ Switching(x)'
  BY <1>1, <1>4, StepDone
<1>6. TypeOK'
  <2>1. \A x \in Threads : todo'[x] \in Seq(Steps)
    BY <1>5 DEF TodoOK
  <2>2. /\ ("auth" \in started') = (authMgr' # {}) /\ ("box" \in started') = (boxMgr' # {})
        /\ ("config" \in started') = (orig' # None)
    BY <1>1, <1>3 DEF TypeOK
  <2>3. Cardinality(authMgr') <= 1 /\ Cardinality(boxMgr') <= 1 /\ orig' \in Sites \union {None}
    BY <1>1, <1>3, OneManager DEF TypeOK
  <2> QED BY <1>1, <1>3, <1>5, <2>1, <2>2, <2>3 DEF TypeOK, configVars
<1>7. s = "auth" => boxMgr' = {}
  <2>1. ASSUME s = "auth" PROVE "box" \notin started'
    BY <2>1, <1>1, <1>5 DEF DependenciesRun, depStart
  <2> QED BY <2>1, <1>6 DEF TypeOK
<1>8. ManagersOK'
  <2>1. InEffect("auth")' = InEffect("auth") /\ InEffect("box")' = InEffect("box")
    BY <1>1, <1>2, <1>5 DEF InEffect, configVars
  <2> QED BY <1>1, <1>7, <2>1 DEF KernelInv, ManagersOK, UriList
<1>9. OwnerOK' /\ SiteOK'
  BY <1>1, <1>2, SameSite DEF configVars, KernelInv, OwnerOK
<1> QED BY <1>5, <1>6, <1>8, <1>9 DEF KernelInv, ServicesAreOrdered

(* The rest of the list is dropped; no thread is in the middle of a start.  *)
LEMMA KeepStartFails ==
  ASSUME KernelInv, ~ Overlap, NEW t \in Threads, StartFails(t)
  PROVE  KernelInv'
<1>1. PICK s \in {"box", "web"} :
        /\ Step(t, "start", s)
        /\ todo' = [todo EXCEPT ![t] = << >>]
        /\ UNCHANGED <<started, configVars, orig, authMgr, boxMgr, zettel, updates, phase>>
  BY DEF StartFails
<1>2. /\ todo[t] # << >> /\ todo[t] \in Seq(Steps) /\ todo[t][1].do = "start"
      /\ \A x : ~ Switching(x)
  BY <1>1, AtStep
<1>3. /\ ServicesAreOrdered /\ todo \in [Threads -> Seq(Steps)]
      /\ \A x, y \in Threads : Busy(x) /\ Busy(y) => x = y
  BY DEF KernelInv, TodoOK
<1>4. todo' \in [Threads -> Seq(Steps)] /\ \A x \in Threads : todo'[x] = << >>
  BY <1>1, <1>2, <1>3 DEF Busy
<1>5. TodoOK' /\ \A x : ~ Switching(x)'
  BY <1>4 DEF TodoOK, Switching, Busy
<1>6. phase # "down"
  <2> SUFFICES ASSUME phase = "down" PROVE FALSE
    OBVIOUS
  <2>1. \A i \in DOMAIN todo["shutdown"] : todo["shutdown"][i].do = "stop"
    BY DEF KernelInv, PhaseOK
  <2>2. t = "shutdown"
    BY <1>2 DEF KernelInv, PhaseOK, Busy
  <2>3. 1 \in DOMAIN todo[t]
    BY <1>2
  <2> QED BY <2>1, <2>2, <2>3, <1>2
<1>7. PhaseOK'
  BY <1>1, <1>4, <1>6 DEF KernelInv, PhaseOK, Quiet, Busy
<1>8. ServicesAreOrdered'
  <2>1. \A x \in Threads : todo'[x] \in Seq(Steps)
    BY <1>4
  <2>2. TypeOK'
    BY <1>1, <1>3, <2>1 DEF ServicesAreOrdered, TypeOK, configVars
  <2> QED BY <1>1, <1>3, <2>2 DEF ServicesAreOrdered, DependenciesRun, EndsInOrder
<1>9. ManagersOK'
  BY <1>1, <1>2, <1>5, SameManagers DEF KernelInv, configVars
<1>10. OwnerOK' /\ SiteOK'
  BY <1>1, SameSite DEF configVars, KernelInv, OwnerOK
<1> QED BY <1>5, <1>7, <1>8, <1>9, <1>10 DEF KernelInv

LEMMA KeepWork ==
  ASSUME KernelInv, ~ Overlap, NEW t \in Threads, Work(t) \/ StartFails(t)
  PROVE  KernelInv'
BY KeepStart, KeepStartAuth, KeepStartBox, KeepSwitch, KeepStop, KeepStartFails DEF Work
LEMMA KeepStartUp ==
  ASSUME KernelInv, Start
  PROVE  KernelInv'
<1>1. PICK steps \in doStartService("web") : todo' = [todo EXCEPT !["main"] = steps]
  BY DEF Start
<1>2. Quiet /\ TypeOK /\ DependenciesRun /\ started \subseteq Services
  BY DEF Start, KernelInv, PhaseOK, ServicesAreOrdered, TypeOK
<1>3. Given(steps, started)
  BY <1>2, GivenLists DEF Services
<1>4. TodoOK' /\ \A x : ~ Switching(x) /\ ~ Switching(x)'
  BY <1>1, <1>2, <1>3, ListGiven DEF Start, Threads
<1>5. TypeOK'
  BY <1>2, <1>4 DEF Start, TypeOK, TodoOK
<1>6. ServicesAreOrdered' /\ PhaseOK' /\ OwnerOK'
  BY <1>2, <1>5
  DEF Start, KernelInv, ServicesAreOrdered, DependenciesRun, EndsInOrder, PhaseOK, OwnerOK
<1>7. ManagersOK' /\ SiteOK'
  BY <1>4, SameManagers, SameSite DEF Start, KernelInv
<1> QED BY <1>4, <1>6, <1>7 DEF KernelInv

LEMMA KeepCommand ==
  ASSUME KernelInv, Serial, NEW c \in Sessions, cmdStart(c) \/ cmdRestart(c) \/ cmdStop(c)
  PROVE  KernelInv'
<1>1. PICK steps : /\ todo' = [todo EXCEPT ![c] = steps]
                   /\ \E s \in Services : \/ steps \in doStartService(s)
                                          \/ steps \in doRestartService(s)
                                          \/ steps \in doStopService(s)
  BY DEF cmdStart, cmdRestart, cmdStop
<1>2. UNCHANGED <<started, configVars, orig, authMgr, boxMgr, zettel, updates, phase>>
  BY DEF cmdStart, cmdRestart, cmdStop
<1>3. Quiet /\ phase = "up"
  BY DEF cmdStart, cmdRestart, cmdStop, Command
<1>4. TypeOK /\ DependenciesRun /\ started \subseteq Services
  BY DEF KernelInv, ServicesAreOrdered, TypeOK
<1>5. Given(steps, started)
  BY <1>1, <1>4, GivenLists
<1>6. TodoOK' /\ \A x : ~ Switching(x) /\ ~ Switching(x)'
  BY <1>1, <1>2, <1>3, <1>5, ListGiven DEF Threads
<1>7. TypeOK'
  BY <1>2, <1>4, <1>6 DEF TypeOK, TodoOK, configVars
<1>8. ServicesAreOrdered' /\ PhaseOK' /\ OwnerOK'
  BY <1>2, <1>3, <1>7
  DEF KernelInv, ServicesAreOrdered, DependenciesRun, EndsInOrder, PhaseOK, OwnerOK, configVars
<1>9. ManagersOK' /\ SiteOK'
  BY <1>2, <1>6, SameManagers, SameSite DEF KernelInv, configVars
<1> QED BY <1>6, <1>8, <1>9 DEF KernelInv

(* Only a value that may be set is set, and not the site.                   *)
LEMMA SetKeeps ==
  ASSUME TypeOK, OwnerOK, SetConfig
  PROVE  next' \in Config /\ next'.site = next.site /\ OwnerOK'
<1>1. next \in Config /\ MaxUri \in Nat
  BY BoundsAssumption DEF TypeOK
<1>2. cur' = cur /\ applied' = applied
  BY DEF SetConfig
<1>3. CASE \E owner \in Owners \union {NoOwner} : SetOwner(owner)
  BY <1>1, <1>2, <1>3 DEF SetOwner, Config, OwnerOK
<1>4. CASE \E readonly \in BOOLEAN : SetReadonly(readonly)
  BY <1>1, <1>2, <1>4 DEF SetReadonly, Config, OwnerOK
<1>5. CASE \E dirtype \in {"notify", "simple"} : SetDirType(dirtype)
  BY <1>1, <1>2, <1>5 DEF SetDirType, Config, OwnerOK
<1>6. ASSUME NEW number \in 0 .. MaxUri, NEW uri \in Uris, SetUri(number, uri)
      PROVE  next' \in Config /\ next'.site = next.site /\ OwnerOK'
  <2> DEFINE following == {j \in number + 1 .. MaxUri : \A k \in number + 1 .. j : k \in DOMAIN next.uris}
             kept == DOMAIN next.uris \ following
             fewer == [i \in kept |-> next.uris[i]]
             more == [i \in kept \union {number} |-> IF i = number THEN uri ELSE next.uris[i]]
  <2>1. PICK D \in SUBSET (1 .. MaxUri) : next.uris \in [D -> Uris]
    BY <1>1 DEF Config
  <2>2. kept \subseteq D /\ DOMAIN next.uris = D
    BY <2>1
  <2>3. next' = [next EXCEPT !.uris = IF number = 0 THEN fewer ELSE more]
    BY <1>6 DEF SetUri
  <2> HIDE DEF kept
  <2>4. fewer \in [kept -> Uris] /\ kept \subseteq 1 .. MaxUri
    BY <2>1, <2>2
  <2>5. more \in [kept \union {number} -> Uris]
    BY <2>1, <2>2
  <2>6. number # 0 => number \in 1 .. MaxUri
    BY <1>1
  <2> HIDE DEF fewer, more
  <2>7. (IF number = 0 THEN fewer ELSE more) \in UNION {[E -> Uris] : E \in SUBSET (1 .. MaxUri)}
    BY <2>4, <2>5, <2>6
  <2> QED BY <2>3, <2>7, <1>1, <1>2 DEF Config, OwnerOK
<1> QED BY <1>3, <1>4, <1>5, <1>6 DEF SetConfig

LEMMA KeepSetConfig ==
  ASSUME KernelInv, Serial, NEW c \in Sessions, cmdSetConfig(c)
  PROVE  KernelInv'
<1>1. SetConfig /\ Quiet /\ phase = "up"
  BY DEF cmdSetConfig, Command
<1>2. UNCHANGED <<started, frozen, cur, applied, orig, authMgr, boxMgr, todo, zettel, updates, phase>>
  BY <1>1 DEF SetConfig
<1>3. TypeOK /\ OwnerOK
  BY DEF KernelInv, ServicesAreOrdered
<1>4. next' \in Config /\ next'.site = next.site /\ OwnerOK'
  BY <1>1, <1>3, SetKeeps
<1>5. TypeOK'
  BY <1>2, <1>3, <1>4 DEF TypeOK
<1>6. \A x : ~ Switching(x) /\ ~ Switching(x)'
  BY <1>1, <1>2 DEF Quiet, Switching, Busy
<1>7. TodoOK'
  BY <1>1, <1>2 DEF KernelInv, TodoOK, Quiet, Busy
<1>8. PhaseOK' /\ ServicesAreOrdered'
  BY <1>1, <1>2, <1>5 DEF KernelInv, PhaseOK, ServicesAreOrdered, DependenciesRun, EndsInOrder
<1>9. ManagersOK' /\ SiteOK'
  BY <1>2, <1>4, <1>6, SameManagers, SameSite DEF KernelInv
<1> QED BY <1>4, <1>7, <1>8, <1>9 DEF KernelInv

LEMMA KeepShutdown ==
  ASSUME KernelInv, Serial, doShutdown
  PROVE  KernelInv'
<1>1. PICK steps \in doStopService("core") : todo' = [todo EXCEPT !["shutdown"] = steps]
  BY DEF doShutdown
<1>2. /\ UNCHANGED <<started, configVars, orig, authMgr, boxMgr, zettel, updates>>
      /\ Quiet /\ phase' = "down"
  BY DEF doShutdown
<1>3. TypeOK /\ DependenciesRun /\ started \subseteq Services
  BY DEF KernelInv, ServicesAreOrdered, TypeOK
<1>4. /\ Given(steps, started)
      /\ \A i \in DOMAIN steps : steps[i].do = "stop"
      /\ RunsAt(steps, Len(steps) + 1, started)
            = started \ Reach("core", depStop, Services \ started)
  BY <1>3, GivenLists DEF Services
<1>5. RunsAt(steps, Len(steps) + 1, started) = {}
  BY <1>3, <1>4, ShutdownStopsAll
<1>6. TodoOK' /\ \A x : ~ Switching(x) /\ ~ Switching(x)'
  BY <1>1, <1>2, <1>4, ListGiven DEF Threads
<1>7. todo'["shutdown"] = steps /\ \A x \in Threads \ {"shutdown"} : todo'[x] = << >>
  BY <1>1, <1>2 DEF KernelInv, TodoOK, Quiet, Busy, Threads
<1>8. PhaseOK'
  BY <1>2, <1>4, <1>5, <1>7 DEF PhaseOK, Busy
<1>9. TypeOK'
  BY <1>2, <1>3, <1>6 DEF TypeOK, TodoOK, configVars
<1>10. ServicesAreOrdered' /\ OwnerOK'
  BY <1>2, <1>9 DEF KernelInv, ServicesAreOrdered, DependenciesRun, EndsInOrder, OwnerOK, configVars
<1>11. ManagersOK' /\ SiteOK'
  BY <1>2, <1>6, SameManagers, SameSite DEF KernelInv, configVars
<1> QED BY <1>6, <1>8, <1>10, <1>11 DEF KernelInv

LEMMA KeepEnd ==
  ASSUME KernelInv, Interrupt \/ Exit
  PROVE  KernelInv'
<1>1. UNCHANGED <<started, configVars, orig, authMgr, boxMgr, zettel, updates, todo>>
  BY DEF Interrupt, Exit
<1>2. PhaseOK' /\ phase' \in {"interrupted", "exited"}
  BY DEF Interrupt, Exit, PhaseOK
<1>3. phase' = "exited" => started = {}
  <2> SUFFICES ASSUME Exit PROVE started = {}
    BY DEF Interrupt
  <2>1. todo["shutdown"] = << >> /\ RunsAt(todo["shutdown"], Len(todo["shutdown"]) + 1, started) = {}
    BY DEF Exit, Busy, KernelInv, PhaseOK
  <2>2. RunsAt(<< >>, 1, started) = started
    BY DEF RunsAt
  <2> QED BY <2>1, <2>2
<1>4. TypeOK'
  BY <1>1, <1>2 DEF KernelInv, ServicesAreOrdered, TypeOK, configVars
<1>5. ServicesAreOrdered'
  BY <1>1, <1>3, <1>4 DEF KernelInv, ServicesAreOrdered, DependenciesRun, EndsInOrder
<1>6. TodoOK' /\ ManagersOK' /\ OwnerOK' /\ SiteOK'
  BY <1>1 DEF KernelInv, TodoOK, Busy, ManagersOK, InEffect, Switching, UriList, OwnerOK, SiteOK, configVars
<1> QED BY <1>2, <1>5, <1>6 DEF KernelInv
LEMMA KeepZettel ==
  ASSUME KernelInv, ~ Overlap, ChangeZettel \/ FetchUpdate
  PROVE  KernelInv'
<1>1. UNCHANGED <<started, configVars, orig, authMgr, boxMgr, todo, phase>>
  BY DEF ChangeZettel, FetchUpdate, threadVars
<1>2. TypeOK /\ SiteOK
  BY DEF KernelInv, ServicesAreOrdered
<1>3. /\ zettel' \in Sites \union {NoSite}
      /\ \A u \in updates' : u.read \in Sites \union {NoSite, None}
      /\ SiteOK'
  <2>1. CASE ChangeZettel
    <3>1. updates = {} /\ zettel' \in Sites \union {NoSite} /\ boxMgr' = boxMgr /\ boxMgr # {}
          /\ updates' = {[id |-> Cardinality(updates), read |-> None]}
          /\ cur' = cur /\ next' = next
      BY <2>1, <1>1 DEF ChangeZettel, Observe, configVars
    <3>2. \A u \in updates' : u.read = None /\ u = [id |-> u.id, read |-> u.read]
      BY <3>1
    <3>3. updates' # {} /\ cur.site = next.site
      BY <3>1, <1>2 DEF SiteOK
    <3>4. SiteOK'
      BY <3>1, <3>2, <3>3 DEF SiteOK
    <3> QED BY <3>1, <3>2, <3>4
  <2>2. CASE FetchUpdate
    <3>1. PICK u \in updates :
            /\ u.read = None
            /\ updates' = IF boxMgr = {} THEN updates \ {u}
                          ELSE (updates \ {u}) \union {[u EXCEPT !.read = zettel]}
      BY <2>2 DEF FetchUpdate
    <3>2. zettel' = zettel /\ boxMgr' = boxMgr /\ cur' = cur /\ next' = next
      BY <2>2, <1>1 DEF FetchUpdate, configVars
    <3>3. zettel \in Sites \union {NoSite} /\ zettel # None
      BY <1>2, SitesAssumption DEF TypeOK
    <3>4. [u EXCEPT !.read = zettel] = [id |-> u.id, read |-> zettel]
      <4>1. u = [id |-> u.id, read |-> u.read]
        BY <1>2 DEF SiteOK
      <4> QED BY <4>1
    <3>5. CASE boxMgr = {}
      BY <3>1, <3>2, <3>3, <3>5, <1>2 DEF SiteOK, TypeOK
    <3>6. CASE boxMgr # {}
      <4>1. \A v \in updates' : v \in updates \/ v = [id |-> u.id, read |-> zettel]
        BY <3>1, <3>4, <3>6
      <4>2. updates' # {}
        BY <3>1, <3>6
      <4> QED BY <3>2, <3>3, <3>6, <4>1, <4>2, <1>2 DEF SiteOK, TypeOK
    <3> QED BY <3>5, <3>6
  <2> QED BY <2>1, <2>2
<1>4. TypeOK'
  BY <1>1, <1>2, <1>3 DEF TypeOK, configVars
<1>5. ServicesAreOrdered'
  BY <1>1, <1>4 DEF KernelInv, ServicesAreOrdered, DependenciesRun, EndsInOrder
<1>6. TodoOK' /\ PhaseOK' /\ ManagersOK' /\ OwnerOK'
  BY <1>1
  DEF KernelInv, TodoOK, Busy, PhaseOK, Quiet, ManagersOK, InEffect, Switching, UriList, OwnerOK, configVars
<1> QED BY <1>3, <1>5, <1>6 DEF KernelInv

(* The configuration service runs: the box that was read does, and the box  *)
(* is not stopped before an update that has read it is done.                *)
LEMMA KeepUpdate ==
  ASSUME KernelInv, ~ Overlap, ApplyUpdate
  PROVE  KernelInv'
<1>1. TypeOK /\ SiteOK /\ DependenciesRun /\ next \in Config /\ cur \in Config
  BY DEF KernelInv, ServicesAreOrdered, TypeOK
<1>2. PICK u \in updates :
        /\ u.read # None
        /\ updates' = updates \ {u}
        /\ IF orig = None
           THEN phase' = "exited" /\ UNCHANGED configVars
           ELSE /\ next' = [next EXCEPT !.site = IF u.read = NoSite THEN orig ELSE u.read]
                /\ cur' = Take(next', cur, {"config"})
                /\ applied' = applied \union {"config"}
                /\ UNCHANGED <<frozen, phase>>
  BY DEF ApplyUpdate
<1>3. UNCHANGED <<started, orig, authMgr, boxMgr, zettel, todo>>
  BY DEF ApplyUpdate
<1>4. u.read = zettel /\ boxMgr # {}
  BY <1>1, <1>2 DEF SiteOK
<1>5. orig # None /\ orig \in Sites
  <2>1. "box" \in started
    BY <1>1, <1>4 DEF TypeOK
  <2>2. "config" \in started
    BY <1>1, <2>1 DEF DependenciesRun, depStart
  <2> QED BY <1>1, <2>2 DEF TypeOK
<1> DEFINE site == IF u.read = NoSite THEN orig ELSE u.read
<1>6. /\ next' = [next EXCEPT !.site = site]
      /\ cur' = Take(next', cur, {"config"})
      /\ applied' = applied \union {"config"}
      /\ UNCHANGED <<frozen, phase>>
  BY <1>2, <1>5
<1>7. site \in Sites
  BY <1>1, <1>4, <1>5 DEF TypeOK
<1> HIDE DEF site
<1>8. /\ next' \in Config /\ next'.site = site
      /\ next'.owner = next.owner /\ next'.readonly = next.readonly /\ next'.uris = next.uris
  BY <1>1, <1>6, <1>7 DEF Config
<1>9. /\ cur' \in Config /\ cur'.site = next'.site
      /\ cur'.owner = cur.owner /\ cur'.readonly = cur.readonly /\ cur'.uris = cur.uris
  <2>1. PICK part \in Config : part = next'
    BY <1>8
  <2> DEFINE S == {"config"}
             taken == Take(part, cur, S)
  <2>2. "auth" \notin S /\ "config" \in S /\ "box" \notin S
    OBVIOUS
  <2> HIDE DEF S
  <2>3. /\ taken \in Config
        /\ taken.owner = cur.owner /\ taken.readonly = cur.readonly
        /\ taken.site = next'.site /\ taken.uris = cur.uris
    BY <1>1, <2>1, <2>2, TakeFields
  <2>4. cur' = taken
    BY <1>6, <2>1 DEF S
  <2> HIDE DEF taken
  <2> QED BY <2>3, <2>4
<1>10. TypeOK'
  BY <1>1, <1>2, <1>3, <1>6, <1>8, <1>9 DEF TypeOK, Services
<1>11. ServicesAreOrdered'
  BY <1>3, <1>6, <1>10 DEF KernelInv, ServicesAreOrdered, DependenciesRun, EndsInOrder
<1>12. TodoOK' /\ PhaseOK'
  BY <1>3, <1>6 DEF KernelInv, TodoOK, Busy, PhaseOK, Quiet
<1>13. ManagersOK'
  <2>1. \A x : Switching(x)' <=> Switching(x)
    BY <1>3 DEF Switching, Busy
  <2>2. /\ InEffect("auth")'.owner = InEffect("auth").owner
        /\ InEffect("auth")'.readonly = InEffect("auth").readonly
        /\ InEffect("box")'.uris = InEffect("box").uris
    BY <1>8, <1>9, <2>1 DEF InEffect
  <2>3. UriList(InEffect("box"))' = UriList(InEffect("box"))
    BY <2>2 DEF UriList
  <2> QED BY <1>3, <2>2, <2>3 DEF KernelInv, ManagersOK
<1>14. OwnerOK'
  BY <1>6, <1>8, <1>9 DEF KernelInv, OwnerOK
<1>15. SiteOK'
  <2>1. zettel # NoSite => next'.site = zettel
    BY <1>4, <1>8 DEF site
  <2> QED BY <1>1, <1>2, <1>3, <1>9, <2>1 DEF SiteOK
<1> QED BY <1>11, <1>12, <1>13, <1>14, <1>15 DEF KernelInv

LEMMA KeepKernel ==
  ASSUME KernelInv, Serial, ~ Overlap, [Next]_vars
  PROVE  KernelInv'
<1>1. CASE UNCHANGED vars
  BY <1>1
  DEF vars, threadVars, configVars, KernelInv, ServicesAreOrdered, TypeOK, DependenciesRun, EndsInOrder,
      TodoOK, Busy, PhaseOK, Quiet, ManagersOK, InEffect, Switching, UriList, OwnerOK, SiteOK
<1>2. CASE Next
  BY <1>2, KeepStartUp, KeepWork, KeepCommand, KeepSetConfig, KeepShutdown, KeepEnd, KeepZettel, KeepUpdate
  DEF Next
<1> QED BY <1>1, <1>2

LEMMA KernelInvariant ==
  ASSUME Serial, ~ Overlap
  PROVE  Spec => []KernelInv
<1>1. Init => KernelInv
  BY InitKernel
<1>2. KernelInv /\ [Next]_vars => KernelInv'
  BY KeepKernel
<1> QED BY <1>1, <1>2, PTL DEF Spec

(* Services start after those they use and stop before them, whatever       *)
(* commands are typed, and however many services cannot be started:         *)
(* doStartService, doRestartService, doStopService, doShutdown.             *)
THEOREM ServicesStayOrdered ==
  ASSUME Serial, ~ Overlap
  PROVE  Spec => []ServicesAreOrdered
<1>1. KernelInv => ServicesAreOrdered
  BY DEF KernelInv
<1> QED BY <1>1, KernelInvariant, PTL

(* What runs was made from the configuration that is shown, and the site    *)
(* name is the one of the configuration zettel: SwitchNextToCur, doUpdate.  *)
THEOREM ConfigTakesEffect ==
  ASSUME Serial, ~ Overlap
  PROVE  Spec => []ConfigIsEffective
<1>1. KernelInv => ConfigIsEffective
  <2> SUFFICES ASSUME KernelInv PROVE ConfigIsEffective
    OBVIOUS
  <2>1. ASSUME Quiet PROVE \A x : ~ Switching(x)
    BY <2>1 DEF Quiet, Switching
  <2>2. RunsAsConfigured
    BY <2>1 DEF RunsAsConfigured, KernelInv, ManagersOK, InEffect
  <2>3. ConfigFollowsZettel
    BY DEF ConfigFollowsZettel, KernelInv, SiteOK
  <2> QED BY <2>2, <2>3 DEF ConfigIsEffective
<1> QED BY <1>1, KernelInvariant, PTL

OwnerStays ==
    \A mgr \in authMgr' :
        /\ \A old \in authMgr : old.owner \in {NoOwner, mgr.owner}
        /\ "auth" \in applied =>
            /\ cur.owner \in {NoOwner, mgr.owner}
            /\ cur.readonly => mgr.readonly

(* An owner is never replaced and the read-only mode never left, however    *)
(* often the services are restarted: SetOwner, SetReadonly, StartAuth.      *)
THEOREM OwnerIsKept ==
  ASSUME Serial, ~ Overlap
  PROVE  Spec => OwnerAndModeStay
<1>1. KernelInv /\ [Next]_vars => [OwnerStays]_vars
  <2> SUFFICES ASSUME KernelInv, Next, NEW mgr \in authMgr'
               PROVE  /\ \A old \in authMgr : old.owner \in {NoOwner, mgr.owner}
                      /\ "auth" \in applied =>
                            /\ cur.owner \in {NoOwner, mgr.owner}
                            /\ cur.readonly => mgr.readonly
    BY DEF OwnerStays
  <2>1. CASE \E t \in Threads : StartAuth(t)
    <3>1. authMgr = {}
      BY <2>1, KeepStartAuth
    <3>2. mgr = [owner |-> next.owner, readonly |-> next.readonly]
      BY <2>1 DEF StartAuth
    <3> QED BY <3>1, <3>2 DEF KernelInv, OwnerOK
  <2>2. CASE mgr \in authMgr
    <3>1. \A m \in authMgr : m = mgr /\ m.owner = InEffect("auth").owner
                             /\ m.readonly = InEffect("auth").readonly
      BY <2>2 DEF KernelInv, ManagersOK
    <3> QED BY <3>1, <2>2 DEF KernelInv, OwnerOK, InEffect
  <2>3. mgr \in authMgr \/ \E t \in Threads : StartAuth(t)
    BY DEF Next, Work, Start, StartCore, StartConfig, StartBox, StartWeb, StartFails, SwitchNextToCur, Stop,
           cmdStart, cmdRestart, cmdStop, cmdSetConfig, SetConfig, Interrupt, doShutdown, Exit,
           ChangeZettel, FetchUpdate, ApplyUpdate
  <2> QED BY <2>1, <2>2, <2>3
<1>2. Spec => [][OwnerStays]_vars
  BY <1>1, KernelInvariant, PTL DEF Spec
<1> QED BY <1>2 DEF OwnerAndModeStay, OwnerStays
=============================================================================
