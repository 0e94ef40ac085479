------------------------------ MODULE Requests ------------------------------
(***************************************************************************)
(* Requests to the web server: log in, renew a token, and call use cases as *)
(* the user a token stands for, through the box that asks the policy.       *)
(*                                                                          *)
(* A request works in steps.  Between two of them other requests change the *)
(* box: the user, and what the policy was asked about, are what was read.   *)
(***************************************************************************)
EXTENDS Policy, FiniteSets

CONSTANTS
    Clients,
    Zids,
    Idents,         \* user identifications
    Metas,          \* metadata a request may send
    Configs,        \* configurations of the program
    Stores,         \* what may be stored at first
    Lifetime,       \* of a token, for each kind
    Budgets         \* bounds: logins, renewals, requests and time, in scenarios

ASSUME ZidsAssumption == Zids \subseteq Nat

Kinds == {"api", "web"}

(* The metadata of a zettel: what the policy looks at.                      *)
Meta == [zid : Zids, userid : STRING, userrole : Roles \union STRING, readonly : STRING, visibility : STRING]
MetaOf(zid, m) == [zid |-> zid, userid |-> m.userid, userrole |-> m.userrole,
                   readonly |-> m.readonly, visibility |-> m.visibility]

ASSUME NoUserAssumption == NoUser \notin Meta
ASSUME MetasAssumption == \A m \in Metas, zid \in Zids : MetaOf(zid, m) \in Meta
ASSUME StoresAssumption ==
    \A s \in Stores :
        DOMAIN s \subseteq Zids /\ \A zid \in DOMAIN s : s[zid] \in Meta /\ s[zid].zid = zid
ASSUME LifetimeAssumption == \A kind \in Kinds : Lifetime[kind] \in Nat \ {0}
ASSUME BudgetsAssumption == \A b \in Budgets : \A what \in DOMAIN b : b[what] \in Nat

VARIABLES
    config,         \* of services auth and config; does not change
    store,          \* the metadata of the zettel of all boxes
    tokens,         \* all tokens that were issued
    told,           \* of the last renewal: the token that was sent, the one that
                    \* was returned, and the lifetime the client was told
    request,        \* of each client, the request that is worked on
    answer,         \* what the last request got to see, and as which user
    now,
    budget,
    granted         \* history: user data that an owner stored

vars == <<config, store, tokens, told, request, answer, now, budget, granted>>

Idle == [step |-> "idle"]
UserData(m) == <<m.zid, m.userid, m.userrole>>

TypeOK ==
    /\ config \in Configs
    /\ \A zid \in DOMAIN store : zid \in Zids /\ store[zid].zid = zid
    /\ \A t \in tokens : t.kind \in Kinds /\ t.ident \in Idents /\ t.issued <= now
    /\ \A c \in Clients : request[c].step \in {"idle", "read", "check", "do"}
    /\ now \in Nat /\ \A what \in DOMAIN budget : budget[what] \in Nat

Init ==
    /\ config \in Configs
    /\ store \in Stores
    /\ tokens = {}
    /\ told = {}
    /\ request = [c \in Clients |-> Idle]
    /\ answer = {}
    /\ now = 0
    /\ budget \in Budgets
    /\ granted = {UserData(store[zid]) : zid \in DOMAIN store}

Spend(what) == budget[what] > 0 /\ budget' = [budget EXCEPT ![what] = @ - 1]

-----------------------------------------------------------------------------
(* Tokens *)

Token(kind, zid) == [kind |-> kind, ident |-> store[zid].userid, zid |-> zid,
                     issued |-> now, expires |-> now + Lifetime[kind]]

(* GetUser: the owner first, then the oldest zettel with this identification. *)
UsersWith(ident) == {zid \in DOMAIN store : store[zid].userid = ident}
GetUser(ident) ==
    IF config.owner \in UsersWith(ident) THEN {config.owner}
    ELSE {zid \in UsersWith(ident) : \A other \in UsersWith(ident) : zid <= other}

(* The credentials are right. *)
Login(kind) ==
    /\ WithAuth(config)
    /\ Spend("logins")
    /\ \E ident \in Idents : \E zid \in GetUser(ident) : tokens' = tokens \union {Token(kind, zid)}
    /\ UNCHANGED <<config, store, told, request, answer, now, granted>>

CheckToken(t, kind) == t.kind = kind /\ t.expires >= now

GetUserByZid(t) ==
    IF t.zid \in DOMAIN store /\ store[t.zid].userid = t.ident THEN store[t.zid] ELSE NoUser

(* addUserContext, with a token of the header or of the session cookie *)
UserOf(t, kind) == IF CheckToken(t, kind) THEN GetUserByZid(t) ELSE NoUser

(* Mutant: counts the whole lifetime again. *)
RenewFully ==
    /\ Spend("renewals")
    /\ \E t \in tokens :
        /\ UserOf(t, t.kind) # NoUser
        /\ told' = {[sent |-> t, token |-> t, at |-> now, lifetime |-> t.expires - t.issued]}
    /\ UNCHANGED <<config, store, tokens, request, answer, now, granted>>

(* The token is that of the header, which must be one for the API, or else  *)
(* that of the session cookie of the web user interface, which is taken for *)
(* every route.  In the first quarter of its lifetime it is given again.    *)
Renew ==
    /\ Spend("renewals")
    /\ \E t \in tokens :
        /\ UserOf(t, t.kind) # NoUser
        /\ LET total == t.expires - t.issued
               current == now - t.issued
               new == Token("api", t.zid)
           IN  IF current * 4 < total
               THEN /\ told' = {[sent |-> t, token |-> t, at |-> now, lifetime |-> total - current]}
                    /\ UNCHANGED tokens
               ELSE /\ told' = {[sent |-> t, token |-> new, at |-> now, lifetime |-> Lifetime["api"]]}
                    /\ tokens' = tokens \union {new}
    /\ UNCHANGED <<config, store, request, answer, now, granted>>

-----------------------------------------------------------------------------
(* Requests *)

Become(c, r) == request' = [request EXCEPT ![c] = r]

NewRequests(user) ==
    [step : {"check"}, op : {"create"}, user : {user}, new : Metas]
    \union {[step |-> "read", op |-> "update", user |-> user, zid |-> zid, new |-> MetaOf(zid, m)] :
                zid \in Zids, m \in Metas}
    \union [step : {"check"}, op : {"get", "delete"}, user : {user}, zid : Zids]
    \union [step : {"check"}, op : {"select"}, user : {user}]

Begin(c) ==
    /\ request[c] = Idle
    /\ Spend("requests")
    /\ \E user \in {NoUser} \union {UserOf(t, kind) : t \in tokens, kind \in Kinds} :
          \E new \in NewRequests(user) : Become(c, new)
    /\ UNCHANGED <<config, store, tokens, told, answer, now, granted>>

At(c, step, op) == request[c].step = step /\ request[c].op = op
End(c) == Become(c, Idle)
Continue(c, step) == request' = [request EXCEPT ![c].step = step]

(* What is stored by an owner, or without authentication, is granted. *)
Grant(user, m) ==
    granted' = IF ~WithAuth(config) \/ userIsOwner(config, user)
               THEN granted \union {UserData(m)} ELSE granted

Create(c) ==
    /\ At(c, "check", "create")
    /\ LET r == request[c] IN
       IF CanCreate(config, r.user, MetaOf(0, r.new))
       THEN \E zid \in Zids \ DOMAIN store :
                /\ store' = [z \in DOMAIN store \union {zid} |->
                                IF z = zid THEN MetaOf(zid, r.new) ELSE store[z]]
                /\ Grant(r.user, MetaOf(zid, r.new))
       ELSE UNCHANGED <<store, granted>>
    /\ End(c)
    /\ UNCHANGED <<config, tokens, told, answer, now, budget>>

Get(c) ==
    /\ At(c, "check", "get")
    /\ LET r == request[c]
           found == r.zid \in DOMAIN store /\ CanRead(config, r.user, store[r.zid])
       IN  answer' = IF found THEN {[user |-> r.user, m |-> store[r.zid]]} ELSE {}
    /\ End(c)
    /\ UNCHANGED <<config, store, tokens, told, now, budget, granted>>

(* Mutant: the query of a use case replaces the check of the policy. *)
SelectAll(c) ==
    /\ At(c, "check", "select")
    /\ answer' = {[user |-> request[c].user, m |-> store[zid]] : zid \in DOMAIN store}
    /\ End(c)
    /\ UNCHANGED <<config, store, tokens, told, now, budget, granted>>

(* SetPreMatch: the policy is asked before the query is. *)
Select(c) ==
    /\ At(c, "check", "select")
    /\ LET r == request[c] IN
       answer' = {[user |-> r.user, m |-> store[zid]] :
                    zid \in {z \in DOMAIN store : CanRead(config, r.user, store[z])}}
    /\ End(c)
    /\ UNCHANGED <<config, store, tokens, told, now, budget, granted>>

(* The use case reads the zettel, and stops if nothing changes. *)
ReadBefore(c) ==
    /\ At(c, "read", "update")
    /\ LET r == request[c] IN
       IF r.zid \in DOMAIN store /\ CanRead(config, r.user, store[r.zid]) /\ store[r.zid] # r.new
       THEN Continue(c, "check") ELSE End(c)
    /\ UNCHANGED <<config, store, tokens, told, answer, now, budget, granted>>

(* The box with policy reads it again. *)
Check(c) ==
    /\ request[c].step = "check" /\ request[c].op \in {"update", "delete"}
    /\ LET r == request[c]
           allowed == r.zid \in DOMAIN store /\
               IF r.op = "update" THEN CanWrite(config, r.user, store[r.zid], r.new)
               ELSE CanDelete(config, r.user, store[r.zid])
       IN  IF allowed THEN Continue(c, "do") ELSE End(c)
    /\ UNCHANGED <<config, store, tokens, told, answer, now, budget, granted>>

(* The box stores it, even if it was deleted meanwhile. *)
Update(c) ==
    /\ At(c, "do", "update")
    /\ LET r == request[c] IN
       /\ store' = [z \in DOMAIN store \union {r.zid} |-> IF z = r.zid THEN r.new ELSE store[z]]
       /\ Grant(r.user, r.new)
    /\ End(c)
    /\ UNCHANGED <<config, tokens, told, answer, now, budget>>

Delete(c) ==
    /\ At(c, "do", "delete")
    /\ store' = [zid \in DOMAIN store \ {request[c].zid} |-> store[zid]]
    /\ End(c)
    /\ UNCHANGED <<config, tokens, told, answer, now, budget, granted>>

Tick ==
    /\ Spend("time")
    /\ now' = now + 1
    /\ UNCHANGED <<config, store, tokens, told, request, answer, granted>>

Next ==
    \/ \E kind \in Kinds : Login(kind)
    \/ Renew
    \/ \E c \in Clients :
        Begin(c) \/ Create(c) \/ Get(c) \/ Select(c) \/ ReadBefore(c) \/ Check(c) \/ Update(c) \/ Delete(c)
    \/ Tick

Spec == Init /\ [][Next]_vars

-----------------------------------------------------------------------------
(* Users that requests of the moment may have. *)
KnownUsers == {store[zid] : zid \in {z \in DOMAIN store : store[z].userid # Absent}}

(* Nobody but an owner makes a user of a zettel, or gives a user another    *)
(* identification or role, in whatever steps requests interleave:           *)
(* userCanCreate and noChangeUser in policy/owner.go.                       *)
RolesAreGranted ==
    \A zid \in DOMAIN store : store[zid].userid # Absent => UserData(store[zid]) \in granted

(* Who is not logged in gets to see public zettel only, and "only the user  *)
(* can read its own zettel", unless it is public: SelectMeta, GetZettel.    *)
AnswersArePermitted ==
    WithAuth(config) =>
        \A a \in answer :
            \/ GetVisibility(config, a.m) = "public"
            \/ /\ a.user # NoUser
               /\ userIsOwner(config, a.user) \/ a.m.userid = Absent \/ a.m.zid = a.user.zid

(* Who may change a zettel may read it, so that the use case, which reads   *)
(* first, does not refuse what the policy allows: CanWrite, CanRead.        *)
WriteImpliesRead ==
    \A user \in KnownUsers \union {NoUser}, zid \in DOMAIN store, m \in Metas :
        CanWrite(config, user, store[zid], MetaOf(zid, m)) => CanRead(config, user, store[zid])

(* Who may delete a zettel may change it: CanDelete, CanWrite.              *)
DeleteImpliesWrite ==
    \A user \in KnownUsers \union {NoUser}, zid \in DOMAIN store :
        CanDelete(config, user, store[zid]) => CanWrite(config, user, store[zid], store[zid])

(* A higher role never takes away the right to read or write something; nor *)
(* to create it, but that readers, other than creators below them, may not. *)
HigherRoleKeepsRights ==
    \A user \in KnownUsers, role \in Roles, zid \in DOMAIN store, m \in Metas :
        LET higher == [user EXCEPT !.userrole = role] IN
        Rank(role) >= Rank(GetUserRole(config, user)) =>
            /\ CanRead(config, user, store[zid]) => CanRead(config, higher, store[zid])
            /\ CanWrite(config, user, store[zid], MetaOf(zid, m)) =>
                    CanWrite(config, higher, store[zid], MetaOf(zid, m))
            /\ role # "reader" /\ CanCreate(config, user, MetaOf(zid, m)) =>
                    CanCreate(config, higher, MetaOf(zid, m))

(* The rights to read, write and delete are ordered, and so are the roles   *)
(* in what they may read and write, and create but for readers.             *)
RightsAreOrdered == WriteImpliesRead /\ DeleteImpliesWrite /\ HigherRoleKeepsRights

(* A token that a renewal returns has as much of its life left as the       *)
(* client is told, and that is more than three quarters of it.  It is one   *)
(* for the API, which CheckToken accepts there, if the client sent one; the *)
(* token of a young session is returned as it is, and is refused then.      *)
RenewalHolds ==
    TypeOK /\ \A t \in told :
        /\ t.at + t.lifetime <= t.token.expires
        /\ 4 * t.lifetime > 3 * Lifetime[t.token.kind]
        /\ t.sent.kind = "api" => t.token.kind = "api"
=============================================================================
