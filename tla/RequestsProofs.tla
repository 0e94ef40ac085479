--------------------------- MODULE RequestsProofs ---------------------------
(* Theorems about requests and the access policy, for every set of zettel,  *)
(* clients, metadata, configurations and lifetimes.                         *)
EXTENDS Requests, TLAPS

-----------------------------------------------------------------------------
(* The policy: what one right implies, for all users, zettel and            *)
(* configurations.                                                          *)

LEMMA WriteNeedsRead ==
  ASSUME NEW c, NEW user, NEW old, NEW new, CanWrite(c, user, old, new)
  PROVE  CanRead(c, user, old)
  BY DEF CanWrite, CanRead, OwnerCanWrite, OwnerCanRead, IsExpert

LEMMA DeleteNeedsWrite ==
  ASSUME NEW c, NEW user, NEW m, CanDelete(c, user, m)
  PROVE  CanWrite(c, user, m, m)
  BY DEF CanDelete, CanWrite, OwnerCanDelete, OwnerCanWrite

(* Who is not an owner may not make a user, and may not change what         *)
(* identifies a user.                                                       *)
LEMMA WriteKeepsUser ==
  ASSUME NEW c, NEW user, NEW old, NEW new,
         WithAuth(c), ~userIsOwner(c, user), CanWrite(c, user, old, new)
  PROVE  \/ new.userid = Absent
         \/ old.userid # Absent /\ UserData(old) = UserData(new)
  BY DEF CanWrite, OwnerCanWrite, ExpertCan, userCanCreate, SameUser, UserData

LEMMA CreateMakesNoUser ==
  ASSUME NEW c, NEW user, NEW new,
         WithAuth(c), ~userIsOwner(c, user), CanCreate(c, user, new)
  PROVE  new.userid = Absent
  BY DEF CanCreate, userCanCreate

LEMMA ReadIsPermitted ==
  ASSUME NEW c, NEW user, NEW m, WithAuth(c), CanRead(c, user, m)
  PROVE  \/ GetVisibility(c, m) = "public"
         \/ /\ user # NoUser
            /\ userIsOwner(c, user) \/ m.userid = Absent \/ m.zid = user.zid
  BY DEF CanRead, OwnerCanRead, ExpertCan, userIsOwner, userCanRead

-----------------------------------------------------------------------------
(* A user with a higher role                                                *)

LEMMA HigherUser ==
  ASSUME NEW user \in Meta, NEW role \in Roles
  PROVE  LET higher == [user EXCEPT !.userrole = role] IN
         /\ user # NoUser /\ higher # NoUser
         /\ higher.zid = user.zid /\ higher.userrole = role
<1>1. [user EXCEPT !.userrole = role] \in Meta
  BY DEF Meta
<1> QED
  BY <1>1, NoUserAssumption DEF Meta

LEMMA HigherRole ==
  ASSUME NEW c, NEW user \in Meta, NEW role \in Roles,
         Rank(role) >= Rank(GetUserRole(c, user))
  PROVE  LET higher == [user EXCEPT !.userrole = role] IN
         /\ Rank(GetUserRole(c, higher)) >= Rank(GetUserRole(c, user))
         /\ userIsOwner(c, user) => userIsOwner(c, higher)
         /\ GetUserRole(c, higher) = "creator" => GetUserRole(c, user) = "creator"
         /\ GetUserRole(c, higher) = "reader" => GetUserRole(c, user) \in {"creator", "reader"}
         /\ Rank(GetUserRole(c, user)) \in Nat /\ Rank(GetUserRole(c, higher)) \in Nat
<1> DEFINE higher == [user EXCEPT !.userrole = role]
<1>1. /\ user # NoUser /\ higher # NoUser
      /\ higher.zid = user.zid /\ higher.userrole = role
  BY HigherUser
<1> HIDE DEF higher
<1>2. /\ Rank("creator") = 2 /\ Rank("reader") = 3 /\ Rank("writer") = 4 /\ Rank("owner") = 5
  BY DEF Rank
<1>3. CASE IsOwner(c, user.zid)
  <2>1. GetUserRole(c, user) = "owner" /\ GetUserRole(c, higher) = "owner"
    BY <1>1, <1>3 DEF GetUserRole
  <2>2. userIsOwner(c, higher)
    BY <1>1, <1>3 DEF userIsOwner
  <2> QED
    BY <1>2, <2>1, <2>2 DEF higher
<1>4. CASE ~IsOwner(c, user.zid)
  <2>1. GetUserRole(c, higher) = role
    BY <1>1, <1>4 DEF GetUserRole
  <2>2. GetUserRole(c, user) \in Roles
    BY <1>1, <1>4 DEF GetUserRole, Roles
  <2>3. userIsOwner(c, user) => GetUserRole(c, user) = "owner"
    BY <1>1, <1>4 DEF GetUserRole, userIsOwner, Roles
  <2>4. GetUserRole(c, user) = "owner" => role = "owner"
    BY <1>2, <2>2 DEF Roles
  <2>5. userIsOwner(c, user) => userIsOwner(c, higher)
    BY <1>1, <2>3, <2>4 DEF userIsOwner
  <2>6. /\ role = "creator" => GetUserRole(c, user) = "creator"
        /\ role = "reader" => GetUserRole(c, user) \in {"creator", "reader"}
    BY <1>2, <2>2 DEF Roles
  <2>7. Rank(GetUserRole(c, user)) \in Nat /\ Rank(role) \in Nat
    BY <1>2, <2>2 DEF Roles
  <2> QED
    BY <2>1, <2>5, <2>6, <2>7 DEF higher
<1> QED
  BY <1>3, <1>4

LEMMA HigherChanges ==
  ASSUME NEW c, NEW user \in Meta, NEW role \in Roles, NEW m,
         Rank(role) >= Rank(GetUserRole(c, user)),
         PreCanChange(c, user, m)
  PROVE  PreCanChange(c, [user EXCEPT !.userrole = role], m)
<1> DEFINE higher == [user EXCEPT !.userrole = role]
<1>1. /\ Rank(GetUserRole(c, higher)) >= Rank(GetUserRole(c, user))
      /\ Rank(GetUserRole(c, user)) \in Nat /\ Rank(GetUserRole(c, higher)) \in Nat
  BY HigherRole
<1>2. higher # NoUser
  BY HigherUser
<1> HIDE DEF higher
<1>3. m.readonly \in {"reader", "writer", "owner"} => Rank(m.readonly) \in Nat
  BY DEF Rank
<1>4. PreCanChange(c, higher, m)
  BY <1>1, <1>2, <1>3 DEF PreCanChange, canChange
<1> QED
  BY <1>4 DEF higher

(* A higher role keeps the right to read.                                   *)
LEMMA HigherReads ==
  ASSUME NEW c, NEW user \in Meta, NEW role \in Roles, NEW m,
         Rank(role) >= Rank(GetUserRole(c, user)),
         CanRead(c, user, m)
  PROVE  CanRead(c, [user EXCEPT !.userrole = role], m)
<1> DEFINE higher == [user EXCEPT !.userrole = role]
<1>1. /\ userIsOwner(c, user) => userIsOwner(c, higher)
      /\ GetUserRole(c, higher) = "creator" => GetUserRole(c, user) = "creator"
  BY HigherRole
<1>2. user # NoUser /\ higher # NoUser /\ higher.zid = user.zid
  BY HigherUser
<1> HIDE DEF higher
<1>3. userCanRead(c, user, m) => userCanRead(c, higher, m)
  BY <1>1, <1>2 DEF userCanRead
<1>4. CanRead(c, higher, m)
  BY <1>1, <1>3 DEF CanRead, OwnerCanRead, ExpertCan
<1> QED
  BY <1>4 DEF higher

(* A higher role keeps the right to write.                                  *)
LEMMA HigherWrites ==
  ASSUME NEW c, NEW user \in Meta, NEW role \in Roles, NEW old, NEW new,
         Rank(role) >= Rank(GetUserRole(c, user)),
         CanWrite(c, user, old, new)
  PROVE  CanWrite(c, [user EXCEPT !.userrole = role], old, new)
<1> DEFINE higher == [user EXCEPT !.userrole = role]
<1>1. /\ userIsOwner(c, user) => userIsOwner(c, higher)
      /\ GetUserRole(c, higher) = "creator" => GetUserRole(c, user) = "creator"
      /\ GetUserRole(c, higher) = "reader" => GetUserRole(c, user) \in {"creator", "reader"}
  BY HigherRole
<1>2. user # NoUser /\ higher # NoUser /\ higher.zid = user.zid
  BY HigherUser
<1>3. PreCanChange(c, user, old) => PreCanChange(c, higher, old)
  BY HigherChanges
<1> HIDE DEF higher
<1>4. userCanRead(c, user, old) => userCanRead(c, higher, old)
  BY <1>1, <1>2 DEF userCanRead
<1>5. GetUserRole(c, user) \notin {"reader", "creator"} /\ userCanCreate(c, user, new)
        => GetUserRole(c, higher) \notin {"reader", "creator"} /\ userCanCreate(c, higher, new)
  BY <1>1 DEF userCanCreate
<1>6. ASSUME WithAuth(c) PROVE CanWrite(c, higher, old, new)
  <2>1. OwnerCanWrite(c, user, old, new)
    BY <1>6 DEF CanWrite
  <2>2. OwnerCanWrite(c, higher, old, new)
    BY <1>1, <1>2, <1>3, <1>4, <1>5, <2>1 DEF OwnerCanWrite, ExpertCan
  <2> QED
    BY <1>6, <2>2 DEF CanWrite
<1>7. ASSUME ~WithAuth(c) PROVE CanWrite(c, higher, old, new)
  BY <1>3, <1>7 DEF CanWrite
<1>8. CanWrite(c, higher, old, new)
  BY <1>6, <1>7
<1> QED
  BY <1>8 DEF higher

(* A higher role keeps the right to create, unless it is that of a reader.  *)
LEMMA HigherCreates ==
  ASSUME NEW c, NEW user \in Meta, NEW role \in Roles, NEW new,
         Rank(role) >= Rank(GetUserRole(c, user)), role # "reader",
         CanCreate(c, user, new)
  PROVE  CanCreate(c, [user EXCEPT !.userrole = role], new)
<1> DEFINE higher == [user EXCEPT !.userrole = role]
<1>1. userIsOwner(c, user) => userIsOwner(c, higher)
  BY HigherRole
<1>2. user # NoUser /\ higher # NoUser /\ higher.zid = user.zid /\ higher.userrole = role
  BY HigherUser
<1> HIDE DEF higher
<1>3. GetUserRole(c, higher) # "reader"
  BY <1>2 DEF GetUserRole
<1>4. CanCreate(c, higher, new)
  BY <1>1, <1>2, <1>3 DEF CanCreate, userCanCreate
<1> QED
  BY <1>4 DEF higher

-----------------------------------------------------------------------------
(* The invariant: what is stored, what requests carry from one step to the  *)
(* next, what was told and seen, and who gave users their roles.            *)

Users == {NoUser} \union Meta

CreateRequest == [step : {"check"}, op : {"create"}, user : Users, new : Metas]
UpdateRequest == [step : {"read", "check", "do"}, op : {"update"}, user : Users, zid : Zids, new : Meta]
OtherRequest == [step : {"check", "do"}, op : {"get", "delete"}, user : Users, zid : Zids]
SelectRequest == [step : {"check"}, op : {"select"}, user : Users]
Request == {Idle} \union CreateRequest \union UpdateRequest \union OtherRequest \union SelectRequest

(* What a request that passed the check may store without being an owner's. *)
Approved(c, g, user, m) ==
    \/ ~WithAuth(c)
    \/ userIsOwner(c, user)
    \/ m.userid = Absent
    \/ UserData(m) \in g

ApprovedRequest(c, g, r) ==
    r \in UpdateRequest =>
        /\ r.new.zid = r.zid
        /\ r.step = "do" => Approved(c, g, r.user, r.new)

StoreInv ==
    /\ DOMAIN store \subseteq Zids
    /\ \A zid \in DOMAIN store : store[zid] \in Meta /\ store[zid].zid = zid

RequestInv ==
    /\ request \in [Clients -> Request]
    /\ \A c \in Clients : ApprovedRequest(config, granted, request[c])

IInv == StoreInv /\ RequestInv /\ RolesAreGranted /\ AnswersArePermitted

LEMMA UserIsKnown ==
  ASSUME StoreInv, NEW t, NEW kind
  PROVE  UserOf(t, kind) \in Users
  BY DEF StoreInv, UserOf, GetUserByZid, Users

LEMMA IdleRequest == Idle \in Request /\ Idle \notin UpdateRequest
<1>1. Idle.step \notin {"read", "check", "do"}
  BY DEF Idle
<1> QED
  BY <1>1 DEF Request, UpdateRequest

(* What was approved stays so, since nothing that was granted is forgotten. *)
LEMMA ApprovedStays ==
  ASSUME NEW c, NEW g, NEW h, NEW r, g \subseteq h, ApprovedRequest(c, g, r)
  PROVE  ApprovedRequest(c, h, r)
  BY DEF ApprovedRequest, Approved

(* One request changes, or ends; the others keep the invariant.             *)
LEMMA ChangeRequestInv ==
  ASSUME RequestInv, NEW c \in Clients, NEW new \in Request,
         Become(c, new),
         config' = config, granted \subseteq granted',
         ApprovedRequest(config, granted, new)
  PROVE  RequestInv'
<1>1. /\ request' \in [Clients -> Request]
      /\ request'[c] = new
      /\ \A d \in Clients \ {c} : request'[d] = request[d]
  BY DEF RequestInv, Become
<1>2. ASSUME NEW d \in Clients PROVE ApprovedRequest(config', granted', request'[d])
  <2>1. ApprovedRequest(config, granted, request'[d])
    BY <1>1 DEF RequestInv
  <2> QED
    BY <2>1, ApprovedStays
<1> QED
  BY <1>1, <1>2 DEF RequestInv

LEMMA EndRequestInv ==
  ASSUME RequestInv, NEW c \in Clients, End(c), config' = config, granted \subseteq granted'
  PROVE  RequestInv'
<1>1. ApprovedRequest(config, granted, Idle)
  BY IdleRequest DEF ApprovedRequest
<1> QED
  BY <1>1, IdleRequest, ChangeRequestInv DEF End

(* A user's data that a request stores were granted before or are now.      *)
LEMMA StoredIsGranted ==
  ASSUME RolesAreGranted, NEW zid, NEW user, NEW m,
         store' = [z \in DOMAIN store \union {zid} |-> IF z = zid THEN m ELSE store[z]],
         Grant(user, m), Approved(config, granted, user, m)
  PROVE  RolesAreGranted' /\ granted \subseteq granted'
<1>1. /\ DOMAIN store' = DOMAIN store \union {zid}
      /\ \A z \in DOMAIN store' : store'[z] = IF z = zid THEN m ELSE store[z]
  OBVIOUS
<1>2. granted \subseteq granted'
  BY DEF Grant
<1>3. m.userid # Absent => UserData(m) \in granted'
  BY DEF Grant, Approved
<1>4. \A z \in DOMAIN store : store[z].userid # Absent => UserData(store[z]) \in granted
  BY DEF RolesAreGranted
<1>5. \A z \in DOMAIN store' : store'[z].userid # Absent => UserData(store'[z]) \in granted'
  BY <1>1, <1>2, <1>3, <1>4
<1> QED
  BY <1>2, <1>5 DEF RolesAreGranted, UserData

LEMMA StoredInv ==
  ASSUME StoreInv, NEW zid \in Zids, NEW m \in Meta, m.zid = zid,
         store' = [z \in DOMAIN store \union {zid} |-> IF z = zid THEN m ELSE store[z]]
  PROVE  StoreInv'
  BY DEF StoreInv

LEMMA InitIInv == Init => IInv
<1> SUFFICES ASSUME Init PROVE IInv
  OBVIOUS
<1>1. StoreInv
  BY StoresAssumption DEF Init, StoreInv
<1>2. RequestInv
  BY IdleRequest DEF Init, RequestInv, ApprovedRequest
<1>3. RolesAreGranted /\ AnswersArePermitted
  BY DEF Init, RolesAreGranted, AnswersArePermitted
<1> QED
  BY <1>1, <1>2, <1>3 DEF IInv

-----------------------------------------------------------------------------

LEMMA BeginIInv ==
  ASSUME IInv, NEW c \in Clients, Begin(c)
  PROVE  IInv'
<1>1. PICK user \in {NoUser} \union {UserOf(t, kind) : t \in tokens, kind \in Kinds} :
        \E new \in NewRequests(user) : Become(c, new)
  BY DEF Begin
<1>2. PICK new \in NewRequests(user) : Become(c, new)
  BY <1>1
<1>3. user \in Users
  BY UserIsKnown DEF IInv, Users
<1>4. new \in Request
  BY <1>3, MetasAssumption
     DEF NewRequests, Request, CreateRequest, UpdateRequest, OtherRequest, SelectRequest
<1>5. new \in UpdateRequest => new.new.zid = new.zid /\ new.step # "do"
  BY DEF NewRequests, UpdateRequest, MetaOf
<1>6. RequestInv'
  <2>1. config' = config /\ granted' = granted
    BY DEF Begin
  <2>2. ApprovedRequest(config, granted, new)
    BY <1>5 DEF ApprovedRequest
  <2> QED
    BY <1>2, <1>4, <2>1, <2>2, ChangeRequestInv DEF IInv
<1>7. StoreInv' /\ RolesAreGranted' /\ AnswersArePermitted'
  BY DEF Begin, IInv, StoreInv, RolesAreGranted, AnswersArePermitted, UserData,
         WithAuth, GetVisibility, userIsOwner, IsOwner
<1> QED
  BY <1>6, <1>7 DEF IInv

LEMMA CreateIInv ==
  ASSUME IInv, NEW c \in Clients, Create(c)
  PROVE  IInv'
<1> DEFINE r == request[c]
<1>1. r \in CreateRequest
  <2>1. r \in Request /\ r.step = "check" /\ r.op = "create"
    BY DEF IInv, RequestInv, Create, At
  <2> QED
    BY <2>1 DEF Request, Idle, UpdateRequest, OtherRequest, SelectRequest
<1>2. StoreInv' /\ RolesAreGranted' /\ granted \subseteq granted'
  <2>1. CASE CanCreate(config, r.user, MetaOf(0, r.new))
    <3>1. PICK zid \in Zids \ DOMAIN store :
            /\ store' = [z \in DOMAIN store \union {zid} |->
                            IF z = zid THEN MetaOf(zid, r.new) ELSE store[z]]
            /\ Grant(r.user, MetaOf(zid, r.new))
      BY <2>1 DEF Create
    <3>2. MetaOf(zid, r.new) \in Meta /\ MetaOf(zid, r.new).zid = zid
      BY <1>1, MetasAssumption DEF CreateRequest, MetaOf
    <3>3. MetaOf(zid, r.new).userid = MetaOf(0, r.new).userid
      BY DEF MetaOf
    <3>4. Approved(config, granted, r.user, MetaOf(zid, r.new))
      BY <2>1, <3>3, CreateMakesNoUser DEF Approved
    <3>5. RolesAreGranted' /\ granted \subseteq granted'
      BY <3>1, <3>4, StoredIsGranted DEF IInv
    <3>6. StoreInv'
      BY <3>1, <3>2, StoredInv DEF IInv
    <3> QED
      BY <3>5, <3>6
  <2>2. CASE ~CanCreate(config, r.user, MetaOf(0, r.new))
    BY <2>2 DEF Create, IInv, StoreInv, RolesAreGranted, UserData
  <2> QED
    BY <2>1, <2>2
<1>3. RequestInv'
  BY <1>2, EndRequestInv DEF Create, IInv
<1>4. AnswersArePermitted'
  BY DEF Create, IInv, AnswersArePermitted, WithAuth, GetVisibility, userIsOwner, IsOwner
<1> QED
  BY <1>2, <1>3, <1>4 DEF IInv

LEMMA AnswerIInv ==
  ASSUME IInv, NEW c \in Clients, Get(c) \/ Select(c)
  PROVE  IInv'
<1>1. \A a \in answer' : CanRead(config, a.user, a.m)
  BY DEF Get, Select
<1>2. AnswersArePermitted'
  <2>1. config' = config
    BY DEF Get, Select
  <2>2. WithAuth(config) => \A a \in answer' :
            \/ GetVisibility(config, a.m) = "public"
            \/ /\ a.user # NoUser
               /\ userIsOwner(config, a.user) \/ a.m.userid = Absent \/ a.m.zid = a.user.zid
    BY <1>1, ReadIsPermitted
  <2> QED
    BY <2>1, <2>2 DEF AnswersArePermitted, WithAuth, GetVisibility, userIsOwner, IsOwner
<1>3. RequestInv'
  BY EndRequestInv DEF Get, Select, IInv
<1>4. StoreInv' /\ RolesAreGranted'
  BY DEF Get, Select, IInv, StoreInv, RolesAreGranted, UserData
<1> QED
  BY <1>2, <1>3, <1>4 DEF IInv

(* A request goes on to its next step.                                      *)
LEMMA ContinueRequestInv ==
  ASSUME RequestInv, NEW c \in Clients, NEW step \in {"check", "do"}, Continue(c, step),
         request[c] \in UpdateRequest \/ request[c] \in OtherRequest,
         config' = config, granted' = granted,
         request[c] \in UpdateRequest /\ step = "do" =>
            Approved(config, granted, request[c].user, request[c].new)
  PROVE  RequestInv'
<1> DEFINE new == [request[c] EXCEPT !.step = step]
<1>1. request' = [request EXCEPT ![c] = new]
  BY DEF Continue
<1>2. Become(c, new)
  BY <1>1 DEF Become
<1>3. new \in Request
  BY DEF Request, UpdateRequest, OtherRequest
<1>4. ApprovedRequest(config, granted, new)
  <2>1. CASE request[c] \in UpdateRequest
    <3>1. request[c].new.zid = request[c].zid
      BY <2>1 DEF RequestInv, ApprovedRequest
    <3>2. /\ new.new = request[c].new /\ new.zid = request[c].zid
          /\ new.user = request[c].user /\ new.step = step
      BY <2>1 DEF UpdateRequest
    <3> QED
      BY <2>1, <3>1, <3>2 DEF ApprovedRequest
  <2>2. CASE request[c] \in OtherRequest
    <3>1. new.op \in {"get", "delete"}
      BY <2>2 DEF OtherRequest
    <3>2. new \notin UpdateRequest
      BY <3>1 DEF UpdateRequest
    <3> QED
      BY <3>2 DEF ApprovedRequest
  <2> QED
    BY <2>1, <2>2
<1> HIDE DEF new
<1> QED
  BY <1>2, <1>3, <1>4, ChangeRequestInv

LEMMA KindOfRequest ==
  ASSUME RequestInv, NEW c \in Clients, request[c].step \in {"read", "check", "do"}
  PROVE  /\ request[c].op = "update" => request[c] \in UpdateRequest
         /\ request[c].op = "delete" => request[c] \in OtherRequest
<1>1. request[c] \in Request
  BY DEF RequestInv
<1>2. request[c] # Idle
  BY DEF Idle
<1> QED
  BY <1>1, <1>2 DEF Request, CreateRequest, UpdateRequest, OtherRequest, SelectRequest

LEMMA ReadBeforeIInv ==
  ASSUME IInv, NEW c \in Clients, ReadBefore(c)
  PROVE  IInv'
<1>1. request[c] \in UpdateRequest
  BY KindOfRequest DEF IInv, ReadBefore, At
<1>2. config' = config /\ granted' = granted
  BY DEF ReadBefore
<1>3. RequestInv'
  <2>1. CASE Continue(c, "check")
    BY <1>1, <1>2, <2>1, ContinueRequestInv DEF IInv
  <2>2. CASE End(c)
    BY <1>2, <2>2, EndRequestInv DEF IInv
  <2> QED
    BY <2>1, <2>2 DEF ReadBefore
<1>4. StoreInv' /\ RolesAreGranted' /\ AnswersArePermitted'
  BY DEF ReadBefore, IInv, StoreInv, RolesAreGranted, AnswersArePermitted, UserData,
         WithAuth, GetVisibility, userIsOwner, IsOwner
<1> QED
  BY <1>3, <1>4 DEF IInv

(* The policy is asked about the zettel that is stored; whoever is its user *)
(* was granted to be one.                                                   *)
LEMMA CheckIInv ==
  ASSUME IInv, NEW c \in Clients, Check(c)
  PROVE  IInv'
<1> DEFINE r == request[c]
<1>1. /\ r.op = "update" => r \in UpdateRequest
      /\ r.op = "delete" => r \in OtherRequest
      /\ r.op \in {"update", "delete"}
  BY KindOfRequest DEF IInv, Check
<1>2. config' = config /\ granted' = granted
  BY DEF Check
<1>3. RequestInv'
  <2>1. CASE Continue(c, "do") /\ r.zid \in DOMAIN store
             /\ (r.op = "update" => CanWrite(config, r.user, store[r.zid], r.new))
    <3>1. r \in UpdateRequest => Approved(config, granted, r.user, r.new)
      <4>1. SUFFICES ASSUME r \in UpdateRequest, WithAuth(config), ~userIsOwner(config, r.user),
                            r.new.userid # Absent
                     PROVE  UserData(r.new) \in granted
        BY DEF Approved
      <4>2. CanWrite(config, r.user, store[r.zid], r.new)
        BY <2>1, <4>1 DEF UpdateRequest
      <4>3. store[r.zid].userid # Absent /\ UserData(store[r.zid]) = UserData(r.new)
        BY <4>1, <4>2, WriteKeepsUser
      <4>4. UserData(store[r.zid]) \in granted
        BY <2>1, <4>3 DEF IInv, RolesAreGranted
      <4> QED
        BY <4>3, <4>4
    <3> QED
      BY <1>1, <1>2, <2>1, <3>1, ContinueRequestInv DEF IInv
  <2>2. CASE End(c)
    BY <1>2, <2>2, EndRequestInv DEF IInv
  <2> QED
    BY <2>1, <2>2 DEF Check
<1>4. StoreInv' /\ RolesAreGranted' /\ AnswersArePermitted'
  BY DEF Check, IInv, StoreInv, RolesAreGranted, AnswersArePermitted, UserData,
         WithAuth, GetVisibility, userIsOwner, IsOwner
<1> QED
  BY <1>3, <1>4 DEF IInv

LEMMA UpdateIInv ==
  ASSUME IInv, NEW c \in Clients, Update(c)
  PROVE  IInv'
<1> DEFINE r == request[c]
<1>1. r \in UpdateRequest /\ r.step = "do"
  BY KindOfRequest DEF IInv, Update, At
<1>2. r.new \in Meta /\ r.zid \in Zids /\ r.new.zid = r.zid /\ Approved(config, granted, r.user, r.new)
  BY <1>1 DEF IInv, RequestInv, ApprovedRequest, UpdateRequest
<1>3. RolesAreGranted' /\ granted \subseteq granted'
  BY <1>2, StoredIsGranted DEF IInv, Update
<1>4. StoreInv'
  BY <1>2, StoredInv DEF IInv, Update
<1>5. RequestInv'
  BY <1>3, EndRequestInv DEF IInv, Update
<1>6. AnswersArePermitted'
  BY DEF Update, IInv, AnswersArePermitted, WithAuth, GetVisibility, userIsOwner, IsOwner
<1> QED
  BY <1>3, <1>4, <1>5, <1>6 DEF IInv

LEMMA DeleteIInv ==
  ASSUME IInv, NEW c \in Clients, Delete(c)
  PROVE  IInv'
<1>1. /\ DOMAIN store' \subseteq DOMAIN store
      /\ \A zid \in DOMAIN store' : store'[zid] = store[zid]
  BY DEF Delete
<1>2. StoreInv' /\ RolesAreGranted'
  BY <1>1 DEF Delete, IInv, StoreInv, RolesAreGranted, UserData
<1>3. RequestInv'
  BY EndRequestInv DEF IInv, Delete
<1>4. AnswersArePermitted'
  BY DEF Delete, IInv, AnswersArePermitted, WithAuth, GetVisibility, userIsOwner, IsOwner
<1> QED
  BY <1>2, <1>3, <1>4 DEF IInv

(* Tokens, their renewal and time are not among what the invariant is about.*)
LEMMA OthersIInv ==
  ASSUME IInv, UNCHANGED <<config, store, request, answer, granted>>
  PROVE  IInv'
  BY DEF IInv, StoreInv, RequestInv, RolesAreGranted, AnswersArePermitted, UserData,
         WithAuth, GetVisibility, userIsOwner, IsOwner

LEMMA NextIInv == IInv /\ [Next]_vars => IInv'
<1> SUFFICES ASSUME IInv, [Next]_vars PROVE IInv'
  OBVIOUS
<1>1. ASSUME NEW kind \in Kinds, Login(kind) PROVE IInv'
  BY <1>1, OthersIInv DEF Login
<1>2. CASE Renew
  BY <1>2, OthersIInv DEF Renew
<1>3. ASSUME NEW c \in Clients,
             \/ Begin(c) \/ Create(c) \/ Get(c) \/ Select(c)
             \/ ReadBefore(c) \/ Check(c) \/ Update(c) \/ Delete(c)
      PROVE  IInv'
  BY <1>3, BeginIInv, CreateIInv, AnswerIInv, ReadBeforeIInv, CheckIInv, UpdateIInv, DeleteIInv
<1>4. CASE Tick
  BY <1>4, OthersIInv DEF Tick
<1>5. CASE UNCHANGED vars
  BY <1>5, OthersIInv DEF vars
<1> QED
  BY <1>1, <1>2, <1>3, <1>4, <1>5 DEF Next

(* Nobody but an owner makes a user or changes a user's role, although the  *)
(* zettel may change between the check and the update.                      *)
THEOREM RolesStayGranted == Spec => []RolesAreGranted
<1>1. IInv => RolesAreGranted
  BY DEF IInv
<1> QED
  BY <1>1, InitIInv, NextIInv, PTL DEF Spec

(* GetZettel and SelectMeta show nobody what he may not see.                *)
THEOREM AnswersStayPermitted == Spec => []AnswersArePermitted
<1>1. IInv => AnswersArePermitted
  BY DEF IInv
<1> QED
  BY <1>1, InitIInv, NextIInv, PTL DEF Spec

(* Deleting implies writing, writing implies reading, and a higher role may *)
(* read and write what a lower one may, and create what it may unless it is *)
(* that of a reader, for every user and zettel ever stored.                 *)
THEOREM RightsStayOrdered == Spec => []RightsAreOrdered
<1>1. IInv => WriteImpliesRead
  BY WriteNeedsRead DEF WriteImpliesRead
<1>2. IInv => DeleteImpliesWrite
  BY DeleteNeedsWrite DEF DeleteImpliesWrite
<1>3. IInv => HigherRoleKeepsRights
  <2>1. IInv => KnownUsers \subseteq Meta
    BY DEF IInv, StoreInv, KnownUsers
  <2> QED
    BY <2>1, HigherReads, HigherWrites, HigherCreates DEF HigherRoleKeepsRights
<1>4. IInv => RightsAreOrdered
  BY <1>1, <1>2, <1>3 DEF RightsAreOrdered
<1> QED
  BY <1>4, InitIInv, NextIInv, PTL DEF Spec

-----------------------------------------------------------------------------
(* Tokens: their lifetime is what it was when they were issued.             *)

TokenInv ==
    \A t \in tokens : t.issued \in Nat /\ t.expires = t.issued + Lifetime[t.kind]

Told(t) ==
    /\ t.at + t.lifetime <= t.token.expires
    /\ 4 * t.lifetime > 3 * Lifetime[t.token.kind]
    /\ t.sent.kind = "api" => t.token.kind = "api"

RenewalInv == IInv /\ TypeOK /\ TokenInv /\ \A t \in told : Told(t)

LEMMA InitRenewalInv == Init => RenewalInv
<1> SUFFICES ASSUME Init PROVE RenewalInv
  OBVIOUS
<1>1. TypeOK
  BY StoresAssumption, BudgetsAssumption DEF Init, TypeOK, Idle
<1>2. TokenInv /\ \A t \in told : Told(t)
  BY DEF Init, TokenInv
<1> QED
  BY <1>1, <1>2, InitIInv DEF RenewalInv

LEMMA SpendBudget ==
  ASSUME NEW what, Spend(what), \A w \in DOMAIN budget : budget[w] \in Nat
  PROVE  \A w \in DOMAIN budget' : budget'[w] \in Nat
  BY DEF Spend

(* A token that is issued now.                                              *)
LEMMA TokenIsWellFormed ==
  ASSUME NEW kind \in Kinds, NEW zid, now \in Nat
  PROVE  /\ Token(kind, zid).kind = kind /\ Token(kind, zid).ident = store[zid].userid
         /\ Token(kind, zid).issued = now
         /\ Token(kind, zid).expires = now + Lifetime[kind]
  BY DEF Token

LEMMA LoginRenewalInv ==
  ASSUME RenewalInv, NEW kind \in Kinds, Login(kind)
  PROVE  TypeOK' /\ TokenInv' /\ \A t \in told' : Told(t)
<1>0. PICK ident \in Idents : \E zid \in GetUser(ident) : tokens' = tokens \union {Token(kind, zid)}
  BY DEF Login
<1>1. PICK zid \in GetUser(ident) : tokens' = tokens \union {Token(kind, zid)}
  BY <1>0
<1>2. store[zid].userid = ident
  BY DEF GetUser, UsersWith
<1>3. now \in Nat
  BY DEF RenewalInv, TypeOK
<1>4. TokenInv'
  BY <1>1, <1>3, TokenIsWellFormed DEF Login, RenewalInv, TokenInv
<1>5. \A t \in tokens' : t.kind \in Kinds /\ t.ident \in Idents /\ t.issued <= now
  BY <1>1, <1>2, <1>3, TokenIsWellFormed DEF RenewalInv, TypeOK
<1>6. \A w \in DOMAIN budget' : budget'[w] \in Nat
  BY SpendBudget DEF Login, RenewalInv, TypeOK
<1>7. TypeOK'
  BY <1>5, <1>6 DEF Login, RenewalInv, TypeOK
<1> QED
  BY <1>4, <1>7 DEF Login, RenewalInv, Told

(* Whether the old token is given again or a new one, it is valid as long   *)
(* as is told.                                                              *)
LEMMA RenewRenewalInv ==
  ASSUME RenewalInv, Renew
  PROVE  TypeOK' /\ TokenInv' /\ \A t \in told' : Told(t)
<1> DEFINE new(t) == Token("api", t.zid)
           total(t) == t.expires - t.issued
           current(t) == now - t.issued
<1>1. PICK t \in tokens :
        /\ UserOf(t, t.kind) # NoUser
        /\ \/ /\ current(t) * 4 < total(t)
              /\ told' = {[sent |-> t, token |-> t, at |-> now, lifetime |-> total(t) - current(t)]}
              /\ tokens' = tokens
           \/ /\ told' = {[sent |-> t, token |-> new(t), at |-> now, lifetime |-> Lifetime["api"]]}
              /\ tokens' = tokens \union {new(t)}
  BY DEF Renew
<1>2. "api" \in Kinds /\ Lifetime["api"] \in Nat /\ Lifetime["api"] > 0
  BY LifetimeAssumption DEF Kinds
<1>3. /\ now \in Nat /\ t.issued \in Nat /\ t.issued <= now
      /\ t.kind \in Kinds /\ Lifetime[t.kind] \in Nat /\ t.expires = t.issued + Lifetime[t.kind]
  BY <1>1, LifetimeAssumption DEF RenewalInv, TypeOK, TokenInv
<1>4. /\ new(t).kind = "api" /\ new(t).ident = t.ident
      /\ new(t).issued = now /\ new(t).expires = now + Lifetime["api"]
  <2>1. store[t.zid].userid = t.ident
    BY <1>1 DEF UserOf, GetUserByZid
  <2> QED
    BY <1>2, <1>3, <2>1, TokenIsWellFormed
<1>5. \A w \in DOMAIN budget' : budget'[w] \in Nat
  BY SpendBudget DEF Renew, RenewalInv, TypeOK
<1>6. CASE /\ current(t) * 4 < total(t)
           /\ told' = {[sent |-> t, token |-> t, at |-> now, lifetime |-> total(t) - current(t)]}
           /\ tokens' = tokens
  <2>1. \A x \in told' : Told(x)
    BY <1>2, <1>3, <1>6 DEF Told
  <2>2. TypeOK' /\ TokenInv'
    BY <1>5, <1>6 DEF Renew, RenewalInv, TypeOK, TokenInv
  <2> QED
    BY <2>1, <2>2
<1>7. CASE /\ told' = {[sent |-> t, token |-> new(t), at |-> now, lifetime |-> Lifetime["api"]]}
           /\ tokens' = tokens \union {new(t)}
  <2> HIDE DEF new
  <2>1. \A x \in told' : Told(x)
    <3>1. now + Lifetime["api"] <= new(t).expires
      BY <1>2, <1>3, <1>4
    <3>2. 4 * Lifetime["api"] > 3 * Lifetime["api"]
      BY <1>2
    <3> QED
      BY <1>4, <1>7, <3>1, <3>2 DEF Told
  <2>2. TokenInv'
    BY <1>3, <1>4, <1>7 DEF RenewalInv, TokenInv
  <2>3. \A x \in tokens' : x.kind \in Kinds /\ x.ident \in Idents /\ x.issued <= now
    BY <1>1, <1>2, <1>3, <1>4, <1>7 DEF RenewalInv, TypeOK
  <2>4. TypeOK'
    BY <1>5, <2>3 DEF Renew, RenewalInv, TypeOK
  <2> QED
    BY <2>1, <2>2, <2>4
<1> QED
  BY <1>1, <1>6, <1>7

LEMMA RequestRenewalInv ==
  ASSUME RenewalInv, NEW c \in Clients, RequestInv', StoreInv',
         \/ Begin(c) \/ Create(c) \/ Get(c) \/ Select(c)
         \/ ReadBefore(c) \/ Check(c) \/ Update(c) \/ Delete(c)
  PROVE  TypeOK' /\ TokenInv' /\ \A t \in told' : Told(t)
<1>1. UNCHANGED <<config, tokens, told, now>>
  BY DEF Begin, Create, Get, Select, ReadBefore, Check, Update, Delete
<1>2. \A w \in DOMAIN budget' : budget'[w] \in Nat
  <2>1. budget' = budget \/ Spend("requests")
    BY DEF Begin, Create, Get, Select, ReadBefore, Check, Update, Delete
  <2> QED
    BY <2>1, SpendBudget DEF RenewalInv, TypeOK
<1>3. \A d \in Clients : request'[d].step \in {"idle", "read", "check", "do"}
  BY DEF RequestInv, Request, Idle, CreateRequest, UpdateRequest, OtherRequest, SelectRequest
<1>4. \A zid \in DOMAIN store' : zid \in Zids /\ store'[zid].zid = zid
  BY DEF StoreInv
<1>5. TypeOK'
  BY <1>1, <1>2, <1>3, <1>4 DEF RenewalInv, TypeOK
<1> QED
  BY <1>1, <1>5 DEF RenewalInv, TokenInv, Told

LEMMA NextRenewalInv == RenewalInv /\ [Next]_vars => RenewalInv'
<1> SUFFICES ASSUME RenewalInv, [Next]_vars PROVE RenewalInv'
  OBVIOUS
<1>1. IInv'
  BY NextIInv DEF RenewalInv
<1>2. ASSUME NEW kind \in Kinds, Login(kind)
      PROVE  TypeOK' /\ TokenInv' /\ \A t \in told' : Told(t)
  BY <1>2, LoginRenewalInv
<1>3. ASSUME NEW c \in Clients,
             \/ Begin(c) \/ Create(c) \/ Get(c) \/ Select(c)
             \/ ReadBefore(c) \/ Check(c) \/ Update(c) \/ Delete(c)
      PROVE  TypeOK' /\ TokenInv' /\ \A t \in told' : Told(t)
  BY <1>1, <1>3, RequestRenewalInv DEF IInv
<1>4. CASE Tick
  <2>1. now \in Nat /\ now' = now + 1
    BY <1>4 DEF Tick, RenewalInv, TypeOK
  <2>2. \A w \in DOMAIN budget' : budget'[w] \in Nat
    BY <1>4, SpendBudget DEF Tick, RenewalInv, TypeOK
  <2>3. \A t \in tokens : t.issued <= now'
    BY <2>1 DEF RenewalInv, TypeOK, TokenInv
  <2>4. TypeOK'
    BY <1>4, <2>1, <2>2, <2>3 DEF Tick, RenewalInv, TypeOK
  <2> QED
    BY <1>1, <1>4, <2>4 DEF Tick, RenewalInv, TokenInv, Told
<1>5. CASE UNCHANGED vars
  BY <1>1, <1>5 DEF vars, RenewalInv, TypeOK, TokenInv, Told
<1> QED
  BY <1>1, <1>2, <1>3, <1>4, <1>5, RenewRenewalInv DEF Next, RenewalInv

(* What the client is told of a token that is given again holds, for every  *)
(* lifetime and however much time passes between two renewals.              *)
THEOREM RenewalsStayTrue == Spec => []RenewalHolds
<1>1. RenewalInv => RenewalHolds
  BY DEF RenewalInv, RenewalHolds, Told
<1> QED
  BY <1>1, InitRenewalInv, NextRenewalInv, PTL DEF Spec
=============================================================================
