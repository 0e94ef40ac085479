------------------------------- MODULE Policy -------------------------------
(***************************************************************************)
(* The access policy of auth/policy: who may read, create, write and delete *)
(* which zettel, and who may refresh.                                       *)
(*                                                                          *)
(* Of the metadata of a zettel only the keys the policy looks at are kept.  *)
(* A user is the metadata of his zettel; c is the configuration.            *)
(***************************************************************************)
EXTENDS Naturals

CONSTANTS
    NoUser,         \* nobody is logged in: user == nil
    NoOwner         \* id.Invalid: authentication is disabled

Absent == "absent"  \* the metadata have no such key

Roles == {"creator", "reader", "writer", "owner"}
Rank(role) ==
    CASE role = "unknown" -> 1
      [] role = "creator" -> 2
      [] role = "reader" -> 3
      [] role = "writer" -> 4
      [] role = "owner" -> 5

Visibilities == {"public", "creator", "login", "owner", "expert"}

BoolValue(value) == value # "false"

-----------------------------------------------------------------------------
(* auth/impl: what the configuration says of a user *)

WithAuth(c) == c.owner # NoOwner
IsOwner(c, zid) == WithAuth(c) /\ zid = c.owner

GetUserRole(c, user) ==
    IF user = NoUser THEN IF WithAuth(c) THEN "unknown" ELSE "owner"
    ELSE IF IsOwner(c, user.zid) THEN "owner"
    ELSE IF user.userrole \in Roles THEN user.userrole ELSE "reader"

GetVisibility(c, m) == IF m.visibility \in Visibilities THEN m.visibility ELSE c.visibility

-----------------------------------------------------------------------------
(* Read-only and default policy *)

(* Mutant: the role that is named may not change the zettel, others may. *)
canChangeOther(c, user, m) ==
    \/ m.readonly = Absent
    \/ m.readonly # Absent /\ ~BoolValue(m.readonly)
    \/ /\ user # NoUser
       /\ m.readonly \in {"reader", "writer", "owner"}
       /\ GetUserRole(c, user) # m.readonly

canChange(c, user, m) ==
    \/ m.readonly = Absent
    \/ m.readonly # Absent /\ ~BoolValue(m.readonly)
    \/ /\ user # NoUser
       /\ m.readonly \in {"reader", "writer", "owner"}
       /\ Rank(GetUserRole(c, user)) > Rank(m.readonly)

PreCanCreate(c) == ~c.readonly
PreCanChange(c, user, m) == ~c.readonly /\ canChange(c, user, m)
PreCanRefresh(user) == user # NoUser

-----------------------------------------------------------------------------
(* Without authentication *)

AnonVisible(c, m) == GetVisibility(c, m) = "expert" => c.expert

-----------------------------------------------------------------------------
(* With authentication *)

userIsOwner(c, user) == user # NoUser /\ (IsOwner(c, user.zid) \/ user.userrole = "owner")

userCanCreate(c, user, new) == GetUserRole(c, user) # "reader" /\ new.userid = Absent

userCanRead(c, user, m) ==
    LET vis == GetVisibility(c, m) IN
    \/ vis = "public"
    \/ /\ vis \notin {"owner", "expert", "public"}
       /\ user # NoUser
       /\ IF m.userid # Absent THEN user.zid = m.zid
          ELSE GetUserRole(c, user) = "creator" => vis = "creator"

(* Zettel for experts are for the owner in expert mode only. *)
ExpertCan(c, user) == userIsOwner(c, user) /\ c.expert
IsExpert(c, m) == GetVisibility(c, m) = "expert"

OwnerCanRead(c, user, m) ==
    IF IsExpert(c, m) THEN ExpertCan(c, user)
    ELSE userIsOwner(c, user) \/ userCanRead(c, user, m)

(* Mutant: a user may change his role. *)
SameIdent(old, new) == old.userid = new.userid

(* noChangeUser: what a user may not change of himself. *)
SameUser(old, new) == old.userid = new.userid /\ old.userrole = new.userrole

OwnerCanWrite(c, user, old, new) ==
    /\ user # NoUser /\ PreCanChange(c, user, old)
    /\ IF IsExpert(c, old) THEN ExpertCan(c, user)
       ELSE \/ userIsOwner(c, user)
            \/ /\ userCanRead(c, user, old)
               /\ IF old.userid # Absent THEN SameUser(old, new)
                  ELSE /\ GetUserRole(c, user) \notin {"reader", "creator"}
                       /\ userCanCreate(c, user, new)

OwnerCanDelete(c, user, m) ==
    /\ user # NoUser /\ PreCanChange(c, user, m)
    /\ IF IsExpert(c, m) THEN ExpertCan(c, user) ELSE userIsOwner(c, user)

-----------------------------------------------------------------------------
(* newPolicy: prePolicy checks that there are metadata, of the same zettel *)

CanCreate(c, user, new) ==
    IF WithAuth(c)
    THEN user # NoUser /\ PreCanCreate(c) /\ (userIsOwner(c, user) \/ userCanCreate(c, user, new))
    ELSE PreCanCreate(c)

CanRead(c, user, m) == IF WithAuth(c) THEN OwnerCanRead(c, user, m) ELSE AnonVisible(c, m)

CanWrite(c, user, old, new) ==
    /\ old.zid = new.zid
    /\ IF WithAuth(c) THEN OwnerCanWrite(c, user, old, new)
       ELSE PreCanChange(c, user, old) /\ AnonVisible(c, old)

CanDelete(c, user, m) ==
    IF WithAuth(c) THEN OwnerCanDelete(c, user, m)
    ELSE PreCanChange(c, user, m) /\ AnonVisible(c, m)

CanRefresh(c, user) ==
    IF WithAuth(c)
    THEN CASE GetUserRole(c, user) = "unknown" -> c.simple
           [] GetUserRole(c, user) = "creator" -> c.expert \/ c.simple
           [] OTHER -> TRUE
    ELSE c.expert \/ c.simple \/ PreCanRefresh(user)
=============================================================================
