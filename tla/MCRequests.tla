----------------------------- MODULE MCRequests -----------------------------
(* Instance of Requests: an owner, a user and a zettel, or an empty place.  *)
EXTENDS Requests, TLC

CONSTANTS nobody, none, c1, c2

User(role, ro) == [userid |-> "u", userrole |-> role, readonly |-> ro, visibility |-> Absent]
Note(ro, vis) == [userid |-> Absent, userrole |-> Absent, readonly |-> ro, visibility |-> vis]
Owner == [userid |-> "o", userrole |-> Absent, readonly |-> Absent, visibility |-> "owner"]

MCMetas == {User("writer", Absent), User("owner", Absent), Note(Absent, "public")}
MCConfigs ==
    {[owner |-> o, readonly |-> FALSE, expert |-> e, simple |-> FALSE, visibility |-> "login"] :
        o \in {1, none}, e \in BOOLEAN}
    \union {[owner |-> 1, readonly |-> TRUE, expert |-> FALSE, simple |-> TRUE, visibility |-> "public"]}
MCStores ==
    {(1 :> MetaOf(1, Owner)) @@ (2 :> MetaOf(2, User(role, ro))) @@ (3 :> MetaOf(3, note)) :
        role \in {"creator", "writer"}, ro \in {Absent, "reader"},
        note \in {Note(Absent, "expert")}}
    \union {(1 :> MetaOf(1, Owner)) @@ (2 :> MetaOf(2, User("writer", Absent)))}
MCBudgets == {[logins |-> 1, renewals |-> 2, requests |-> 1, time |-> 3],
              [logins |-> 2, renewals |-> 0, requests |-> 2, time |-> 0]}
Symmetry == Permutations(Clients)
MCLifetime == [api |-> 5, web |-> 2]
=============================================================================
