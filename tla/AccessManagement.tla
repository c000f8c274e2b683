--------------------------- MODULE AccessManagement ---------------------------
(***************************************************************************)
(* Roles, their permissions and the roles of users                         *)
(* (accounts/services/access_management.py).                               *)
(*                                                                         *)
(* Superusers decide who manages access; such a delegate hands on what she *)
(* holds herself to users who hold no more.  What is checked is spread     *)
(* over rows of several roles and users, of which a call locks some: a     *)
(* call is its authorization, which locks nothing, the locks with the      *)
(* checks behind them, and the commit.                                     *)
(***************************************************************************)
EXTENDS Naturals, FiniteSets

CONSTANTS
  User,
  Superuser, Staff,    \* flags of users, which these services do not change
  Direct,              \* [User -> SUBSET Permission], not changed here either
  Role,                \* roles that there may be
  Safe,                \* SAFE_CATALOG_PERMISSION_SET
  Manage,              \* MANAGE_ACCESS_PERMISSION
  Unsupported,         \* permissions that these services do not handle
  WriteView,           \* WRITE_VIEW_DEPENDENCIES
  Reserved,            \* the roles of setup_roles, which keep their names
  Template,            \* [Reserved -> SUBSET Permission], as they are at first
  Joined,              \* [User -> SUBSET Reserved], the first roles of the users
  Selection,           \* what may be selected as the permissions of a role
  MaxCalls,            \* bound of the calls served at once
  Nobody

Supported == Safe \union {Manage}
Permission == Supported \union Unsupported

ASSUME AccessConstants ==
  /\ Superuser \subseteq User /\ Staff \subseteq User
  /\ Direct \in [User -> SUBSET Permission]
  /\ Manage \notin Safe
  /\ Supported \intersect Unsupported = {}
  /\ WriteView \subseteq Safe \X Safe
  /\ Reserved \subseteq Role
  /\ Template \in [Reserved -> SUBSET Permission]
  /\ Joined \in [User -> SUBSET Reserved]
  /\ Selection \subseteq SUBSET Supported
  /\ MaxCalls \in Nat
  /\ Nobody \notin User \union Role

VARIABLES
  exists,    \* roles that there are
  grants,    \* [Role -> SUBSET Permission]
  groups,    \* [User -> SUBSET Role]
  call       \* [User -> what the user has called, or NoCall]

accessVars == <<exists, grants, groups, call>>

\* `safe' is what the caller holds herself when everything is checked.
NoCall == [kind |-> "none", phase |-> "none", of |-> Nobody]
RoleCall(kind, r, labels) ==
  [kind |-> kind, phase |-> "authorized", of |-> r, labels |-> labels, safe |-> {}]
UserCall(u, roles) ==
  [kind |-> "user", phase |-> "authorized", of |-> u, roles |-> roles, safe |-> {}]

Phase == {"authorized", "row locked", "checked"}

AccessTypeOK ==
  /\ exists \subseteq Role
  /\ grants \in [Role -> SUBSET Permission]
  /\ groups \in [User -> SUBSET exists]
  /\ call \in [User ->
       {NoCall}
         \union [kind : {"create", "rename", "permissions"}, phase : Phase,
                 of : Role, labels : SUBSET Supported, safe : SUBSET Safe]
         \union [kind : {"user"}, phase : Phase, of : User, roles : SUBSET Role,
                 safe : SUBSET Safe]]

\* setup_roles creates the reserved roles from their templates; a superuser has
\* then given them to the first users, and added what the templates leave out
\* (the permission to manage access).
AccessInit ==
  /\ exists = Reserved
  /\ grants = [r \in Role |-> IF r \in Reserved THEN Template[r] ELSE {}]
  /\ groups = Joined
  /\ call = [a \in User |-> NoCall]

-----------------------------------------------------------------------------
(***************************************************************************)
(* Who may do what                                                         *)
(***************************************************************************)
Assigned(u) == Direct[u] \union UNION {grants[r] : r \in groups[u]}

\* Everybody is active.
Effective(u) == IF u \in Superuser THEN Permission ELSE Assigned(u)

Within(labels, a) == labels \intersect Safe \subseteq Effective(a)

\* A user whose permissions a delegate may change.
Touchable(a, u) ==
  /\ u \notin Superuser \union Staff \union {a}
  /\ Direct[u] = {}
  /\ Manage \notin Assigned(u)
  /\ Within(Assigned(u), a)

Members(r) == {u \in User : r \in groups[u]}

RoleMutationAllowed(a, r) ==
  \/ a \in Superuser
  \/ /\ a \notin Members(r)
     /\ Manage \notin grants[r]
     /\ Within(grants[r], a)
     /\ \A u \in Members(r) : Touchable(a, u)

MayGrantSafe(a, labels) ==   \* mutant: a delegate grants what is safe
  a \in Superuser \/ labels \subseteq Safe

MayGrant(a, labels) == a \in Superuser \/ labels \subseteq Safe \intersect Effective(a)

Changed(u, roles) == (groups[u] \ roles) \union (roles \ groups[u])

UserMutationAllowed(a, u, roles) ==
  /\ u \notin Superuser
  /\ \/ a \in Superuser
     \/ /\ Touchable(a, u)
        /\ \A r \in Changed(u, roles) : Manage \notin grants[r]
        /\ \A r \in roles : Within(grants[r], a)

SupportedRole(r) == grants[r] \subseteq Supported

Passes(a, c) ==
  CASE c.kind = "create" -> c.of \notin exists
    [] c.kind = "rename" ->
         c.of \notin Reserved /\ SupportedRole(c.of) /\ RoleMutationAllowed(a, c.of)
    [] c.kind = "permissions" ->
         /\ SupportedRole(c.of)
         /\ RoleMutationAllowed(a, c.of)
         /\ MayGrant(a, c.labels)
    [] c.kind = "user" ->
         /\ \A r \in groups[c.of] \union c.roles : SupportedRole(r)
         /\ UserMutationAllowed(a, c.of, c.roles)

-----------------------------------------------------------------------------
(***************************************************************************)
(* Rows locked FOR UPDATE, and who waits for whom                          *)
(***************************************************************************)
LockedByRoleCalls(a) ==   \* mutant: a call for a user locks no roles
  IF call[a].phase = "checked" /\ call[a].kind \in {"rename", "permissions"}
  THEN {call[a].of} ELSE {}

LockedRoles(a) ==
  IF call[a].phase # "checked" \/ call[a].kind = "create" THEN {}
  ELSE IF call[a].kind = "user" THEN groups[call[a].of] \union call[a].roles
  ELSE {call[a].of}

LockedUser(a, u) ==
  call[a].kind = "user" /\ call[a].phase # "authorized" /\ call[a].of = u

\* The rows that the next step of a call locks.  The event that the commit
\* writes has a foreign key to its actor.
NeedsRole(a, r) ==
  \/ /\ call[a].kind \in {"rename", "permissions"}
     /\ call[a].phase = "authorized"
     /\ call[a].of = r
  \/ /\ call[a].phase = "row locked"
     /\ r \in groups[call[a].of] \union call[a].roles

NeedsUser(a, u) ==
  \/ call[a].kind = "user" /\ call[a].phase = "authorized" /\ call[a].of = u
  \/ call[a].phase = "checked" /\ a = u

CallWaitsFor(a, b) ==
  /\ a # b
  /\ \/ \E r \in LockedRoles(b) : NeedsRole(a, r)
     \/ \E u \in User : LockedUser(b, u) /\ NeedsUser(a, u)

MayGoOn(a) == \A b \in User : ~CallWaitsFor(a, b)

-----------------------------------------------------------------------------
(***************************************************************************)
(* Actions                                                                 *)
(***************************************************************************)
ViewsComeAlong(labels) ==
  \A p \in WriteView : p[1] \in labels => p[2] \in labels

\* The page of a superuser's roles is refused.
CallRequest ==
  {RoleCall("create", r, {}) : r \in Role \ exists}
    \union {RoleCall("rename", r, {}) : r \in exists}
    \union {RoleCall("permissions", r, labels) :
              r \in exists, labels \in {l \in Selection : ViewsComeAlong(l)}}
    \union {UserCall(u, roles) : u \in User \ Superuser, roles \in SUBSET exists}

Authorize(a) ==
  /\ call[a] = NoCall
  /\ Cardinality({b \in User : call[b] # NoCall}) < MaxCalls
  /\ Manage \in Effective(a)
  /\ \E c \in CallRequest : call' = [call EXCEPT ![a] = c]
  /\ UNCHANGED <<exists, grants, groups>>

LockUserRow(a) ==
  /\ call[a].kind = "user"
  /\ call[a].phase = "authorized"
  /\ MayGoOn(a)
  /\ call' = [call EXCEPT ![a].phase = "row locked"]
  /\ UNCHANGED <<exists, grants, groups>>

Leaves(c) ==   \* the call has nothing to change
  CASE c.kind \in {"create", "rename"} -> FALSE
    [] c.kind = "permissions" -> grants[c.of] = c.labels
    [] c.kind = "user" -> groups[c.of] = c.roles

\* The roles are locked and everything is checked; a call that is refused or
\* has nothing to change ends.
LockAndCheck(a) ==
  LET c == call[a]
  IN  /\ c.phase = IF c.kind = "user" THEN "row locked" ELSE "authorized"
      /\ MayGoOn(a)
      /\ call' = [call EXCEPT ![a] = IF Passes(a, c) /\ ~Leaves(c)
                THEN [c EXCEPT !.phase = "checked", !.safe = Safe \intersect Effective(a)]
                ELSE NoCall]
      /\ UNCHANGED <<exists, grants, groups>>

\* The name of a role is left out, and so is what renaming changes.
CommitCall(a) ==
  LET c == call[a]
  IN  /\ c.phase = "checked"
      /\ MayGoOn(a)
      /\ exists' = IF c.kind = "create" THEN exists \union {c.of} ELSE exists
      /\ grants' = IF c.kind = "permissions" THEN [grants EXCEPT ![c.of] = c.labels]
                                             ELSE grants
      /\ groups' = IF c.kind = "user" THEN [groups EXCEPT ![c.of] = c.roles]
                                      ELSE groups
      /\ call' = [call EXCEPT ![a] = NoCall]

\* Calls that wait for each other in a circle: PostgreSQL ends one of them.
EndWait(a) ==
  /\ \E circle \in SUBSET User :
       /\ a \in circle
       /\ \A b \in circle :
            /\ \E d \in circle : CallWaitsFor(b, d)
            /\ \E d \in circle : CallWaitsFor(d, b)
  /\ call' = [call EXCEPT ![a] = NoCall]
  /\ UNCHANGED <<exists, grants, groups>>

AccessNext ==
  \E a \in User :
    \/ Authorize(a)
    \/ LockUserRow(a)
    \/ LockAndCheck(a)
    \/ CommitCall(a)
    \/ EndWait(a)

AccessSpec == AccessInit /\ [][AccessNext]_accessVars

-----------------------------------------------------------------------------
(***************************************************************************)
(* Properties (docs/06-DECISION-REGISTER.md, DEC-022 item 7)               *)
(***************************************************************************)
\* Only superusers make managers: whoever comes to manage access does so in a
\* call of a superuser, though a role may come to manage access while a delegate
\* assigns it (set_user_roles locks the roles it reads).
SuperusersMakeManagers ==
  [][\A u \in User :
       Manage \in Assigned(u)' \ Assigned(u) =>
         \E a \in Superuser : call[a].phase = "checked" /\ call'[a] = NoCall]_accessVars

\* A delegate hands on only what she held herself when her call was checked,
\* though the roles she assigns may be changed meanwhile by others who hold more
\* (set_role_permissions, set_user_roles).
DelegatesGiveWhatTheyHold ==
  [][\A a \in User \ Superuser :
       call[a].phase = "checked" /\ call'[a] = NoCall =>
         \A u \in User : Assigned(u)' \ Assigned(u) \subseteq call[a].safe]_accessVars
=============================================================================
