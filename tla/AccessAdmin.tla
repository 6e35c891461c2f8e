------------------------------ MODULE AccessAdmin ------------------------------
(***************************************************************************)
(* Access administration of one project: user status, role assignments,    *)
(* role definitions and project memberships, with the sign-in sessions     *)
(* that every change must cut off.                                         *)
(*                                                                         *)
(* A request is a process with three phases:                               *)
(*   begun    its caller was authorised, and what the function reads before*)
(*            its transaction has been read (revokeAssignment's candidate);*)
(*   guarded  the guards passed: inside the transaction, under row locks,  *)
(*            except for assignRole, which reads them before it;           *)
(*   and then it commits, all its writes at once, and is idle again.       *)
(* A sign-in has the same phases: it reads the user, then the roles, then  *)
(* inserts its session.                                                    *)
(*                                                                         *)
(* Statements run under READ COMMITTED: a guard sees what was committed    *)
(* before it, and only a row lock keeps others from committing until the   *)
(* transaction ends.  A transaction that rolls back leaves no trace, so it *)
(* is a request that never passed its guards.                              *)
(***************************************************************************)
EXTENDS Integers, FiniteSets

CONSTANTS
  Procs,               \* requests that may be in flight at once
  Users,               \* human accounts
  InitialAssignments,  \* seeded role assignments
  InitialMembers,      \* seeded active memberships of the project
  Kinds,               \* kinds of requests that arrive
  Assignable,          \* roles that requests are about
  MaxRequests          \* bound: requests that ever arrive

GlobalRoles == {"SYSTEM_ADMIN", "AUDITOR"}
ProjectRoles == {"PROJECT_VIEWER", "MTR_ANALYST", "MTR_EXPERT", "PROJECT_MANAGER"}
Roles == GlobalRoles \cup ProjectRoles

AllKinds == {"block", "unblock", "assign", "revoke", "change", "deactivate",
             "activate", "suspend", "reinstate", "login"}

\* since: the user's authorization_version that the assignment brought about
\* (1 for a seeded one), which identifies it; temporary: it has a valid_until.
Assignment == [user : Users, role : Roles, since : Nat, temporary : BOOLEAN]

ASSUME SeedAssumption ==
  /\ IsFiniteSet(Users)
  /\ InitialAssignments \subseteq Assignment
  /\ \A a \in InitialAssignments : a.since = 1
  /\ \E a \in InitialAssignments : a.role = "SYSTEM_ADMIN"
  /\ InitialMembers \subseteq Users
  /\ \E a \in InitialAssignments : a.role = "PROJECT_MANAGER" /\ a.user \in InitialMembers

ASSUME RequestAssumption ==
  /\ Kinds \subseteq AllKinds
  /\ Assignable \subseteq Roles
  /\ MaxRequests \in Nat

VARIABLES
  blocked,     \* users whose status is BLOCKED
  version,     \* authorization_version of every user
  assigned,    \* role_assignments with status ACTIVE
  lapsed,      \* those whose valid_until has passed
  inactive,    \* roles with active = false
  members,     \* users with an ACTIVE membership of the project
  sessions,    \* auth_sessions that were not revoked
  proc,        \* local state of every request
  requests     \* requests that arrived so far

accessVars == <<blocked, version, assigned, lapsed, inactive, members>>
vars == <<blocked, version, assigned, lapsed, inactive, members, sessions, proc, requests>>

-----------------------------------------------------------------------------
(* Requests *)

NoAssignment == [user |-> "nobody", role |-> "PROJECT_VIEWER", since |-> 1, temporary |-> FALSE]

\* target: the assignment a revoke or a change is about; temporary: an assign
\* sets valid_until; seen, remembered: what a sign-in has read so far.
Idle == [pc |-> "idle", kind |-> "login", actor |-> "nobody", user |-> "nobody",
         role |-> "PROJECT_VIEWER", temporary |-> FALSE, target |-> NoAssignment,
         seen |-> 0, remembered |-> {}]

Set(p, l) == proc' = [proc EXCEPT ![p] = l]
Return(p) == Set(p, Idle)

RolesOf(u) == {a.role : a \in {b \in assigned : b.user = u}}

InForce(a) == a.role \notin inactive /\ a \notin lapsed

\* resolveAuthorizationContext: the roles a request of the user is granted.
GrantedAssignments(u) ==
  {a \in assigned : /\ a.user = u
                    /\ InForce(a)
                    /\ a.role \in ProjectRoles => u \in members}

Granted(u) ==
  IF u \in blocked THEN {} ELSE {a.role : a \in GrantedAssignments(u)}

\* expandRolePermissions, for the permissions access administration asks for.
MayChat(u) == Granted(u) \cap ProjectRoles # {}
MayManageUsers(u) == "SYSTEM_ADMIN" \in Granted(u)
MayManageMembers(u) == "PROJECT_MANAGER" \in Granted(u)

\* The permission of the route or of the agent action that leads here.
Authorised(kind, actor, role) ==
  CASE kind \in {"block", "unblock"} -> MayManageUsers(actor)
    [] kind = "assign" -> MayManageUsers(actor) \/ (role \in ProjectRoles /\ MayManageMembers(actor))
    [] kind = "revoke" -> MayManageUsers(actor) \/ MayManageMembers(actor)
    [] kind = "change" -> MayManageMembers(actor)
    [] kind \in {"deactivate", "activate"} -> MayManageUsers(actor) /\ MayChat(actor)
    [] kind \in {"suspend", "reinstate"} -> MayManageMembers(actor)

\* Self-administration that is refused outright.
OwnAccount(kind, actor, user, role) ==
  /\ actor = user
  /\ kind = "block" \/ (kind \in {"assign", "revoke"} /\ role \in GlobalRoles)

Arrive(p, l) ==
  /\ proc[p].pc = "idle"
  /\ l.kind \in Kinds
  /\ requests < MaxRequests
  /\ requests' = requests + 1
  /\ Set(p, [l EXCEPT !.pc = "begun"])
  /\ UNCHANGED <<accessVars, sessions>>

BeginUserRequest(p) ==
  \E kind \in {"block", "unblock", "suspend", "reinstate"}, actor, u \in Users :
    /\ Arrive(p, [Idle EXCEPT !.kind = kind, !.actor = actor, !.user = u])
    /\ Authorised(kind, actor, "SYSTEM_ADMIN")
    /\ ~OwnAccount(kind, actor, u, "SYSTEM_ADMIN")

BeginAssign(p) ==
  \E actor, u \in Users, r \in Assignable, temporary \in BOOLEAN :
    /\ Arrive(p, [Idle EXCEPT !.kind = "assign", !.actor = actor, !.user = u,
                              !.role = r, !.temporary = temporary])
    /\ Authorised("assign", actor, r)
    /\ ~OwnAccount("assign", actor, u, r)

\* The assignment named by the request is the candidate read before the
\* transaction; a change that names a role which is not its role is refused.
BeginReassign(p) ==
  \E kind \in {"revoke", "change"}, actor \in Users, a \in assigned, r \in Assignable \cap ProjectRoles :
    /\ Arrive(p, [Idle EXCEPT !.kind = kind, !.actor = actor, !.user = a.user,
                              !.role = IF kind = "change" THEN r ELSE a.role, !.target = a])
    /\ kind = "change" => a.role \in ProjectRoles /\ r # a.role /\ actor # a.user
    /\ Authorised(kind, actor, a.role)

BeginRoleStatus(p) ==
  \E kind \in {"deactivate", "activate"}, actor \in Users, r \in Assignable \cap ProjectRoles :
    /\ Arrive(p, [Idle EXCEPT !.kind = kind, !.actor = actor, !.role = r])
    /\ Authorised(kind, actor, r)

-----------------------------------------------------------------------------
(* Row locks *)

RoleRow(r) == <<"role", r>>
ProjectRow == <<"project">>
AssignmentRow(a) == <<"assignment", a>>

\* Faulty variant: a blocking administrator does not lock the role.
LocksWithoutRole(l) ==
  CASE l.kind = "revoke" -> {AssignmentRow(l.target), RoleRow(l.target.role)}
    [] l.kind = "change" -> {ProjectRow, AssignmentRow(l.target), RoleRow(l.target.role)}
    [] l.kind = "suspend" -> {ProjectRow}
    [] l.kind \in {"deactivate", "activate"} -> {RoleRow(l.role)}
    [] OTHER -> {}

\* select ... for update; the one that finds an assignment joins its role, and
\* locks the rows of both.
LocksOf(l) ==
  CASE l.kind = "block" -> {RoleRow("SYSTEM_ADMIN")}
    [] l.kind = "revoke" ->
         {AssignmentRow(l.target), RoleRow(l.target.role)}
           \cup (IF l.target.role = "PROJECT_MANAGER" THEN {ProjectRow} ELSE {})
    [] l.kind = "change" -> {ProjectRow, AssignmentRow(l.target), RoleRow(l.target.role)}
    [] l.kind = "suspend" -> {ProjectRow}
    [] l.kind \in {"deactivate", "activate"} -> {RoleRow(l.role)}
    [] OTHER -> {}

\* The foreign keys of an inserted assignment need a share of the role's row
\* and of the project's, which a select for update denies them.
ReferencedRows(r) == {RoleRow(r)} \cup (IF r \in ProjectRoles THEN {ProjectRow} ELSE {})

Free(p, rows) ==
  \A q \in Procs \ {p} : proc[q].pc = "guarded" => LocksOf(proc[q]) \cap rows = {}

-----------------------------------------------------------------------------
(* Guards *)

ActiveAdministrators == {u \in Users \ blocked : "SYSTEM_ADMIN" \in RolesOf(u)}

ActiveManagers == {u \in members \ blocked : "PROJECT_MANAGER" \in RolesOf(u)}

\* assertNotLastAdministrator
NotLastAdministrator(u) ==
  "SYSTEM_ADMIN" \in RolesOf(u) => Cardinality(ActiveAdministrators) > 1

\* assertNotLastProjectManager
NotLastProjectManager(u) ==
  "PROJECT_MANAGER" \in RolesOf(u) => Cardinality(ActiveManagers) > 1

\* Faulty variant: managers were forgotten in the list.
ConflictWithoutManager(roles) ==
  "AUDITOR" \in roles /\ roles \cap {"SYSTEM_ADMIN", "MTR_ANALYST", "MTR_EXPERT"} # {}

hasRoleConflict(roles) ==
  /\ "AUDITOR" \in roles
  /\ roles \cap {"SYSTEM_ADMIN", "MTR_ANALYST", "MTR_EXPERT", "PROJECT_MANAGER"} # {}

RolesBesides(a) == {b.role : b \in {c \in assigned : c.user = a.user /\ c # a}}

AssignAllowed(l) ==
  /\ l.role \notin inactive
  /\ l.role \in ProjectRoles => l.user \in members
  /\ ~hasRoleConflict(RolesOf(l.user) \cup {l.role})

RevokeAllowed(l) ==
  /\ l.target \in assigned
  /\ ~OwnAccount("revoke", l.actor, l.user, l.target.role)
  /\ l.target.role = "SYSTEM_ADMIN" => NotLastAdministrator(l.user)
  /\ l.target.role = "PROJECT_MANAGER" => NotLastProjectManager(l.user)

\* Faulty variant: a change of role does not ask who else manages the project.
ChangeUnguarded(l) ==
  /\ l.user \in members
  /\ l.target \in assigned
  /\ l.role \notin inactive
  /\ ~hasRoleConflict(RolesBesides(l.target) \cup {l.role})

ChangeAllowed(l) ==
  /\ l.user \in members
  /\ l.target \in assigned
  /\ l.role \notin inactive
  /\ l.target.role = "PROJECT_MANAGER" => Cardinality(ActiveManagers) > 1
  /\ ~hasRoleConflict(RolesBesides(l.target) \cup {l.role})

\* Faulty variant: a role is deactivated under its holders.
RoleStatusUnguarded(l) == (l.kind = "activate") = (l.role \in inactive)

RoleStatusAllowed(l) ==
  /\ (l.kind = "activate") = (l.role \in inactive)
  /\ l.kind = "deactivate" => \A a \in assigned : a.role # l.role

Allowed(l) ==
  CASE l.kind = "block" -> NotLastAdministrator(l.user)
    [] l.kind = "suspend" -> NotLastProjectManager(l.user)
    [] l.kind = "assign" -> AssignAllowed(l)
    [] l.kind = "revoke" -> RevokeAllowed(l)
    [] l.kind = "change" -> ChangeAllowed(l)
    [] l.kind \in {"deactivate", "activate"} -> RoleStatusAllowed(l)
    [] OTHER -> TRUE

Guard(p) ==
  LET l == proc[p] IN
  /\ l.pc = "begun"
  /\ l.kind # "login"
  /\ Free(p, LocksOf(l))
  /\ IF Allowed(l) THEN Set(p, [l EXCEPT !.pc = "guarded"]) ELSE Return(p)
  /\ UNCHANGED <<accessVars, sessions, requests>>

-----------------------------------------------------------------------------
(* Commits *)

Bumped(u) == [version EXCEPT ![u] = @ + 1]

SignedOut(u) == {s \in sessions : s.user # u}

\* Faulty variant: both updates are left out.
CutOffForgotten(u) == UNCHANGED <<version, sessions>>

\* Every change of a user's access ends with these two updates.
CutOff(u) ==
  /\ version' = Bumped(u)
  /\ sessions' = SignedOut(u)

NewAssignment(u, r, temporary) ==
  [user |-> u, role |-> r, since |-> version[u] + 1, temporary |-> temporary]

SetUserStatus(p) ==
  LET l == proc[p] IN
  /\ l.pc = "guarded"
  /\ l.kind \in {"block", "unblock"}
  /\ blocked' = IF l.kind = "block" THEN blocked \cup {l.user} ELSE blocked \ {l.user}
  /\ CutOff(l.user)
  /\ Return(p)
  /\ UNCHANGED <<assigned, lapsed, inactive, members, requests>>

\* on conflict do nothing: the unique index admits one ACTIVE row per role
AssignRole(p) ==
  LET l == proc[p] IN
  /\ l.pc = "guarded"
  /\ l.kind = "assign"
  /\ Free(p, ReferencedRows(l.role))
  /\ assigned' = IF l.role \in RolesOf(l.user) THEN assigned
                 ELSE assigned \cup {NewAssignment(l.user, l.role, l.temporary)}
  /\ CutOff(l.user)
  /\ Return(p)
  /\ UNCHANGED <<blocked, lapsed, inactive, members, requests>>

RevokeAssignment(p) ==
  LET l == proc[p] IN
  /\ l.pc = "guarded"
  /\ l.kind = "revoke"
  /\ assigned' = assigned \ {l.target}
  /\ lapsed' = lapsed \ {l.target}
  /\ CutOff(l.user)
  /\ Return(p)
  /\ UNCHANGED <<blocked, inactive, members, requests>>

\* The insert has no "on conflict": if the user already holds the new role the
\* transaction rolls back.
ChangeProjectRole(p) ==
  LET l == proc[p] IN
  /\ l.pc = "guarded"
  /\ l.kind = "change"
  /\ Free(p, ReferencedRows(l.role))
  /\ IF l.role \in RolesBesides(l.target)
     THEN UNCHANGED <<assigned, lapsed, version, sessions>>
     ELSE /\ assigned' = (assigned \ {l.target}) \cup {NewAssignment(l.user, l.role, FALSE)}
          /\ lapsed' = lapsed \ {l.target}
          /\ CutOff(l.user)
  /\ Return(p)
  /\ UNCHANGED <<blocked, inactive, members, requests>>

\* setRoleStatus touches no user.
SetRoleStatus(p) ==
  LET l == proc[p] IN
  /\ l.pc = "guarded"
  /\ l.kind \in {"deactivate", "activate"}
  /\ inactive' = IF l.kind = "deactivate" THEN inactive \cup {l.role} ELSE inactive \ {l.role}
  /\ Return(p)
  /\ UNCHANGED <<blocked, version, assigned, lapsed, members, sessions, requests>>

\* The insert names a column created_by that project_memberships does not have
\* (it is added_by), so the statement fails and the transaction rolls back.
SetProjectMembership(p) ==
  LET l == proc[p] IN
  /\ l.pc = "guarded"
  /\ l.kind \in {"suspend", "reinstate"}
  /\ Return(p)
  /\ UNCHANGED <<accessVars, sessions, requests>>

-----------------------------------------------------------------------------
(* Signing in, and the passage of time *)

\* The account is active, and its version is read before its roles.
LoginReadUser(p) ==
  \E u \in Users \ blocked :
    Arrive(p, [Idle EXCEPT !.kind = "login", !.user = u, !.seen = version[u]])

LoginReadRoles(p) ==
  LET l == proc[p] IN
  /\ l.pc = "begun"
  /\ l.kind = "login"
  /\ Set(p, [l EXCEPT !.pc = "guarded", !.remembered = GrantedAssignments(l.user)])
  /\ UNCHANGED <<accessVars, sessions, requests>>

\* Faulty variant: the version of the moment, not the one read with the roles.
SessionVersionAtInsert(l) == version[l.user]

SessionVersion(l) == l.seen

CreateSession(p) ==
  LET l == proc[p] IN
  /\ l.pc = "guarded"
  /\ l.kind = "login"
  /\ sessions' = sessions \cup
       {[user |-> l.user, version |-> SessionVersion(l), remembered |-> l.remembered]}
  /\ Return(p)
  /\ UNCHANGED <<accessVars, requests>>

\* valid_until passes; the row keeps its status ACTIVE.
Lapse ==
  \E a \in assigned \ lapsed :
    /\ a.temporary
    /\ lapsed' = lapsed \cup {a}
    /\ UNCHANGED <<blocked, version, assigned, inactive, members, sessions, proc, requests>>

-----------------------------------------------------------------------------
Init ==
  /\ blocked = {}
  /\ version = [u \in Users |-> 1]
  /\ assigned = InitialAssignments
  /\ lapsed = {}
  /\ inactive = {}
  /\ members = InitialMembers
  /\ sessions = {}
  /\ proc = [p \in Procs |-> Idle]
  /\ requests = 0

Step(p) ==
  \/ BeginUserRequest(p)
  \/ BeginAssign(p)
  \/ BeginReassign(p)
  \/ BeginRoleStatus(p)
  \/ Guard(p)
  \/ SetUserStatus(p)
  \/ AssignRole(p)
  \/ RevokeAssignment(p)
  \/ ChangeProjectRole(p)
  \/ SetRoleStatus(p)
  \/ SetProjectMembership(p)
  \/ LoginReadUser(p)
  \/ LoginReadRoles(p)
  \/ CreateSession(p)

Next == (\E p \in Procs : Step(p)) \/ Lapse

Spec == Init /\ [][Next]_vars

-----------------------------------------------------------------------------
(* Properties *)

Session == [user : Users, version : Nat, remembered : SUBSET Assignment]

Local == [pc : {"idle", "begun", "guarded"}, kind : AllKinds,
          actor : Users \cup {"nobody"}, user : Users \cup {"nobody"},
          role : Roles, temporary : BOOLEAN, target : Assignment \cup {NoAssignment},
          seen : Nat, remembered : SUBSET Assignment]

\* Types; and no assignment is newer than the version it brought about, and only
\* a request about a role is about nobody.
TypeOK ==
  /\ blocked \subseteq Users
  /\ version \in [Users -> Nat]
  /\ assigned \subseteq Assignment
  /\ \A a \in assigned : a.since <= version[a.user]
  /\ lapsed \subseteq assigned
  /\ inactive \subseteq ProjectRoles
  /\ members \subseteq Users
  /\ sessions \subseteq Session
  /\ proc \in [Procs -> Local]
  /\ \A p \in Procs : proc[p].pc # "idle" => proc[p].kind \in {"deactivate", "activate"} \/ proc[p].user \in Users
  /\ requests \in Nat

\* RBAC.md: the last active system administrator cannot be removed.  Blocking
\* and revoking check a count and write later; the row of the role keeps two of
\* them from passing the check together.
LastAdministratorKept == ActiveAdministrators # {}

\* The same for the project, as far as its own operations go: some member keeps
\* the manager role.  Whether that member is blocked is another matter.
ManagerSeatKept == \E u \in members : "PROJECT_MANAGER" \in RolesOf(u)

\* The query of getAuthSessionByTokenHash.
Live(s) == s.version = version[s.user] /\ s.user \notin blocked

\* A sign-in reads the version and the roles in two queries and inserts the
\* session in a third, without a transaction.  No session that is honoured
\* nevertheless remembers a role assignment that has been revoked.
SessionRolesCurrent == \A s \in sessions : Live(s) => s.remembered \subseteq assigned

\* A session that was cut off is never honoured again, not even when its user
\* is unblocked, and not even one that a sign-in inserted while the user was
\* blocked.
SessionsStayDead ==
  [][\A s \in sessions : ~Live(s) => s \notin sessions' \/ ~Live(s)']_vars

\* RBAC.md: the auditor is incompatible with the roles that administer or change
\* anything, over all the assignments a user has.
SeparationOfDuties ==
  \A u \in Users : "AUDITOR" \in RolesOf(u) => RolesOf(u) \subseteq {"AUDITOR", "PROJECT_VIEWER"}

\* RBAC.md: any change of status, membership or role advances the version of the
\* user whose access changes (time may end an assignment without it).
GrantsFenced ==
  [][\A u \in Users :
       Granted(u)' # Granted(u) => version'[u] # version[u] \/ lapsed' \ lapsed # {}]_vars
=============================================================================
