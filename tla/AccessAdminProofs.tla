--------------------------- MODULE AccessAdminProofs ---------------------------
(***************************************************************************)
(* Theorems about AccessAdmin for any number of accounts, requests and     *)
(* seeded assignments, with any kinds of requests arriving.                *)
(***************************************************************************)
EXTENDS AccessByChat, FiniteSetTheorems, TLAPS

-----------------------------------------------------------------------------
(* Types *)

\* What the assignment and the role of a request in progress are.
RequestSound(l) ==
  l.pc # "idle" =>
    /\ l.kind \in {"revoke", "change"} => l.target \in Assignment /\ l.user = l.target.user
    /\ l.kind \in {"change", "deactivate", "activate"} => l.role \in ProjectRoles
    /\ l.kind = "change" => l.target.role \in ProjectRoles

TypeInv == TypeOK /\ \A p \in Procs : RequestSound(proc[p])

LocalInv(l) ==
  /\ l \in Local
  /\ l.pc # "idle" => l.kind \in {"deactivate", "activate"} \/ l.user \in Users
  /\ RequestSound(l)

\* A request that has ended is well formed.
LEMMA IdleType == LocalInv(Idle)
  BY DEF LocalInv, Idle, Local, RequestSound, AllKinds, Roles, ProjectRoles

\* Replacing the local state of one request keeps all of them well formed.
LEMMA SetType ==
  ASSUME TypeInv, NEW p \in Procs, NEW l, LocalInv(l), Set(p, l)
  PROVE  /\ proc' \in [Procs -> Local]
         /\ \A q \in Procs : proc'[q].pc # "idle" => proc'[q].kind \in {"deactivate", "activate"} \/ proc'[q].user \in Users
         /\ \A q \in Procs : RequestSound(proc'[q])
         /\ proc'[p] = l
         /\ \A q \in Procs \ {p} : proc'[q] = proc[q]
<1>1. proc' = [proc EXCEPT ![p] = l] /\ proc \in [Procs -> Local]
  BY DEF Set, TypeInv, TypeOK
<1>2. \A q \in Procs : proc'[q] = IF q = p THEN l ELSE proc[q]
  BY <1>1
<1> QED BY <1>1, <1>2 DEF TypeInv, TypeOK, LocalInv

\* Of a request in progress, the fields that its kind makes use of.
LEMMA ProcType ==
  ASSUME TypeInv, NEW p \in Procs
  PROVE  LocalInv(proc[p])
  BY DEF TypeInv, TypeOK, LocalInv

\* Arrivals accept well-formed requests only.
LEMMA ArriveType ==
  ASSUME TypeInv, NEW p \in Procs, NEW l, Arrive(p, l), LocalInv([l EXCEPT !.pc = "begun"])
  PROVE  TypeInv'
<1>1. Set(p, [l EXCEPT !.pc = "begun"])
  BY DEF Arrive
<1>2. requests' \in Nat
  BY DEF Arrive, TypeInv, TypeOK
<1> QED BY <1>1, <1>2, SetType DEF Arrive, accessVars, TypeInv, TypeOK

\* The version of every user stays a number, and advances by one for one user.
LEMMA BumpType ==
  ASSUME TypeInv, NEW u \in Users
  PROVE  /\ Bumped(u) \in [Users -> Nat]
         /\ Bumped(u)[u] = version[u] + 1
         /\ \A w \in Users : Bumped(u)[w] >= version[w]
         /\ \A w \in Users \ {u} : Bumped(u)[w] = version[w]
  BY DEF Bumped, TypeInv, TypeOK

\* A new assignment is well formed, not a present one, and identified by the
\* version it brings about.
LEMMA NewAssignmentType ==
  ASSUME TypeInv, NEW u \in Users, NEW r \in Roles, NEW t \in BOOLEAN
  PROVE  /\ NewAssignment(u, r, t) \in Assignment
         /\ NewAssignment(u, r, t).user = u
         /\ NewAssignment(u, r, t).role = r
         /\ NewAssignment(u, r, t).since = version[u] + 1
<1>1. version[u] + 1 \in Nat
  BY DEF TypeInv, TypeOK
<1> QED BY <1>1 DEF NewAssignment, Assignment

\* Versions that never fall keep assignments no newer than their users'.
LEMMA SinceBelow ==
  ASSUME TypeInv, NEW u \in Users, NEW S \in SUBSET assigned
  PROVE  \A a \in S : a.since <= Bumped(u)[a.user]
<1> SUFFICES ASSUME NEW a \in S PROVE a.since <= Bumped(u)[a.user]
  OBVIOUS
<1>1. a.user \in Users /\ a.since \in Nat /\ a.since <= version[a.user]
  BY DEF TypeInv, TypeOK, Assignment
<1>2. Bumped(u)[a.user] >= version[a.user] /\ Bumped(u)[a.user] \in Nat /\ version[a.user] \in Nat
  BY <1>1, BumpType DEF TypeInv, TypeOK
<1> QED BY <1>1, <1>2

\* The seeded state is well typed.
LEMMA TypeInit == Init => TypeInv
  BY SeedAssumption, IdleType
  DEF Init, TypeInv, TypeOK, LocalInv, Idle, RequestSound, Assignment

\* Every step keeps the state well typed.
LEMMA TypeStep == TypeInv /\ [Next]_vars => TypeInv'
<1> SUFFICES ASSUME TypeInv, [Next]_vars PROVE TypeInv'
  OBVIOUS
<1> USE DEF accessVars
<1>1. ASSUME NEW p \in Procs, BeginUserRequest(p) PROVE TypeInv'
  <2>1. PICK kind \in {"block", "unblock", "suspend", "reinstate"}, actor \in Users, u \in Users :
          Arrive(p, [Idle EXCEPT !.kind = kind, !.actor = actor, !.user = u])
    BY <1>1 DEF BeginUserRequest
  <2>2. LocalInv([[Idle EXCEPT !.kind = kind, !.actor = actor, !.user = u] EXCEPT !.pc = "begun"])
    BY <2>1 DEF LocalInv, Idle, Local, RequestSound, AllKinds, Roles, ProjectRoles
  <2> QED BY <2>1, <2>2, ArriveType
<1>2. ASSUME NEW p \in Procs, BeginAssign(p) PROVE TypeInv'
  <2>1. PICK actor \in Users, u \in Users, r \in Assignable, t \in BOOLEAN :
          Arrive(p, [Idle EXCEPT !.kind = "assign", !.actor = actor, !.user = u,
                                 !.role = r, !.temporary = t])
    BY <1>2 DEF BeginAssign
  <2>2. LocalInv([[Idle EXCEPT !.kind = "assign", !.actor = actor, !.user = u,
                               !.role = r, !.temporary = t] EXCEPT !.pc = "begun"])
    BY <2>1, RequestAssumption DEF LocalInv, Idle, Local, RequestSound, AllKinds
  <2> QED BY <2>1, <2>2, ArriveType
<1>3. ASSUME NEW p \in Procs, BeginReassign(p) PROVE TypeInv'
  <2>1. PICK kind \in {"revoke", "change"}, actor \in Users, a \in assigned, r \in Assignable \cap ProjectRoles :
          /\ Arrive(p, [Idle EXCEPT !.kind = kind, !.actor = actor, !.user = a.user,
                                    !.role = IF kind = "change" THEN r ELSE a.role, !.target = a])
          /\ kind = "change" => a.role \in ProjectRoles
    BY <1>3 DEF BeginReassign
  <2>2. a \in Assignment
    BY <2>1 DEF TypeInv, TypeOK
  <2>3. LocalInv([[Idle EXCEPT !.kind = kind, !.actor = actor, !.user = a.user,
                               !.role = IF kind = "change" THEN r ELSE a.role, !.target = a]
                    EXCEPT !.pc = "begun"])
    BY <2>1, <2>2 DEF LocalInv, Idle, Local, RequestSound, AllKinds, Assignment, Roles
  <2> QED BY <2>1, <2>3, ArriveType
<1>4. ASSUME NEW p \in Procs, BeginRoleStatus(p) PROVE TypeInv'
  <2>1. PICK kind \in {"deactivate", "activate"}, actor \in Users, r \in Assignable \cap ProjectRoles :
          Arrive(p, [Idle EXCEPT !.kind = kind, !.actor = actor, !.role = r])
    BY <1>4 DEF BeginRoleStatus
  <2>2. LocalInv([[Idle EXCEPT !.kind = kind, !.actor = actor, !.role = r] EXCEPT !.pc = "begun"])
    BY <2>1 DEF LocalInv, Idle, Local, RequestSound, AllKinds, Roles
  <2> QED BY <2>1, <2>2, ArriveType
<1>5. ASSUME NEW p \in Procs, LoginReadUser(p) PROVE TypeInv'
  <2>1. PICK u \in Users \ blocked :
          Arrive(p, [Idle EXCEPT !.kind = "login", !.user = u, !.seen = version[u]])
    BY <1>5 DEF LoginReadUser
  <2>2. version[u] \in Nat
    BY <2>1 DEF TypeInv, TypeOK
  <2>3. LocalInv([[Idle EXCEPT !.kind = "login", !.user = u, !.seen = version[u]] EXCEPT !.pc = "begun"])
    BY <2>1, <2>2 DEF LocalInv, Idle, Local, RequestSound, AllKinds, Roles, ProjectRoles
  <2> QED BY <2>1, <2>3, ArriveType
<1>6. ASSUME NEW p \in Procs, Guard(p) PROVE TypeInv'
  <2>1. LocalInv([proc[p] EXCEPT !.pc = "guarded"])
    BY <1>6, ProcType DEF Guard, LocalInv, Local, RequestSound
  <2>2. Set(p, [proc[p] EXCEPT !.pc = "guarded"]) \/ Set(p, Idle)
    BY <1>6 DEF Guard, Return
  <2>3. /\ proc' \in [Procs -> Local]
        /\ \A q \in Procs : proc'[q].pc # "idle" => proc'[q].kind \in {"deactivate", "activate"} \/ proc'[q].user \in Users
        /\ \A q \in Procs : RequestSound(proc'[q])
    BY <2>1, <2>2, IdleType, SetType
  <2> QED BY <1>6, <2>3 DEF Guard, TypeInv, TypeOK
<1>7. ASSUME NEW p \in Procs, LoginReadRoles(p) PROVE TypeInv'
  <2>1. GrantedAssignments(proc[p].user) \subseteq Assignment
    BY DEF GrantedAssignments, TypeInv, TypeOK
  <2>2. LocalInv([proc[p] EXCEPT !.pc = "guarded", !.remembered = GrantedAssignments(proc[p].user)])
    BY <1>7, <2>1, ProcType DEF LoginReadRoles, LocalInv, Local, RequestSound
  <2>3. Set(p, [proc[p] EXCEPT !.pc = "guarded", !.remembered = GrantedAssignments(proc[p].user)])
    BY <1>7 DEF LoginReadRoles
  <2> QED BY <1>7, <2>2, <2>3, SetType DEF LoginReadRoles, TypeInv, TypeOK
<1> DEFINE Ended(p) == /\ proc' \in [Procs -> Local]
                       /\ \A q \in Procs : proc'[q].pc # "idle" => proc'[q].kind \in {"deactivate", "activate"} \/ proc'[q].user \in Users
                       /\ \A q \in Procs : RequestSound(proc'[q])
<1>8. ASSUME NEW p \in Procs, Return(p) PROVE Ended(p)
  BY <1>8, IdleType, SetType DEF Return
<1> HIDE DEF Ended
<1>9. ASSUME NEW p \in Procs, proc[p].pc = "guarded"
      PROVE  /\ proc[p].kind \in AllKinds /\ proc[p].role \in Roles /\ proc[p].temporary \in BOOLEAN
             /\ proc[p].kind \notin {"deactivate", "activate"} => proc[p].user \in Users
             /\ proc[p].seen \in Nat /\ proc[p].remembered \subseteq Assignment
             /\ RequestSound(proc[p])
  BY <1>9, ProcType DEF LocalInv, Local
<1>10. ASSUME NEW u \in Users, CutOff(u) PROVE version' \in [Users -> Nat] /\ sessions' \subseteq Session
  BY <1>10, BumpType DEF CutOff, SignedOut, TypeInv, TypeOK
<1>11. ASSUME NEW p \in Procs, SetUserStatus(p) PROVE TypeInv'
  <2>1. proc[p].user \in Users
    BY <1>9, <1>11 DEF SetUserStatus
  <2>2. version' = Bumped(proc[p].user)
    BY <1>11 DEF SetUserStatus, CutOff
  <2>3. \A a \in assigned : a.since <= version'[a.user]
    BY <2>1, <2>2, SinceBelow
  <2>4. version' \in [Users -> Nat] /\ sessions' \subseteq Session /\ Ended(p)
    BY <1>8, <1>10, <1>11, <2>1 DEF SetUserStatus
  <2> QED BY <1>11, <2>1, <2>3, <2>4 DEF SetUserStatus, TypeInv, TypeOK, Ended
<1>12. ASSUME NEW p \in Procs, AssignRole(p) PROVE TypeInv'
  <2> DEFINE u == proc[p].user
             new == NewAssignment(u, proc[p].role, proc[p].temporary)
  <2>1. u \in Users /\ proc[p].role \in Roles /\ proc[p].temporary \in BOOLEAN
    BY <1>9, <1>12 DEF AssignRole
  <2>2. new \in Assignment /\ new.user = u /\ new.since = version[u] + 1
    BY <2>1, NewAssignmentType
  <2>3. version' = Bumped(u)
    BY <1>12 DEF AssignRole, CutOff
  <2>4. \A a \in assigned : a.since <= version'[a.user]
    BY <2>1, <2>3, SinceBelow
  <2>5. version'[u] = version[u] + 1 /\ version[u] \in Nat
    BY <2>1, <2>3, BumpType DEF TypeInv, TypeOK
  <2>6. assigned' \subseteq assigned \cup {new} /\ assigned \subseteq assigned'
    BY <1>12 DEF AssignRole
  <2> HIDE DEF new
  <2>7. \A a \in assigned' : a.since <= version'[a.user]
    BY <2>2, <2>4, <2>5, <2>6
  <2>8. version' \in [Users -> Nat] /\ sessions' \subseteq Session /\ Ended(p)
    BY <1>8, <1>10, <1>12, <2>1 DEF AssignRole
  <2> QED BY <1>12, <2>2, <2>6, <2>7, <2>8 DEF AssignRole, TypeInv, TypeOK, Ended
<1>13. ASSUME NEW p \in Procs, RevokeAssignment(p) PROVE TypeInv'
  <2>1. proc[p].user \in Users
    BY <1>9, <1>13 DEF RevokeAssignment
  <2>2. version' = Bumped(proc[p].user)
    BY <1>13 DEF RevokeAssignment, CutOff
  <2>3. \A a \in assigned' : a.since <= version'[a.user]
    BY <1>13, <2>1, <2>2, SinceBelow DEF RevokeAssignment
  <2>4. version' \in [Users -> Nat] /\ sessions' \subseteq Session /\ Ended(p)
    BY <1>8, <1>10, <1>13, <2>1 DEF RevokeAssignment
  <2> QED BY <1>13, <2>3, <2>4 DEF RevokeAssignment, TypeInv, TypeOK, Ended
<1>14. ASSUME NEW p \in Procs, ChangeProjectRole(p) PROVE TypeInv'
  <2> DEFINE u == proc[p].user
             new == NewAssignment(u, proc[p].role, FALSE)
  <2>1. u \in Users /\ proc[p].role \in Roles
    BY <1>9, <1>14 DEF ChangeProjectRole
  <2>2. Ended(p)
    BY <1>8, <1>14 DEF ChangeProjectRole
  <2>3. CASE UNCHANGED <<assigned, lapsed, version, sessions>>
    BY <1>14, <2>2, <2>3 DEF ChangeProjectRole, TypeInv, TypeOK, Ended
  <2>4. CASE /\ assigned' = (assigned \ {proc[p].target}) \cup {new}
             /\ lapsed' = lapsed \ {proc[p].target}
             /\ CutOff(u)
    <3>1. new \in Assignment /\ new.user = u /\ new.since = version[u] + 1
      BY <2>1, NewAssignmentType
    <3>2. version' = Bumped(u)
      BY <2>4 DEF CutOff
    <3>3. \A a \in assigned : a.since <= version'[a.user]
      BY <2>1, <3>2, SinceBelow
    <3>4. version'[u] = version[u] + 1 /\ version[u] \in Nat
      BY <2>1, <3>2, BumpType DEF TypeInv, TypeOK
    <3>5. assigned' \subseteq Assignment /\ lapsed' \subseteq assigned'
      BY <2>4, <3>1 DEF TypeInv, TypeOK
    <3> HIDE DEF new
    <3>6. \A a \in assigned' : a.since <= version'[a.user]
      BY <2>4, <3>1, <3>3, <3>4
    <3>7. version' \in [Users -> Nat] /\ sessions' \subseteq Session
      BY <1>10, <2>1, <2>4
    <3> QED BY <1>14, <2>2, <3>5, <3>6, <3>7 DEF ChangeProjectRole, TypeInv, TypeOK, Ended
  <2> QED BY <1>14, <2>3, <2>4 DEF ChangeProjectRole
<1>15. ASSUME NEW p \in Procs, SetRoleStatus(p) PROVE TypeInv'
  <2>1. proc[p].role \in ProjectRoles
    BY <1>9, <1>15 DEF SetRoleStatus, RequestSound
  <2>2. Ended(p)
    BY <1>8, <1>15 DEF SetRoleStatus
  <2> QED BY <1>15, <2>1, <2>2 DEF SetRoleStatus, TypeInv, TypeOK, Ended
<1>16. ASSUME NEW p \in Procs, SetProjectMembership(p) PROVE TypeInv'
  <2>1. Ended(p)
    BY <1>8, <1>16 DEF SetProjectMembership
  <2> QED BY <1>16, <2>1 DEF SetProjectMembership, TypeInv, TypeOK, Ended
<1>17. ASSUME NEW p \in Procs, CreateSession(p) PROVE TypeInv'
  <2>1. [user |-> proc[p].user, version |-> proc[p].seen, remembered |-> proc[p].remembered] \in Session
    BY <1>9, <1>17 DEF CreateSession, Session
  <2>2. Ended(p)
    BY <1>8, <1>17 DEF CreateSession
  <2> QED BY <1>17, <2>1, <2>2 DEF CreateSession, SessionVersion, TypeInv, TypeOK, Ended
<1>18. CASE Lapse
  BY <1>18 DEF Lapse, TypeInv, TypeOK
<1>19. CASE UNCHANGED vars
  BY <1>19 DEF vars, TypeInv, TypeOK
<1> QED
  BY <1>1, <1>2, <1>3, <1>4, <1>5, <1>6, <1>7, <1>11, <1>12, <1>13, <1>14, <1>15, <1>16,
     <1>17, <1>18, <1>19 DEF Next, Step

\* Every state that access administration reaches is well typed, whatever is
\* seeded and requested: in particular no assignment is newer than the version
\* of its user, which is what makes versions identify assignments.
THEOREM TypeCorrect == Spec => []TypeOK
<1>1. Spec => []TypeInv
  BY TypeInit, TypeStep, PTL DEF Spec
<1>2. TypeInv => TypeOK
  BY DEF TypeInv
<1> QED BY <1>1, <1>2, PTL

-----------------------------------------------------------------------------
(* Locks: two transactions that passed their guards hold different rows *)

Exclusive ==
  \A p, q \in Procs :
    p # q /\ proc[p].pc = "guarded" /\ proc[q].pc = "guarded" =>
      LocksOf(proc[p]) \cap LocksOf(proc[q]) = {}

\* A step concerns one request, which becomes guarded only by passing Guard, or
\* by reading roles for a sign-in; every other step of a guarded one ends it.
LEMMA OneMoves ==
  ASSUME TypeInv, [Next]_vars
  PROVE  \/ proc' = proc
         \/ \E p \in Procs :
              /\ \A q \in Procs \ {p} : proc'[q] = proc[q]
              /\ \/ proc'[p].pc # "guarded"
                 \/ Guard(p) /\ proc'[p] = [proc[p] EXCEPT !.pc = "guarded"] /\ Allowed(proc[p])
                 \/ proc'[p].pc = "guarded" /\ proc'[p].kind = "login"
<1> DEFINE Moved(p) ==
             /\ \A q \in Procs \ {p} : proc'[q] = proc[q]
             /\ \/ proc'[p].pc # "guarded"
                \/ Guard(p) /\ proc'[p] = [proc[p] EXCEPT !.pc = "guarded"] /\ Allowed(proc[p])
                \/ proc'[p].pc = "guarded" /\ proc'[p].kind = "login"
<1>1. ASSUME NEW p \in Procs, NEW l, Set(p, l)
      PROVE  proc'[p] = l /\ \A q \in Procs \ {p} : proc'[q] = proc[q]
  BY <1>1 DEF Set, TypeInv, TypeOK
<1>2. ASSUME NEW p \in Procs, Return(p) PROVE Moved(p)
  BY <1>1, <1>2 DEF Return, Idle
<1>3. ASSUME NEW p \in Procs, NEW l, Arrive(p, l), l.pc = "idle", DOMAIN l = DOMAIN Idle,
             [l EXCEPT !.pc = "begun"].pc = "begun"
      PROVE  Moved(p)
  BY <1>1, <1>3 DEF Arrive
<1>4. ASSUME NEW p \in Procs, Guard(p) PROVE Moved(p)
  <2>1. CASE Allowed(proc[p])
    BY <1>1, <1>4, <2>1 DEF Guard
  <2>2. CASE ~Allowed(proc[p])
    BY <1>2, <1>4, <2>2 DEF Guard
  <2> QED BY <2>1, <2>2
<1>5. ASSUME NEW p \in Procs, LoginReadRoles(p) PROVE Moved(p)
  <2>1. proc[p].kind = "login" /\ proc[p] \in Local
    BY <1>5, ProcType DEF LoginReadRoles, LocalInv
  <2>2. proc'[p] = [proc[p] EXCEPT !.pc = "guarded", !.remembered = GrantedAssignments(proc[p].user)]
    BY <1>1, <1>5 DEF LoginReadRoles
  <2>3. proc'[p].pc = "guarded" /\ proc'[p].kind = "login"
    BY <2>1, <2>2 DEF Local
  <2> QED BY <1>1, <1>5, <2>3 DEF LoginReadRoles
<1>6. ASSUME NEW p \in Procs, BeginUserRequest(p) \/ BeginAssign(p) \/ BeginReassign(p)
                              \/ BeginRoleStatus(p) \/ LoginReadUser(p)
      PROVE  Moved(p)
  <2>1. CASE BeginUserRequest(p) \/ LoginReadUser(p)
    BY <1>3, <2>1 DEF BeginUserRequest, LoginReadUser, Idle
  <2>2. CASE BeginAssign(p)
    BY <1>3, <2>2 DEF BeginAssign, Idle
  <2>3. CASE BeginReassign(p)
    BY <1>3, <2>3 DEF BeginReassign, Idle
  <2>4. CASE BeginRoleStatus(p)
    BY <1>3, <2>4 DEF BeginRoleStatus, Idle
  <2> QED BY <1>6, <2>1, <2>2, <2>3, <2>4
<1> HIDE DEF Moved
<1>7. ASSUME NEW p \in Procs, Step(p) PROVE Moved(p)
  BY <1>2, <1>4, <1>5, <1>6, <1>7
  DEF Step, SetUserStatus, AssignRole, RevokeAssignment, ChangeProjectRole, SetRoleStatus,
      SetProjectMembership, CreateSession
<1>8. CASE Lapse \/ UNCHANGED vars
  BY <1>8 DEF Lapse, vars
<1> QED BY <1>7, <1>8 DEF Next, Moved

\* The rows a request locks depend on nothing but its kind, role and target.
LEMMA LocksStay ==
  ASSUME NEW l \in Local
  PROVE  LocksOf([l EXCEPT !.pc = "guarded"]) = LocksOf(l)
  BY DEF LocksOf, Local

\* Nothing is locked at first.
LEMMA ExclusiveInit == Init => Exclusive
  BY DEF Init, Exclusive, Idle

\* No step lets two requests hold one row.
LEMMA ExclusiveStep ==
  ASSUME TypeInv, Exclusive, [Next]_vars
  PROVE  Exclusive'
<1>1. CASE proc' = proc
  BY <1>1 DEF Exclusive, LocksOf
<1>2. ASSUME NEW p \in Procs, \A q \in Procs \ {p} : proc'[q] = proc[q], proc'[p].pc # "guarded"
      PROVE  Exclusive'
  BY <1>2 DEF Exclusive
<1>3. ASSUME NEW p \in Procs, \A q \in Procs \ {p} : proc'[q] = proc[q],
             Guard(p), proc'[p] = [proc[p] EXCEPT !.pc = "guarded"]
      PROVE  Exclusive'
  <2>1. LocksOf(proc'[p]) = LocksOf(proc[p])
    BY <1>3, LocksStay, ProcType DEF LocalInv
  <2>2. \A q \in Procs \ {p} : proc[q].pc = "guarded" => LocksOf(proc[q]) \cap LocksOf(proc[p]) = {}
    BY <1>3 DEF Guard, Free
  <2> QED BY <1>3, <2>1, <2>2 DEF Exclusive
<1>4. ASSUME NEW p \in Procs, \A q \in Procs \ {p} : proc'[q] = proc[q],
             proc'[p].pc = "guarded", proc'[p].kind = "login"
      PROVE  Exclusive'
  <2>1. LocksOf(proc'[p]) = {}
    BY <1>4 DEF LocksOf
  <2> QED BY <1>4, <2>1 DEF Exclusive
<1> QED BY <1>1, <1>2, <1>3, <1>4, OneMoves

-----------------------------------------------------------------------------
(* What a step may take away *)

\* Returning ends one request and leaves the others alone.
LEMMA ReturnEnds ==
  ASSUME TypeInv, NEW p \in Procs, Return(p)
  PROVE  proc'[p].pc = "idle" /\ \A q \in Procs \ {p} : proc'[q] = proc[q]
  BY DEF Return, Set, Idle, TypeInv, TypeOK

\* Requests that arrive, are checked or read for a sign-in write nothing.
LEMMA OnlyCommitsWrite ==
  ASSUME NEW p \in Procs,
         \/ BeginUserRequest(p) \/ BeginAssign(p) \/ BeginReassign(p) \/ BeginRoleStatus(p)
         \/ Guard(p) \/ LoginReadUser(p) \/ LoginReadRoles(p)
  PROVE  UNCHANGED <<blocked, version, assigned, lapsed, inactive, members, sessions>>
<1>1. ASSUME NEW l, Arrive(p, l)
      PROVE  UNCHANGED <<blocked, version, assigned, lapsed, inactive, members, sessions>>
  BY <1>1 DEF Arrive, accessVars
<1>2. CASE BeginUserRequest(p) \/ LoginReadUser(p)
  BY <1>1, <1>2 DEF BeginUserRequest, LoginReadUser
<1>3. CASE BeginAssign(p)
  BY <1>1, <1>3 DEF BeginAssign
<1>4. CASE BeginReassign(p) \/ BeginRoleStatus(p)
  BY <1>1, <1>4 DEF BeginReassign, BeginRoleStatus
<1>5. CASE Guard(p) \/ LoginReadRoles(p)
  BY <1>5 DEF Guard, LoginReadRoles, accessVars
<1> QED BY <1>2, <1>3, <1>4, <1>5

\* An assignment is taken away by a request that is about it, and that cuts
\* off its user.
LEMMA AssignmentsAfter ==
  ASSUME TypeInv, [Next]_vars, NEW a \in assigned, a \notin assigned'
  PROVE  \E p \in Procs : /\ proc[p].pc = "guarded"
                          /\ proc[p].kind \in {"revoke", "change"}
                          /\ proc[p].target = a
                          /\ proc[p].user = a.user
                          /\ CutOff(a.user)
                          /\ Return(p)
<1> DEFINE Taken == \E p \in Procs : /\ proc[p].pc = "guarded"
                                     /\ proc[p].kind \in {"revoke", "change"}
                                     /\ proc[p].target = a
                                     /\ proc[p].user = a.user
                                     /\ CutOff(a.user)
                                     /\ Return(p)
<1>1. ASSUME NEW p \in Procs, proc[p].pc = "guarded", proc[p].kind \in {"revoke", "change"}
      PROVE  proc[p].user = proc[p].target.user
  BY <1>1, ProcType DEF LocalInv, RequestSound
<1>2. ASSUME NEW p \in Procs, RevokeAssignment(p) PROVE Taken
  <2>1. a = proc[p].target
    BY <1>2 DEF RevokeAssignment
  <2> QED BY <1>1, <1>2, <2>1 DEF RevokeAssignment
<1>3. ASSUME NEW p \in Procs, ChangeProjectRole(p) PROVE Taken
  <2>1. a = proc[p].target /\ CutOff(proc[p].user)
    BY <1>3 DEF ChangeProjectRole
  <2> QED BY <1>1, <1>3, <2>1 DEF ChangeProjectRole
<1>4. ASSUME NEW p \in Procs, Step(p), ~RevokeAssignment(p), ~ChangeProjectRole(p)
      PROVE  assigned \subseteq assigned'
  BY <1>4, OnlyCommitsWrite
  DEF Step, SetUserStatus, AssignRole, SetRoleStatus, SetProjectMembership, CreateSession,
      accessVars
<1>5. CASE Lapse \/ UNCHANGED vars
  BY <1>5 DEF Lapse, vars
<1> HIDE DEF Taken
<1> QED BY <1>2, <1>3, <1>4, <1>5 DEF Next, Taken

\* An account's status is changed by a request about it, which cuts it off.
LEMMA StatusAfter ==
  ASSUME TypeInv, [Next]_vars, NEW u \in Users, (u \in blocked) # (u \in blocked')
  PROVE  \E p \in Procs : /\ proc[p].pc = "guarded"
                          /\ proc[p].kind = IF u \in blocked THEN "unblock" ELSE "block"
                          /\ proc[p].user = u
                          /\ CutOff(u)
                          /\ Return(p)
<1> DEFINE Taken == \E p \in Procs : /\ proc[p].pc = "guarded"
                                     /\ proc[p].kind = IF u \in blocked THEN "unblock" ELSE "block"
                                     /\ proc[p].user = u
                                     /\ CutOff(u)
                                     /\ Return(p)
<1>1. ASSUME NEW p \in Procs, SetUserStatus(p) PROVE Taken
  <2>1. proc[p].user = u
    BY <1>1 DEF SetUserStatus
  <2> QED BY <1>1, <2>1 DEF SetUserStatus
<1>2. ASSUME NEW p \in Procs, Step(p), ~SetUserStatus(p)
      PROVE  blocked' = blocked
  BY <1>2, OnlyCommitsWrite
  DEF Step, RevokeAssignment, ChangeProjectRole, AssignRole, SetRoleStatus,
      SetProjectMembership, CreateSession, accessVars
<1>3. CASE Lapse \/ UNCHANGED vars
  BY <1>3 DEF Lapse, vars
<1> QED BY <1>1, <1>2, <1>3 DEF Next

\* No step changes who is a member of the project.
LEMMA MembersAfter ==
  ASSUME [Next]_vars
  PROVE  members' = members
<1>1. ASSUME NEW p \in Procs, Step(p) PROVE members' = members
  BY <1>1, OnlyCommitsWrite
  DEF Step, SetUserStatus, RevokeAssignment, ChangeProjectRole, AssignRole, SetRoleStatus,
      SetProjectMembership, CreateSession, accessVars
<1> QED BY <1>1 DEF Next, Lapse, vars

\* A finite set of more than one element has one besides any given.
LEMMA TwoOfMany ==
  ASSUME NEW S, IsFiniteSet(S), Cardinality(S) > 1, NEW x
  PROVE  \E y \in S : y # x
<1>1. SUFFICES ASSUME \A y \in S : y = x PROVE FALSE
  OBVIOUS
<1>2. S \in SUBSET {x}
  BY <1>1
<1>3. IsFiniteSet({x}) /\ Cardinality({x}) = 1
  BY FS_Singleton
<1>4. Cardinality(S) <= Cardinality({x}) /\ Cardinality(S) \in Nat
  BY <1>2, <1>3, FS_Subset, FS_CardinalityType
<1> QED BY <1>3, <1>4

-----------------------------------------------------------------------------
(* The last administrator *)

\* A request that passed its guards and is about to take an administrator away.
RemovesAdministrator(l) ==
  /\ l.pc = "guarded"
  /\ l.kind = "block" \/ (l.kind = "revoke" /\ l.target.role = "SYSTEM_ADMIN")

\* There is an administrator, and one besides the one about to be taken away.
AdministratorInv ==
  /\ LastAdministratorKept
  /\ \A p \in Procs : RemovesAdministrator(proc[p]) =>
                        \E v \in ActiveAdministrators : v # proc[p].user

\* The guard of a request that takes an administrator away finds another one.
LEMMA AnotherAdministrator ==
  ASSUME TypeInv, LastAdministratorKept, NEW u, NotLastAdministrator(u)
  PROVE  \E v \in ActiveAdministrators : v # u
<1>1. CASE "SYSTEM_ADMIN" \in RolesOf(u)
  <2>1. ActiveAdministrators \in SUBSET Users
    BY DEF ActiveAdministrators
  <2>2. IsFiniteSet(ActiveAdministrators)
    BY <2>1, SeedAssumption, FS_Subset
  <2> QED BY <1>1, <2>2, TwoOfMany DEF NotLastAdministrator
<1>2. CASE "SYSTEM_ADMIN" \notin RolesOf(u)
  BY <1>2 DEF LastAdministratorKept, ActiveAdministrators
<1> QED BY <1>1, <1>2

\* An administrator is lost only to a request that takes one away.
LEMMA AdministratorsAfter ==
  ASSUME TypeInv, [Next]_vars, NEW u \in ActiveAdministrators, u \notin ActiveAdministrators'
  PROVE  \E p \in Procs : RemovesAdministrator(proc[p]) /\ proc[p].user = u /\ Return(p)
<1>1. u \in Users /\ u \notin blocked
  BY DEF ActiveAdministrators
<1>2. PICK a \in assigned : a.user = u /\ a.role = "SYSTEM_ADMIN"
  BY DEF ActiveAdministrators, RolesOf
<1>3. CASE u \in blocked'
  BY <1>1, <1>3, StatusAfter DEF RemovesAdministrator
<1>4. CASE u \notin blocked'
  <2>1. a \notin assigned'
    BY <1>1, <1>2, <1>4 DEF ActiveAdministrators, RolesOf
  <2>2. PICK p \in Procs : /\ proc[p].pc = "guarded"
                           /\ proc[p].kind \in {"revoke", "change"}
                           /\ proc[p].target = a
                           /\ proc[p].user = a.user
                           /\ Return(p)
    BY <2>1, AssignmentsAfter
  <2>3. proc[p].kind # "change"
    BY <1>2, <2>2, ProcType DEF LocalInv, RequestSound, ProjectRoles
  <2> QED BY <1>2, <2>2, <2>3 DEF RemovesAdministrator
<1> QED BY <1>3, <1>4

\* At first there is an administrator, and nobody is about to be taken away.
LEMMA AdministratorInit == Init => AdministratorInv
<1> SUFFICES ASSUME Init PROVE AdministratorInv
  OBVIOUS
<1>1. PICK a \in InitialAssignments : a.role = "SYSTEM_ADMIN"
  BY SeedAssumption
<1>2. a.user \in Users
  BY SeedAssumption DEF Assignment
<1>3. a.user \in ActiveAdministrators
  BY <1>1, <1>2 DEF Init, ActiveAdministrators, RolesOf
<1> QED BY <1>3 DEF AdministratorInv, LastAdministratorKept, RemovesAdministrator, Init, Idle

\* Two requests that take administrators away would hold one row, so the one
\* that ends leaves no other behind.
LEMMA AdministratorStep ==
  ASSUME TypeInv, Exclusive, AdministratorInv, [Next]_vars
  PROVE  AdministratorInv'
<1>1. ASSUME NEW p \in Procs, RemovesAdministrator(proc[p]), Return(p)
      PROVE  AdministratorInv'
  <2>1. PICK v \in ActiveAdministrators : v # proc[p].user
    BY <1>1 DEF AdministratorInv
  <2>2. v \in ActiveAdministrators'
    <3>1. SUFFICES ASSUME v \notin ActiveAdministrators' PROVE FALSE
      OBVIOUS
    <3>2. PICK q \in Procs : RemovesAdministrator(proc[q]) /\ proc[q].user = v /\ Return(q)
      BY <3>1, AdministratorsAfter
    <3>3. q # p
      BY <2>1, <3>2
    <3> QED BY <1>1, <3>2, <3>3, ReturnEnds DEF RemovesAdministrator
  <2>3. ASSUME NEW q \in Procs PROVE ~RemovesAdministrator(proc'[q])
    <3>1. CASE q = p
      BY <1>1, <3>1, ReturnEnds DEF RemovesAdministrator
    <3>2. CASE q # p
      <4>1. proc'[q] = proc[q]
        BY <1>1, <3>2, ReturnEnds
      <4>2. SUFFICES ASSUME RemovesAdministrator(proc[q]) PROVE FALSE
        BY <4>1
      <4>3. /\ RoleRow("SYSTEM_ADMIN") \in LocksOf(proc[p])
            /\ RoleRow("SYSTEM_ADMIN") \in LocksOf(proc[q])
        BY <1>1, <4>2 DEF RemovesAdministrator, LocksOf
      <4> QED BY <1>1, <3>2, <4>2, <4>3 DEF Exclusive, RemovesAdministrator
    <3> QED BY <3>1, <3>2
  <2> QED BY <2>2, <2>3 DEF AdministratorInv, LastAdministratorKept
<1>2. ASSUME \A p \in Procs : ~(RemovesAdministrator(proc[p]) /\ Return(p))
      PROVE  AdministratorInv'
  <2>1. ActiveAdministrators \subseteq ActiveAdministrators'
    BY <1>2, AdministratorsAfter
  <2>2. ASSUME NEW q \in Procs, RemovesAdministrator(proc'[q])
        PROVE  \E v \in ActiveAdministrators : v # proc'[q].user
    <3>1. CASE proc'[q] = proc[q]
      BY <2>2, <3>1 DEF AdministratorInv
    <3>2. CASE proc'[q] # proc[q]
      <4>1. proc'[q] = [proc[q] EXCEPT !.pc = "guarded"] /\ Allowed(proc[q])
        BY <2>2, <3>2, OneMoves DEF RemovesAdministrator
      <4>2. /\ proc'[q].kind = proc[q].kind /\ proc'[q].user = proc[q].user
            /\ proc'[q].target = proc[q].target
        BY <4>1, ProcType DEF LocalInv, Local
      <4>3. NotLastAdministrator(proc[q].user)
        BY <2>2, <4>1, <4>2 DEF RemovesAdministrator, Allowed, RevokeAllowed
      <4> QED BY <4>2, <4>3, AnotherAdministrator DEF AdministratorInv
    <3> QED BY <3>1, <3>2
  <2> QED BY <2>1, <2>2 DEF AdministratorInv, LastAdministratorKept
<1> QED BY <1>1, <1>2

\* The invariant that the theorems about administrators and managers share.
LockInv == TypeInv /\ Exclusive

\* Requests never hold one row together, and never leave the state ill typed.
LEMMA LocksCorrect == Spec => []LockInv
<1>1. Init => LockInv
  BY TypeInit, ExclusiveInit DEF LockInv
<1>2. LockInv /\ [Next]_vars => LockInv'
  BY TypeStep, ExclusiveStep DEF LockInv
<1> QED BY <1>1, <1>2, PTL DEF Spec

\* However many requests race, whoever they are about, an active account keeps
\* the administrator role: two requests that take one away never pass the check
\* of the count together, since both lock the row of the role.
THEOREM AdministratorKept == Spec => []LastAdministratorKept
<1>1. LockInv /\ AdministratorInv /\ [Next]_vars => AdministratorInv'
  BY AdministratorStep DEF LockInv
<1>2. AdministratorInv => LastAdministratorKept
  BY DEF AdministratorInv
<1> QED BY <1>1, <1>2, AdministratorInit, LocksCorrect, PTL DEF Spec

-----------------------------------------------------------------------------
(* The last manager *)

Seats == {u \in members : "PROJECT_MANAGER" \in RolesOf(u)}

\* A request that passed its guards and is about to vacate a manager's seat.
RemovesManager(l) ==
  /\ l.pc = "guarded"
  /\ l.kind \in {"revoke", "change"}
  /\ l.target.role = "PROJECT_MANAGER"

\* A seat is taken, and one besides the one about to be vacated.
ManagerInv ==
  /\ ManagerSeatKept
  /\ \A p \in Procs : RemovesManager(proc[p]) => \E v \in Seats : v # proc[p].user

\* A guard that counts more than one active manager has found another seat.
LEMMA AnotherManager ==
  ASSUME TypeInv, Cardinality(ActiveManagers) > 1, NEW u
  PROVE  \E v \in Seats : v # u
<1>1. ActiveManagers \in SUBSET Users
  BY DEF ActiveManagers, TypeInv, TypeOK
<1>2. IsFiniteSet(ActiveManagers)
  BY <1>1, SeedAssumption, FS_Subset
<1>3. ActiveManagers \subseteq Seats
  BY DEF ActiveManagers, Seats
<1> QED BY <1>2, <1>3, TwoOfMany

\* The guards of the requests that vacate a seat.
LEMMA ManagerGuard ==
  ASSUME TypeInv, ManagerSeatKept, NEW l \in Local, RequestSound(l), l.pc = "begun",
         l.kind \in {"revoke", "change"}, l.target.role = "PROJECT_MANAGER", Allowed(l)
  PROVE  \E v \in Seats : v # l.user
<1>1. CASE l.kind = "change"
  BY <1>1, AnotherManager DEF Allowed, ChangeAllowed
<1>2. CASE l.kind = "revoke"
  <2>1. l.target \in assigned /\ NotLastProjectManager(l.user) /\ l.user = l.target.user
    BY <1>2 DEF Allowed, RevokeAllowed, RequestSound
  <2>2. "PROJECT_MANAGER" \in RolesOf(l.user)
    BY <2>1 DEF RolesOf
  <2> QED BY <2>1, <2>2, AnotherManager DEF NotLastProjectManager
<1> QED BY <1>1, <1>2

\* A seat is vacated only by a request about its holder's role of manager.
LEMMA SeatsAfter ==
  ASSUME TypeInv, [Next]_vars, NEW u \in Seats, u \notin Seats'
  PROVE  \E p \in Procs : RemovesManager(proc[p]) /\ proc[p].user = u /\ Return(p)
<1>1. PICK a \in assigned : a.user = u /\ a.role = "PROJECT_MANAGER"
  BY DEF Seats, RolesOf
<1>2. a \notin assigned'
  BY <1>1, MembersAfter DEF Seats, RolesOf
<1> QED BY <1>1, <1>2, AssignmentsAfter DEF RemovesManager

\* At first a seat is taken, and none is about to be vacated.
LEMMA ManagerInit == Init => ManagerInv
<1> SUFFICES ASSUME Init PROVE ManagerInv
  OBVIOUS
<1>1. PICK a \in InitialAssignments : a.role = "PROJECT_MANAGER" /\ a.user \in InitialMembers
  BY SeedAssumption
<1>2. a.user \in members /\ "PROJECT_MANAGER" \in RolesOf(a.user)
  BY <1>1 DEF Init, RolesOf
<1> QED BY <1>2 DEF ManagerInv, ManagerSeatKept, RemovesManager, Init, Idle

\* Two requests that vacate seats would both hold the row of the project.
LEMMA ManagerStep ==
  ASSUME TypeInv, Exclusive, ManagerInv, [Next]_vars
  PROVE  ManagerInv'
<1>1. ASSUME NEW p \in Procs, RemovesManager(proc[p]), Return(p)
      PROVE  ManagerInv'
  <2>1. PICK v \in Seats : v # proc[p].user
    BY <1>1 DEF ManagerInv
  <2>2. v \in Seats'
    <3>1. SUFFICES ASSUME v \notin Seats' PROVE FALSE
      OBVIOUS
    <3>2. PICK q \in Procs : RemovesManager(proc[q]) /\ proc[q].user = v /\ Return(q)
      BY <3>1, SeatsAfter
    <3>3. q # p
      BY <2>1, <3>2
    <3> QED BY <1>1, <3>2, <3>3, ReturnEnds DEF RemovesManager
  <2>3. ASSUME NEW q \in Procs PROVE ~RemovesManager(proc'[q])
    <3>1. CASE q = p
      BY <1>1, <3>1, ReturnEnds DEF RemovesManager
    <3>2. CASE q # p
      <4>1. proc'[q] = proc[q]
        BY <1>1, <3>2, ReturnEnds
      <4>2. SUFFICES ASSUME RemovesManager(proc[q]) PROVE FALSE
        BY <4>1
      <4>3. ProjectRow \in LocksOf(proc[p]) /\ ProjectRow \in LocksOf(proc[q])
        BY <1>1, <4>2 DEF RemovesManager, LocksOf
      <4> QED BY <1>1, <3>2, <4>2, <4>3 DEF Exclusive, RemovesManager
    <3> QED BY <3>1, <3>2
  <2> QED BY <2>2, <2>3 DEF ManagerInv, ManagerSeatKept, Seats
<1>2. ASSUME \A p \in Procs : ~(RemovesManager(proc[p]) /\ Return(p))
      PROVE  ManagerInv'
  <2>1. Seats \subseteq Seats'
    BY <1>2, SeatsAfter
  <2>2. ASSUME NEW q \in Procs, RemovesManager(proc'[q])
        PROVE  \E v \in Seats : v # proc'[q].user
    <3>1. CASE proc'[q] = proc[q]
      BY <2>2, <3>1 DEF ManagerInv
    <3>2. CASE proc'[q] # proc[q]
      <4>1. /\ proc'[q] = [proc[q] EXCEPT !.pc = "guarded"] /\ Allowed(proc[q])
            /\ proc[q].pc = "begun"
        BY <2>2, <3>2, OneMoves DEF RemovesManager, Guard
      <4>2. proc[q] \in Local /\ RequestSound(proc[q])
        BY ProcType DEF LocalInv
      <4>3. /\ proc'[q].kind = proc[q].kind /\ proc'[q].user = proc[q].user
            /\ proc'[q].target = proc[q].target
        BY <4>1, <4>2 DEF Local
      <4> QED BY <2>2, <4>1, <4>2, <4>3, ManagerGuard DEF ManagerInv, RemovesManager
    <3> QED BY <3>1, <3>2
  <2> QED BY <2>1, <2>2 DEF ManagerInv, ManagerSeatKept, Seats
<1> QED BY <1>1, <1>2

\* However many requests race, some member keeps the manager role: revoking it
\* and changing it lock the row of the project before they count.
THEOREM ManagerKept == Spec => []ManagerSeatKept
<1>1. LockInv /\ ManagerInv /\ [Next]_vars => ManagerInv'
  BY ManagerStep DEF LockInv
<1>2. ManagerInv => ManagerSeatKept
  BY DEF ManagerInv
<1> QED BY <1>1, <1>2, ManagerInit, LocksCorrect, PTL DEF Spec

-----------------------------------------------------------------------------
(* Sessions *)

\* What was remembered of a user at a version holds while the version lasts.
Remembered(u, seen, remembered, current, present) ==
  /\ seen <= current[u]
  /\ \A a \in remembered : a.user = u
  /\ seen = current[u] => remembered \subseteq present

SessionInv ==
  /\ \A s \in sessions : Remembered(s.user, s.version, s.remembered, version, assigned)
  /\ \A p \in Procs :
       LET l == proc[p] IN
       l.kind = "login" /\ l.pc # "idle" =>
         /\ l.seen <= version[l.user]
         /\ l.pc = "guarded" => Remembered(l.user, l.seen, l.remembered, version, assigned)

\* Versions never fall.
LEMMA VersionAfter ==
  ASSUME TypeInv, [Next]_vars, NEW u \in Users
  PROVE  version[u] <= version'[u] /\ version[u] \in Nat /\ version'[u] \in Nat
<1>1. ASSUME NEW p \in Procs, Step(p), ~SetUserStatus(p), ~RevokeAssignment(p), ~ChangeProjectRole(p),
             ~AssignRole(p)
      PROVE  version' = version
  BY <1>1, OnlyCommitsWrite
  DEF Step, SetRoleStatus, SetProjectMembership, CreateSession, accessVars
<1>2. ASSUME NEW p \in Procs, proc[p].pc = "guarded", proc[p].kind \notin {"deactivate", "activate"}
      PROVE  proc[p].user \in Users
  BY <1>2, ProcType DEF LocalInv
<1>3. ASSUME NEW p \in Procs, SetUserStatus(p) \/ RevokeAssignment(p) \/ ChangeProjectRole(p) \/ AssignRole(p)
      PROVE  version' = version \/ \E w \in Users : version' = Bumped(w)
  BY <1>2, <1>3 DEF SetUserStatus, RevokeAssignment, ChangeProjectRole, AssignRole, CutOff
<1>4. ASSUME Lapse \/ UNCHANGED vars PROVE version' = version
  BY <1>4 DEF Lapse, vars
<1>5. version' = version \/ \E w \in Users : version' = Bumped(w)
  BY <1>1, <1>3, <1>4 DEF Next
<1>6. version[u] \in Nat
  BY DEF TypeInv, TypeOK
<1> QED BY <1>5, <1>6, BumpType

\* Being cut off advances the version.
LEMMA CutOffAdvances ==
  ASSUME TypeInv, NEW u \in Users, CutOff(u)
  PROVE  version[u] < version'[u]
<1>1. version[u] \in Nat
  BY DEF TypeInv, TypeOK
<1> QED BY <1>1, BumpType DEF CutOff

\* A step keeps true what was remembered.
LEMMA RememberedAfter ==
  ASSUME TypeInv, [Next]_vars, NEW u \in Users, NEW seen \in Nat, NEW remembered,
         Remembered(u, seen, remembered, version, assigned)
  PROVE  Remembered(u, seen, remembered, version', assigned')
<1>1. version[u] <= version'[u] /\ version[u] \in Nat /\ version'[u] \in Nat
  BY VersionAfter
<1>2. seen <= version'[u]
  BY <1>1 DEF Remembered
<1>3. ASSUME seen = version'[u], NEW a \in remembered PROVE a \in assigned'
  <2>1. seen = version[u]
    BY <1>1, <1>3 DEF Remembered
  <2>2. a \in assigned /\ a.user = u
    BY <1>3, <2>1 DEF Remembered
  <2>3. SUFFICES ASSUME a \notin assigned' PROVE FALSE
    OBVIOUS
  <2>4. CutOff(u)
    BY <2>2, <2>3, AssignmentsAfter
  <2>5. version[u] < version'[u]
    BY <2>4, CutOffAdvances
  <2> QED BY <1>1, <1>3, <2>1, <2>5
<1> QED BY <1>2, <1>3 DEF Remembered

\* A session is created by a sign-in, from what it has read.
LEMMA SessionsAfter ==
  ASSUME TypeInv, SessionInv, [Next]_vars, NEW s \in sessions', s \notin sessions
  PROVE  s.user \in Users /\ s.version \in Nat /\ Remembered(s.user, s.version, s.remembered, version, assigned)
<1>1. ASSUME NEW p \in Procs, CreateSession(p)
      PROVE  s.user \in Users /\ s.version \in Nat /\ Remembered(s.user, s.version, s.remembered, version, assigned)
  <2>1. s = [user |-> proc[p].user, version |-> proc[p].seen, remembered |-> proc[p].remembered]
    BY <1>1 DEF CreateSession, SessionVersion
  <2>2. proc[p].user \in Users /\ proc[p].seen \in Nat
    BY <1>1, ProcType DEF CreateSession, LocalInv, Local
  <2>3. Remembered(proc[p].user, proc[p].seen, proc[p].remembered, version, assigned)
    BY <1>1 DEF CreateSession, SessionInv
  <2> QED BY <2>1, <2>2, <2>3
<1>2. ASSUME NEW p \in Procs, Step(p), ~CreateSession(p)
      PROVE  sessions' \subseteq sessions
  BY <1>2, OnlyCommitsWrite
  DEF Step, SetUserStatus, RevokeAssignment, ChangeProjectRole, AssignRole, SetRoleStatus,
      SetProjectMembership, CutOff, SignedOut
<1>3. CASE Lapse \/ UNCHANGED vars
  BY <1>3 DEF Lapse, vars
<1> QED BY <1>1, <1>2, <1>3 DEF Next

\* How a sign-in comes to have read something.
LEMMA LoginsAfter ==
  ASSUME TypeInv, [Next]_vars, NEW p \in Procs,
         proc'[p] # proc[p], proc'[p].kind = "login", proc'[p].pc # "idle"
  PROVE  \/ /\ proc'[p].pc = "begun"
            /\ proc'[p].user \in Users
            /\ proc'[p].seen = version[proc'[p].user]
            /\ version' = version
         \/ /\ proc[p].kind = "login" /\ proc[p].pc = "begun"
            /\ proc'[p] = [proc[p] EXCEPT !.pc = "guarded",
                                          !.remembered = GrantedAssignments(proc[p].user)]
            /\ version' = version /\ assigned' = assigned
<1> DEFINE Read == \/ /\ proc'[p].pc = "begun"
                      /\ proc'[p].user \in Users
                      /\ proc'[p].seen = version[proc'[p].user]
                      /\ version' = version
                   \/ /\ proc[p].kind = "login" /\ proc[p].pc = "begun"
                      /\ proc'[p] = [proc[p] EXCEPT !.pc = "guarded",
                                                    !.remembered = GrantedAssignments(proc[p].user)]
                      /\ version' = version /\ assigned' = assigned
<1>1. ASSUME NEW q \in Procs, NEW l, Set(q, l)
      PROVE  q = p /\ proc'[p] = l
  BY <1>1 DEF Set, TypeInv, TypeOK
<1>2. ASSUME NEW q \in Procs, Return(q) PROVE FALSE
  BY <1>1, <1>2 DEF Return, Idle
<1>3. ASSUME NEW q \in Procs, LoginReadUser(q) PROVE Read
  <2>1. PICK u \in Users \ blocked :
          Arrive(q, [Idle EXCEPT !.kind = "login", !.user = u, !.seen = version[u]])
    BY <1>3 DEF LoginReadUser
  <2>2. proc'[p] = [[Idle EXCEPT !.kind = "login", !.user = u, !.seen = version[u]] EXCEPT !.pc = "begun"]
    BY <1>1, <2>1 DEF Arrive
  <2>3. proc'[p].pc = "begun" /\ proc'[p].user = u /\ proc'[p].seen = version[u]
    BY <2>2 DEF Idle
  <2> QED BY <2>1, <2>3 DEF Arrive, accessVars
<1>4. ASSUME NEW q \in Procs, LoginReadRoles(q) PROVE Read
  BY <1>1, <1>4 DEF LoginReadRoles, accessVars
<1>5. ASSUME NEW q \in Procs, Guard(q) PROVE FALSE
  <2>1. q = p /\ proc'[p] = [proc[p] EXCEPT !.pc = "guarded"]
    BY <1>1, <1>2, <1>5 DEF Guard
  <2> QED BY <1>5, <2>1, ProcType DEF Guard, LocalInv, Local
<1>6. ASSUME NEW q \in Procs, NEW l, Arrive(q, l), [l EXCEPT !.pc = "begun"].kind # "login"
      PROVE  FALSE
  BY <1>1, <1>6 DEF Arrive
<1>7. ASSUME NEW q \in Procs, BeginUserRequest(q) \/ BeginAssign(q) \/ BeginReassign(q) \/ BeginRoleStatus(q)
      PROVE  FALSE
  <2>1. CASE BeginUserRequest(q)
    BY <1>6, <2>1 DEF BeginUserRequest, Idle
  <2>2. CASE BeginAssign(q)
    BY <1>6, <2>2 DEF BeginAssign, Idle
  <2>3. CASE BeginReassign(q)
    BY <1>6, <2>3 DEF BeginReassign, Idle
  <2>4. CASE BeginRoleStatus(q)
    BY <1>6, <2>4 DEF BeginRoleStatus, Idle
  <2> QED BY <1>7, <2>1, <2>2, <2>3, <2>4
<1> HIDE DEF Read
<1>8. ASSUME NEW q \in Procs, Step(q) PROVE Read
  BY <1>2, <1>3, <1>4, <1>5, <1>7, <1>8
  DEF Step, SetUserStatus, AssignRole, RevokeAssignment, ChangeProjectRole, SetRoleStatus,
      SetProjectMembership, CreateSession
<1>9. CASE Lapse \/ UNCHANGED vars
  BY <1>9 DEF Lapse, vars
<1> QED BY <1>8, <1>9 DEF Next, Read

\* At first nobody has signed in.
LEMMA SessionInit == Init => SessionInv
  BY DEF Init, SessionInv, Idle

\* Steps keep what sessions and sign-ins remember true.
LEMMA SessionStep ==
  ASSUME TypeInv, SessionInv, [Next]_vars
  PROVE  SessionInv'
<1>1. ASSUME NEW s \in sessions' PROVE Remembered(s.user, s.version, s.remembered, version', assigned')
  <2>1. s.user \in Users /\ s.version \in Nat /\ Remembered(s.user, s.version, s.remembered, version, assigned)
    BY SessionsAfter DEF SessionInv, TypeInv, TypeOK, Session
  <2> QED BY <2>1, RememberedAfter
<1>2. ASSUME NEW p \in Procs, proc'[p].kind = "login", proc'[p].pc # "idle"
      PROVE  /\ proc'[p].seen <= version'[proc'[p].user]
             /\ proc'[p].pc = "guarded" =>
                  Remembered(proc'[p].user, proc'[p].seen, proc'[p].remembered, version', assigned')
  <2>1. CASE proc'[p] = proc[p]
    <3>1. proc[p].user \in Users /\ proc[p].seen \in Nat
      BY <1>2, <2>1, ProcType DEF LocalInv, Local
    <3>2. proc[p].seen <= version[proc[p].user]
      BY <1>2, <2>1 DEF SessionInv
    <3>3. proc[p].seen <= version'[proc[p].user]
      BY <3>1, <3>2, VersionAfter
    <3>4. ASSUME proc[p].pc = "guarded"
          PROVE  Remembered(proc[p].user, proc[p].seen, proc[p].remembered, version', assigned')
      BY <1>2, <2>1, <3>1, <3>4, RememberedAfter DEF SessionInv
    <3> QED BY <2>1, <3>3, <3>4
  <2>2. CASE proc'[p] # proc[p]
    <3>1. CASE /\ proc'[p].pc = "begun"
               /\ proc'[p].user \in Users
               /\ proc'[p].seen = version[proc'[p].user]
               /\ version' = version
      BY <3>1 DEF TypeInv, TypeOK
    <3>2. CASE /\ proc[p].kind = "login" /\ proc[p].pc = "begun"
               /\ proc'[p] = [proc[p] EXCEPT !.pc = "guarded",
                                             !.remembered = GrantedAssignments(proc[p].user)]
               /\ version' = version /\ assigned' = assigned
      <4>1. /\ proc'[p].user = proc[p].user /\ proc'[p].seen = proc[p].seen
            /\ proc'[p].remembered = GrantedAssignments(proc[p].user)
        BY <3>2, ProcType DEF LocalInv, Local
      <4>2. proc[p].seen <= version[proc[p].user]
        BY <3>2 DEF SessionInv
      <4> QED BY <3>2, <4>1, <4>2 DEF Remembered, GrantedAssignments
    <3> QED BY <1>2, <2>2, <3>1, <3>2, LoginsAfter
  <2> QED BY <2>1, <2>2
<1> QED BY <1>1, <1>2 DEF SessionInv

\* The invariant behind both theorems about sessions.
LEMMA SessionsSound == Spec => [](TypeInv /\ SessionInv)
<1>1. Init => TypeInv /\ SessionInv
  BY TypeInit, SessionInit
<1>2. TypeInv /\ SessionInv /\ [Next]_vars => (TypeInv /\ SessionInv)'
  BY TypeStep, SessionStep
<1> QED BY <1>1, <1>2, PTL DEF Spec

\* Although a sign-in reads the version and the roles in two queries, no session
\* that is honoured remembers an assignment that has been revoked.
THEOREM SessionRolesStayCurrent == Spec => []SessionRolesCurrent
<1>1. TypeInv /\ SessionInv => SessionRolesCurrent
  BY DEF SessionInv, Remembered, SessionRolesCurrent, Live
<1> QED BY <1>1, SessionsSound, PTL

\* A session that was cut off is never honoured again.
THEOREM CutOffForGood == Spec => SessionsStayDead
<1> DEFINE Dead == \A s \in sessions : ~Live(s) => s \notin sessions' \/ ~Live(s)'
<1>1. TypeInv /\ SessionInv /\ [Next]_vars => Dead
  <2> SUFFICES ASSUME TypeInv, SessionInv, [Next]_vars, NEW s \in sessions, ~Live(s)
               PROVE  ~Live(s)'
    OBVIOUS
  <2>2. s.user \in Users /\ s.version \in Nat /\ s.version <= version[s.user]
    BY DEF SessionInv, Remembered, TypeInv, TypeOK, Session
  <2>3. version[s.user] <= version'[s.user] /\ version[s.user] \in Nat /\ version'[s.user] \in Nat
    BY <2>2, VersionAfter
  <2>4. CASE s.version # version[s.user]
    BY <2>2, <2>3, <2>4 DEF Live
  <2>5. CASE s.user \in blocked /\ s.user \in blocked'
    BY <2>5 DEF Live
  <2>6. CASE s.user \in blocked /\ s.user \notin blocked'
    <3>1. CutOff(s.user)
      BY <2>2, <2>6, StatusAfter
    <3>2. version[s.user] < version'[s.user]
      BY <2>2, <3>1, CutOffAdvances
    <3> QED BY <2>2, <2>3, <3>2 DEF Live
  <2> QED BY <2>4, <2>5, <2>6 DEF Live
<1> QED BY <1>1, SessionsSound, PTL DEF Spec, SessionsStayDead

-----------------------------------------------------------------------------
(* With the chat *)

\* What the chat does moves requests of access administration the way they move
\* by themselves, or starts one.
LEMMA ChatMoves ==
  ASSUME [ChatNext]_<<vars, chatVars>>
  PROVE  [Next]_vars \/ \E p \in Procs : Execute(p)
<1>1. CASE UNCHANGED <<vars, chatVars>>
  BY <1>1
<1>2. CASE \E p \in Procs : Administration(p)
  BY <1>2 DEF Administration, Next
<1>3. CASE Lapse
  BY <1>3 DEF Next
<1>4. CASE Ask \/ ReadImpact \/ ReadRow \/ ReadResource \/ Propose
         \/ Confirm \/ Resolve \/ Claim \/ Die
  BY <1>4 DEF Ask, ReadImpact, ReadRow, ReadResource, Propose, Confirm, Resolve, Claim, Die
<1> QED BY <1>1, <1>2, <1>3, <1>4 DEF ChatNext, ChatStep

\* Commands say whom they are about, and a resolved one what it takes away.
CommandSound(c) ==
  /\ c \in Command
  /\ AboutUser(c.kind) => c.user \in Users
  /\ c.kind \in {"revoke", "change"} => c.target \in Assignment /\ c.user = c.target.user
  /\ c.kind = "change" => c.target.role \in ProjectRoles
  /\ c.kind \in {"change", "activate", "deactivate"} => c.role \in ProjectRoles

\* The row of a user, as it was read, tells the version, and the user was touched
\* no more often than then while that version lasts.
RowSound(c, row, times) ==
  IF AboutUser(c.kind)
  THEN /\ row[2] \in Nat
       /\ row[2] <= version[c.user]
       /\ row[2] = version[c.user] => times = touched[c.user]
  ELSE times = 0

Confirming == {"resolve", "compare", "claim", "execute", "carried"}

Shape(l) ==
  l = [pc |-> l.pc, command |-> l.command, auth |-> l.auth, impact |-> l.impact,
       print |-> l.print, touched |-> l.touched, key |-> l.key, carrier |-> l.carrier]

CardShape(c) == c = [status |-> c.status, auth |-> c.auth, print |-> c.print, touched |-> c.touched]

\* Rows that are equal were read when the user had been touched as often: a
\* confirmation compares them when that may be long past.
EqualRows ==
  chat.pc = "compare" /\ chat.print = cards[chat.key].print[1] =>
    chat.touched = cards[chat.key].touched

\* What the request of the chat is about, and what it holds.
ChatSound ==
  /\ Shape(chat)
  /\ chat.pc # "silent" => CommandSound(chat.command)
  /\ chat.pc = "assignments" => RowSound(chat.command, chat.print, chat.touched)
  /\ chat.pc = "propose" => RowSound(chat.command, chat.print[1], chat.touched)
  /\ EqualRows
  /\ chat.pc \in Confirming => chat.key \in DOMAIN cards /\ chat.command = chat.key[1]

CardsSound ==
  /\ cards = [k \in DOMAIN cards |-> cards[k]]
  /\ \A k \in DOMAIN cards :
       /\ CardShape(cards[k])
       /\ CommandSound(k[1])
       /\ RowSound(k[1], cards[k].print[1], cards[k].touched)

ChatInv == TypeInv /\ ChatSound /\ CardsSound /\ ClaimedUntouched

\* An assignment is added by a request that cuts off its user.
LEMMA AssignmentsAdded ==
  ASSUME TypeInv, [Next]_vars, NEW a \in assigned', a \notin assigned
  PROVE  a.user \in Users /\ CutOff(a.user)
<1>1. ASSUME NEW p \in Procs, proc[p].pc = "guarded", proc[p].kind \in {"assign", "change"}
      PROVE  proc[p].user \in Users
  BY <1>1, ProcType DEF LocalInv
<1>2. ASSUME NEW p \in Procs, AssignRole(p) PROVE a.user \in Users /\ CutOff(a.user)
  <2>1. a = NewAssignment(proc[p].user, proc[p].role, proc[p].temporary) /\ CutOff(proc[p].user)
    BY <1>2 DEF AssignRole
  <2> QED BY <1>1, <1>2, <2>1 DEF AssignRole, NewAssignment
<1>3. ASSUME NEW p \in Procs, ChangeProjectRole(p) PROVE a.user \in Users /\ CutOff(a.user)
  <2>1. a = NewAssignment(proc[p].user, proc[p].role, FALSE) /\ CutOff(proc[p].user)
    BY <1>3 DEF ChangeProjectRole
  <2> QED BY <1>1, <1>3, <2>1 DEF ChangeProjectRole, NewAssignment
<1>4. ASSUME NEW p \in Procs, Step(p), ~AssignRole(p), ~ChangeProjectRole(p)
      PROVE  assigned' \subseteq assigned
  BY <1>4, OnlyCommitsWrite
  DEF Step, SetUserStatus, RevokeAssignment, SetRoleStatus, SetProjectMembership,
      CreateSession, accessVars
<1>5. ASSUME Lapse \/ UNCHANGED vars PROVE assigned' = assigned
  BY <1>5 DEF Lapse, vars
<1> QED BY <1>2, <1>3, <1>4, <1>5 DEF Next

\* Whoever's access a step touches has their version advanced by it.
LEMMA TouchedAdvances ==
  ASSUME TypeInv, NEW p \in Procs, Administration(p), NEW u \in Users
  PROVE  touched'[u] = touched[u] \/ version[u] < version'[u]
<1>1. [Next]_vars
  BY DEF Administration, Next
<1>2. CASE \E a \in assigned : a.user = u /\ a \notin assigned'
  BY <1>1, <1>2, AssignmentsAfter, CutOffAdvances
<1>3. CASE \E a \in assigned' : a.user = u /\ a \notin assigned
  BY <1>1, <1>3, AssignmentsAdded, CutOffAdvances
<1>4. CASE (u \in blocked) # (u \in blocked')
  BY <1>1, <1>4, StatusAfter, CutOffAdvances
<1>5. CASE /\ \A a \in assigned : a.user = u => a \in assigned'
           /\ \A a \in assigned' : a.user = u => a \in assigned
           /\ (u \in blocked) = (u \in blocked')
  <2>1. {a \in assigned' : a.user = u} = {a \in assigned : a.user = u}
    BY <1>5
  <2> QED BY <1>5, <2>1 DEF Administration
<1> QED BY <1>2, <1>3, <1>4, <1>5

\* A step of access administration keeps the rows that were read sound.
LEMMA RowsAfter ==
  ASSUME TypeInv, NEW p \in Procs, Administration(p), NEW c, CommandSound(c), NEW row, NEW times,
         RowSound(c, row, times)
  PROVE  RowSound(c, row, times)'
<1>1. CASE ~AboutUser(c.kind)
  BY <1>1 DEF RowSound
<1>2. CASE AboutUser(c.kind)
  <2>1. c.user \in Users
    BY <1>2 DEF CommandSound
  <2>2. version[c.user] <= version'[c.user] /\ version[c.user] \in Nat /\ version'[c.user] \in Nat
    BY <2>1, VersionAfter DEF Administration, Next
  <2>3. touched'[c.user] = touched[c.user] \/ version[c.user] < version'[c.user]
    BY <2>1, TouchedAdvances
  <2> QED BY <1>2, <2>2, <2>3 DEF RowSound
<1> QED BY <1>1, <1>2

\* The row of the moment is sound.
LEMMA RowTaken ==
  ASSUME TypeInv, NEW c, CommandSound(c)
  PROVE  RowSound(c, Row(c), TimesTouched(c))
<1>1. CASE AboutUser(c.kind)
  <2>1. Row(c)[2] = version[c.user]
    BY <1>1 DEF Row
  <2>2. version[c.user] \in Nat
    BY <1>1 DEF CommandSound, TypeInv, TypeOK
  <2> QED BY <1>1, <2>1, <2>2 DEF RowSound, TimesTouched
<1> QED BY <1>1 DEF RowSound, TimesTouched

\* What a request of the chat starts is well formed.
LEMMA ExecuteType ==
  ASSUME TypeInv, ChatSound, NEW p \in Procs, Execute(p)
  PROVE  TypeInv'
<1>1. CASE UNCHANGED proc
  BY <1>1 DEF Execute, accessVars, TypeInv, TypeOK
<1> DEFINE c == chat.command
           l == [Idle EXCEPT !.pc = "begun", !.kind = c.kind, !.actor = c.actor,
                             !.user = c.user, !.role = c.role, !.target = c.target]
<1>2. CASE Set(p, l)
  <2>1. CommandSound(c)
    BY DEF ChatSound, Execute
  <2>2. LocalInv(l)
    BY <2>1 DEF CommandSound, Command, AboutUser, RoleKinds, LocalInv, Local, Idle, RequestSound,
                AllKinds
  <2> HIDE DEF l
  <2>3. /\ proc' \in [Procs -> Local]
        /\ \A q \in Procs : proc'[q].pc # "idle" => proc'[q].kind \in {"deactivate", "activate"} \/ proc'[q].user \in Users
        /\ \A q \in Procs : RequestSound(proc'[q])
    BY <1>2, <2>2, SetType
  <2> QED BY <2>3 DEF Execute, accessVars, TypeInv, TypeOK
<1> QED BY <1>1, <1>2 DEF Execute

\* At first nothing was said.
LEMMA ChatInitSound == Init /\ ChatInit => ChatInv
<1> SUFFICES ASSUME Init, ChatInit PROVE ChatInv
  OBVIOUS
<1>1. DOMAIN cards = {}
  BY DEF ChatInit
<1>2. cards = [k \in DOMAIN cards |-> cards[k]]
  BY DEF ChatInit
<1>3. ChatSound /\ ClaimedUntouched
  BY DEF ChatInit, Silent, ChatSound, EqualRows, Shape, Confirming, ClaimedUntouched
<1> QED BY <1>1, <1>2, <1>3, TypeInit DEF ChatInv, CardsSound

\* Nothing that fingerprints speak of has changed.
Still == UNCHANGED <<vars, touched>>

LEMMA StillSound ==
  ASSUME Still, NEW c, NEW row, NEW times, RowSound(c, row, times)
  PROVE  RowSound(c, row, times)'
  BY DEF Still, vars, RowSound

LEMMA StillTyped ==
  ASSUME TypeInv, Still
  PROVE  TypeInv'
<1>1. [Next]_vars
  BY DEF Still
<1> QED BY <1>1, TypeStep

LEMMA CardsStill ==
  ASSUME CardsSound, Still, cards' = cards
  PROVE  CardsSound'
  BY StillSound DEF CardsSound

\* A request of the chat that ends leaves the rest sound.
LEMMA SaidNothing ==
  ASSUME Say(Silent)
  PROVE  ChatSound' /\ ClaimedUntouched'
  BY DEF Say, Silent, ChatSound, EqualRows, Shape, Confirming, ClaimedUntouched

\* What the words of a message come to names whom it is about.
LEMMA CommandResolved ==
  ASSUME TypeInv, NEW said \in Said, said.kind = "change" => said.role \in ProjectRoles,
         NEW c \in Resolved(said)
  PROVE  CommandSound(c)
<1>1. said \in Command
  BY RequestAssumption DEF Said, Command, Memberships, RoleKinds, Roles, AllKinds, ProjectRoles
<1>2. /\ said.kind \notin {"activate", "deactivate"} => said.user \in Users
      /\ said.kind \in {"activate", "deactivate"} => said.role \in ProjectRoles
  BY DEF Said, Memberships, RoleKinds
<1>3. CASE said.kind \in {"revoke", "change"}
  <2>1. PICK a \in Matching(said) : c = [said EXCEPT !.target = a]
    BY <1>3 DEF Resolved
  <2>2. a \in Assignment /\ a.user = said.user
    BY <2>1 DEF Matching, TypeInv, TypeOK
  <2>3. said.kind = "change" => a.role \in ProjectRoles
    BY <2>1 DEF Matching
  <2>4. /\ c.kind = said.kind /\ c.user = said.user /\ c.role = said.role /\ c.target = a
        /\ c \in Command
    BY <1>1, <2>1, <2>2 DEF Command
  <2> QED BY <1>2, <1>3, <2>2, <2>3, <2>4 DEF CommandSound
<1>4. CASE said.kind \notin {"revoke", "change"}
  <2>1. c = said
    BY <1>4 DEF Resolved
  <2> QED BY <1>1, <1>2, <1>4, <2>1 DEF CommandSound, AboutUser, RoleKinds
<1> QED BY <1>3, <1>4

\* Preparing a proposal keeps all of it sound.
LEMMA PreparedSound ==
  ASSUME ChatInv, Ask \/ ReadImpact \/ ReadResource \/ Propose
  PROVE  ChatInv'
<1>0. TypeInv /\ ChatSound /\ CardsSound /\ ClaimedUntouched /\ Shape(chat)
  BY DEF ChatInv, ChatSound
<1>1. Still /\ TypeInv'
  <2>1. Still
    BY DEF Ask, ReadImpact, ReadResource, Propose, Still
  <2> QED BY <1>0, <2>1, StillTyped
<1>2. CASE Ask
  <2>1. PICK said \in Said :
          /\ said.kind = "change" => said.role \in ProjectRoles
          /\ \E c \in Resolved(said) :
               Say([Silent EXCEPT !.pc = "impact", !.command = c, !.auth = version[c.actor]])
    BY <1>2 DEF Ask
  <2>2. PICK c \in Resolved(said) :
          Say([Silent EXCEPT !.pc = "impact", !.command = c, !.auth = version[c.actor]])
    BY <2>1
  <2>3. CommandSound(c)
    BY <1>0, <2>1, <2>2, CommandResolved
  <2>4. chat'.pc = "impact" /\ chat'.command = c /\ Shape(chat')
    BY <2>2 DEF Say, Silent, Shape
  <2>5. ChatSound' /\ ClaimedUntouched'
    BY <2>3, <2>4 DEF ChatSound, EqualRows, Shape, Confirming, ClaimedUntouched, CommandSound
  <2> QED BY <1>0, <1>1, <1>2, <2>5, CardsStill DEF ChatInv, Ask
<1>3. CASE ReadImpact
  <2>1. CommandSound(chat.command)
    BY <1>0, <1>3 DEF ReadImpact, ChatSound
  <2>2. ASSUME NEW impact, Say([chat EXCEPT !.pc = "resource", !.impact = impact])
        PROVE  ChatSound' /\ ClaimedUntouched'
    <3>1. chat'.pc = "resource" /\ chat'.command = chat.command /\ Shape(chat')
      BY <1>0, <2>2 DEF Say, Shape
    <3> QED BY <2>1, <3>1 DEF ChatSound, EqualRows, Shape, Confirming, ClaimedUntouched, CommandSound
  <2>3. ChatSound' /\ ClaimedUntouched'
    BY <1>3, <2>2, SaidNothing DEF ReadImpact
  <2> QED BY <1>0, <1>1, <1>3, <2>3, CardsStill DEF ChatInv, ReadImpact
<1>4. CASE ReadResource
  <2>1. CommandSound(chat.command) /\ RowSound(chat.command, chat.print, chat.touched)
    BY <1>0, <1>4 DEF ReadResource, ChatSound
  <2>2. PICK c, row, times : c = chat.command /\ row = chat.print /\ times = chat.touched
    OBVIOUS
  <2>3. RowSound(c, row, times)'
    BY <1>1, <2>1, <2>2, StillSound
  <2>4. /\ chat'.pc = "propose" /\ chat'.command = c /\ Shape(chat')
        /\ chat'.print = Fingerprint(c, row) /\ chat'.touched = times
    BY <1>0, <1>4, <2>2 DEF ReadResource, Say, Shape
  <2>5. chat'.print[1] = row
    BY <2>4 DEF Fingerprint
  <2>6. RowSound(chat.command, chat.print[1], chat.touched)'
    BY <2>3, <2>4, <2>5 DEF RowSound
  <2>7. ChatSound' /\ ClaimedUntouched'
    BY <2>1, <2>2, <2>4, <2>6
    DEF ChatSound, EqualRows, Shape, Confirming, ClaimedUntouched, CommandSound
  <2> QED BY <1>0, <1>1, <1>4, <2>7, CardsStill DEF ChatInv, ReadResource
<1>5. CASE Propose
  <2>1. ChatSound' /\ ClaimedUntouched'
    BY <1>5, SaidNothing DEF Propose
  <2>2. CardsSound'
    <3>1. CASE cards' = cards
      BY <1>0, <1>1, <3>1, CardsStill
    <3>2. CASE cards' # cards
      <4> DEFINE new == [status |-> "PROPOSED", auth |-> chat.auth, print |-> chat.print,
                         touched |-> chat.touched]
      <4>1. cards' = [k \in DOMAIN cards \cup {Key} |-> IF k = Key THEN new ELSE cards[k]]
        BY <1>5, <3>2 DEF Propose
      <4>2. CommandSound(chat.command) /\ RowSound(chat.command, chat.print[1], chat.touched)
        BY <1>0, <1>5 DEF Propose, ChatSound
      <4>3. Key[1] = chat.command /\ CardShape(new) /\ new.print = chat.print /\ new.touched = chat.touched
        BY DEF Key, CardShape
      <4> HIDE DEF new
      <4>4. ASSUME NEW k \in DOMAIN cards'
            PROVE  /\ CardShape(cards'[k]) /\ CommandSound(k[1])
                   /\ RowSound(k[1], cards'[k].print[1], cards'[k].touched)
        BY <1>0, <4>1, <4>2, <4>3 DEF CardsSound
      <4>5. cards' = [k \in DOMAIN cards' |-> cards'[k]]
        BY <4>1
      <4>6. ASSUME NEW k \in DOMAIN cards'
            PROVE  RowSound(k[1], cards[k].print[1], cards[k].touched)'
        BY <1>1, <4>4 DEF RowSound, Still, vars
      <4> QED BY <4>4, <4>5, <4>6 DEF CardsSound, CardShape, CommandSound
    <3> QED BY <3>1, <3>2
  <2> QED BY <1>1, <2>1, <2>2 DEF ChatInv
<1> QED BY <1>2, <1>3, <1>4, <1>5

\* The rest of a card stays when its status changes.
LEMMA StatusSound ==
  ASSUME CardsSound, NEW key \in DOMAIN cards, NEW status, Status(key, status)
  PROVE  /\ DOMAIN cards' = DOMAIN cards
         /\ cards'[key].touched = cards[key].touched
         /\ Still => CardsSound'
<1>1. /\ DOMAIN cards' = DOMAIN cards
      /\ cards' = [k \in DOMAIN cards' |-> cards'[k]]
      /\ cards'[key] = [cards[key] EXCEPT !.status = status]
      /\ \A k \in DOMAIN cards : k # key => cards'[k] = cards[k]
  BY DEF Status, CardsSound
<1>2. /\ CardShape(cards'[key])
      /\ cards'[key].print = cards[key].print /\ cards'[key].touched = cards[key].touched
  BY <1>1 DEF CardsSound, CardShape
<1>3. ASSUME NEW k \in DOMAIN cards
      PROVE  /\ CardShape(cards'[k]) /\ cards'[k].print = cards[k].print
             /\ cards'[k].touched = cards[k].touched /\ CommandSound(k[1])
             /\ RowSound(k[1], cards[k].print[1], cards[k].touched)
  BY <1>1, <1>2 DEF CardsSound
<1>4. ASSUME Still, NEW k \in DOMAIN cards PROVE RowSound(k[1], cards[k].print[1], cards[k].touched)'
  BY <1>3, <1>4 DEF Still, vars, RowSound
<1> QED BY <1>1, <1>2, <1>3, <1>4 DEF CardsSound, CardShape, CommandSound

\* Reading the row, for the card or for the confirmation, keeps all of it sound: a
\* row equal to that of the card is the row of the present version.
LEMMA RowReadSound ==
  ASSUME ChatInv, ReadRow
  PROVE  ChatInv'
<1>0. TypeInv /\ ChatSound /\ CardsSound /\ ClaimedUntouched /\ Shape(chat)
  BY DEF ChatInv, ChatSound
<1>1. Still /\ TypeInv' /\ cards' = cards
  <2>1. Still
    BY DEF ReadRow, Still
  <2> QED BY <1>0, <2>1, StillTyped DEF ReadRow
<1>2. CommandSound(chat.command)
  BY <1>0 DEF ReadRow, ChatSound
<1>3. PICK c, row, times : c = chat.command /\ row = Row(chat.command) /\ times = TimesTouched(chat.command)
  OBVIOUS
<1>4. RowSound(c, row, times) /\ RowSound(c, row, times)'
  BY <1>0, <1>1, <1>2, <1>3, RowTaken, StillSound
<1>5. /\ chat'.pc = (IF chat.pc = "resource" THEN "assignments" ELSE "compare")
      /\ chat'.command = c /\ chat'.key = chat.key /\ Shape(chat')
      /\ chat'.print = row /\ chat'.touched = times
  BY <1>0, <1>3 DEF ReadRow, Say, Shape
<1>6. CASE chat.pc = "resource"
  <2>1. RowSound(chat.command, chat.print, chat.touched)'
    BY <1>4, <1>5 DEF RowSound
  <2>2. ChatSound' /\ ClaimedUntouched'
    BY <1>2, <1>3, <1>5, <1>6, <2>1
    DEF ChatSound, EqualRows, Shape, Confirming, ClaimedUntouched, CommandSound
  <2> QED BY <1>0, <1>1, <2>2, CardsStill DEF ChatInv
<1>7. CASE chat.pc = "resolve"
  <2>1. chat.key \in DOMAIN cards /\ chat.command = chat.key[1]
    BY <1>0, <1>7 DEF ChatSound, Confirming
  <2>2. RowSound(c, cards[chat.key].print[1], cards[chat.key].touched)
    BY <1>0, <1>3, <2>1 DEF CardsSound
  <2>3. row = cards[chat.key].print[1] => times = cards[chat.key].touched
    <3>1. AboutUser(c.kind) => row[2] = version[c.user]
      BY <1>3 DEF Row
    <3> QED BY <1>3, <2>2, <3>1 DEF RowSound, TimesTouched
  <2>4. ChatSound' /\ ClaimedUntouched'
    BY <1>1, <1>2, <1>3, <1>5, <1>7, <2>1, <2>3
    DEF ChatSound, EqualRows, Shape, Confirming, ClaimedUntouched, CommandSound
  <2> QED BY <1>0, <1>1, <2>4, CardsStill DEF ChatInv
<1> QED BY <1>6, <1>7 DEF ReadRow

\* Only an equal fingerprint, its row read when the user was touched as often, lets
\* a confirmation go on.
LEMMA ConfirmedSound ==
  ASSUME ChatInv, Confirm \/ Resolve \/ Claim
  PROVE  ChatInv'
<1>0. TypeInv /\ ChatSound /\ CardsSound /\ ClaimedUntouched /\ Shape(chat)
  BY DEF ChatInv, ChatSound
<1>1. Still /\ TypeInv'
  <2>1. Still
    BY DEF Confirm, Resolve, Claim, Still
  <2> QED BY <1>0, <2>1, StillTyped
<1>2. CASE Confirm
  <2>1. PICK k \in DOMAIN cards : Say([Silent EXCEPT !.pc = "resolve", !.command = k[1], !.key = k])
    BY <1>2 DEF Confirm
  <2>2. chat'.pc = "resolve" /\ chat'.command = k[1] /\ chat'.key = k /\ Shape(chat')
    BY <2>1 DEF Say, Silent, Shape
  <2>3. CommandSound(k[1]) /\ cards' = cards
    BY <1>0, <1>2 DEF CardsSound, Confirm
  <2>4. ChatSound' /\ ClaimedUntouched'
    BY <2>2, <2>3 DEF ChatSound, EqualRows, Shape, Confirming, ClaimedUntouched, CommandSound
  <2> QED BY <1>0, <1>1, <2>3, <2>4, CardsStill DEF ChatInv
<1>3. CASE Resolve
  <2>1. /\ CommandSound(chat.command) /\ chat.key \in DOMAIN cards /\ chat.command = chat.key[1]
        /\ cards' = cards
    BY <1>0, <1>3 DEF Resolve, ChatSound, Confirming
  <2>2. CASE Fingerprint(chat.command, chat.print) = cards[chat.key].print
    <3>1. chat.print = cards[chat.key].print[1]
      BY <2>2 DEF Fingerprint
    <3>2. chat.touched = cards[chat.key].touched
      BY <1>0, <1>3, <3>1 DEF Resolve, ChatSound, EqualRows
    <3>3. /\ chat'.pc = "claim" /\ chat'.command = chat.command /\ chat'.key = chat.key
          /\ chat'.touched = chat.touched /\ Shape(chat')
      BY <1>0, <1>3, <2>2 DEF Resolve, Say, Shape
    <3>4. ChatSound' /\ ClaimedUntouched'
      BY <2>1, <3>2, <3>3
      DEF ChatSound, EqualRows, Shape, Confirming, ClaimedUntouched, CommandSound
    <3> QED BY <1>0, <1>1, <2>1, <3>4, CardsStill DEF ChatInv
  <2>3. CASE Fingerprint(chat.command, chat.print) # cards[chat.key].print
    <3>1. ChatSound' /\ ClaimedUntouched'
      BY <1>3, <2>3, SaidNothing DEF Resolve
    <3> QED BY <1>0, <1>1, <2>1, <3>1, CardsStill DEF ChatInv
  <2> QED BY <2>2, <2>3
<1>4. CASE Claim
  <2>1. /\ CommandSound(chat.command) /\ chat.key \in DOMAIN cards /\ chat.command = chat.key[1]
        /\ chat.touched = cards[chat.key].touched
    BY <1>0, <1>4 DEF Claim, ChatSound, Confirming, ClaimedUntouched
  <2>2. /\ chat'.pc = "execute" /\ chat'.command = chat.command /\ chat'.key = chat.key
        /\ chat'.touched = chat.touched /\ Shape(chat')
    BY <1>0, <1>4 DEF Claim, Say, Shape
  <2>3. /\ DOMAIN cards' = DOMAIN cards /\ cards'[chat.key].touched = cards[chat.key].touched
        /\ CardsSound'
    BY <1>0, <1>1, <1>4, <2>1, StatusSound DEF Claim
  <2>4. ChatSound' /\ ClaimedUntouched'
    BY <2>1, <2>2, <2>3 DEF ChatSound, EqualRows, Shape, Confirming, ClaimedUntouched, CommandSound
  <2> QED BY <1>1, <2>3, <2>4 DEF ChatInv
<1> QED BY <1>2, <1>3, <1>4

\* Nothing the chat holds is lost while it is carried out.
LEMMA CarriedSound ==
  ASSUME ChatInv, NEW p \in Procs, Execute(p)
  PROVE  ChatInv'
<1>0. TypeInv /\ ChatSound /\ CardsSound /\ ClaimedUntouched /\ Shape(chat)
  BY DEF ChatInv, ChatSound
<1>1. TypeInv'
  BY <1>0, ExecuteType
<1>2. UNCHANGED <<blocked, version, assigned, lapsed, inactive, members, touched>>
  BY DEF Execute, accessVars
<1>3. /\ CommandSound(chat.command) /\ chat.key \in DOMAIN cards /\ chat.command = chat.key[1]
      /\ chat.touched = cards[chat.key].touched
  BY <1>0 DEF Execute, ChatSound, Confirming, ClaimedUntouched
<1>4. CASE Status(chat.key, "SUCCEEDED") /\ Say(Silent)
  <2>1. CardsSound'
    <3>1. ASSUME NEW k \in DOMAIN cards'
          PROVE  /\ CardShape(cards'[k]) /\ CommandSound(k[1])
                 /\ RowSound(k[1], cards'[k].print[1], cards'[k].touched)
      BY <1>0, <1>4 DEF CardsSound, CardShape, Status
    <3>2. ASSUME NEW k \in DOMAIN cards' PROVE RowSound(k[1], cards[k].print[1], cards[k].touched)'
      BY <1>2, <3>1 DEF RowSound
    <3>3. cards' = [k \in DOMAIN cards' |-> cards'[k]]
      BY <1>4 DEF Status
    <3> QED BY <3>1, <3>2, <3>3 DEF CardsSound, CardShape, CommandSound
  <2> QED BY <1>1, <1>4, <2>1, SaidNothing DEF ChatInv
<1>5. CASE Say([chat EXCEPT !.pc = "carried", !.carrier = p]) /\ UNCHANGED cards
  <2>1. /\ chat'.pc = "carried" /\ chat'.command = chat.command /\ chat'.key = chat.key
        /\ chat'.touched = chat.touched /\ Shape(chat')
    BY <1>0, <1>5 DEF Say, Shape
  <2>2. ChatSound' /\ ClaimedUntouched'
    BY <1>3, <1>5, <2>1 DEF ChatSound, EqualRows, Shape, Confirming, ClaimedUntouched, CommandSound
  <2>3. CardsSound'
    <3>1. ASSUME NEW k \in DOMAIN cards PROVE RowSound(k[1], cards[k].print[1], cards[k].touched)'
      BY <1>0, <1>2, <1>5 DEF CardsSound, RowSound
    <3> QED BY <1>0, <1>5, <3>1 DEF CardsSound, CardShape, CommandSound
  <2> QED BY <1>1, <2>2, <2>3 DEF ChatInv
<1> QED BY <1>4, <1>5 DEF Execute

\* Whatever administration does meanwhile advances the versions of those it
\* touches.
LEMMA MeanwhileSound ==
  ASSUME ChatInv, NEW p \in Procs, Administration(p)
  PROVE  ChatInv'
<1>0. TypeInv /\ ChatSound /\ CardsSound /\ ClaimedUntouched /\ Shape(chat)
  BY DEF ChatInv, ChatSound
<1>1. TypeInv'
  BY <1>0, TypeStep DEF Administration, Next
<1>2. ASSUME NEW k \in DOMAIN cards, cards' = cards
      PROVE  RowSound(k[1], cards[k].print[1], cards[k].touched)'
  <2>1. PICK c, row, times : c = k[1] /\ row = cards[k].print[1] /\ times = cards[k].touched
    OBVIOUS
  <2>2. CommandSound(c) /\ RowSound(c, row, times)
    BY <1>0, <2>1 DEF CardsSound
  <2>3. RowSound(c, row, times)'
    BY <1>0, <2>2, RowsAfter
  <2> QED BY <1>2, <2>1, <2>3 DEF RowSound
<1>3. CASE UNCHANGED <<chat, cards>>
  <2>1. CardsSound'
    BY <1>0, <1>2, <1>3 DEF CardsSound, CardShape, CommandSound
  <2>2. ASSUME NEW row, CommandSound(chat.command), RowSound(chat.command, row, chat.touched)
        PROVE  RowSound(chat.command, row, chat.touched)'
    <3>1. PICK c, times : c = chat.command /\ times = chat.touched
      OBVIOUS
    <3>2. RowSound(c, row, times)'
      BY <1>0, <2>2, <3>1, RowsAfter
    <3> QED BY <1>3, <3>1, <3>2 DEF RowSound
  <2>3. ChatSound' /\ ClaimedUntouched'
    BY <1>0, <1>3, <2>2 DEF ChatSound, EqualRows, ClaimedUntouched, Shape, CommandSound, Confirming
  <2> QED BY <1>1, <2>1, <2>3 DEF ChatInv
<1>4. CASE chat.pc = "carried" /\ Say(Silent) /\ \E status : Status(chat.key, status)
  <2>1. PICK status : Status(chat.key, status)
    BY <1>4
  <2>2. cards' = [cards EXCEPT ![chat.key].status = status]
    BY <2>1 DEF Status
  <2>3. ASSUME NEW k \in DOMAIN cards
        PROVE  /\ CardShape(cards'[k]) /\ cards'[k].print = cards[k].print
               /\ cards'[k].touched = cards[k].touched /\ CommandSound(k[1])
               /\ RowSound(k[1], cards[k].print[1], cards[k].touched)
    BY <1>0, <2>2 DEF CardsSound, CardShape
  <2>4. ASSUME NEW k \in DOMAIN cards PROVE RowSound(k[1], cards[k].print[1], cards[k].touched)'
    <3>1. PICK c, row, times : c = k[1] /\ row = cards[k].print[1] /\ times = cards[k].touched
      OBVIOUS
    <3>2. CommandSound(c) /\ RowSound(c, row, times)
      BY <2>3, <3>1
    <3>3. RowSound(c, row, times)'
      BY <1>0, <3>2, RowsAfter
    <3> QED BY <2>3, <3>1, <3>3 DEF RowSound
  <2>5. CardsSound'
    <3>1. DOMAIN cards' = DOMAIN cards /\ cards' = [k \in DOMAIN cards' |-> cards'[k]]
      BY <1>0, <2>2 DEF CardsSound
    <3> QED BY <2>3, <2>4, <3>1 DEF CardsSound, CardShape, CommandSound
  <2> QED BY <1>1, <1>4, <2>5, SaidNothing DEF ChatInv
<1> QED BY <1>3, <1>4 DEF Administration

\* Every step of the chat and of the pages beside it keeps all of it sound.
LEMMA ChatStepSound ==
  ASSUME ChatInv, [ChatNext]_<<vars, chatVars>>
  PROVE  ChatInv'
<1>1. ASSUME Still, chat' = chat \/ Say(Silent), cards' = cards PROVE ChatInv'
  <2>1. TypeInv' /\ CardsSound'
    BY <1>1, StillTyped, CardsStill DEF ChatInv
  <2>2. CASE Say(Silent)
    BY <2>1, <2>2, SaidNothing DEF ChatInv
  <2>3. CASE chat' = chat
    <3>1. ChatSound' /\ ClaimedUntouched'
      BY <1>1, <2>3 DEF ChatInv, ChatSound, EqualRows, ClaimedUntouched, Shape, CommandSound, Confirming,
                        RowSound, Still, vars
    <3> QED BY <2>1, <3>1 DEF ChatInv
  <2> QED BY <1>1, <2>2, <2>3
<1>2. CASE UNCHANGED <<vars, chatVars>> \/ Die
  BY <1>1, <1>2 DEF Still, Die, chatVars, vars
<1>3. CASE Lapse /\ UNCHANGED chatVars
  <2>1. TypeInv'
    BY <1>3, TypeStep DEF Next, ChatInv
  <2>2. UNCHANGED <<version, touched, chat, cards>>
    BY <1>3 DEF Lapse, chatVars
  <2>3. ChatSound' /\ CardsSound' /\ ClaimedUntouched'
    BY <2>2 DEF ChatInv, ChatSound, EqualRows, CardsSound, ClaimedUntouched, Shape, CardShape, CommandSound,
                Confirming, RowSound
  <2> QED BY <2>1, <2>3 DEF ChatInv
<1> QED
  BY <1>2, <1>3, PreparedSound, RowReadSound, ConfirmedSound, CarriedSound, MeanwhileSound
  DEF ChatNext, ChatStep

\* The invariant of access administration with the chat.
LEMMA ChatCorrect == ChatSpec => []ChatInv
  BY ChatInitSound, ChatStepSound, PTL DEF ChatSpec

\* A proposal is claimed only if its target's roles and status were not touched
\* between the two readings of the target's row, not even to be restored: every
\* change advances the version that the fingerprint holds, and versions never
\* fall (resolvePrivilegedActionResource, sameResource).
THEOREM ClaimsFindUntouched == ChatSpec => []ClaimedUntouched
<1>1. ChatInv => ClaimedUntouched
  BY DEF ChatInv
<1> QED BY <1>1, ChatCorrect, PTL

\* What the chat starts has passed no guard yet, and is not a sign-in.
LEMMA ExecuteBegins ==
  ASSUME ChatInv, NEW p \in Procs, Execute(p)
  PROVE  /\ UNCHANGED <<blocked, version, assigned, lapsed, inactive, members, sessions>>
         /\ \A q \in Procs : \/ proc'[q] = proc[q]
                             \/ proc'[q].pc = "begun" /\ proc'[q].kind # "login"
<1>1. UNCHANGED <<blocked, version, assigned, lapsed, inactive, members, sessions>>
  BY DEF Execute, accessVars
<1>2. CASE UNCHANGED proc
  BY <1>1, <1>2
<1> DEFINE c == chat.command
           l == [Idle EXCEPT !.pc = "begun", !.kind = c.kind, !.actor = c.actor,
                             !.user = c.user, !.role = c.role, !.target = c.target]
<1>3. CASE Set(p, l)
  <2>1. c.kind # "login"
    BY DEF ChatInv, ChatSound, CommandSound, Command, Execute
  <2>2. l.pc = "begun" /\ l.kind # "login"
    BY <2>1 DEF Idle
  <2> HIDE DEF l
  <2>3. \A q \in Procs : proc'[q] = IF q = p THEN l ELSE proc[q]
    BY <1>3 DEF Set, ChatInv, TypeInv, TypeOK
  <2> QED BY <1>1, <2>2, <2>3
<1> QED BY <1>2, <1>3 DEF Execute

AccessInv == Exclusive /\ AdministratorInv /\ ManagerInv /\ SessionInv

\* What holds of the pages survives the requests that the chat starts.
LEMMA AccessStep ==
  ASSUME ChatInv, AccessInv, [ChatNext]_<<vars, chatVars>>
  PROVE  AccessInv'
<1>0. TypeInv
  BY DEF ChatInv
<1>1. CASE [Next]_vars
  BY <1>0, <1>1, ExclusiveStep, AdministratorStep, ManagerStep, SessionStep DEF AccessInv
<1>2. ASSUME NEW p \in Procs, Execute(p) PROVE AccessInv'
  <2>1. /\ UNCHANGED <<blocked, version, assigned, lapsed, inactive, members, sessions>>
        /\ \A q \in Procs : \/ proc'[q] = proc[q]
                            \/ proc'[q].pc = "begun" /\ proc'[q].kind # "login"
    BY <1>2, ExecuteBegins
  <2>2. Exclusive'
    BY <2>1 DEF AccessInv, Exclusive, LocksOf
  <2>3. AdministratorInv'
    BY <2>1 DEF AccessInv, AdministratorInv, LastAdministratorKept, RemovesAdministrator,
                ActiveAdministrators, RolesOf
  <2>4. ManagerInv'
    BY <2>1 DEF AccessInv, ManagerInv, ManagerSeatKept, RemovesManager, Seats, RolesOf
  <2>5. SessionInv'
    BY <2>1 DEF AccessInv, SessionInv, Remembered
  <2> QED BY <2>2, <2>3, <2>4, <2>5 DEF AccessInv
<1> QED BY <1>1, <1>2, ChatMoves

\* The guarantees of access administration do not depend on how a change is
\* asked for: with the chat, which starts requests by the rights of whoever
\* confirms, an administrator and a manager's seat are kept, and no session that
\* is honoured remembers a revoked role.
THEOREM GuaranteesWithChat ==
  ChatSpec => [](LastAdministratorKept /\ ManagerSeatKept /\ SessionRolesCurrent)
<1>1. Init => AccessInv
  BY ExclusiveInit, AdministratorInit, ManagerInit, SessionInit DEF AccessInv
<1>2. ChatInv /\ AccessInv /\ [ChatNext]_<<vars, chatVars>> => AccessInv'
  BY AccessStep
<1>3. ChatInv /\ AccessInv => LastAdministratorKept /\ ManagerSeatKept /\ SessionRolesCurrent
  BY DEF AccessInv, AdministratorInv, ManagerInv, SessionInv, Remembered, SessionRolesCurrent, Live
<1> QED BY <1>1, <1>2, <1>3, ChatCorrect, PTL DEF ChatSpec
=============================================================================
