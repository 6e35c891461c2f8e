----------------------------- MODULE AccessByChat -----------------------------
(***************************************************************************)
(* Access administration by way of the chat: a message that names a change *)
(* of access is turned into a proposal with a card that shows its impact,  *)
(* and the proposal, once confirmed, is carried out by the same functions  *)
(* the administration pages call (AccessAdmin), which go on meanwhile.     *)
(*                                                                         *)
(* A message is prepared in separate reads: the target among the listed    *)
(* people, the impact for the card, the resource with its fingerprint (the *)
(* person's row first, then the assignments).  A confirmation reads the    *)
(* proposal and the resource, claims the proposal, and starts a request of *)
(* AccessAdmin.  How confirmations of one proposal race is AgentAction's   *)
(* concern: here one request of the chat runs at a time.                   *)
(*                                                                         *)
(* Abstractions: a message is the kind of change and whom or what it names *)
(* (none or several people found is a message that stops); the rows of     *)
(* revoked assignments, which a fingerprint also lists, are left out, as   *)
(* the version tells as much; texts of the card are the facts they state,  *)
(* read at once.                                                           *)
(***************************************************************************)
EXTENDS AccessAdmin

CONSTANT MaxMessages  \* bound: messages that ever name a change of access

VARIABLES
  chat,      \* the request of the chat under way
  cards,     \* rows of agent_action_proposals, by key
  touched,   \* history: how often the access of a user was changed
  messages   \* messages so far

chatVars == <<chat, cards, touched, messages>>

Memberships == {"suspend", "reinstate"}
RoleKinds == {"activate", "deactivate"}
AboutUser(kind) == kind \notin RoleKinds

\* What a message asks for; target: the assignment it was found to be about.
Command == [actor : Users, kind : AllKinds \ {"login"}, user : Users \cup {"nobody"},
            role : Roles, target : Assignment \cup {NoAssignment}]

NoCommand == [actor |-> "nobody", kind |-> "login", user |-> "nobody",
              role |-> "PROJECT_VIEWER", target |-> NoAssignment]

Silent == [pc |-> "silent", command |-> NoCommand, auth |-> 0, impact |-> {},
           print |-> <<>>, touched |-> 0, key |-> <<>>, carrier |-> "nobody"]

Say(l) == chat' = l

ChatInit ==
  /\ chat = Silent
  /\ cards = <<>>
  /\ touched = [u \in Users |-> 0]
  /\ messages = 0

-----------------------------------------------------------------------------
(* Preparing a proposal *)

\* privilegedActionPermission
MayExecute(c) ==
  IF \/ c.kind \in Memberships \cup {"change"}
     \/ c.kind \in {"assign", "revoke"} /\ c.role \in ProjectRoles
  THEN MayManageMembers(c.actor)
  ELSE MayManageUsers(c.actor)

\* resolveParameters asks for a right before it looks anyone up: a revocation needs
\* the right over global roles there, whatever the role.
MayLookUp(c) ==
  IF c.kind \in Memberships \cup {"change"} \/ (c.kind = "assign" /\ c.role \in ProjectRoles)
  THEN MayManageMembers(c.actor)
  ELSE MayManageUsers(c.actor)

\* listProjectMembers or listAccessUsers.
Listed(c) ==
  IF c.kind \in Memberships \cup {"change"} \/ (c.kind = "assign" /\ c.role \in ProjectRoles)
  THEN members
  ELSE Users

\* userAssignments: what a revocation or a change may be about.
Matching(c) ==
  {a \in assigned :
     /\ a.user = c.user
     /\ IF c.kind = "revoke" THEN a.role = c.role ELSE a.role \in ProjectRoles}

\* resolveParameters: the one assignment a command is about, or none is needed.
Resolved(c) ==
  IF c.kind \in {"revoke", "change"}
  THEN {[c EXCEPT !.target = a] : a \in {b \in Matching(c) : Cardinality(Matching(c)) = 1}}
  ELSE {c}

Said ==
  [actor : Users, kind : Kinds \cap (Memberships \cup {"block", "unblock"}), user : Users,
   role : {"PROJECT_VIEWER"}, target : {NoAssignment}]
  \cup [actor : Users, kind : Kinds \cap {"assign", "revoke", "change"}, user : Users,
        role : Assignable, target : {NoAssignment}]
  \cup [actor : Users, kind : Kinds \cap RoleKinds, user : {"nobody"},
        role : Assignable \cap ProjectRoles, target : {NoAssignment}]

\* prepare, up to the parameters; one's own access is not changed by chat.
Ask ==
  /\ chat.pc = "silent"
  /\ messages < MaxMessages
  /\ \E said \in Said :
       /\ said.kind = "change" => said.role \in ProjectRoles
       /\ MayChat(said.actor) /\ MayLookUp(said) /\ said.user # said.actor
       /\ AboutUser(said.kind) => said.user \in Listed(said)
       /\ \E c \in Resolved(said) :
            /\ MayExecute(c)
            /\ Say([Silent EXCEPT !.pc = "impact", !.command = c, !.auth = version[c.actor]])
  /\ messages' = messages + 1
  /\ UNCHANGED <<vars, cards, touched>>

\* prospectiveRoleKeys
Prospective(c) ==
  CASE c.kind = "assign" -> RolesOf(c.user) \cup {c.role}
    [] c.kind = "change" -> (RolesOf(c.user) \ {c.target.role}) \cup {c.role}
    [] c.kind = "revoke" -> RolesOf(c.user) \ {c.role}
    [] OTHER -> RolesOf(c.user)

\* removesRole
Removes(c, role) ==
  \/ c.kind = "block"
  \/ c.kind \in {"revoke", "change"} /\ c.target.role = role
  \/ c.kind = "suspend" /\ role = "PROJECT_MANAGER"

\* isLastRoleHolder, isLastProjectManager
LastAdministrator(u) == ActiveAdministrators = {u}
LastManager(u) == ActiveManagers = {u}

Holders(role) == {a \in assigned : a.role = role}

\* Whether the impact forbids that the action be proposed.
Refused(c) ==
  IF AboutUser(c.kind)
  THEN \/ hasRoleConflict(Prospective(c))
       \/ LastAdministrator(c.user) /\ Removes(c, "SYSTEM_ADMIN")
       \/ LastManager(c.user) /\ Removes(c, "PROJECT_MANAGER")
  ELSE c.kind = "deactivate" /\ Holders(c.role) # {}

\* buildPrivilegedActionImpact: what the card says of the present state.
Impact(c) ==
  IF AboutUser(c.kind)
  THEN {<<"blocked", c.user \in blocked>>, <<"roles", RolesOf(c.user)>>,
        <<"sessions", Cardinality({s \in sessions : s.user = c.user})>>}
  ELSE {<<"inactive", c.role \in inactive>>, <<"holders", Cardinality(Holders(c.role))>>}

ReadImpact ==
  /\ chat.pc = "impact"
  /\ IF Refused(chat.command)
     THEN Say(Silent)
     ELSE Say([chat EXCEPT !.pc = "resource", !.impact = Impact(chat.command)])
  /\ UNCHANGED <<vars, cards, touched, messages>>

TimesTouched(c) == IF AboutUser(c.kind) THEN touched[c.user] ELSE 0

\* Faulty variant: the authorization version is not in the fingerprint.
RowWithoutVersion(c) ==
  IF AboutUser(c.kind) THEN <<c.user \in blocked, 0>>
  ELSE <<c.role \in inactive, Cardinality(Holders(c.role))>>

\* resolvePrivilegedActionResource, the first query: the row of the user or of the role.
\* A member who left is not found; nobody leaves the project here.
Row(c) ==
  IF AboutUser(c.kind) THEN <<c.user \in blocked, version[c.user]>>
  ELSE <<c.role \in inactive, Cardinality(Holders(c.role))>>

ReadRow ==
  /\ chat.pc \in {"resource", "resolve"}
  /\ Say([chat EXCEPT !.pc = IF chat.pc = "resource" THEN "assignments" ELSE "compare",
                      !.print = Row(chat.command), !.touched = TimesTouched(chat.command)])
  /\ UNCHANGED <<vars, cards, touched, messages>>

\* The last query: the assignments of the user; row and assignments are a fingerprint.
\* They may have changed since the row was read.
Fingerprint(c, row) == <<row, {a \in assigned : AboutUser(c.kind) /\ a.user = c.user}>>

ReadResource ==
  /\ chat.pc = "assignments"
  /\ Say([chat EXCEPT !.pc = "propose", !.print = Fingerprint(chat.command, chat.print)])
  /\ UNCHANGED <<vars, cards, touched, messages>>

\* actionIdempotencyKey: the parameters with the impact, but not the fingerprint.
Key == <<chat.command, chat.impact>>

\* propose: the row with that key is the answer, whatever became of it.
Propose ==
  /\ chat.pc = "propose"
  /\ cards' = IF Key \in DOMAIN cards THEN cards
              ELSE [k \in DOMAIN cards \cup {Key} |->
                      IF k = Key
                      THEN [status |-> "PROPOSED", auth |-> chat.auth, print |-> chat.print,
                            touched |-> chat.touched]
                      ELSE cards[k]]
  /\ Say(Silent)
  /\ UNCHANGED <<vars, touched, messages>>

-----------------------------------------------------------------------------
(* Confirming it *)

\* confirm: the session, the row, and what it takes for it to go on.
Confirm ==
  /\ chat.pc = "silent"
  /\ \E k \in DOMAIN cards :
       /\ cards[k].status = "PROPOSED"
       /\ version[k[1].actor] = cards[k].auth
       /\ MayExecute(k[1])
       /\ Say([Silent EXCEPT !.pc = "resolve", !.command = k[1], !.key = k])
  /\ UNCHANGED <<vars, cards, touched, messages>>

\* resolveCurrent, once the row is read, and sameResource.
Resolve ==
  /\ chat.pc = "compare"
  /\ IF Fingerprint(chat.command, chat.print) = cards[chat.key].print
     THEN Say([chat EXCEPT !.pc = "claim"])
     ELSE Say(Silent)
  /\ UNCHANGED <<vars, cards, touched, messages>>

Status(k, status) == cards' = [cards EXCEPT ![k].status = status]

Claim ==
  /\ chat.pc = "claim"
  /\ Status(chat.key, "EXECUTING")
  /\ Say([chat EXCEPT !.pc = "execute"])
  /\ UNCHANGED <<vars, touched, messages>>

\* A change to the role one already has is over before it began.
Vacuous(c) == c.kind = "change" /\ c.role = c.target.role

\* executePrivilegedAction: the function of access administration is called; it goes
\* by the rights of the session that confirmed.
Execute(p) ==
  /\ chat.pc = "execute"
  /\ proc[p].pc = "idle"
  /\ IF Vacuous(chat.command)
     THEN /\ Status(chat.key, "SUCCEEDED")
          /\ Say(Silent)
          /\ UNCHANGED proc
     ELSE /\ Set(p, [Idle EXCEPT !.pc = "begun", !.kind = chat.command.kind,
                                 !.actor = chat.command.actor, !.user = chat.command.user,
                                 !.role = chat.command.role, !.target = chat.command.target])
          /\ Say([chat EXCEPT !.pc = "carried", !.carrier = p])
          /\ UNCHANGED cards
  /\ UNCHANGED <<accessVars, sessions, requests, touched, messages>>

\* The function returned rather than threw: it committed, or had nothing to do.
Returned(l) ==
  \/ version' # version \/ inactive' # inactive
  \/ l.kind \in RoleKinds /\ (l.kind = "deactivate") = (l.role \in inactive)

\* A step of access administration, and what it means to the proposal it carries out.
Administration(p) ==
  /\ Step(p)
  /\ touched' = [u \in Users |->
       IF {a \in assigned' : a.user = u} # {a \in assigned : a.user = u}
          \/ (u \in blocked') # (u \in blocked)
       THEN touched[u] + 1 ELSE touched[u]]
  /\ IF chat.pc = "carried" /\ chat.carrier = p /\ proc'[p].pc = "idle"
     THEN /\ Status(chat.key, IF Returned(proc[p]) THEN "SUCCEEDED" ELSE "FAILED")
          /\ Say(Silent)
     ELSE UNCHANGED <<chat, cards>>
  /\ UNCHANGED messages

\* The request dies; what it started goes on, and a claimed proposal stays claimed.
Die ==
  /\ chat.pc # "silent"
  /\ Say(Silent)
  /\ UNCHANGED <<vars, cards, touched, messages>>

ChatStep ==
  \/ Ask \/ ReadImpact \/ ReadRow \/ ReadResource \/ Propose
  \/ Confirm \/ Resolve \/ Claim
  \/ \E p \in Procs : Execute(p)
  \/ Die

ChatNext ==
  \/ ChatStep
  \/ \E p \in Procs : Administration(p)
  \/ Lapse /\ UNCHANGED chatVars

ChatSpec == Init /\ ChatInit /\ [][ChatNext]_<<vars, chatVars>>

-----------------------------------------------------------------------------
(* Properties *)

\* Nothing that was done to a person's access between the card and its confirmation
\* goes unnoticed, were it only that the person was blocked and unblocked again: a
\* proposal is claimed only if the target's roles and status were not touched at all
\* between the two readings of the target's row, though a fingerprint is put together
\* from rows read one after another (resolvePrivilegedActionResource, sameResource).
\* A fingerprint that is equal because things changed back would not do.
ClaimedUntouched ==
  chat.pc \in {"claim", "execute", "carried"} => chat.touched = cards[chat.key].touched
=============================================================================
