----------------------------- MODULE AgentAction -----------------------------
(***************************************************************************)
(* The actions an agent proposes and their owner confirms: rows of         *)
(* agent_action_proposals, their events in audit_logs, and the requests    *)
(* that propose, confirm and cancel them (AgentActionService over          *)
(* PostgresAgentActionStore and PlatformAgentActionExecutor).              *)
(*                                                                         *)
(* A confirmation is a sequence of separate transactions: the session is   *)
(* read, then the row, then the resource; the row is claimed; the effect   *)
(* takes place in transactions of its own; the outcome is recorded.  Other *)
(* requests, changes of the resource and of the owner's rights fall in     *)
(* between, and the request may die after any of them.                     *)
(*                                                                         *)
(* Abstractions: an action is its idempotency key, which fixes its owner,  *)
(* kind and resource; a resource is its status (a fingerprint of the       *)
(* target's access for the privileged kinds); the owner's rights are the   *)
(* authorization version and whether the required permission is granted.   *)
(* Only the owner's requests appear: getAuthorized finds no row for others.*)
(***************************************************************************)
EXTENDS Integers, Sequences

CONSTANTS
  Procs,      \* requests that may be in flight at once
  Actions,    \* idempotency keys
  Users,      \* owners of actions
  Resources,  \* what actions are about
  States,     \* statuses and fingerprints of resources
  Owner,      \* the user who proposes and confirms an action
  Kind,       \* the kind of an action
  Target,     \* the resource of an action
  MaxVersion  \* bound: authorization versions of an owner

Kinds == {"RUN_SCENARIO", "RETRY_SCENARIO", "CREATE_REVIEW_TASK",
          "PREPARE_DRAFT", "PRIVILEGED"}

ASSUME ActionAssumption ==
  /\ Owner \in [Actions -> Users]
  /\ Kind \in [Actions -> Kinds]
  /\ Target \in [Actions -> Resources]
  /\ Actions # {}
  /\ "AVAILABLE" \in States
  /\ MaxVersion \in Nat

VARIABLES
  rows,     \* the agent_action_proposals rows
  audit,    \* the events of each action in audit_logs, in order
  effects,  \* how often each action has taken effect
  expired,  \* actions whose expires_at has passed
  state,    \* the current status of every resource
  rights,   \* the current rights of every user
  proc      \* local state of every request

vars == <<rows, audit, effects, expired, state, rights, proc>>

-----------------------------------------------------------------------------
(* Rows and local records *)

Statuses == {"ABSENT", "PROPOSED", "EXECUTING", "SUCCEEDED", "FAILED",
             "CANCELLED"}
Final == {"SUCCEEDED", "FAILED", "CANCELLED"}

\* state: the resource's status in the stored descriptor; auth: the owner's
\* authorization version when the action was proposed.
Row == [status : Statuses, version : 0 .. 3, state : States, auth : Nat]
Absent == [status |-> "ABSENT", version |-> 0, state |-> "AVAILABLE",
           auth |-> 0]

Rights == [version : Nat, allowed : BOOLEAN]
Events == {"proposed", "confirmed", "completed", "failed", "cancelled"}
Requests == {"propose", "confirm", "cancel"}

\* Kinds whose execution writes anything; a draft is only a link to a page.
HasEffect(a) == Kind[a] # "PREPARE_DRAFT"

\* Kinds whose effect is committed before the call that makes it can fail:
\* createRun and retry insert the run, then write its audit event.
TwoWrites(a) == Kind[a] \in {"RUN_SCENARIO", "RETRY_SCENARIO"}

\* row: the row as this request last read it; rights: its session's rights.
Local == [pc : {"idle", "lookup", "insert", "read", "resolve", "claim",
                "execute", "complete", "fail", "cancel"},
          op : Requests, action : Actions, rights : Rights,
          state : States, row : Row]

InitialRights == [version |-> 1, allowed |-> TRUE]

Idle == [pc |-> "idle", op |-> "propose", action |-> CHOOSE a \in Actions : TRUE,
         rights |-> InitialRights, state |-> "AVAILABLE", row |-> Absent]

Stop(p) == proc' = [proc EXCEPT ![p] = Idle]
Goto(p, pc) == proc' = [proc EXCEPT ![p].pc = pc]

Init ==
  /\ rows = [a \in Actions |-> Absent]
  /\ audit = [a \in Actions |-> <<>>]
  /\ effects = [a \in Actions |-> 0]
  /\ expired = {}
  /\ state \in [Resources -> States]
  /\ rights = [u \in Users |-> InitialRights]
  /\ proc = [p \in Procs |-> Idle]

-----------------------------------------------------------------------------
(* Requests and proposals *)

\* A request arrives; requirePermission reads its session's rights.  The
\* descriptor of a proposal comes with the request.
Begin(p) ==
  /\ proc[p].pc = "idle"
  /\ \E a \in Actions, op \in Requests, s \in States :
       /\ op = "propose" \/ s = "AVAILABLE"
       /\ proc' = [proc EXCEPT ![p] =
            [pc |-> IF op = "propose" THEN "lookup" ELSE "read", op |-> op,
             action |-> a, rights |-> rights[Owner[a]], state |-> s,
             row |-> Absent]]
  /\ UNCHANGED <<rows, audit, effects, expired, state, rights>>

\* createOrGetWithAudit looks the key up; a row in any status is the answer.
Lookup(p) ==
  LET l == proc[p] IN
  /\ l.pc = "lookup"
  /\ IF l.rights.allowed /\ rows[l.action].status = "ABSENT"
       THEN Goto(p, "insert")
       ELSE Stop(p)
  /\ UNCHANGED <<rows, audit, effects, expired, state, rights>>

\* Faulty variant: the event is written by the loser of the insert as well.
EveryInsert(a) == TRUE

\* The insert created the row: no conflict with a concurrent one.
Created(a) == rows[a].status = "ABSENT"

Insert(p) ==
  LET l == proc[p]
      a == l.action IN
  /\ l.pc = "insert"
  /\ rows' = IF rows[a].status = "ABSENT"
               THEN [rows EXCEPT ![a] = [status |-> "PROPOSED", version |-> 1,
                                         state |-> l.state,
                                         auth |-> l.rights.version]]
               ELSE rows
  /\ audit' = IF Created(a)
                THEN [audit EXCEPT ![a] = Append(@, "proposed")]
                ELSE audit
  /\ Stop(p)
  /\ UNCHANGED <<effects, expired, state, rights>>

-----------------------------------------------------------------------------
(* Checks made by confirm and cancel *)

\* The checks confirm and cancel share.
StillOwners(l, row) ==
  /\ row.status = "PROPOSED"
  /\ l.rights.version = row.auth
  /\ l.rights.allowed

\* getAuthorized and the early returns; cancel does not look at the deadline.
ReadProposal(p) ==
  LET l == proc[p]
      row == rows[l.action] IN
  /\ l.pc = "read"
  /\ IF /\ StillOwners(l, row)
        /\ l.op = "confirm" => l.action \notin expired
       THEN proc' = [proc EXCEPT
              ![p].pc = IF l.op = "confirm" THEN "resolve" ELSE "cancel",
              ![p].row = row]
       ELSE Stop(p)
  /\ UNCHANGED <<rows, audit, effects, expired, state, rights>>

\* resolveCurrent and sameResource.
Resolve(p) ==
  LET l == proc[p] IN
  /\ l.pc = "resolve"
  /\ IF state[Target[l.action]] = l.row.state THEN Goto(p, "claim") ELSE Stop(p)
  /\ UNCHANGED <<rows, audit, effects, expired, state, rights>>

-----------------------------------------------------------------------------
(* Transitions of a row: one transaction with the audit event *)

Fence(row, read, status) == row.status = status /\ row.version = read.version

Became(row, status, read) == [row EXCEPT !.status = status,
                                         !.version = read.version + 1]

\* Row a moves from one status to another, as the request that read it decided.
Transition(a, read, to, event) ==
  /\ rows' = [rows EXCEPT ![a] = Became(@, to, read)]
  /\ audit' = [audit EXCEPT ![a] = Append(@, event)]

\* Faulty variant: the claim is not conditional.
ClaimUnfenced(row, read) == row.status # "ABSENT"

ClaimFence(row, read) == Fence(row, read, "PROPOSED")

Claim(p) ==
  LET l == proc[p]
      a == l.action IN
  /\ l.pc = "claim"
  /\ ClaimFence(rows[a], l.row)
  /\ Transition(a, l.row, "EXECUTING", "confirmed")
  /\ proc' = [proc EXCEPT ![p].pc = "execute", ![p].row = rows'[a]]
  /\ UNCHANGED <<effects, expired, state, rights>>

\* Another request was faster: its row is returned.
ClaimRefused(p) ==
  LET l == proc[p] IN
  /\ l.pc = "claim"
  /\ ~ ClaimFence(rows[l.action], l.row)
  /\ Stop(p)
  /\ UNCHANGED <<rows, audit, effects, expired, state, rights>>

-----------------------------------------------------------------------------
(* The effect *)

\* createRun reads the owner's rights and the scenario again; the other kinds
\* go by what confirm has read.
Accepted(a) ==
  Kind[a] = "RUN_SCENARIO" =>
    /\ rights[Owner[a]].allowed
    /\ state[Target[a]] = "AVAILABLE"

\* The effect is committed.  A privileged action changes what its target's
\* fingerprint is made of.
TakeEffect(a) ==
  /\ Accepted(a)
  /\ effects' = IF HasEffect(a) THEN [effects EXCEPT ![a] = @ + 1] ELSE effects
  /\ IF Kind[a] = "PRIVILEGED"
       THEN \E s \in States \ {state[Target[a]]} :
              state' = [state EXCEPT ![Target[a]] = s]
       ELSE state' = state

Execute(p) ==
  /\ proc[p].pc = "execute"
  /\ TakeEffect(proc[p].action)
  /\ Goto(p, "complete")
  /\ UNCHANGED <<rows, audit, expired, rights>>

\* A guard of the operation refuses, or its transaction fails.
ExecuteFails(p) ==
  /\ proc[p].pc = "execute"
  /\ Goto(p, "fail")
  /\ UNCHANGED <<rows, audit, effects, expired, state, rights>>

\* The run is inserted and writing its audit event fails.
ExecuteHalf(p) ==
  /\ proc[p].pc = "execute"
  /\ TwoWrites(proc[p].action)
  /\ TakeEffect(proc[p].action)
  /\ Goto(p, "fail")
  /\ UNCHANGED <<rows, audit, expired, rights>>

-----------------------------------------------------------------------------
(* Recording the outcome *)

SuccessStatus == "SUCCEEDED"

\* completeWithAudit commits; the request learns of it or loses the answer.
Complete(p) ==
  LET l == proc[p]
      a == l.action IN
  /\ l.pc = "complete"
  /\ Fence(rows[a], l.row, "EXECUTING")
  /\ Transition(a, l.row, SuccessStatus, "completed")
  /\ Stop(p) \/ Goto(p, "fail")
  /\ UNCHANGED <<effects, expired, state, rights>>

\* completeWithAudit rolls back: the catch block takes over.
CompleteFails(p) ==
  /\ proc[p].pc = "complete"
  /\ Goto(p, "fail")
  /\ UNCHANGED <<rows, audit, effects, expired, state, rights>>

FailFence(row, read) == Fence(row, read, "EXECUTING")

Fail(p) ==
  LET l == proc[p]
      a == l.action IN
  /\ l.pc = "fail"
  /\ FailFence(rows[a], l.row)
  /\ Transition(a, l.row, "FAILED", "failed")
  /\ Stop(p)
  /\ UNCHANGED <<effects, expired, state, rights>>

\* The lost completion had committed: AGENT_ACTION_OPTIMISTIC_LOCK.
FailRefused(p) ==
  LET l == proc[p] IN
  /\ l.pc = "fail"
  /\ ~ FailFence(rows[l.action], l.row)
  /\ Stop(p)
  /\ UNCHANGED <<rows, audit, effects, expired, state, rights>>

\* Faulty variant: the cancellation finds its row by id alone.
CancelUnfenced(row, read) == row.status # "ABSENT"

CancelFence(row, read) == Fence(row, read, "PROPOSED")

Cancel(p) ==
  LET l == proc[p]
      a == l.action IN
  /\ l.pc = "cancel"
  /\ CancelFence(rows[a], l.row)
  /\ Transition(a, l.row, "CANCELLED", "cancelled")
  /\ Stop(p)
  /\ UNCHANGED <<effects, expired, state, rights>>

CancelRefused(p) ==
  LET l == proc[p] IN
  /\ l.pc = "cancel"
  /\ ~ CancelFence(rows[l.action], l.row)
  /\ Stop(p)
  /\ UNCHANGED <<rows, audit, effects, expired, state, rights>>

-----------------------------------------------------------------------------
(* What happens meanwhile *)

\* The request dies: nothing later looks for the row it may have claimed.
Drop(p) ==
  /\ proc[p].pc # "idle"
  /\ Stop(p)
  /\ UNCHANGED <<rows, audit, effects, expired, state, rights>>

\* A run proceeds, a scenario is switched, an access record is edited.
ResourceMoves(r) ==
  /\ \E s \in States \ {state[r]} : state' = [state EXCEPT ![r] = s]
  /\ UNCHANGED <<rows, audit, effects, expired, rights, proc>>

\* An administrator changes the owner's roles and advances the version.
RightsChange(u) ==
  /\ rights[u].version < MaxVersion
  /\ \E allowed \in BOOLEAN :
       rights' = [rights EXCEPT ![u] = [version |-> @.version + 1,
                                        allowed |-> allowed]]
  /\ UNCHANGED <<rows, audit, effects, expired, state, proc>>

\* An assignment reaches its valid_until: the version stays as it is.
RightsLapse(u) ==
  /\ rights[u].allowed
  /\ rights' = [rights EXCEPT ![u].allowed = FALSE]
  /\ UNCHANGED <<rows, audit, effects, expired, state, proc>>

\* The half hour is over.
Expire(a) ==
  /\ rows[a].status # "ABSENT"
  /\ a \notin expired
  /\ expired' = expired \cup {a}
  /\ UNCHANGED <<rows, audit, effects, state, rights, proc>>

Handle(p) ==
  \/ Begin(p) \/ Lookup(p) \/ Insert(p) \/ ReadProposal(p) \/ Resolve(p)
  \/ Claim(p) \/ ClaimRefused(p)
  \/ Execute(p) \/ ExecuteFails(p) \/ ExecuteHalf(p)
  \/ Complete(p) \/ CompleteFails(p) \/ Fail(p) \/ FailRefused(p)
  \/ Cancel(p) \/ CancelRefused(p) \/ Drop(p)

Next ==
  \/ \E p \in Procs : Handle(p)
  \/ \E r \in Resources : ResourceMoves(r)
  \/ \E u \in Users : RightsChange(u) \/ RightsLapse(u)
  \/ \E a \in Actions : Expire(a)

Spec == Init /\ [][Next]_vars

-----------------------------------------------------------------------------
(* Properties *)

\* Rows hold statuses and versions the service knows, and requests hold
\* snapshots of such rows.
TypeOK ==
  /\ rows \in [Actions -> Row]
  /\ audit \in [Actions -> Seq(Events)]
  /\ effects \in [Actions -> Nat]
  /\ expired \subseteq Actions
  /\ state \in [Resources -> States]
  /\ rights \in [Users -> Rights]
  /\ proc \in [Procs -> Local]

\* However many confirmations of one action race, repeat or die and are
\* repeated, it takes effect at most once (claimForExecution).
EffectAtMostOnce == \A a \in Actions : effects[a] <= 1

\* Nothing is done for an action that is not confirmed, so a cancellation
\* that is recorded was in time; and a recorded success has had its effect
\* (confirm and cancel in any order, cancelWithAudit).
OutcomeMatchesEffect ==
  \A a \in Actions :
    /\ effects[a] > 0 => rows[a].status \in {"EXECUTING", "SUCCEEDED", "FAILED"}
    /\ rows[a].status = "SUCCEEDED" /\ HasEffect(a) => effects[a] > 0

\* The trail that an action in a given status has left.
Trail(status) ==
  CASE status = "ABSENT"    -> <<>>
    [] status = "PROPOSED"  -> <<"proposed">>
    [] status = "EXECUTING" -> <<"proposed", "confirmed">>
    [] status = "SUCCEEDED" -> <<"proposed", "confirmed", "completed">>
    [] status = "FAILED"    -> <<"proposed", "confirmed", "failed">>
    [] status = "CANCELLED" -> <<"proposed", "cancelled">>

\* The audit log tells exactly how each row came to its status, although
\* requests race to create, confirm and cancel it (createOrGetWithAudit,
\* claimForExecution, transitionWithAudit).
AuditMatchesRow == \A a \in Actions : audit[a] = Trail(rows[a].status)

\* An outcome that is recorded stays: neither a request that lost the answer
\* of its completion nor a late cancellation rewrites it (transitionWithAudit).
OutcomeIsFinal ==
  [][\A a \in Actions : rows[a].status \in Final => rows'[a] = rows[a]]_vars

\* What rows and effects amount to, without requests and versions.
Contract == INSTANCE ActionContract WITH
              Effective <- {a \in Actions : HasEffect(a)},
              status <- [a \in Actions |-> rows[a].status]

\* The requests together behave as the contract: one confirmation at most
\* carries an action out, between its being confirmed and its outcome.
ImplementsContract == Contract!Spec
=============================================================================
