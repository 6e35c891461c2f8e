---------------------------- MODULE AgentCommand ----------------------------
(***************************************************************************)
(* A read-only command of the agent and what it leaves behind: its plan    *)
(* and its case (AuditedAgentCommandCapability over startAgentCommandPlan  *)
(* and finishAgentCommandPlan), and what the owner does with the case      *)
(* meanwhile (AgentCaseService over PostgresAgentCaseStore).               *)
(*                                                                         *)
(* Every statement to the database may fail before its transaction, or     *)
(* lose its answer after it; a server may die between two of them.         *)
(*                                                                         *)
(* Abstractions: a command is its correlation id, which is new for every   *)
(* request and of which the ids of plan and case are made.  Execution only *)
(* reads.  Of the analysis kept in the case there is only whether it is    *)
(* kept; evidence is left out but for the set of its fingerprints.         *)
(***************************************************************************)
EXTENDS Naturals

CONSTANTS
  Commands,  \* requests of commands
  CaseKeys,  \* idempotency keys of cases their owner creates
  Facts,     \* fingerprints of evidence
  MaxCaseVersion \* bound: version of a case

Cases == Commands \cup CaseKeys

ASSUME CommandAssumption ==
  /\ Commands \cap CaseKeys = {}
  /\ MaxCaseVersion \in Nat \ {0}

VARIABLES
  plans,    \* the agent_plan_executions rows, by command
  cases,    \* the agent_cases rows
  evidence, \* the agent_evidence_facts rows of each case
  planLog,  \* agent.plan.* actions of each command in audit_logs
  phases,   \* agent.command.* actions of each command in audit_logs
  request,  \* local state of the request of each command
  closing   \* local state of a request to close each case

commandVars == <<plans, cases, evidence, planLog, phases, request, closing>>

-----------------------------------------------------------------------------
(* Rows and local records *)

PlanStatuses == {"NONE", "RUNNING", "SUCCEEDED", "FAILED"}
CaseStatuses == {"NONE", "DRAFT", "GATHERING_DATA", "ANALYZED", "BLOCKED",
                 "CLOSED"}

Case == [status : CaseStatuses, analysis : BOOLEAN, version : 1 .. MaxCaseVersion]
NoCase == [status |-> "NONE", analysis |-> FALSE, version |-> 1]

\* project: the command has one, without which there is no plan; plan: the
\* request holds a plan; finalized: planFinalized.
Request == [pc : {"new", "start", "execute", "finish", "completed", "undo",
                  "failed", "answered", "refused"},
            project : BOOLEAN, plan : BOOLEAN, finalized : BOOLEAN]
NewRequest == [pc |-> "new", project |-> FALSE, plan |-> FALSE,
               finalized |-> FALSE]

NotClosing == 0

CommandTypeOK ==
  /\ plans \in [Commands -> PlanStatuses]
  /\ cases \in [Cases -> Case]
  /\ evidence \in [Cases -> SUBSET Facts]
  /\ planLog \in [Commands -> SUBSET {"started", "completed", "failed"}]
  /\ phases \in [Commands -> SUBSET {"received", "completed", "failed"}]
  /\ request \in [Commands -> Request]
  /\ closing \in [Cases -> 0 .. MaxCaseVersion]

CommandInit ==
  /\ plans = [c \in Commands |-> "NONE"]
  /\ cases = [k \in Cases |-> NoCase]
  /\ evidence = [k \in Cases |-> {}]
  /\ planLog = [c \in Commands |-> {}]
  /\ phases = [c \in Commands |-> {}]
  /\ request = [c \in Commands |-> NewRequest]
  /\ closing = [k \in Cases |-> NotClosing]

RequestAt(c, pc) == request[c].pc = pc
RequestTo(c, pc) == request' = [request EXCEPT ![c].pc = pc]

\* The catch of execute: the plan is finished as failed unless it has been
\* finalized.
Thrown(c) ==
  RequestTo(c, IF request[c].plan /\ ~request[c].finalized THEN "undo" ELSE "failed")

\* A statement that fails before its transaction, or at it.
Fails(c) == Thrown(c) /\ UNCHANGED <<plans, cases, planLog, phases>>

\* An audit of the command; its answer may be lost.
Logged(c, phase) ==
  phases' = [phases EXCEPT ![c] = @ \cup {phase}]

-----------------------------------------------------------------------------
(* The command *)

\* The first audit is outside the try: if it fails, nothing follows.
Receive(c) ==
  /\ RequestAt(c, "new")
  /\ \/ /\ Logged(c, "received")
        /\ \E project \in BOOLEAN :
             request' = [request EXCEPT ![c].project = project,
                           ![c].pc = IF project THEN "start" ELSE "execute"]
     \/ /\ Logged(c, "received") \/ UNCHANGED phases
        /\ RequestTo(c, "refused")
  /\ UNCHANGED <<plans, cases, evidence, planLog, closing>>

\* startAgentCommandPlan: the case, the plan and its audit in one transaction.
StartPlan(c) ==
  /\ RequestAt(c, "start")
  /\ \/ /\ plans' = [plans EXCEPT ![c] = "RUNNING"]
        /\ cases' = [cases EXCEPT ![c].status = "GATHERING_DATA"]
        /\ planLog' = [planLog EXCEPT ![c] = @ \cup {"started"}]
        /\ \/ request' = [request EXCEPT ![c].pc = "execute", ![c].plan = TRUE]
           \/ Thrown(c)
        /\ UNCHANGED phases
     \/ Fails(c)
  /\ UNCHANGED <<evidence, closing>>

ExecuteCommand(c) ==
  /\ RequestAt(c, "execute")
  /\ \/ RequestTo(c, IF request[c].plan THEN "finish" ELSE "completed")
     \/ Thrown(c)
  /\ UNCHANGED <<plans, cases, evidence, planLog, phases, closing>>

\* Faulty variant: the plan's status is not compared in the UPDATE.
StillThere(status) == status # "NONE"

StillRunning(status) == status = "RUNNING"

\* finishAgentCommandPlan as it commits: the plan, the case, whose status and
\* version are not compared, and the audit.
Finished(c, status, history) ==
  /\ StillRunning(plans[c])
  /\ plans' = [plans EXCEPT ![c] = status]
  /\ cases' = [cases EXCEPT
       ![c].status = IF status = "SUCCEEDED" THEN "ANALYZED" ELSE "BLOCKED",
       ![c].analysis = @ \/ history]
  /\ planLog' = [planLog EXCEPT
       ![c] = @ \cup {IF status = "SUCCEEDED" THEN "completed" ELSE "failed"}]

FinishPlan(c) ==
  /\ RequestAt(c, "finish")
  /\ \/ /\ \E history \in BOOLEAN : Finished(c, "SUCCEEDED", history)
        /\ \/ request' = [request EXCEPT ![c].pc = "completed",
                                         ![c].finalized = TRUE]
           \/ Thrown(c)
        /\ UNCHANGED phases
     \/ Fails(c)
  /\ UNCHANGED <<evidence, closing>>

\* The result is returned only when its audit is known to be written.
Answer(c) ==
  /\ RequestAt(c, "completed")
  /\ \/ Logged(c, "completed") /\ RequestTo(c, "answered")
     \/ (Logged(c, "completed") \/ UNCHANGED phases) /\ Thrown(c)
  /\ UNCHANGED <<plans, cases, evidence, planLog, closing>>

\* A failure to finish the plan (OPTIMISTIC_LOCK when it succeeded after all)
\* is kept for later.
UndoPlan(c) ==
  /\ RequestAt(c, "undo")
  /\ RequestTo(c, "failed")
  /\ \/ Finished(c, "FAILED", FALSE)
     \/ UNCHANGED <<plans, cases, planLog>>
  /\ UNCHANGED <<evidence, phases, closing>>

Refuse(c) ==
  /\ RequestAt(c, "failed")
  /\ Logged(c, "failed") \/ UNCHANGED phases
  /\ RequestTo(c, "refused")
  /\ UNCHANGED <<plans, cases, evidence, planLog, closing>>

\* The server dies: the plan stays RUNNING, for nothing looks for such plans.
Die(c) ==
  /\ request[c].pc \notin {"new", "answered", "refused"}
  /\ RequestTo(c, "refused")
  /\ UNCHANGED <<plans, cases, evidence, planLog, phases, closing>>

-----------------------------------------------------------------------------
(* The owner's cases *)

\* create, again and again: a case is found by the id made of its key.
CreateCase(k) ==
  /\ cases[k].status = "NONE"
  /\ cases' = [cases EXCEPT ![k].status = "DRAFT"]
  /\ UNCHANGED <<plans, evidence, planLog, phases, request, closing>>

\* appendEvidence: nothing looks at the status of the case.
AppendEvidence(k, f) ==
  /\ cases[k].status # "NONE"
  /\ evidence' = [evidence EXCEPT ![k] = @ \cup {f}]
  /\ UNCHANGED <<plans, cases, planLog, phases, request, closing>>

\* close: the case is read, and then written if its version is the same.
CloseRead(k) ==
  /\ cases[k].status \notin {"NONE", "CLOSED"}
  /\ cases[k].version < MaxCaseVersion
  /\ closing[k] = NotClosing
  /\ closing' = [closing EXCEPT ![k] = cases[k].version]
  /\ UNCHANGED <<plans, cases, evidence, planLog, phases, request>>

CloseWrite(k) ==
  /\ closing[k] # NotClosing
  /\ IF cases[k].version = closing[k]
     THEN cases' = [cases EXCEPT ![k].status = "CLOSED", ![k].version = @ + 1]
     ELSE UNCHANGED cases
  /\ closing' = [closing EXCEPT ![k] = NotClosing]
  /\ UNCHANGED <<plans, evidence, planLog, phases, request>>

-----------------------------------------------------------------------------
(* Specification *)

CommandNext ==
  \/ \E c \in Commands : \/ Receive(c)
                         \/ StartPlan(c)
                         \/ ExecuteCommand(c)
                         \/ FinishPlan(c)
                         \/ Answer(c)
                         \/ UndoPlan(c)
                         \/ Refuse(c)
                         \/ Die(c)
  \/ \E k \in CaseKeys : CreateCase(k)
  \/ \E k \in Cases : \/ \E f \in Facts : AppendEvidence(k, f)
                      \/ CloseRead(k)
                      \/ CloseWrite(k)

CommandSpec == CommandInit /\ [][CommandNext]_commandVars

-----------------------------------------------------------------------------
(* Properties *)

\* A plan has the one outcome its audit tells, which the case tells too unless
\* its owner has closed it; a failure reported after the answer of
\* finishAgentCommandPlan was lost does not turn a success around.
OneOutcome ==
  \A c \in Commands :
    /\ planLog[c] = CASE plans[c] = "NONE" -> {}
                      [] plans[c] = "RUNNING" -> {"started"}
                      [] plans[c] = "SUCCEEDED" -> {"started", "completed"}
                      [] plans[c] = "FAILED" -> {"started", "failed"}
    /\ cases[c].status \in CASE plans[c] = "NONE" -> {"NONE"}
                             [] plans[c] = "RUNNING" -> {"GATHERING_DATA", "CLOSED"}
                             [] plans[c] = "SUCCEEDED" -> {"ANALYZED", "CLOSED"}
                             [] plans[c] = "FAILED" -> {"BLOCKED", "CLOSED"}
    /\ cases[c].analysis => plans[c] = "SUCCEEDED"

\* A result reaches the user only when its plan has succeeded, if there is one,
\* and agent.command.completed is in the audit; that action is never there for
\* a plan that did not succeed.
AnswersBacked ==
  \A c \in Commands :
    /\ RequestAt(c, "answered") => "completed" \in phases[c]
    /\ "completed" \in phases[c] =>
         /\ "received" \in phases[c]
         /\ plans[c] = IF request[c].project THEN "SUCCEEDED" ELSE "NONE"

\* What a command leaves behind accounts for it: its plan has one outcome, told
\* alike by the plan, the case and the audit, whichever statement fails or loses
\* its answer, and the user has seen a result only of a plan that succeeded.
CommandAccounted == OneOutcome /\ AnswersBacked
=============================================================================
