--------------------------- MODULE AgentDeskProofs ---------------------------
(***************************************************************************)
(* Theorems about the agent's desk, for every number of requests and       *)
(* whichever of them fail: what a command leaves behind (AgentCommand),    *)
(* what becomes of the feedback on an answer (AgentLearning), what the     *)
(* weekly digest lists (Digest), and how a saved answer reads with the     *)
(* rights of the moment (SavedAnswer).                                     *)
(***************************************************************************)
EXTENDS AgentCommand, AgentLearning, Digest, SavedAnswer, FoldTheorems, FiniteSetTheorems,
        TLAPS

-----------------------------------------------------------------------------
(* Commands.  CommandAccounted is not inductive: what a later statement may    *)
(* write depends on how far the request has come, and a failure is reported to *)
(* the request after the statement may have been committed.                    *)

OutcomeOf(c) ==
  /\ planLog[c] = CASE plans[c] = "NONE" -> {}
                    [] plans[c] = "RUNNING" -> {"started"}
                    [] plans[c] = "SUCCEEDED" -> {"started", "completed"}
                    [] plans[c] = "FAILED" -> {"started", "failed"}
  /\ cases[c].status \in CASE plans[c] = "NONE" -> {"NONE"}
                           [] plans[c] = "RUNNING" -> {"GATHERING_DATA", "CLOSED"}
                           [] plans[c] = "SUCCEEDED" -> {"ANALYZED", "CLOSED"}
                           [] plans[c] = "FAILED" -> {"BLOCKED", "CLOSED"}
  /\ cases[c].analysis => plans[c] = "SUCCEEDED"

AnswerOf(c) ==
  /\ RequestAt(c, "answered") => "completed" \in phases[c]
  /\ "completed" \in phases[c] =>
       /\ "received" \in phases[c]
       /\ plans[c] = IF request[c].project THEN "SUCCEEDED" ELSE "NONE"

\* How far the request has come: what is written, and what it knows of it.  It
\* can only be told to undo a plan while nobody has been told of a result.
ProgressOf(c) ==
  LET r == request[c]
  IN  /\ r.pc \in {"new", "start", "execute", "finish", "undo"}
           => "completed" \notin phases[c]
      /\ r.pc \in {"start", "execute", "finish", "completed"}
           => "received" \in phases[c]
      /\ r.pc \in {"new", "start"} => plans[c] = "NONE" /\ ~r.plan
      /\ r.pc = "start" => r.project
      /\ r.pc \in {"new", "start", "execute", "finish"} => ~r.finalized
      /\ r.pc \in {"execute", "finish", "completed"} => (r.plan <=> r.project)
      /\ r.pc = "execute" => plans[c] = IF r.project THEN "RUNNING" ELSE "NONE"
      /\ r.pc = "finish" => r.project /\ plans[c] = "RUNNING"
      /\ r.pc = "completed" =>
           /\ r.finalized <=> r.project
           /\ plans[c] = IF r.project THEN "SUCCEEDED" ELSE "NONE"

\* A case that is being closed was there when it was read.
ClosingOf(k) ==
  closing[k] # NotClosing => cases[k].status # "NONE" /\ closing[k] < MaxCaseVersion

CommandSound(c) == OutcomeOf(c) /\ AnswerOf(c) /\ ProgressOf(c)

CommandInv ==
  /\ CommandTypeOK
  /\ \A c \in Commands : CommandSound(c)
  /\ \A k \in Cases : ClosingOf(k)

\* The parts for each command make the property.
LEMMA CommandInvImplies == CommandInv => CommandAccounted
  BY DEF CommandInv, CommandSound, OutcomeOf, AnswerOf, CommandAccounted, OneOutcome,
         AnswersBacked

\* No request has been made and no case created.
LEMMA CommandsInit == CommandInit => CommandInv
<1> SUFFICES ASSUME CommandInit PROVE CommandInv
  OBVIOUS
<1>1. NoCase \in Case /\ NewRequest \in Request /\ 0 \in 0 .. MaxCaseVersion
  BY CommandAssumption DEF NoCase, Case, CaseStatuses, NewRequest, Request
<1>2. CommandTypeOK
  BY <1>1 DEF CommandInit, CommandTypeOK, PlanStatuses, NotClosing
<1>3. ASSUME NEW c \in Commands PROVE CommandSound(c)
  <2>1. /\ plans[c] = "NONE" /\ planLog[c] = {} /\ phases[c] = {}
        /\ cases[c] = NoCase /\ request[c] = NewRequest
    BY DEF CommandInit, Cases
  <2>2. OutcomeOf(c)
    BY <2>1 DEF OutcomeOf, NoCase
  <2>3. AnswerOf(c) /\ ProgressOf(c)
    BY <2>1 DEF AnswerOf, ProgressOf, NewRequest, RequestAt
  <2> QED BY <2>2, <2>3 DEF CommandSound
<1>4. \A k \in Cases : ClosingOf(k)
  BY DEF CommandInit, ClosingOf
<1> QED BY <1>2, <1>3, <1>4 DEF CommandInv

RequestPcs == {"new", "start", "execute", "finish", "completed", "undo",
               "failed", "answered", "refused"}

\* Nothing of the other requests and their plans has changed.
OnlyRequest(c) ==
  /\ request' \in [Commands -> Request]
  /\ \A d \in Commands \ {c} : request'[d] = request[d]

Keeps(c) ==
  /\ request'[c].project = request[c].project
  /\ request'[c].plan = request[c].plan
  /\ request'[c].finalized = request[c].finalized

\* A request goes on: it stands somewhere else and knows what it knew.
LEMMA RequestMoves ==
  ASSUME CommandTypeOK, NEW c \in Commands, NEW pc \in RequestPcs, RequestTo(c, pc)
  PROVE  OnlyRequest(c) /\ Keeps(c) /\ request'[c].pc = pc
<1>1. request[c] \in Request /\ request \in [Commands -> Request]
  BY DEF CommandTypeOK
<1>2. request' = [request EXCEPT ![c] = [request[c] EXCEPT !.pc = pc]]
  BY <1>1 DEF RequestTo
<1>3. [request[c] EXCEPT !.pc = pc] \in Request
  BY <1>1 DEF Request, RequestPcs
<1>4. request'[c] = [request[c] EXCEPT !.pc = pc]
  BY <1>1, <1>2
<1>5. request'[c].pc = pc /\ Keeps(c)
  BY <1>1, <1>4 DEF Request, Keeps
<1> QED BY <1>1, <1>2, <1>3, <1>5 DEF OnlyRequest

\* A request whose statement has failed goes to undo its plan, or gives up.
LEMMA ThrownMoves ==
  ASSUME CommandTypeOK, NEW c \in Commands, Thrown(c)
  PROVE  /\ OnlyRequest(c) /\ Keeps(c)
         /\ request'[c].pc =
              IF request[c].plan /\ ~request[c].finalized THEN "undo" ELSE "failed"
  BY RequestMoves DEF Thrown, RequestPcs

\* What a phase adds to the audit of the command.
LEMMA LoggedMoves ==
  ASSUME CommandTypeOK, NEW c \in Commands,
         NEW phase \in {"received", "completed", "failed"}, Logged(c, phase)
  PROVE  /\ phases' \in [Commands -> SUBSET {"received", "completed", "failed"}]
         /\ phases'[c] = phases[c] \cup {phase}
         /\ \A d \in Commands \ {c} : phases'[d] = phases[d]
  BY DEF CommandTypeOK, Logged

\* What finishing a plan writes.
LEMMA FinishedMoves ==
  ASSUME CommandTypeOK, NEW c \in Commands, NEW status \in {"SUCCEEDED", "FAILED"},
         NEW history \in BOOLEAN, Finished(c, status, history)
  PROVE  /\ plans[c] = "RUNNING" /\ plans'[c] = status
         /\ cases'[c].status = IF status = "SUCCEEDED" THEN "ANALYZED" ELSE "BLOCKED"
         /\ cases'[c].analysis = (cases[c].analysis \/ history)
         /\ planLog'[c] = planLog[c] \cup {IF status = "SUCCEEDED" THEN "completed" ELSE "failed"}
         /\ \A d \in Commands \ {c} : plans'[d] = plans[d] /\ planLog'[d] = planLog[d]
         /\ \A k \in Cases \ {c} : cases'[k] = cases[k]
         /\ plans' \in [Commands -> PlanStatuses] /\ cases' \in [Cases -> Case]
         /\ planLog' \in [Commands -> SUBSET {"started", "completed", "failed"}]
<1> DEFINE told == IF status = "SUCCEEDED" THEN "ANALYZED" ELSE "BLOCKED"
           row == [cases[c] EXCEPT !.status = told, !.analysis = @ \/ history]
           event == IF status = "SUCCEEDED" THEN "completed" ELSE "failed"
<1>1. c \in Cases /\ cases[c] \in Case /\ cases \in [Cases -> Case]
      /\ plans \in [Commands -> PlanStatuses]
      /\ planLog \in [Commands -> SUBSET {"started", "completed", "failed"}]
  BY DEF Cases, CommandTypeOK
<1>2. /\ plans[c] = "RUNNING" /\ plans' = [plans EXCEPT ![c] = status]
      /\ planLog' = [planLog EXCEPT ![c] = @ \cup {event}]
      /\ cases' = [cases EXCEPT ![c].status = told, ![c].analysis = @ \/ history]
  BY DEF Finished, StillRunning
<1>3. cases' = [cases EXCEPT ![c] = row]
  BY <1>1, <1>2
<1>4. row \in Case /\ row.status = told /\ row.analysis = (cases[c].analysis \/ history)
  BY <1>1 DEF Case, CaseStatuses
<1>5. cases'[c] = row
  BY <1>1, <1>3
<1>6. /\ plans' \in [Commands -> PlanStatuses] /\ plans'[c] = status
      /\ \A d \in Commands \ {c} : plans'[d] = plans[d]
  BY <1>1, <1>2 DEF PlanStatuses
<1>7. /\ planLog' \in [Commands -> SUBSET {"started", "completed", "failed"}]
      /\ planLog'[c] = planLog[c] \cup {event}
      /\ \A d \in Commands \ {c} : planLog'[d] = planLog[d]
  BY <1>1, <1>2
<1>8. cases' \in [Cases -> Case] /\ \A k \in Cases \ {c} : cases'[k] = cases[k]
  BY <1>1, <1>3, <1>4
<1> QED BY <1>2, <1>4, <1>5, <1>6, <1>7, <1>8

\* A command that nobody works on stays accounted for.
LEMMA OtherCommands ==
  ASSUME NEW c, CommandSound(c), request'[c] = request[c], plans'[c] = plans[c],
         planLog'[c] = planLog[c], phases'[c] = phases[c],
         \/ cases'[c] = cases[c]
         \/ /\ cases[c].status # "NONE" /\ cases'[c].status = "CLOSED"
            /\ cases'[c].analysis = cases[c].analysis /\ plans[c] \in PlanStatuses
  PROVE  CommandSound(c)'
<1>1. AnswerOf(c)' /\ ProgressOf(c)'
  BY DEF CommandSound, AnswerOf, ProgressOf, RequestAt
<1>2. OutcomeOf(c)'
  BY DEF CommandSound, OutcomeOf, PlanStatuses
<1> QED BY <1>1, <1>2 DEF CommandSound

\* A request for c changes rows of c only, and the case it has does not go.
LEMMA CommandActs ==
  ASSUME CommandInv, NEW c \in Commands, OnlyRequest(c),
         plans' \in [Commands -> PlanStatuses], cases' \in [Cases -> Case],
         planLog' \in [Commands -> SUBSET {"started", "completed", "failed"}],
         phases' \in [Commands -> SUBSET {"received", "completed", "failed"}],
         \A d \in Commands \ {c} : /\ plans'[d] = plans[d] /\ planLog'[d] = planLog[d]
                                   /\ phases'[d] = phases[d],
         \A k \in Cases \ {c} : cases'[k] = cases[k],
         cases'[c].status # "NONE" \/ cases' = cases,
         CommandSound(c)', UNCHANGED <<evidence, closing>>
  PROVE  CommandInv'
<1>1. CommandTypeOK'
  BY DEF CommandInv, CommandTypeOK, OnlyRequest
<1>2. ASSUME NEW d \in Commands \ {c} PROVE CommandSound(d)'
  <2>1. cases'[d] = cases[d]
    BY DEF Cases
  <2> QED BY <2>1, OtherCommands DEF CommandInv, OnlyRequest
<1>3. ASSUME NEW k \in Cases PROVE ClosingOf(k)'
  BY DEF CommandInv, ClosingOf
<1> QED BY <1>1, <1>2, <1>3 DEF CommandInv

\* The first audit of a command.
LEMMA ReceiveKeeps ==
  ASSUME CommandInv, NEW c \in Commands, Receive(c) PROVE CommandInv'
<1>0. /\ CommandTypeOK /\ request[c].pc = "new" /\ request[c] \in Request
      /\ request \in [Commands -> Request]
      /\ UNCHANGED <<plans, cases, evidence, planLog, closing>>
      /\ OutcomeOf(c) /\ AnswerOf(c) /\ ProgressOf(c)
  BY DEF CommandInv, CommandTypeOK, CommandSound, Receive, RequestAt
<1>1. OutcomeOf(c)'
  BY <1>0 DEF OutcomeOf
<1>2. CASE /\ Logged(c, "received")
           /\ \E project \in BOOLEAN :
                request' = [request EXCEPT ![c].project = project,
                              ![c].pc = IF project THEN "start" ELSE "execute"]
  <2>1. PICK project \in BOOLEAN :
          request' = [request EXCEPT ![c].project = project,
                        ![c].pc = IF project THEN "start" ELSE "execute"]
    BY <1>2
  <2> DEFINE r == [request[c] EXCEPT !.project = project,
                                     !.pc = IF project THEN "start" ELSE "execute"]
  <2>2. request' = [request EXCEPT ![c] = r]
    BY <1>0, <2>1
  <2>3. /\ r \in Request /\ r.project = project
        /\ r.pc = IF project THEN "start" ELSE "execute"
        /\ r.plan = request[c].plan /\ r.finalized = request[c].finalized
    BY <1>0 DEF Request
  <2>4. request'[c] = r /\ OnlyRequest(c)
    BY <1>0, <2>2, <2>3 DEF OnlyRequest
  <2>5. phases'[c] = phases[c] \cup {"received"}
    BY <1>0, <1>2, LoggedMoves
  <2>6. AnswerOf(c)'
    BY <1>0, <2>3, <2>4, <2>5 DEF AnswerOf, ProgressOf, RequestAt
  <2>7. ProgressOf(c)'
    BY <1>0, <2>3, <2>4, <2>5 DEF ProgressOf
  <2> QED BY <1>0, <1>1, <1>2, <2>4, <2>6, <2>7, LoggedMoves, CommandActs
          DEF CommandSound, CommandTypeOK
<1>3. CASE /\ Logged(c, "received") \/ UNCHANGED phases
           /\ RequestTo(c, "refused")
  <2>1. OnlyRequest(c) /\ Keeps(c) /\ request'[c].pc = "refused"
    BY <1>0, <1>3, RequestMoves DEF RequestPcs
  <2>2. /\ phases' \in [Commands -> SUBSET {"received", "completed", "failed"}]
        /\ phases'[c] \in {phases[c], phases[c] \cup {"received"}}
        /\ \A d \in Commands \ {c} : phases'[d] = phases[d]
    BY <1>0, <1>3, LoggedMoves DEF CommandTypeOK
  <2>3. AnswerOf(c)' /\ ProgressOf(c)'
    BY <1>0, <2>1, <2>2 DEF AnswerOf, ProgressOf, RequestAt
  <2> QED BY <1>0, <1>1, <2>1, <2>2, <2>3, CommandActs DEF CommandSound, CommandTypeOK
<1> QED BY <1>2, <1>3 DEF Receive

\* A statement that fails before its transaction: the request alone goes on.
LEMMA FailsKeeps ==
  ASSUME CommandInv, NEW c \in Commands, Thrown(c), request[c].pc # "answered",
         request[c].pc = "completed" => phases'[c] \in {phases[c], phases[c] \cup {"completed"}},
         request[c].pc # "completed" => phases' = phases,
         phases' \in [Commands -> SUBSET {"received", "completed", "failed"}],
         \A d \in Commands \ {c} : phases'[d] = phases[d],
         request[c].pc \in {"start", "execute", "finish", "completed"},
         UNCHANGED <<plans, cases, planLog, evidence, closing>>
  PROVE  CommandInv'
<1>0. CommandTypeOK /\ OutcomeOf(c) /\ AnswerOf(c) /\ ProgressOf(c)
  BY DEF CommandInv, CommandSound
<1>1. /\ OnlyRequest(c) /\ Keeps(c)
      /\ request'[c].pc = IF request[c].plan /\ ~request[c].finalized THEN "undo" ELSE "failed"
  BY <1>0, ThrownMoves
<1>2. OutcomeOf(c)'
  BY <1>0 DEF OutcomeOf
<1>3. AnswerOf(c)' /\ ProgressOf(c)'
  <2>1. CASE request[c].pc = "completed"
    <3>1. request'[c].pc = "failed"
      BY <1>0, <1>1, <2>1 DEF ProgressOf
    <3> QED BY <1>0, <1>1, <2>1, <3>1 DEF AnswerOf, ProgressOf, RequestAt, Keeps
  <2>2. CASE request[c].pc # "completed"
    BY <1>0, <1>1, <2>2 DEF AnswerOf, ProgressOf, RequestAt, Keeps
  <2> QED BY <2>1, <2>2
<1> QED BY <1>0, <1>1, <1>2, <1>3, CommandActs DEF CommandSound, CommandTypeOK

\* startAgentCommandPlan, whether or not its answer arrives.
LEMMA StartKeeps ==
  ASSUME CommandInv, NEW c \in Commands, StartPlan(c) PROVE CommandInv'
<1>0. /\ CommandTypeOK /\ request[c].pc = "start" /\ request[c] \in Request
      /\ request \in [Commands -> Request] /\ UNCHANGED <<evidence, closing>>
      /\ OutcomeOf(c) /\ AnswerOf(c) /\ ProgressOf(c) /\ c \in Cases
      /\ plans \in [Commands -> PlanStatuses] /\ cases \in [Cases -> Case]
      /\ planLog \in [Commands -> SUBSET {"started", "completed", "failed"}]
  BY DEF CommandInv, CommandTypeOK, CommandSound, StartPlan, RequestAt, Cases
<1>1. CASE Fails(c)
  BY <1>0, <1>1, FailsKeeps DEF Fails, CommandTypeOK
<1>2. CASE /\ plans' = [plans EXCEPT ![c] = "RUNNING"]
           /\ cases' = [cases EXCEPT ![c].status = "GATHERING_DATA"]
           /\ planLog' = [planLog EXCEPT ![c] = @ \cup {"started"}]
           /\ \/ request' = [request EXCEPT ![c].pc = "execute", ![c].plan = TRUE]
              \/ Thrown(c)
           /\ UNCHANGED phases
  <2> DEFINE row == [cases[c] EXCEPT !.status = "GATHERING_DATA"]
             r == [request[c] EXCEPT !.pc = "execute", !.plan = TRUE]
  <2>1. cases' = [cases EXCEPT ![c] = row] /\ cases[c] \in Case
    BY <1>0, <1>2
  <2>2. row \in Case /\ row.status = "GATHERING_DATA" /\ row.analysis = cases[c].analysis
    BY <2>1 DEF Case, CaseStatuses
  <2>3. cases'[c] = row /\ cases' \in [Cases -> Case]
        /\ \A k \in Cases \ {c} : cases'[k] = cases[k]
    BY <1>0, <2>1, <2>2
  <2>4. /\ plans' \in [Commands -> PlanStatuses] /\ plans'[c] = "RUNNING"
        /\ planLog' \in [Commands -> SUBSET {"started", "completed", "failed"}]
        /\ planLog'[c] = planLog[c] \cup {"started"}
        /\ \A d \in Commands \ {c} : plans'[d] = plans[d] /\ planLog'[d] = planLog[d]
    BY <1>0, <1>2 DEF PlanStatuses
  <2>5. plans[c] = "NONE" /\ planLog[c] = {} /\ ~cases[c].analysis
        /\ "completed" \notin phases[c] /\ "received" \in phases[c] /\ request[c].project
        /\ ~request[c].finalized
    BY <1>0 DEF OutcomeOf, ProgressOf
  <2>6. OutcomeOf(c)'
    BY <2>2, <2>3, <2>4, <2>5 DEF OutcomeOf
  <2>7. /\ OnlyRequest(c) /\ request'[c].project = request[c].project
        /\ request'[c].finalized = request[c].finalized
        /\ \/ request'[c].pc = "execute" /\ request'[c].plan
           \/ request'[c].pc \in {"undo", "failed"}
    <3>1. CASE request' = [request EXCEPT ![c].pc = "execute", ![c].plan = TRUE]
      <4>1. request' = [request EXCEPT ![c] = r]
        BY <1>0, <3>1
      <4>2. /\ r \in Request /\ r.pc = "execute" /\ r.plan
            /\ r.project = request[c].project /\ r.finalized = request[c].finalized
        BY <1>0 DEF Request
      <4>3. request'[c] = r /\ OnlyRequest(c)
        BY <1>0, <4>1, <4>2 DEF OnlyRequest
      <4> QED BY <4>2, <4>3
    <3>2. CASE Thrown(c)
      BY <1>0, <3>2, ThrownMoves DEF Keeps
    <3> QED BY <1>2, <3>1, <3>2
  <2>8. AnswerOf(c)' /\ ProgressOf(c)'
    BY <1>2, <2>4, <2>5, <2>7 DEF AnswerOf, ProgressOf, RequestAt
  <2> HIDE DEF row
  <2>9. cases'[c].status # "NONE"
    BY <2>2, <2>3
  <2> QED BY <1>0, <1>2, <2>3, <2>4, <2>6, <2>7, <2>8, <2>9, CommandActs
          DEF CommandSound, CommandTypeOK
<1> QED BY <1>1, <1>2 DEF StartPlan

\* finishAgentCommandPlan for a result, whether or not its answer arrives.
LEMMA FinishKeeps ==
  ASSUME CommandInv, NEW c \in Commands, FinishPlan(c) PROVE CommandInv'
<1>0. /\ CommandTypeOK /\ request[c].pc = "finish" /\ request[c] \in Request
      /\ request \in [Commands -> Request] /\ UNCHANGED <<evidence, closing>>
      /\ OutcomeOf(c) /\ AnswerOf(c) /\ ProgressOf(c)
  BY DEF CommandInv, CommandTypeOK, CommandSound, FinishPlan, RequestAt
<1>1. CASE Fails(c)
  BY <1>0, <1>1, FailsKeeps DEF Fails, CommandTypeOK
<1>2. CASE /\ \E history \in BOOLEAN : Finished(c, "SUCCEEDED", history)
           /\ \/ request' = [request EXCEPT ![c].pc = "completed", ![c].finalized = TRUE]
              \/ Thrown(c)
           /\ UNCHANGED phases
  <2>1. PICK history \in BOOLEAN : Finished(c, "SUCCEEDED", history)
    BY <1>2
  <2>2. /\ plans[c] = "RUNNING" /\ plans'[c] = "SUCCEEDED"
        /\ cases'[c].status = "ANALYZED"
        /\ planLog'[c] = planLog[c] \cup {"completed"}
        /\ \A d \in Commands \ {c} : plans'[d] = plans[d] /\ planLog'[d] = planLog[d]
        /\ \A k \in Cases \ {c} : cases'[k] = cases[k]
        /\ plans' \in [Commands -> PlanStatuses] /\ cases' \in [Cases -> Case]
        /\ planLog' \in [Commands -> SUBSET {"started", "completed", "failed"}]
    BY <1>0, <2>1, FinishedMoves
  <2>3. OutcomeOf(c)'
    BY <1>0, <2>2 DEF OutcomeOf
  <2>4. /\ OnlyRequest(c) /\ request'[c].project = request[c].project
        /\ request'[c].plan = request[c].plan
        /\ \/ request'[c].pc = "completed" /\ request'[c].finalized
           \/ request'[c].pc \in {"undo", "failed"}
    <3>1. CASE request' = [request EXCEPT ![c].pc = "completed", ![c].finalized = TRUE]
      <4> DEFINE r == [request[c] EXCEPT !.pc = "completed", !.finalized = TRUE]
      <4>1. request' = [request EXCEPT ![c] = r]
        BY <1>0, <3>1
      <4>2. /\ r \in Request /\ r.pc = "completed" /\ r.finalized
            /\ r.project = request[c].project /\ r.plan = request[c].plan
        BY <1>0 DEF Request
      <4>3. request'[c] = r /\ OnlyRequest(c)
        BY <1>0, <4>1, <4>2 DEF OnlyRequest
      <4> QED BY <4>2, <4>3
    <3>2. CASE Thrown(c)
      BY <1>0, <3>2, ThrownMoves DEF Keeps
    <3> QED BY <1>2, <3>1, <3>2
  <2>5. AnswerOf(c)' /\ ProgressOf(c)'
    BY <1>0, <1>2, <2>2, <2>4 DEF AnswerOf, ProgressOf, RequestAt
  <2>6. cases'[c].status # "NONE"
    BY <2>2
  <2> QED BY <1>0, <1>2, <2>2, <2>3, <2>4, <2>5, <2>6, CommandActs
          DEF CommandSound, CommandTypeOK
<1> QED BY <1>1, <1>2 DEF FinishPlan

\* The plan of a request that has failed is finished too, unless it succeeded
\* after all.
LEMMA UndoKeeps ==
  ASSUME CommandInv, NEW c \in Commands, UndoPlan(c) PROVE CommandInv'
<1>0. /\ CommandTypeOK /\ request[c].pc = "undo"
      /\ UNCHANGED <<evidence, phases, closing>>
      /\ OutcomeOf(c) /\ AnswerOf(c) /\ ProgressOf(c)
      /\ OnlyRequest(c) /\ Keeps(c) /\ request'[c].pc = "failed"
  BY RequestMoves DEF CommandInv, CommandSound, UndoPlan, RequestAt, RequestPcs
<1>1. AnswerOf(c)' /\ ProgressOf(c)'
  BY <1>0 DEF AnswerOf, ProgressOf, RequestAt
<1>2. CASE Finished(c, "FAILED", FALSE)
  <2>1. /\ plans[c] = "RUNNING" /\ plans'[c] = "FAILED"
        /\ cases'[c].status = "BLOCKED" /\ cases'[c].analysis = cases[c].analysis
        /\ planLog'[c] = planLog[c] \cup {"failed"}
        /\ \A d \in Commands \ {c} : plans'[d] = plans[d] /\ planLog'[d] = planLog[d]
        /\ \A k \in Cases \ {c} : cases'[k] = cases[k]
        /\ plans' \in [Commands -> PlanStatuses] /\ cases' \in [Cases -> Case]
        /\ planLog' \in [Commands -> SUBSET {"started", "completed", "failed"}]
    <3>1. cases[c].analysis \in BOOLEAN
      BY <1>0 DEF CommandTypeOK, Cases, Case
    <3> QED BY <1>0, <1>2, <3>1, FinishedMoves
  <2>2. OutcomeOf(c)'
    BY <1>0, <2>1 DEF OutcomeOf
  <2> QED BY <1>0, <1>1, <2>1, <2>2, CommandActs DEF CommandSound, CommandTypeOK
<1>3. CASE UNCHANGED <<plans, cases, planLog>>
  <2>1. OutcomeOf(c)'
    BY <1>0, <1>3 DEF OutcomeOf
  <2> QED BY <1>0, <1>1, <1>3, <2>1, CommandActs DEF CommandSound, CommandTypeOK
<1> QED BY <1>2, <1>3 DEF UndoPlan

\* The steps of a request that write nothing but its own audit.
LEMMA RestKeeps ==
  ASSUME CommandInv, NEW c \in Commands,
         ExecuteCommand(c) \/ Answer(c) \/ Refuse(c) \/ Die(c)
  PROVE  CommandInv'
<1>0. /\ CommandTypeOK /\ OutcomeOf(c) /\ AnswerOf(c) /\ ProgressOf(c)
      /\ UNCHANGED <<plans, cases, evidence, planLog, closing>>
  BY DEF CommandInv, CommandSound, ExecuteCommand, Answer, Refuse, Die
<1>1. OutcomeOf(c)'
  BY <1>0 DEF OutcomeOf
<1> DEFINE Logs == /\ phases' \in [Commands -> SUBSET {"received", "completed", "failed"}]
                   /\ \A d \in Commands \ {c} : phases'[d] = phases[d]
<1>2. ASSUME OnlyRequest(c), AnswerOf(c)', ProgressOf(c)', Logs PROVE CommandInv'
  BY <1>0, <1>1, <1>2, CommandActs DEF CommandSound, CommandTypeOK
<1>3. CASE ExecuteCommand(c)
  <2>1. phases' = phases /\ Logs /\ request[c].pc = "execute"
    BY <1>0, <1>3 DEF ExecuteCommand, CommandTypeOK, RequestAt
  <2>2. CASE Thrown(c)
    BY <1>0, <2>1, <2>2, FailsKeeps
  <2>3. CASE RequestTo(c, IF request[c].plan THEN "finish" ELSE "completed")
    <3>1. /\ OnlyRequest(c) /\ Keeps(c)
          /\ request'[c].pc = IF request[c].plan THEN "finish" ELSE "completed"
      BY <1>0, <2>3, RequestMoves DEF RequestPcs
    <3>2. AnswerOf(c)' /\ ProgressOf(c)'
      BY <1>0, <2>1, <3>1 DEF AnswerOf, ProgressOf, RequestAt, Keeps
    <3> QED BY <1>2, <2>1, <3>1, <3>2
  <2> QED BY <1>3, <2>2, <2>3 DEF ExecuteCommand
<1>4. CASE Answer(c)
  <2>1. request[c].pc = "completed"
    BY <1>4 DEF Answer, RequestAt
  <2>2. CASE Logged(c, "completed") /\ RequestTo(c, "answered")
    <3>1. OnlyRequest(c) /\ Keeps(c) /\ request'[c].pc = "answered"
      BY <1>0, <2>2, RequestMoves DEF RequestPcs
    <3>2. phases'[c] = phases[c] \cup {"completed"} /\ Logs
      BY <1>0, <2>2, LoggedMoves
    <3>3. AnswerOf(c)' /\ ProgressOf(c)'
      BY <1>0, <2>1, <3>1, <3>2 DEF AnswerOf, ProgressOf, RequestAt, Keeps
    <3> QED BY <1>2, <3>1, <3>2, <3>3
  <2>3. CASE (Logged(c, "completed") \/ UNCHANGED phases) /\ Thrown(c)
    <3>1. phases'[c] \in {phases[c], phases[c] \cup {"completed"}} /\ Logs
      BY <1>0, <2>3, LoggedMoves DEF CommandTypeOK
    <3> QED BY <1>0, <2>1, <2>3, <3>1, FailsKeeps
  <2> QED BY <1>4, <2>2, <2>3 DEF Answer
<1>5. CASE Refuse(c)
  <2>1. OnlyRequest(c) /\ Keeps(c) /\ request'[c].pc = "refused" /\ request[c].pc = "failed"
    BY <1>0, <1>5, RequestMoves DEF Refuse, RequestPcs, RequestAt
  <2>2. phases'[c] \in {phases[c], phases[c] \cup {"failed"}} /\ Logs
    BY <1>0, <1>5, LoggedMoves DEF Refuse, CommandTypeOK
  <2>3. AnswerOf(c)' /\ ProgressOf(c)'
    BY <1>0, <2>1, <2>2 DEF AnswerOf, ProgressOf, RequestAt, Keeps
  <2> QED BY <1>2, <2>1, <2>2, <2>3
<1>6. CASE Die(c)
  <2>1. OnlyRequest(c) /\ Keeps(c) /\ request'[c].pc = "refused" /\ phases' = phases /\ Logs
    BY <1>0, <1>6, RequestMoves DEF Die, RequestPcs, CommandTypeOK
  <2>2. AnswerOf(c)' /\ ProgressOf(c)'
    BY <1>0, <2>1 DEF AnswerOf, ProgressOf, RequestAt, Keeps
  <2> QED BY <1>2, <2>1, <2>2
<1> QED BY <1>3, <1>4, <1>5, <1>6

\* The owner closes a case that is there, and creates only cases of a key.
LEMMA OwnerKeeps ==
  ASSUME CommandInv, NEW k \in Cases,
         \/ k \in CaseKeys /\ CreateCase(k)
         \/ \E f \in Facts : AppendEvidence(k, f)
         \/ CloseRead(k) \/ CloseWrite(k)
  PROVE  CommandInv'
<1>0. /\ CommandTypeOK /\ cases \in [Cases -> Case] /\ cases[k] \in Case /\ ClosingOf(k)
      /\ closing \in [Cases -> 0 .. MaxCaseVersion]
      /\ \A c \in Commands : CommandSound(c) /\ c \in Cases /\ plans[c] \in PlanStatuses
      /\ \A i \in Cases : ClosingOf(i)
      /\ UNCHANGED <<plans, planLog, phases, request>>
      /\ MaxCaseVersion \in Nat \ {0}
  BY CommandAssumption DEF CommandInv, CommandTypeOK, Cases, CreateCase, AppendEvidence, CloseRead, CloseWrite
<1>1. CASE k \in CaseKeys /\ CreateCase(k)
  <2> DEFINE row == [cases[k] EXCEPT !.status = "DRAFT"]
  <2>1. cases' = [cases EXCEPT ![k] = row] /\ UNCHANGED <<evidence, closing>>
    BY <1>0, <1>1 DEF CreateCase
  <2>2. row \in Case /\ row.status = "DRAFT"
    BY <1>0 DEF Case, CaseStatuses
  <2>3. /\ cases'[k].status = "DRAFT" /\ \A i \in Cases \ {k} : cases'[i] = cases[i]
        /\ cases' \in [Cases -> Case]
    BY <1>0, <2>1, <2>2
  <2>4. \A c \in Commands : cases'[c] = cases[c]
    BY <1>0, <1>1, <2>3, CommandAssumption
  <2>5. \A c \in Commands : CommandSound(c)'
    BY <1>0, <2>4, OtherCommands
  <2>6. \A i \in Cases : ClosingOf(i)'
    BY <1>0, <2>1, <2>3 DEF ClosingOf
  <2> QED BY <1>0, <2>1, <2>3, <2>5, <2>6 DEF CommandInv, CommandTypeOK
<1>2. CASE \E f \in Facts : AppendEvidence(k, f)
  <2>1. evidence' \in [Cases -> SUBSET Facts] /\ UNCHANGED <<cases, closing>>
    BY <1>0, <1>2 DEF AppendEvidence, CommandTypeOK
  <2>2. \A c \in Commands : CommandSound(c)'
    BY <1>0, <2>1, OtherCommands
  <2> QED BY <1>0, <2>1, <2>2 DEF CommandInv, CommandTypeOK, ClosingOf
<1>3. CASE CloseRead(k)
  <2>1. /\ closing' = [closing EXCEPT ![k] = cases[k].version]
        /\ cases[k].status # "NONE" /\ cases[k].version < MaxCaseVersion
        /\ UNCHANGED <<cases, evidence>>
    BY <1>3 DEF CloseRead
  <2>2. cases[k].version \in 0 .. MaxCaseVersion
    BY <1>0 DEF Case
  <2>3. \A c \in Commands : CommandSound(c)'
    BY <1>0, <2>1, OtherCommands
  <2>4. \A i \in Cases : ClosingOf(i)'
    BY <1>0, <2>1 DEF ClosingOf
  <2>5. closing' \in [Cases -> 0 .. MaxCaseVersion]
    BY <1>0, <2>1, <2>2
  <2> QED BY <1>0, <2>1, <2>3, <2>4, <2>5 DEF CommandInv, CommandTypeOK
<1>4. CASE CloseWrite(k)
  <2> DEFINE row == [cases[k] EXCEPT !.status = "CLOSED", !.version = @ + 1]
  <2>1. /\ closing' = [closing EXCEPT ![k] = 0] /\ UNCHANGED evidence
        /\ cases[k].status # "NONE" /\ closing[k] < MaxCaseVersion
        /\ \/ cases' = [cases EXCEPT ![k] = row] /\ cases[k].version = closing[k]
           \/ cases' = cases
    BY <1>0, <1>4 DEF CloseWrite, ClosingOf, NotClosing
  <2>2. cases[k].version = closing[k] => row \in Case
    <3>1. cases[k].version = closing[k] => cases[k].version + 1 \in 1 .. MaxCaseVersion
      BY <1>0, <2>1 DEF Case
    <3> QED BY <1>0, <3>1 DEF Case, CaseStatuses
  <2>3. row.status = "CLOSED" /\ row.analysis = cases[k].analysis
    BY <1>0 DEF Case
  <2>4. /\ cases' \in [Cases -> Case] /\ \A i \in Cases \ {k} : cases'[i] = cases[i]
        /\ cases'[k] \in {cases[k], row}
    BY <1>0, <2>1, <2>2
  <2>5. ASSUME NEW c \in Commands PROVE CommandSound(c)'
    BY <1>0, <2>1, <2>3, <2>4, OtherCommands
  <2>6. \A i \in Cases : ClosingOf(i)'
    <3> HIDE DEF row
    <3>1. \A i \in Cases \ {k} : closing'[i] = closing[i]
      BY <1>0, <2>1
    <3>2. closing'[k] = 0
      BY <1>0, <2>1
    <3> QED BY <1>0, <2>4, <3>1, <3>2 DEF ClosingOf, NotClosing
  <2>7. closing' \in [Cases -> 0 .. MaxCaseVersion]
    BY <1>0, <2>1
  <2> QED BY <1>0, <2>1, <2>4, <2>5, <2>6, <2>7 DEF CommandInv, CommandTypeOK
<1> QED BY <1>1, <1>2, <1>3, <1>4

\* Every step keeps every command accounted for.
LEMMA CommandsStep ==
  ASSUME CommandInv, [CommandNext]_commandVars
  PROVE  CommandInv'
<1>1. CASE UNCHANGED commandVars
  <2>1. CommandTypeOK'
    BY <1>1 DEF commandVars, CommandInv, CommandTypeOK
  <2>2. \A c \in Commands : CommandSound(c)'
    BY <1>1, OtherCommands DEF commandVars, CommandInv
  <2> QED BY <1>1, <2>1, <2>2 DEF commandVars, CommandInv, ClosingOf, RequestAt
<1>2. CASE \E c \in Commands : \/ Receive(c)
                               \/ StartPlan(c)
                               \/ ExecuteCommand(c)
                               \/ FinishPlan(c)
                               \/ Answer(c)
                               \/ UndoPlan(c)
                               \/ Refuse(c)
                               \/ Die(c)
  BY <1>2, ReceiveKeeps, StartKeeps, FinishKeeps, UndoKeeps, RestKeeps
<1>3. CASE \E k \in CaseKeys : CreateCase(k)
  BY <1>3, OwnerKeeps DEF Cases
<1>4. CASE \E k \in Cases : \/ \E f \in Facts : AppendEvidence(k, f)
                            \/ CloseRead(k)
                            \/ CloseWrite(k)
  BY <1>4, OwnerKeeps
<1> QED BY <1>1, <1>2, <1>3, <1>4 DEF CommandNext

\* Whichever statement of a command fails or loses its answer, and whatever its
\* owner does with the case meanwhile, plan, case and audit tell one outcome, and
\* the user has seen a result only of a plan that succeeded (execute of
\* AuditedAgentCommandCapability, startAgentCommandPlan, finishAgentCommandPlan).
THEOREM CommandsAccounted == CommandSpec => []CommandAccounted
BY CommandsInit, CommandsStep, CommandInvImplies, PTL DEF CommandSpec

-----------------------------------------------------------------------------
(* Candidates.  The audit of a candidate is one of seven histories, and its    *)
(* row one that fits it; what a request has read cannot become false, only old. *)

\* A history, the status and version it ends with, whether it has an approval,
\* and what the summary of the row then is.
Told(k, log, status, approved, summary) ==
  /\ learningLog[k] = log
  /\ learning[k].status = status
  /\ learning[k].version = Len(log)
  /\ approved <=> learning[k].validation # "none"
  /\ learning[k].summary = summary

LifeOf(k) ==
  \/ Told(k, <<>>, "ABSENT", FALSE, "none")
  \/ Told(k, <<"QUARANTINED">>, "QUARANTINED", FALSE, "none")
  \/ Told(k, <<"QUARANTINED", "APPROVED">>, "APPROVED", TRUE, "validation")
  \/ Told(k, <<"QUARANTINED", "APPROVED", "PROMOTED">>, "PROMOTED", TRUE, "validation")
  \/ Told(k, <<"QUARANTINED", "APPROVED", "PROMOTED", "REVOKED">>, "REVOKED", TRUE, "reason")
  \/ Told(k, <<"QUARANTINED", "REJECTED">>, "REJECTED", FALSE, "reason")
  \/ Told(k, <<"QUARANTINED", "APPROVED", "REJECTED">>, "REJECTED", TRUE, "reason")

\* A request to approve names a validation; no request has read the last version
\* there may be.
CuratorSound(d) ==
  curator[d].version # 0 =>
    /\ curator[d].version < MaxCandidateVersion
    /\ curator[d].status = "APPROVED" => curator[d].validation # "none"

LearningInv ==
  /\ LearningTypeOK
  /\ \A k \in Candidates : LifeOf(k)
  /\ \A d \in Curators : CuratorSound(d)

\* The seven histories are the ways a candidate may go.
LEMMA LifeIsAudited ==
  ASSUME NEW k \in Candidates, LifeOf(k)
  PROVE  LET row == learning[k]
             log == learningLog[k]
         IN  /\ log \in Lifecycle
             /\ row.version = Len(log)
             /\ row.status = IF log = <<>> THEN "ABSENT" ELSE Last(log)
             /\ Contains(log, "APPROVED") <=> row.validation # "none"
             /\ row.status \in {"APPROVED", "PROMOTED"} => row.summary = "validation"
<1> DEFINE full == <<"QUARANTINED", "APPROVED", "PROMOTED", "REVOKED">>
<1>1. /\ <<>> = SubSeq(full, 1, 0)
      /\ <<"QUARANTINED">> = SubSeq(full, 1, 1)
      /\ <<"QUARANTINED", "APPROVED">> = SubSeq(full, 1, 2)
      /\ <<"QUARANTINED", "APPROVED", "PROMOTED">> = SubSeq(full, 1, 3)
      /\ full = SubSeq(full, 1, 4)
  OBVIOUS
<1>2. /\ <<"QUARANTINED", "REJECTED">> = Append(<<full[1]>>, "REJECTED")
      /\ <<"QUARANTINED", "APPROVED", "REJECTED">> = Append(<<full[1], full[2]>>, "REJECTED")
  OBVIOUS
<1>3. /\ <<>> \in Lifecycle /\ <<"QUARANTINED">> \in Lifecycle
      /\ <<"QUARANTINED", "APPROVED">> \in Lifecycle
      /\ <<"QUARANTINED", "APPROVED", "PROMOTED">> \in Lifecycle
      /\ full \in Lifecycle
  <2>1. \A n \in 0 .. 4 : SubSeq(full, 1, n) \in Prefixes(full)
    BY DEF Prefixes
  <2>2. Prefixes(full) \subseteq Lifecycle
    BY DEF Lifecycle
  <2>3. \A n \in 0 .. 4 : SubSeq(full, 1, n) \in Lifecycle
    BY <2>1, <2>2
  <2>4. /\ SubSeq(full, 1, 0) \in Lifecycle /\ SubSeq(full, 1, 1) \in Lifecycle
        /\ SubSeq(full, 1, 2) \in Lifecycle /\ SubSeq(full, 1, 3) \in Lifecycle
        /\ SubSeq(full, 1, 4) \in Lifecycle
    BY <2>3
  <2> HIDE DEF full
  <2> QED BY <1>1, <2>4
<1>4. /\ <<"QUARANTINED", "REJECTED">> \in Lifecycle
      /\ <<"QUARANTINED", "APPROVED", "REJECTED">> \in Lifecycle
  BY <1>2 DEF Lifecycle
<1>5. CASE Told(k, <<>>, "ABSENT", FALSE, "none")
  BY <1>3, <1>5 DEF Told, Contains, Last
<1>6. CASE Told(k, <<"QUARANTINED">>, "QUARANTINED", FALSE, "none")
  BY <1>3, <1>6 DEF Told, Contains, Last
<1>7. CASE Told(k, <<"QUARANTINED", "APPROVED">>, "APPROVED", TRUE, "validation")
  BY <1>3, <1>7 DEF Told, Contains, Last
<1>8. CASE Told(k, <<"QUARANTINED", "APPROVED", "PROMOTED">>, "PROMOTED", TRUE, "validation")
  BY <1>3, <1>8 DEF Told, Contains, Last
<1>9. CASE Told(k, full, "REVOKED", TRUE, "reason")
  BY <1>3, <1>9 DEF Told, Contains, Last
<1>10. CASE Told(k, <<"QUARANTINED", "REJECTED">>, "REJECTED", FALSE, "reason")
  BY <1>4, <1>10 DEF Told, Contains, Last
<1>11. CASE Told(k, <<"QUARANTINED", "APPROVED", "REJECTED">>, "REJECTED", TRUE, "reason")
  BY <1>4, <1>11 DEF Told, Contains, Last
<1> QED BY <1>5, <1>6, <1>7, <1>8, <1>9, <1>10, <1>11 DEF LifeOf

\* Nobody has given feedback and nobody is curating.
LEMMA LearningStarts == LearningInit => LearningInv
<1> SUFFICES ASSUME LearningInit PROVE LearningInv
  OBVIOUS
<1>1. NoCandidate \in Candidate
  BY LearningAssumption DEF NoCandidate, Candidate
<1>2. Away \in Curator
  BY LearningAssumption DEF Away, Curator, Expected
<1>3. LearningTypeOK
  BY <1>1, <1>2 DEF LearningInit, LearningTypeOK
<1>4. \A k \in Candidates : LifeOf(k)
  BY DEF LearningInit, LifeOf, Told, NoCandidate
<1>5. \A d \in Curators : CuratorSound(d)
  BY DEF LearningInit, CuratorSound, Away
<1> QED BY <1>3, <1>4, <1>5 DEF LearningInv

\* The histories that one more event makes of a history, and their lengths.
LEMMA Histories ==
  /\ <<"QUARANTINED", "APPROVED">> = Append(<<"QUARANTINED">>, "APPROVED")
  /\ <<"QUARANTINED", "REJECTED">> = Append(<<"QUARANTINED">>, "REJECTED")
  /\ <<"QUARANTINED", "APPROVED", "PROMOTED">>
       = Append(<<"QUARANTINED", "APPROVED">>, "PROMOTED")
  /\ <<"QUARANTINED", "APPROVED", "REJECTED">>
       = Append(<<"QUARANTINED", "APPROVED">>, "REJECTED")
  /\ <<"QUARANTINED", "APPROVED", "PROMOTED", "REVOKED">>
       = Append(<<"QUARANTINED", "APPROVED", "PROMOTED">>, "REVOKED")
  /\ Len(<<"QUARANTINED">>) + 1 = Len(<<"QUARANTINED", "APPROVED">>)
  /\ Len(<<"QUARANTINED">>) + 1 = Len(<<"QUARANTINED", "REJECTED">>)
  /\ Len(<<"QUARANTINED", "APPROVED">>) + 1 = Len(<<"QUARANTINED", "APPROVED", "PROMOTED">>)
  /\ Len(<<"QUARANTINED", "APPROVED">>) + 1 = Len(<<"QUARANTINED", "APPROVED", "REJECTED">>)
  /\ Len(<<"QUARANTINED", "APPROVED", "PROMOTED">>) + 1
       = Len(<<"QUARANTINED", "APPROVED", "PROMOTED", "REVOKED">>)
  OBVIOUS

\* What a curator may do to a candidate takes it from one history to a longer
\* one; a request that finds another version changes nothing.
LEMMA LearningStep ==
  ASSUME LearningInv, [LearningNext]_learningVars
  PROVE  LearningInv'
<1>0. /\ LearningTypeOK /\ learning \in [Candidates -> Candidate]
      /\ learningLog \in [Candidates -> Seq(LearningStatuses)]
      /\ curator \in [Curators -> Curator]
      /\ \A k \in Candidates : LifeOf(k) /\ \A d \in Curators : CuratorSound(d)
      /\ MaxCandidateVersion \in Nat \ {0} /\ "none" \notin Validations /\ Away \in Curator
      /\ DOMAIN Expected = {"APPROVED", "PROMOTED", "REJECTED", "REVOKED"}
  BY LearningAssumption DEF LearningInv, LearningTypeOK, Away, Curator, Expected
<1>1. ASSUME NEW k \in Candidates, Submit(k) PROVE LearningInv'
  <2> DEFINE row == [NoCandidate EXCEPT !.status = "QUARANTINED", !.version = 1]
  <2>1. /\ learning' = [learning EXCEPT ![k] = row] /\ UNCHANGED curator
        /\ learningLog' = [learningLog EXCEPT ![k] = Append(@, "QUARANTINED")]
        /\ learning[k].status = "ABSENT"
    BY <1>1 DEF Submit
  <2>2. learningLog[k] = <<>>
    BY <1>0, <2>1 DEF LifeOf, Told
  <2>3. /\ row \in Candidate /\ row.status = "QUARANTINED" /\ row.version = 1
        /\ row.validation = "none" /\ row.summary = "none"
    <3>1. 0 \in 0 .. MaxCandidateVersion /\ 1 \in 0 .. MaxCandidateVersion
      BY <1>0
    <3>2. /\ NoCandidate \in Candidate
          /\ NoCandidate.validation = "none" /\ NoCandidate.summary = "none"
      BY <3>1 DEF NoCandidate, Candidate
    <3> QED BY <3>1, <3>2 DEF Candidate, LearningStatuses
  <2>4. /\ learning'[k] = row /\ learningLog'[k] = <<"QUARANTINED">>
        /\ \A j \in Candidates \ {k} :
             learning'[j] = learning[j] /\ learningLog'[j] = learningLog[j]
    BY <1>0, <2>1, <2>2
  <2>5. LearningTypeOK'
    BY <1>0, <2>1, <2>3 DEF LearningTypeOK, LearningStatuses
  <2> HIDE DEF row
  <2>6. LifeOf(k)'
    BY <2>3, <2>4 DEF LifeOf, Told
  <2>7. \A j \in Candidates \ {k} : LifeOf(j)'
    BY <1>0, <2>4 DEF LifeOf, Told
  <2> QED BY <1>0, <2>1, <2>5, <2>6, <2>7 DEF LearningInv, CuratorSound
<1>2. ASSUME NEW d \in Curators, NEW k \in Candidates, NEW status \in DOMAIN Expected,
             ReadCandidate(d, k, status)
      PROVE  LearningInv'
  <2>1. PICK v \in IF status = "APPROVED" THEN Validations ELSE {"none"} :
          curator' = [curator EXCEPT ![d] =
            [candidate |-> k, status |-> status, validation |-> v,
             version |-> learning[k].version]]
    BY <1>2 DEF ReadCandidate
  <2> DEFINE wish == [candidate |-> k, status |-> status, validation |-> v,
                      version |-> learning[k].version]
  <2>2. learning[k].version \in Nat /\ learning[k].version < MaxCandidateVersion
    BY <1>0, <1>2 DEF ReadCandidate, Candidate
  <2>3. wish \in Curator
    BY <2>2 DEF Curator
  <2>4. curator' \in [Curators -> Curator] /\ curator'[d] = wish
        /\ \A e \in Curators \ {d} : curator'[e] = curator[e]
    BY <1>0, <2>1, <2>3
  <2>5. CuratorSound(d)'
    BY <1>0, <2>1, <2>2, <2>4 DEF CuratorSound
  <2> QED BY <1>0, <1>2, <2>4, <2>5
          DEF ReadCandidate, LearningInv, LearningTypeOK, LifeOf, Told, CuratorSound
<1>3. ASSUME NEW d \in Curators, Transition(d) PROVE LearningInv'
  <2>0. PICK k \in Candidates : k = curator[d].candidate
    BY <1>0 DEF Curator
  <2> DEFINE wish == curator[d]
             validation == IF wish.status = "APPROVED" THEN wish.validation
                           ELSE learning[k].validation
             summary == CASE wish.status = "APPROVED" -> "validation"
                          [] wish.status = "PROMOTED" -> learning[k].summary
                          [] OTHER -> "reason"
             row == [learning[k] EXCEPT !.status = wish.status,
                                        !.version = wish.version + 1,
                                        !.validation = validation,
                                        !.summary = summary]
  <2>1. /\ wish.status \in DOMAIN Expected /\ wish.version \in Nat
        /\ wish.version # 0 /\ wish.version < MaxCandidateVersion
        /\ wish.validation \in Validations \cup {"none"}
        /\ wish.status = "APPROVED" => wish.validation # "none"
        /\ curator' = [curator EXCEPT ![d] = Away]
    BY <1>0, <1>3 DEF Transition, Curator, CuratorSound
  <2>2. curator' \in [Curators -> Curator] /\ \A e \in Curators : CuratorSound(e)'
    <3>1. curator'[d] = Away /\ \A e \in Curators \ {d} : curator'[e] = curator[e]
      BY <1>0, <2>1
    <3> QED BY <1>0, <2>1, <3>1 DEF CuratorSound, Away
  <2>3. CASE UNCHANGED <<learning, learningLog>>
    BY <1>0, <2>2, <2>3 DEF LearningInv, LearningTypeOK, LifeOf, Told
  <2>4. CASE ~UNCHANGED <<learning, learningLog>>
    <3>1. /\ VersionExpected(learning[k], wish)
          /\ learningLog' = [learningLog EXCEPT ![k] = Append(@, wish.status)]
          /\ learning' = [learning EXCEPT
               ![k].status = wish.status,
               ![k].version = wish.version + 1,
               ![k].validation = IF wish.status = "APPROVED" THEN wish.validation ELSE @,
               ![k].summary = CASE wish.status = "APPROVED" -> "validation"
                                [] wish.status = "PROMOTED" -> @
                                [] OTHER -> "reason"]
      BY <1>3, <2>0, <2>4 DEF Transition
    <3>2. learning[k] \in Candidate
      BY <1>0, <2>1
    <3>3. learning' = [learning EXCEPT ![k] = row]
      BY <1>0, <2>1, <3>1, <3>2 DEF Candidate
    <3>4. /\ row.status = wish.status /\ row.version = wish.version + 1
          /\ row.validation = validation /\ row.summary = summary
      BY <3>2 DEF Candidate
    <3>5. row \in Candidate
      <4>1. wish.version + 1 \in 0 .. MaxCandidateVersion
        BY <1>0, <2>1
      <4>2. wish.status \in LearningStatuses
        BY <1>0, <2>1 DEF LearningStatuses
      <4>3. validation \in Validations \cup {"none"}
        BY <2>1, <3>2 DEF Candidate
      <4>4. summary \in {"none", "validation", "reason"}
        BY <3>2 DEF Candidate
      <4> HIDE DEF validation, summary
      <4> QED BY <3>2, <4>1, <4>2, <4>3, <4>4 DEF Candidate
    <3>6. /\ learning' \in [Candidates -> Candidate] /\ learning'[k] = row
          /\ \A j \in Candidates \ {k} : learning'[j] = learning[j]
      BY <1>0, <2>1, <3>3, <3>5
    <3>7. /\ learningLog' \in [Candidates -> Seq(LearningStatuses)]
          /\ learningLog'[k] = Append(learningLog[k], wish.status)
          /\ \A j \in Candidates \ {k} : learningLog'[j] = learningLog[j]
      BY <1>0, <2>1, <3>1 DEF LearningStatuses
    <3>8. learning[k].version = wish.version
      BY <3>1 DEF VersionExpected
    <3>9. LifeOf(k)'
      <4>0. /\ learning'[k].status = wish.status /\ learning'[k].version = learning[k].version + 1
            /\ learning'[k].validation = validation /\ learning'[k].summary = summary
            /\ learning[k].status \in Expected[wish.status] /\ LifeOf(k)
        BY <1>0, <3>1, <3>4, <3>6, <3>8 DEF VersionExpected
      <4>1. CASE wish.status = "APPROVED"
        <5>1. learning[k].status = "QUARANTINED"
          BY <4>0, <4>1 DEF Expected
        <5>2. Told(k, <<"QUARANTINED">>, "QUARANTINED", FALSE, "none")
          BY <4>0, <5>1 DEF LifeOf, Told
        <5>3. learning'[k].validation # "none" /\ learning'[k].summary = "validation"
          BY <2>1, <4>0, <4>1
        <5>4. Told(k, <<"QUARANTINED", "APPROVED">>, "APPROVED", TRUE, "validation")'
          BY <3>7, <4>0, <4>1, <5>2, <5>3, Histories DEF Told
        <5> QED BY <5>4 DEF LifeOf
      <4>2. CASE wish.status = "PROMOTED"
        <5>1. learning[k].status = "APPROVED"
          BY <4>0, <4>2 DEF Expected
        <5>2. Told(k, <<"QUARANTINED", "APPROVED">>, "APPROVED", TRUE, "validation")
          BY <4>0, <5>1 DEF LifeOf, Told
        <5>3. learning'[k].validation # "none" /\ learning'[k].summary = "validation"
          BY <4>0, <4>2, <5>2 DEF Told
        <5>4. Told(k, <<"QUARANTINED", "APPROVED", "PROMOTED">>, "PROMOTED", TRUE, "validation")'
          BY <3>7, <4>0, <4>2, <5>2, <5>3, Histories DEF Told
        <5> QED BY <5>4 DEF LifeOf
      <4>3. CASE wish.status = "REVOKED"
        <5>1. learning[k].status = "PROMOTED"
          BY <4>0, <4>3 DEF Expected
        <5>2. Told(k, <<"QUARANTINED", "APPROVED", "PROMOTED">>, "PROMOTED", TRUE, "validation")
          BY <4>0, <5>1 DEF LifeOf, Told
        <5>3. learning'[k].validation # "none" /\ learning'[k].summary = "reason"
          BY <4>0, <4>3, <5>2 DEF Told
        <5>4. Told(k, <<"QUARANTINED", "APPROVED", "PROMOTED", "REVOKED">>, "REVOKED", TRUE, "reason")'
          BY <3>7, <4>0, <4>3, <5>2, <5>3, Histories DEF Told
        <5> QED BY <5>4 DEF LifeOf
      <4>4. CASE wish.status = "REJECTED"
        <5>1. learning[k].status \in {"QUARANTINED", "APPROVED"}
          BY <4>0, <4>4 DEF Expected
        <5>2. learning'[k].validation = learning[k].validation /\ learning'[k].summary = "reason"
          BY <4>0, <4>4
        <5>3. CASE learning[k].status = "QUARANTINED"
          <6>1. Told(k, <<"QUARANTINED">>, "QUARANTINED", FALSE, "none")
            BY <4>0, <5>3 DEF LifeOf, Told
          <6>2. Told(k, <<"QUARANTINED", "REJECTED">>, "REJECTED", FALSE, "reason")'
            BY <3>7, <4>0, <4>4, <5>2, <6>1, Histories DEF Told
          <6> QED BY <6>2 DEF LifeOf
        <5>4. CASE learning[k].status = "APPROVED"
          <6>1. Told(k, <<"QUARANTINED", "APPROVED">>, "APPROVED", TRUE, "validation")
            BY <4>0, <5>4 DEF LifeOf, Told
          <6>2. Told(k, <<"QUARANTINED", "APPROVED", "REJECTED">>, "REJECTED", TRUE, "reason")'
            BY <3>7, <4>0, <4>4, <5>2, <6>1, Histories DEF Told
          <6> QED BY <6>2 DEF LifeOf
        <5> QED BY <5>1, <5>3, <5>4
      <4> QED BY <1>0, <2>1, <4>1, <4>2, <4>3, <4>4
    <3>10. \A j \in Candidates \ {k} : LifeOf(j)'
      BY <1>0, <3>6, <3>7 DEF LifeOf, Told
    <3> QED BY <2>2, <3>6, <3>7, <3>9, <3>10 DEF LearningInv, LearningTypeOK
  <2> QED BY <2>3, <2>4
<1>4. CASE UNCHANGED learningVars
  BY <1>0, <1>4 DEF learningVars, LearningInv, LearningTypeOK, LifeOf, Told, CuratorSound
<1> QED BY <1>1, <1>2, <1>3, <1>4 DEF LearningNext

\* However curators overlap, the audit of a candidate is one way through its
\* life, one event per version of its row, and nothing is promoted without the
\* validation of its approval (submitWithAudit and transitionWithAudit of
\* PostgresAgentLearningStore).
THEOREM CandidatesAudited == LearningSpec => []LearningAudited
<1>1. LearningInv => LearningAudited
  BY LifeIsAudited DEF LearningInv, LearningAudited
<1> QED BY LearningStarts, LearningStep, <1>1, PTL DEF LearningSpec

-----------------------------------------------------------------------------
(* The digest.  The calendar comes first: whatever the zone, the midnights the *)
(* service works out are those of the reader's clock.                          *)

\* A quotient is at least d from d times the divisor on.
LEMMA DivAtLeast ==
  ASSUME NEW length \in Nat \ {0}, NEW x \in Int, NEW d \in Int
  PROVE  (x \div length >= d) <=> (x >= d * length)
  BY SMT

LEMMA MultipleMod ==
  ASSUME NEW length \in Nat \ {0}, NEW d \in Int
  PROVE  (d * length) % length = 0
  BY SMT

\* The correction of a guess finds the midnight in two rounds, unless it falls into
\* the time by which the clocks are moved.
LEMMA MidnightFound ==
  ASSUME NEW zone \in Zones, Usual(zone), NEW d \in Int, NEW c \in Int
  PROVE  /\ Midnight(zone, d) \in Int
         /\ c >= Midnight(zone, d) <=> Local(zone, c) >= d * DayLength
<1>1. zone.base \in Int /\ zone.shift \in Int /\ zone.at \in Int
  BY DigestAssumption DEF Zones, Offsets, Moments
<1>2. PICK D \in Int : D = d * DayLength
  BY DigestAssumption
<1>3. D \notin Moved(zone)
  BY <1>2, MultipleMod, DigestAssumption DEF Usual
<1>4. \/ D < zone.at + zone.base /\ D < zone.at + zone.base + zone.shift
      \/ D >= zone.at + zone.base /\ D >= zone.at + zone.base + zone.shift
  BY <1>1, <1>3 DEF Moved
<1> DEFINE round(g) == D - zone.base - (IF g >= zone.at THEN zone.shift ELSE 0)
<1>5. ASSUME NEW g \in Int PROVE Corrected(zone, d, g) = round(g) /\ round(g) \in Int
  BY <1>1, <1>2 DEF Corrected, Local
<1>6. PICK g1 \in Int : g1 = Corrected(zone, d, D) /\ g1 = round(D)
  BY <1>5
<1>7. PICK g2 \in Int : g2 = Corrected(zone, d, g1) /\ g2 = round(g1)
  BY <1>5
<1>8. PICK g3 \in Int : g3 = Corrected(zone, d, g2) /\ g3 = round(g2)
  BY <1>5
<1>9. PICK g4 \in Int : g4 = Corrected(zone, d, g3) /\ g4 = round(g3)
  BY <1>5
<1>10. Midnight(zone, d) = g4
  BY <1>2, <1>6, <1>7, <1>8, <1>9 DEF Midnight
<1>11. g4 = g2 /\ (c >= g2 <=> Local(zone, c) >= D)
  BY <1>1, <1>4, <1>6, <1>7, <1>8, <1>9 DEF Local
<1> QED BY <1>2, <1>10, <1>11

\* What changed between two midnights changed on the days between them.
LEMMA DaysBetween ==
  ASSUME NEW zone \in Zones, Usual(zone), NEW first \in Int, NEW last \in Int, NEW c \in Int
  PROVE  DateOf(zone, c) \in first .. last - 1
           <=> c >= Midnight(zone, first) /\ c < Midnight(zone, last)
<1>1. Local(zone, c) \in Int
  BY DigestAssumption DEF Zones, Offsets, Moments, Local
<1>2. DateOf(zone, c) \in Int
  BY <1>1, DigestAssumption DEF DateOf
<1>3. ASSUME NEW d \in Int PROVE DateOf(zone, c) >= d <=> c >= Midnight(zone, d)
  BY <1>1, DivAtLeast, MidnightFound, DigestAssumption DEF DateOf
<1>4. Midnight(zone, last) \in Int
  BY MidnightFound
<1>5. DateOf(zone, c) <= last - 1 <=> ~(DateOf(zone, c) >= last)
  BY <1>2
<1>6. c < Midnight(zone, last) <=> ~(c >= Midnight(zone, last))
  BY <1>4
<1>7. DateOf(zone, c) \in first .. last - 1
        <=> DateOf(zone, c) >= first /\ DateOf(zone, c) <= last - 1
  BY <1>2
<1> QED BY <1>3, <1>5, <1>6, <1>7

-----------------------------------------------------------------------------
(* What a digest holds.  Rows that were read may have changed since, but only  *)
(* to a time after the digest was asked for: what lasted is still as it was.   *)

States == {"UNREAD", "HALF", "PARTIAL", "COMPLETE", "UNAVAILABLE"}

DigestShape ==
  digest = [pc |-> digest.pc, at |-> digest.at, period |-> digest.period,
            sources |-> digest.sources, rows |-> digest.rows]

DigestTypeOK ==
  /\ item \in [DigestItems -> Row]
  /\ clock \in Zones /\ Usual(clock)
  /\ reader \in Roles
  /\ moment \in Moments
  /\ DigestShape
  /\ digest.sources \in [Sorts -> States]
  /\ digest.pc \in {"none", "reading"}
  /\ digest.pc = "none" => digest = NoDigest
  /\ digest.pc = "reading" =>
       digest.at \in Moments /\ digest.at <= moment /\ digest.period = Periods(clock, digest.at)

\* Nothing is left of a source that was not read.
RowsRead ==
  \A r \in digest.rows :
    /\ r.row \in Row
    /\ digest.sources[r.row.sort] \notin {"UNREAD", "UNAVAILABLE"}

Rows(e) == [name |-> e, row |-> item[e]]

\* What lasted of a source that was read is there.
SourceKept(sort) ==
  digest.sources[sort] = "COMPLETE" =>
    \A e \in Lasting(sort) :
      item[e].changed >= digest.period.previousFrom /\ item[e].changed < digest.period.to
        => Rows(e) \in digest.rows

TasksKept ==
  digest.sources["TASKS"] \in {"HALF", "COMPLETE"} =>
    \A e \in Lasting("TASKS") :
      item[e].kind = "REVIEW" \/ digest.sources["TASKS"] = "COMPLETE" => Rows(e) \in digest.rows

DigestInv ==
  /\ DigestTypeOK
  /\ RowsRead
  /\ \A sort \in Sorts : SourceKept(sort)
  /\ TasksKept

LEMMA RowType ==
  ASSUME NEW row \in Row
  PROVE  row.sort \in Sorts /\ row.kind \in KindsOf(row.sort) /\ row.changed \in Moments
         /\ row = [sort |-> row.sort, kind |-> row.kind, changed |-> row.changed]
  BY DEF Row

LEMMA DigestStarts == DigestInit => DigestInv
<1> SUFFICES ASSUME DigestInit PROVE DigestInv
  OBVIOUS
<1>1. digest = NoDigest /\ digest.rows = {}
  BY DEF DigestInit, NoDigest
<1>2. \A sort \in Sorts : digest.sources[sort] = "UNREAD"
  BY <1>1 DEF NoDigest, Unread
<1>3. item \in [DigestItems -> Row]
  BY DEF DigestInit
<1>4. DigestTypeOK
  BY <1>1, <1>3 DEF DigestInit, DigestTypeOK, DigestShape, NoDigest, Unread, States
<1>5. TasksKept
  BY <1>2 DEF TasksKept, Sorts
<1> QED BY <1>1, <1>2, <1>4, <1>5 DEF DigestInv, RowsRead, SourceKept

\* Asking for a digest.
LEMMA DigestAsked ==
  ASSUME DigestInv, Generate
  PROVE  DigestInv'
<1>1. /\ digest'.pc = "reading" /\ digest'.at = moment /\ digest'.period = Periods(clock, moment)
      /\ digest'.sources = Unread /\ digest'.rows = {} /\ DigestShape'
  BY DEF Generate, NoDigest, DigestShape
<1>2. DigestTypeOK'
  BY <1>1 DEF Generate, DigestInv, DigestTypeOK, Unread, States, Moments
<1>3. \A sort \in Sorts : digest'.sources[sort] = "UNREAD"
  BY <1>1 DEF Unread
<1>4. TasksKept'
  BY <1>3 DEF TasksKept, Sorts
<1> QED BY <1>1, <1>2, <1>3, <1>4 DEF DigestInv, RowsRead, SourceKept

\* A source that was read, or failed.
LEMMA Learning ==
  ASSUME DigestInv, digest.pc = "reading", UNCHANGED <<item, clock, reader, moment>>,
         NEW sort \in Sorts, NEW state \in States \ {"UNREAD", "UNAVAILABLE"},
         NEW rows \in SUBSET DigestItems, \A e \in rows : item[e].sort = sort,
         Learnt(sort, state, rows)
  PROVE  /\ DigestTypeOK' /\ RowsRead'
         /\ digest'.sources = [digest.sources EXCEPT ![sort] = state]
         /\ digest'.period = digest.period /\ digest'.at = digest.at
         /\ \A other \in Sorts \ {sort} : SourceKept(other)'
         /\ digest.rows \subseteq digest'.rows
         /\ \A e \in rows : ~Odd(e) => Rows(e) \in digest'.rows
<1> DEFINE new == {[name |-> e, row |-> item[e]] : e \in {k \in rows : ~Odd(k)}}
<1>1. /\ digest'.sources = [digest.sources EXCEPT ![sort] = state]
      /\ digest'.rows = digest.rows \cup new
      /\ digest'.pc = digest.pc /\ digest'.at = digest.at /\ digest'.period = digest.period
      /\ DigestShape'
  BY DEF Learnt, DigestInv, DigestTypeOK, DigestShape
<1>2. DigestTypeOK'
  BY <1>1 DEF DigestInv, DigestTypeOK
<1>3. RowsRead'
  BY <1>1, RowType DEF DigestInv, DigestTypeOK, RowsRead
<1>4. ASSUME NEW other \in Sorts \ {sort} PROVE SourceKept(other)'
  BY <1>1 DEF DigestInv, DigestTypeOK, SourceKept, Lasting, Rows
<1>5. \A e \in rows : ~Odd(e) => Rows(e) \in digest'.rows
  BY <1>1 DEF Rows
<1> QED BY <1>1, <1>2, <1>3, <1>4, <1>5

LEMMA Failing ==
  ASSUME DigestInv, digest.pc = "reading", UNCHANGED <<item, clock, reader, moment>>,
         NEW sort \in Sorts, Failed(sort)
  PROVE  DigestInv'
<1>1. /\ digest'.sources = [digest.sources EXCEPT ![sort] = "UNAVAILABLE"]
      /\ digest'.rows = {r \in digest.rows : r.row.sort # sort}
      /\ digest'.pc = digest.pc /\ digest'.at = digest.at /\ digest'.period = digest.period
      /\ DigestShape'
  BY DEF Failed, DigestInv, DigestTypeOK, DigestShape
<1>2. DigestTypeOK'
  BY <1>1 DEF DigestInv, DigestTypeOK, States
<1>3. RowsRead'
  BY <1>1, RowType DEF DigestInv, DigestTypeOK, RowsRead
<1>4. \A e \in DigestItems : item[e].sort # sort /\ Rows(e) \in digest.rows => Rows(e) \in digest'.rows
  BY <1>1 DEF Rows
<1>5. ASSUME NEW other \in Sorts PROVE SourceKept(other)'
  BY <1>1, <1>4 DEF DigestInv, DigestTypeOK, SourceKept, Lasting, Rows
<1>6. TasksKept'
  BY <1>1, <1>4 DEF DigestInv, DigestTypeOK, TasksKept, Lasting, Rows, Sorts
<1> QED BY <1>2, <1>3, <1>5, <1>6 DEF DigestInv

\* One of the three sources of the first port.
LEMMA SourceRead ==
  ASSUME DigestInv, NEW sort \in Sorts, ReadSource(sort)
  PROVE  DigestInv'
<1>1. /\ digest.pc = "reading" /\ sort # "TASKS"
      /\ UNCHANGED <<item, clock, reader, moment>>
  BY DEF ReadSource
<1>2. CASE Failed(sort)
  BY <1>1, <1>2, Failing
<1>3. CASE ~Failed(sort)
  <2>1. PICK state \in {"PARTIAL", "COMPLETE"} : Learnt(sort, state, Selected(sort))
    BY <1>3 DEF ReadSource
  <2>2. /\ DigestTypeOK' /\ RowsRead'
        /\ digest'.sources = [digest.sources EXCEPT ![sort] = state]
        /\ digest'.period = digest.period /\ digest'.at = digest.at
        /\ \A other \in Sorts \ {sort} : SourceKept(other)'
        /\ digest.rows \subseteq digest'.rows
        /\ \A e \in Selected(sort) : ~Odd(e) => Rows(e) \in digest'.rows
    <3>1. Selected(sort) \in SUBSET DigestItems /\ \A e \in Selected(sort) : item[e].sort = sort
      BY DEF Selected
    <3>2. state \in States \ {"UNREAD", "UNAVAILABLE"}
      BY DEF States
    <3> QED BY <1>1, <2>1, <3>1, <3>2, Learning
  <2>3. SourceKept(sort)'
    BY <1>1, <2>2 DEF SourceKept, Lasting, Selected, Odd, Rows
  <2>4. TasksKept'
    BY <1>1, <2>2 DEF DigestInv, DigestTypeOK, TasksKept, Lasting, Rows, Sorts
  <2> QED BY <2>2, <2>3, <2>4 DEF DigestInv
<1> QED BY <1>2, <1>3

\* The two queries for the tasks.
LEMMA TasksRead ==
  ASSUME DigestInv, ReadTasks \/ ReadAssigned
  PROVE  DigestInv'
<1>1. UNCHANGED <<item, clock, reader, moment>> /\ "TASKS" \in Sorts
  BY DEF ReadTasks, ReadAssigned, Sorts
<1>2. digest.pc = "reading"
  <2>1. digest.sources["TASKS"] = "HALF" => digest # NoDigest
    BY <1>1 DEF NoDigest, Unread
  <2> QED BY <2>1 DEF ReadTasks, ReadAssigned, DigestInv, DigestTypeOK
<1>3. CASE Failed("TASKS")
  BY <1>1, <1>2, <1>3, Failing
<1>4. ASSUME NEW state \in {"HALF", "COMPLETE"}, NEW rows \in SUBSET DigestItems,
             \A e \in rows : item[e].sort = "TASKS", Learnt("TASKS", state, rows),
             \A e \in Lasting("TASKS") :
               (item[e].kind = "REVIEW" \/ state = "COMPLETE") => (e \in rows \/ Rows(e) \in digest.rows)
      PROVE  DigestInv'
  <2>1. /\ DigestTypeOK' /\ RowsRead'
        /\ digest'.sources = [digest.sources EXCEPT !["TASKS"] = state]
        /\ digest'.period = digest.period /\ digest'.at = digest.at
        /\ \A other \in Sorts \ {"TASKS"} : SourceKept(other)'
        /\ digest.rows \subseteq digest'.rows
        /\ \A e \in rows : ~Odd(e) => Rows(e) \in digest'.rows
    <3>1. state \in States \ {"UNREAD", "UNAVAILABLE"}
      BY DEF States
    <3> QED BY <1>1, <1>2, <1>4, <3>1, Learning
  <2>2. digest'.sources["TASKS"] = state
    BY <1>1, <2>1 DEF DigestInv, DigestTypeOK
  <2>3. ASSUME NEW e \in Lasting("TASKS"), item[e].kind = "REVIEW" \/ state = "COMPLETE"
        PROVE  Rows(e) \in digest'.rows
    BY <1>4, <2>1, <2>3 DEF Lasting, Odd
  <2>4. TasksKept'
    BY <1>1, <2>1, <2>2, <2>3 DEF TasksKept, Lasting, Rows
  <2>5. SourceKept("TASKS")'
    BY <1>1, <2>1, <2>2, <2>3 DEF SourceKept, Lasting, Rows
  <2> QED BY <2>1, <2>4, <2>5 DEF DigestInv
<1>5. CASE ReadTasks /\ ~Failed("TASKS")
  <2>1. CASE reader = "VIEWER"
    <3>1. Learnt("TASKS", "COMPLETE", {})
      BY <1>5, <2>1 DEF ReadTasks
    <3>2. Lasting("TASKS") = {}
      BY <2>1 DEF Lasting, Visible
    <3> QED BY <1>4, <3>1, <3>2
  <2>2. CASE reader # "VIEWER"
    <3>1. Learnt("TASKS", "HALF", Tasks("REVIEW"))
      BY <1>5, <2>2 DEF ReadTasks
    <3>2. /\ Tasks("REVIEW") \in SUBSET DigestItems
          /\ \A e \in Tasks("REVIEW") : item[e].sort = "TASKS"
          /\ \A e \in Lasting("TASKS") : item[e].kind = "REVIEW" => e \in Tasks("REVIEW")
      BY DEF Tasks, Lasting
    <3> QED BY <1>4, <3>1, <3>2
  <2> QED BY <2>1, <2>2
<1>6. CASE ReadAssigned /\ ~Failed("TASKS")
  <2>1. Learnt("TASKS", "COMPLETE", Tasks("ASSIGNED")) /\ digest.sources["TASKS"] = "HALF"
    BY <1>6 DEF ReadAssigned
  <2>2. /\ Tasks("ASSIGNED") \in SUBSET DigestItems
        /\ \A e \in Tasks("ASSIGNED") : item[e].sort = "TASKS"
    BY DEF Tasks
  <2>3. ASSUME NEW e \in Lasting("TASKS")
        PROVE  e \in Tasks("ASSIGNED") \/ Rows(e) \in digest.rows
    <3>1. item[e].kind \in {"REVIEW", "ASSIGNED"}
      BY RowType DEF Lasting, DigestInv, DigestTypeOK, KindsOf
    <3> QED BY <2>1, <2>3, <3>1 DEF DigestInv, TasksKept, Tasks, Lasting
  <2> QED BY <1>4, <2>1, <2>2, <2>3
<1> QED BY <1>3, <1>5, <1>6

\* What others do meanwhile bears a later time.
LEMMA OthersMeanwhile ==
  ASSUME DigestInv, (\E e \in DigestItems : Touch(e)) \/ Tick
  PROVE  DigestInv'
<1>1. UNCHANGED <<clock, reader, digest>> /\ digest.pc = "reading"
  BY DEF Touch, Tick
<1>2. item' \in [DigestItems -> Row] /\ moment' \in Moments /\ moment <= moment'
  <2>1. ASSUME NEW e \in DigestItems, Touch(e)
        PROVE  item' \in [DigestItems -> Row] /\ moment' = moment
    <3>1. PICK kind \in KindsOf(item[e].sort) :
            item' = [item EXCEPT ![e] = [sort |-> item[e].sort, kind |-> kind, changed |-> moment]]
      BY <2>1 DEF Touch
    <3>2. [sort |-> item[e].sort, kind |-> kind, changed |-> moment] \in Row
      BY RowType DEF Row, DigestInv, DigestTypeOK
    <3> QED BY <2>1, <3>1, <3>2 DEF Touch, DigestInv, DigestTypeOK
  <2>2. CASE Tick
    BY <2>2, DigestAssumption DEF Tick, DigestInv, DigestTypeOK, Moments
  <2>3. moment \in Int /\ moment \in Moments
    BY DigestAssumption DEF DigestInv, DigestTypeOK, Moments
  <2> QED BY <2>1, <2>2, <2>3
<1>3. ASSUME NEW e \in DigestItems, item'[e].changed < digest.at PROVE item'[e] = item[e]
  <2>1. ASSUME NEW other \in DigestItems, Touch(other) PROVE item'[e] = item[e]
    <3>1. CASE e # other
      BY <2>1, <3>1 DEF Touch, DigestInv, DigestTypeOK
    <3>2. CASE e = other
      <4>1. item'[e].changed = moment
        BY <2>1, <3>2 DEF Touch, DigestInv, DigestTypeOK
      <4>2. digest.at <= moment /\ digest.at \in Int /\ moment \in Int
        BY <1>1, DigestAssumption DEF DigestInv, DigestTypeOK, Moments
      <4>3. moment < digest.at
        BY <1>3, <4>1
      <4> QED BY <4>2, <4>3
    <3> QED BY <3>1, <3>2
  <2> QED BY <2>1 DEF Tick
<1>4. DigestTypeOK'
  BY <1>1, <1>2, DigestAssumption DEF DigestInv, DigestTypeOK, DigestShape, Moments
<1>5. RowsRead'
  BY <1>1 DEF DigestInv, RowsRead
<1>6. ASSUME NEW sort \in Sorts PROVE SourceKept(sort)'
  BY <1>1, <1>3 DEF DigestInv, SourceKept, Lasting, Rows
<1>7. TasksKept'
  BY <1>1, <1>3 DEF DigestInv, TasksKept, Lasting, Rows
<1> QED BY <1>4, <1>5, <1>6, <1>7 DEF DigestInv

LEMMA DigestStep ==
  ASSUME DigestInv, [DigestNext]_digestVars
  PROVE  DigestInv'
<1>1. CASE UNCHANGED digestVars
  BY <1>1 DEF digestVars, DigestInv, DigestTypeOK, DigestShape, RowsRead, SourceKept, TasksKept,
              Lasting, Rows
<1> QED BY <1>1, DigestAsked, SourceRead, TasksRead, OthersMeanwhile DEF DigestNext

-----------------------------------------------------------------------------
(* What follows for a digest all of whose sources were read. *)

\* The periods of a digest are days of the reader.
LEMMA PeriodDays ==
  ASSUME DigestInv, digest.pc = "reading", NEW today, today = DateOf(clock, digest.at),
         NEW c \in Moments
  PROVE  /\ today \in Int
         /\ DateOf(clock, c) \in today - WeekLength .. today - 1
              <=> c >= digest.period.from /\ c < digest.period.to
         /\ DateOf(clock, c) \in today - 2 * WeekLength .. today - WeekLength - 1
              <=> c >= digest.period.previousFrom /\ c < digest.period.from
         /\ digest.period.previousFrom \in Int /\ digest.period.from \in Int
         /\ digest.period.to \in Int
         /\ digest.period.previousFrom <= digest.period.from
         /\ digest.period.from <= digest.period.to
<1>1. clock \in Zones /\ Usual(clock) /\ digest.at \in Moments /\ c \in Int
  BY DigestAssumption DEF DigestInv, DigestTypeOK, Moments
<1>2. today \in Int
  BY <1>1, DigestAssumption DEF Zones, Offsets, Moments, DateOf, Local
<1>3. digest.period = [from |-> Midnight(clock, today - 1 * WeekLength),
                       to |-> Midnight(clock, today - 0 * WeekLength),
                       previousFrom |-> Midnight(clock, today - 2 * WeekLength)]
  BY DEF DigestInv, DigestTypeOK, Periods
<1>4. PICK a \in Int, b \in Int : a = today - WeekLength /\ b = today - 2 * WeekLength
  BY <1>2, DigestAssumption
<1>5. /\ digest.period.from = Midnight(clock, a) /\ digest.period.to = Midnight(clock, today)
      /\ digest.period.previousFrom = Midnight(clock, b)
  <2>1. today - 1 * WeekLength = a /\ today - 0 * WeekLength = today /\ today - 2 * WeekLength = b
    BY <1>2, <1>4, DigestAssumption
  <2> QED BY <1>3, <2>1
<1>6. DateOf(clock, c) \in a .. today - 1 <=> c >= digest.period.from /\ c < digest.period.to
  BY <1>1, <1>2, <1>4, <1>5, DaysBetween
<1>7. DateOf(clock, c) \in b .. a - 1 <=> c >= digest.period.previousFrom /\ c < digest.period.from
  BY <1>1, <1>4, <1>5, DaysBetween
<1>8. /\ digest.period.previousFrom \in Int /\ digest.period.from \in Int
      /\ digest.period.to \in Int
  BY <1>1, <1>2, <1>4, <1>5, MidnightFound
<1>9. ASSUME NEW d \in Int, NEW e \in Int, d <= e PROVE Midnight(clock, d) <= Midnight(clock, e)
  <2>1. PICK m \in Int : m = Midnight(clock, e)
    BY <1>1, MidnightFound
  <2>2. Local(clock, m) >= e * DayLength
    BY <1>1, <2>1, MidnightFound
  <2>3. e * DayLength >= d * DayLength /\ d * DayLength \in Int /\ e * DayLength \in Int
    BY <1>9, DigestAssumption
  <2>4. Local(clock, m) \in Int
    BY <1>1, DigestAssumption DEF Local, Zones, Offsets, Moments
  <2>5. Local(clock, m) >= d * DayLength
    BY <2>2, <2>3, <2>4
  <2>6. m >= Midnight(clock, d) /\ Midnight(clock, d) \in Int
    BY <1>1, <2>5, MidnightFound
  <2> QED BY <2>1, <2>6
<1>10. b <= a /\ a <= today
  BY <1>2, <1>4, DigestAssumption
<1> QED BY <1>2, <1>4, <1>5, <1>6, <1>7, <1>8, <1>9, <1>10

\* What two sequences joined begin with.
LEMMA Joined ==
  ASSUME NEW S, NEW a \in Seq(S), NEW b \in Seq(S)
  PROVE  /\ a \o b \in Seq(S)
         /\ Len(a \o b) = Len(a) + Len(b) /\ Len(a) \in Nat /\ Len(b) \in Nat
         /\ Len(a) > 0 => (a \o b)[1] = a[1]
         /\ Len(a) = 0 /\ Len(b) > 0 => (a \o b)[1] = b[1]
  OBVIOUS

\* What a digest recommends first.
LEMMA RecommendedListed ==
  ASSUME DigestInv
  PROVE  Len(Recommended) = 3 /\ (Current # {} => OfSort(Current, Recommended[1]) # {})
<1> DEFINE has(sort) == OfSort(Current, sort) # {}
           c(sort) == IF OfSort(Current, sort) # {} THEN <<sort>> ELSE <<>>
           help == <<"ANALYSIS", "DIGEST", "HELP">>
<1>1. ASSUME Current # {} PROVE has("TASKS") \/ has("POSITIONS") \/ has("SPECIFICATIONS") \/ has("KPI")
  <2>1. PICK r \in Current : r \in digest.rows
    BY <1>1 DEF Current, Within
  <2>2. r.row.sort \in Sorts
    BY <2>1, RowType DEF DigestInv, RowsRead
  <2>3. r \in OfSort(Current, r.row.sort)
    BY DEF OfSort
  <2> QED BY <2>2, <2>3 DEF Sorts
<1> DEFINE Names == {"TASKS", "POSITIONS", "SPECIFICATIONS", "KPI", "ANALYSIS", "DIGEST", "HELP"}
<1>2. ASSUME NEW sort \in Names
      PROVE  /\ c(sort) \in Seq(Names)
             /\ has(sort) => Len(c(sort)) = 1 /\ c(sort)[1] = sort
             /\ ~has(sort) => Len(c(sort)) = 0
  <2>1. CASE has(sort)
    <3>1. c(sort) = <<sort>>
      BY <2>1
    <3> HIDE DEF c, Names
    <3> QED BY <2>1, <3>1
  <2>2. CASE ~has(sort)
    <3>1. c(sort) = <<>>
      BY <2>2
    <3> HIDE DEF c, Names
    <3> QED BY <2>2, <3>1
  <2> QED BY <2>1, <2>2
<1>3. /\ help \in Seq(Names) /\ Len(help) = 3
      /\ "TASKS" \in Names /\ "POSITIONS" \in Names /\ "SPECIFICATIONS" \in Names /\ "KPI" \in Names
  OBVIOUS
<1>4. PICK c1, c2, c3, c4, last :
        /\ c1 = c("TASKS") /\ c2 = c("POSITIONS") /\ c3 = c("SPECIFICATIONS") /\ c4 = c("KPI")
        /\ last = help
  OBVIOUS
<1>5. Recommended = SubSeq(c1 \o c2 \o c3 \o c4 \o last, 1, 3)
  BY <1>4 DEF Recommended
<1> HIDE DEF has, c, help, Names
<1>6. /\ c1 \in Seq(Names) /\ c2 \in Seq(Names) /\ c3 \in Seq(Names) /\ c4 \in Seq(Names)
      /\ Len(c1) > 0 => has(c1[1])
      /\ Len(c2) > 0 => has(c2[1])
      /\ Len(c3) > 0 => has(c3[1])
      /\ Len(c4) > 0 => has(c4[1])
      /\ Current # {} => Len(c1) > 0 \/ Len(c2) > 0 \/ Len(c3) > 0 \/ Len(c4) > 0
  BY <1>1, <1>2, <1>3, <1>4
<1>7. PICK q2, q3, q4, all : q2 = c1 \o c2 /\ q3 = q2 \o c3 /\ q4 = q3 \o c4 /\ all = q4 \o last
  OBVIOUS
<1>8. last \in Seq(Names) /\ Len(last) = 3
  BY <1>3, <1>4
<1>9. ASSUME NEW a \in Seq(Names), NEW b \in Seq(Names), NEW q, q = a \o b,
             Len(a) > 0 => has(a[1])
      PROVE  /\ q \in Seq(Names)
             /\ Len(q) = Len(a) + Len(b) /\ Len(a) \in Nat /\ Len(b) \in Nat
             /\ Len(a) > 0 => has(q[1])
             /\ (Len(b) > 0 => has(b[1])) => (Len(q) > 0 => has(q[1]))
  <2>1. /\ q \in Seq(Names)
        /\ Len(q) = Len(a) + Len(b) /\ Len(a) \in Nat /\ Len(b) \in Nat
        /\ Len(a) > 0 => q[1] = a[1]
        /\ Len(a) = 0 /\ Len(b) > 0 => q[1] = b[1]
    BY <1>9, Joined
  <2>2. Len(a) = 0 /\ Len(q) > 0 => Len(b) > 0
    BY <2>1
  <2>3. Len(a) = 0 \/ Len(a) > 0
    BY <2>1
  <2>4. Len(a) > 0 => has(q[1])
    BY <1>9, <2>1
  <2> QED BY <2>1, <2>2, <2>3, <2>4
<1>10. q2 \in Seq(Names) /\ (Len(q2) > 0 => has(q2[1])) /\ Len(q2) = Len(c1) + Len(c2)
       /\ Len(c1) \in Nat /\ Len(c2) \in Nat
  BY <1>6, <1>7, <1>9
<1>11. q3 \in Seq(Names) /\ (Len(q3) > 0 => has(q3[1])) /\ Len(q3) = Len(q2) + Len(c3)
       /\ Len(q2) \in Nat /\ Len(c3) \in Nat
  <2>1. q2 \in Seq(Names) /\ c3 \in Seq(Names) /\ q3 = q2 \o c3
    BY <1>6, <1>7, <1>10
  <2>2. (Len(q2) > 0 => has(q2[1])) /\ (Len(c3) > 0 => has(c3[1]))
    BY <1>6, <1>10
  <2> QED BY <1>9, <2>1, <2>2
<1>12. q4 \in Seq(Names) /\ (Len(q4) > 0 => has(q4[1])) /\ Len(q4) = Len(q3) + Len(c4)
       /\ Len(q3) \in Nat /\ Len(c4) \in Nat
  <2>1. q3 \in Seq(Names) /\ c4 \in Seq(Names) /\ q4 = q3 \o c4
    BY <1>6, <1>7, <1>11
  <2>2. (Len(q3) > 0 => has(q3[1])) /\ (Len(c4) > 0 => has(c4[1]))
    BY <1>6, <1>11
  <2> QED BY <1>9, <2>1, <2>2
<1>13. all \in Seq(Names) /\ Len(all) = Len(q4) + 3 /\ Len(q4) \in Nat
       /\ (Len(q4) > 0 => has(all[1]))
  <2>1. q4 \in Seq(Names) /\ last \in Seq(Names) /\ all = q4 \o last /\ Len(last) = 3
    BY <1>7, <1>8, <1>12
  <2>2. Len(q4) > 0 => has(q4[1])
    BY <1>12
  <2>3. all \in Seq(Names) /\ Len(all) = Len(q4) + Len(last) /\ Len(q4) \in Nat
    BY <1>9, <2>1, <2>2
  <2>4. Len(q4) > 0 => has(all[1])
    BY <1>9, <2>1, <2>2
  <2> QED BY <2>1, <2>3, <2>4
<1>14. Len(SubSeq(all, 1, 3)) = 3 /\ SubSeq(all, 1, 3)[1] = all[1]
  BY <1>13
<1>15. Current # {} => has(all[1])
  BY <1>6, <1>10, <1>11, <1>12, <1>13
<1>16. Recommended = SubSeq(all, 1, 3)
  BY <1>5, <1>7
<1> QED BY <1>14, <1>15, <1>16 DEF has

LEMMA DigestSound == DigestInv => DigestHonest
<1> SUFFICES ASSUME DigestInv, AllRead PROVE DigestHonest
  BY DEF DigestHonest
<1>1. digest.pc = "reading"
  <2>1. "KPI" \in Sorts /\ digest # NoDigest
    BY DEF AllRead, Read, NoDigest, Unread, Sorts
  <2> QED BY <2>1 DEF DigestInv, DigestTypeOK
<1>2. PICK today : today = DateOf(clock, digest.at)
  OBVIOUS
<1> DEFINE week == today - WeekLength .. today - 1
           weekBefore == today - 2 * WeekLength .. today - WeekLength - 1
<1>3. /\ 0 \in Moments
      /\ digest.period.previousFrom \in Int /\ digest.period.from \in Int
      /\ digest.period.to \in Int
      /\ digest.period.previousFrom <= digest.period.from
      /\ digest.period.from <= digest.period.to
      /\ \A c \in Moments :
           /\ c \in Int
           /\ DateOf(clock, c) \in week <=> c >= digest.period.from /\ c < digest.period.to
           /\ DateOf(clock, c) \in weekBefore
                <=> c >= digest.period.previousFrom /\ c < digest.period.from
  <2>1. 0 \in Moments /\ \A c \in Moments : c \in Int
    BY DigestAssumption DEF Moments
  <2> QED BY <1>1, <1>2, <2>1, PeriodDays
<1> HIDE DEF week, weekBefore
<1>4. \A r \in digest.rows : r.row.changed \in Moments
  BY RowType DEF DigestInv, RowsRead
<1>5. Current = Dated(week)
  BY <1>3, <1>4 DEF Current, Within, Dated
<1>6. Previous = Dated(weekBefore)
  BY <1>3, <1>4 DEF Previous, Within, Dated
<1>7. ASSUME NEW sort \in Sorts, digest.sources[sort] = "COMPLETE", NEW e \in Lasting(sort)
      PROVE  /\ DateOf(clock, item[e].changed) \in week => Rows(e) \in Current
             /\ DateOf(clock, item[e].changed) \in weekBefore => Rows(e) \in Previous
  <2>1. item[e].changed \in Moments /\ Visible(reader, item[e])
    BY RowType DEF Lasting, DigestInv, DigestTypeOK
  <2>2. ASSUME item[e].changed >= digest.period.previousFrom, item[e].changed < digest.period.to
        PROVE  Rows(e) \in digest.rows
    BY <1>7, <2>2 DEF DigestInv, SourceKept
  <2>3. Rows(e).row = item[e]
    BY DEF Rows
  <2>4. CASE DateOf(clock, item[e].changed) \in week
    <3>1. item[e].changed >= digest.period.from /\ item[e].changed < digest.period.to
      BY <1>3, <2>1, <2>4
    <3>2. Rows(e) \in Current
      BY <1>3, <2>1, <2>2, <2>3, <3>1 DEF Current, Within
    <3>3. DateOf(clock, item[e].changed) \notin weekBefore
      BY <1>3, <2>1, <3>1
    <3> QED BY <3>2, <3>3
  <2>5. CASE DateOf(clock, item[e].changed) \notin week
    <3>1. ASSUME DateOf(clock, item[e].changed) \in weekBefore PROVE Rows(e) \in Previous
      <4>1. item[e].changed >= digest.period.previousFrom /\ item[e].changed < digest.period.from
        BY <1>3, <2>1, <3>1
      <4> QED BY <1>3, <2>1, <2>2, <2>3, <4>1 DEF Previous, Within
    <3> QED BY <2>5, <3>1
  <2> QED BY <2>4, <2>5
<1>8. DigestStatus = "UNAVAILABLE" => digest.rows = {}
  <2>1. DigestStatus = "UNAVAILABLE" => \A sort \in Sorts : digest.sources[sort] = "UNAVAILABLE"
    BY DEF DigestStatus
  <2> QED BY <2>1, RowType DEF DigestInv, RowsRead
<1>9. \A sort \in Sorts :
        /\ Comparison[sort].previous = Cardinality(OfSort(Dated(weekBefore), sort))
        /\ Comparison[sort].delta =
             Cardinality(OfSort(Dated(week), sort)) - Comparison[sort].previous
  BY <1>5, <1>6 DEF Comparison
<1>10. Len(Recommended) = 3 /\ (Current # {} => OfSort(Current, Recommended[1]) # {})
  BY RecommendedListed
<1> QED BY <1>2, <1>5, <1>7, <1>8, <1>9, <1>10 DEF DigestHonest, week, weekBefore, Rows

\* A digest lists what it says (DigestHonest), whatever the lengths of a day and of a
\* week, for every set of items and every zone whose clocks are moved once and not over a
\* midnight, by however much.
THEOREM DigestsHonest == DigestSpec => []DigestHonest
<1>1. DigestInit => DigestInv
  BY DigestStarts
<1>2. DigestInv /\ [DigestNext]_digestVars => DigestInv'
  BY DigestStep
<1>3. DigestInv => DigestHonest
  BY DigestSound
<1> QED BY <1>1, <1>2, <1>3, PTL DEF DigestSpec

-----------------------------------------------------------------------------
(* What is saved of an answer.  The texts that may be shown are all alike, so  *)
(* that a list of them is known by its length.                                 *)

Plains(n) == [i \in 1 .. n |-> "PLAIN"]

LEMMA PlainsShort ==
  ASSUME NEW n \in Nat, NEW m \in Nat
  PROVE  FirstOf(Plains(n), m) = Plains(IF n < m THEN n ELSE m)
<1>1. Plains(n) \in Seq({"PLAIN"}) /\ Len(Plains(n)) = n
  BY DEF Plains
<1>2. PICK k \in Nat : k = (IF n < m THEN n ELSE m) /\ k <= n
  OBVIOUS
<1>3. SubSeq(Plains(n), 1, k) = Plains(k)
  BY <1>2 DEF Plains
<1>4. FirstOf(Plains(n), m) = SubSeq(Plains(n), 1, IF n < m THEN n ELSE m)
  BY <1>1 DEF FirstOf
<1> QED BY <1>2, <1>3, <1>4

LEMMA PlainsPlain ==
  ASSUME NEW n \in Nat
  PROVE  PlainOnly(Plains(n)) = Plains(n)
<1>1. {k \in DOMAIN Plains(n) : Plains(n)[k] = "PLAIN"} = 1 .. n
  BY DEF Plains
<1>2. Cardinality(1 .. n) = n
  BY FS_Interval
<1> QED BY <1>1, <1>2 DEF PlainOnly, Plains

\* Of a list as an engine gives it.
LEMMA PlainOfList ==
  ASSUME NEW list \in Lists
  PROVE  \E n \in Nat :
           /\ n = Cardinality({i \in DOMAIN list : list[i] = "PLAIN"})
           /\ PlainOnly(list) = Plains(n)
<1>1. PICK m \in 0 .. MaxLines + 1 : list \in [1 .. m -> TextKinds]
  BY DEF Lists
<1>2. m \in Nat
  BY <1>1, SavedAnswerAssumption
<1>3. {i \in DOMAIN list : list[i] = "PLAIN"} \in SUBSET (1 .. m)
  BY <1>1
<1>4. IsFiniteSet(1 .. m)
  BY <1>2, FS_Interval
<1>5. IsFiniteSet({i \in DOMAIN list : list[i] = "PLAIN"})
  BY <1>3, <1>4, FS_Subset
<1> QED BY <1>5, FS_CardinalityType DEF PlainOnly, Plains

LEMMA PlainOfFirst ==
  ASSUME NEW list \in Lists
  PROVE  \E n \in 0 .. MaxDrivers : PlainOnly(FirstOf(list, MaxDrivers)) = Plains(n)
<1>1. PICK m \in 0 .. MaxLines + 1 : list \in [1 .. m -> TextKinds]
  BY DEF Lists
<1>2. m \in Nat /\ list \in Seq(TextKinds) /\ Len(list) = m /\ MaxDrivers \in Nat
  BY <1>1, SavedAnswerAssumption
<1>3. PICK k \in Nat : k = (IF m < MaxDrivers THEN m ELSE MaxDrivers)
  BY <1>2
<1>4. PICK first : first = FirstOf(list, MaxDrivers)
  OBVIOUS
<1>5. DOMAIN first = 1 .. k
  BY <1>2, <1>3, <1>4 DEF FirstOf
<1>6. PICK plain : plain = {i \in DOMAIN first : first[i] = "PLAIN"}
  OBVIOUS
<1>7. IsFiniteSet(1 .. k) /\ Cardinality(1 .. k) = k
  BY FS_Interval
<1>8. IsFiniteSet(plain) /\ Cardinality(plain) <= k
  BY <1>5, <1>6, <1>7, FS_Subset
<1>9. Cardinality(plain) \in Nat
  BY <1>8, FS_CardinalityType
<1>10. Cardinality(plain) \in 0 .. MaxDrivers
  BY <1>2, <1>3, <1>8, <1>9
<1>11. PlainOnly(first) = Plains(Cardinality(plain))
  BY <1>6 DEF PlainOnly, Plains
<1> QED BY <1>4, <1>10, <1>11

-----------------------------------------------------------------------------
(* Commands *)

\* An analysis as it is saved.
Analysed(a) ==
  \E f \in Nat, d \in 0 .. MaxDrivers, w \in 0 .. MaxWeeks, e \in 0 .. 100 :
    /\ f <= MaxLines
    /\ a = [summary |-> "PLAIN", facts |-> Plains(f), drivers |-> Plains(d),
            forecast |-> [weeks |-> w, wape |-> e]]
    /\ w = 0 => e = 0

LEMMA AnalysedStays ==
  ASSUME NEW a, Analysed(a) \/ a = NoAnalysis
  PROVE  RestoreAnalysis(a) = a
<1>1. CASE a = NoAnalysis
  BY <1>1 DEF RestoreAnalysis, NoAnalysis
<1>2. CASE Analysed(a)
  <2>1. PICK f \in Nat, d \in 0 .. MaxDrivers, w \in 0 .. MaxWeeks, e \in 0 .. 100 :
          /\ f <= MaxLines
          /\ a = [summary |-> "PLAIN", facts |-> Plains(f), drivers |-> Plains(d),
                  forecast |-> [weeks |-> w, wape |-> e]]
          /\ w = 0 => e = 0
    BY <1>2 DEF Analysed
  <2>2. MaxLines \in Nat /\ MaxDrivers \in Nat /\ MaxWeeks \in Nat /\ d \in Nat
    BY SavedAnswerAssumption
  <2>3. FirstOf(PlainOnly(Plains(f)), MaxLines) = Plains(f)
    <3>1. FirstOf(Plains(f), MaxLines) = Plains(IF f < MaxLines THEN f ELSE MaxLines)
      BY <2>2, PlainsShort
    <3>2. (IF f < MaxLines THEN f ELSE MaxLines) = f
      BY <2>1, <2>2
    <3> QED BY <3>1, <3>2, PlainsPlain
  <2>4. PlainOnly(FirstOf(Plains(d), MaxDrivers)) = Plains(d)
    <3>1. FirstOf(Plains(d), MaxDrivers) = Plains(IF d < MaxDrivers THEN d ELSE MaxDrivers)
      BY <2>2, PlainsShort
    <3>2. (IF d < MaxDrivers THEN d ELSE MaxDrivers) = d
      BY <2>1, <2>2
    <3> QED BY <2>2, <3>1, <3>2, PlainsPlain
  <2>5. [weeks |-> w, wape |-> e] # NoForecast =>
          w >= 1 /\ Between(1, w, MaxWeeks) = w /\ Between(0, e, 100) = e
    BY <2>1, <2>2 DEF NoForecast, Between
  <2>6. (IF [weeks |-> w, wape |-> e] = NoForecast THEN NoForecast
         ELSE [weeks |-> Between(1, w, MaxWeeks), wape |-> Between(0, e, 100)])
          = [weeks |-> w, wape |-> e]
    BY <2>5
  <2>7. /\ a.summary = "PLAIN" /\ a.facts = Plains(f) /\ a.drivers = Plains(d)
        /\ a.forecast = [weeks |-> w, wape |-> e]
    BY <2>1
  <2>8. RestoreAnalysis(a) = [summary |-> "PLAIN", facts |-> Plains(f), drivers |-> Plains(d),
                              forecast |-> [weeks |-> w, wape |-> e]]
    BY <2>3, <2>4, <2>6, <2>7 DEF RestoreAnalysis
  <2> QED BY <2>1, <2>8
<1> QED BY <1>1, <1>2

LEMMA AnalysisTold ==
  ASSUME NEW o \in AnalysisGiven, o.summary = "PLAIN"
  PROVE  LET a == ProjectAnalysis(o)
             plain == {i \in DOMAIN o.facts : o.facts[i] = "PLAIN"}
         IN  /\ Analysed(a)
             /\ ToSet(a.facts) \cup ToSet(a.drivers) \subseteq {"PLAIN"}
             /\ Len(a.facts) = MaxLines \/ Len(a.facts) = Cardinality(plain)
             /\ Len(a.drivers) <= MaxDrivers
             /\ o.complete /\ o.weeks \in 1 .. MaxWeeks => a.forecast.weeks = o.weeks
             /\ o.complete => a.forecast.wape \in {o.wape, 100}
             /\ ~o.complete => a.forecast = NoForecast
<1>1. /\ o.facts \in Lists /\ o.drivers \in Lists /\ o.complete \in BOOLEAN
      /\ o.weeks \in 0 .. MaxWeeks + 1 /\ o.wape \in {0, 60, 150}
  BY DEF AnalysisGiven
<1>2. MaxLines \in Nat /\ MaxDrivers \in Nat /\ MaxWeeks \in Nat /\ MaxWeeks >= 1
  BY SavedAnswerAssumption
<1>3. PICK n \in Nat : /\ n = Cardinality({i \in DOMAIN o.facts : o.facts[i] = "PLAIN"})
                       /\ PlainOnly(o.facts) = Plains(n)
  BY <1>1, PlainOfList
<1>4. PICK d \in 0 .. MaxDrivers : PlainOnly(FirstOf(o.drivers, MaxDrivers)) = Plains(d)
  BY <1>1, PlainOfFirst
<1>5. PICK f \in Nat : f = (IF n < MaxLines THEN n ELSE MaxLines) /\ f <= MaxLines
  BY <1>2
<1>6. FirstOf(PlainOnly(o.facts), MaxLines) = Plains(f)
  BY <1>2, <1>3, <1>5, PlainsShort
<1>7. PICK w \in 0 .. MaxWeeks, e \in 0 .. 100 :
        /\ w = IF o.complete THEN Between(1, o.weeks, MaxWeeks) ELSE 0
        /\ e = IF o.complete THEN Between(0, o.wape, 100) ELSE 0
        /\ w = 0 => e = 0
        /\ o.complete /\ o.weeks \in 1 .. MaxWeeks => w = o.weeks
        /\ o.complete => e \in {o.wape, 100}
  BY <1>1, <1>2 DEF Between
<1>8. ProjectAnalysis(o) = [summary |-> "PLAIN", facts |-> Plains(f), drivers |-> Plains(d),
                            forecast |-> [weeks |-> w, wape |-> e]]
  <2>1. (IF o.complete
         THEN [weeks |-> Between(1, o.weeks, MaxWeeks), wape |-> Between(0, o.wape, 100)]
         ELSE NoForecast) = [weeks |-> w, wape |-> e]
    BY <1>1, <1>7 DEF NoForecast
  <2> QED BY <1>4, <1>6, <2>1 DEF ProjectAnalysis
<1>9. \A k \in Nat : Len(Plains(k)) = k /\ ToSet(Plains(k)) \subseteq {"PLAIN"}
  BY DEF Plains, ToSet
<1>10. d \in Nat /\ d <= MaxDrivers
  BY <1>2
<1>11. PICK a : a = ProjectAnalysis(o)
  OBVIOUS
<1>12. /\ a.facts = Plains(f) /\ a.drivers = Plains(d)
       /\ a.forecast = [weeks |-> w, wape |-> e] /\ a.forecast.weeks = w /\ a.forecast.wape = e
  BY <1>8, <1>11
<1>13. Analysed(a)
  <2>1. /\ f <= MaxLines
        /\ a = [summary |-> "PLAIN", facts |-> Plains(f), drivers |-> Plains(d),
                forecast |-> [weeks |-> w, wape |-> e]]
        /\ w = 0 => e = 0
    BY <1>5, <1>7, <1>8, <1>11
  <2> QED BY <2>1, Zenon DEF Analysed
<1>14. ~o.complete => a.forecast = NoForecast
  BY <1>7, <1>12 DEF NoForecast
<1>15. /\ ToSet(a.facts) \cup ToSet(a.drivers) \subseteq {"PLAIN"}
       /\ Len(a.drivers) <= MaxDrivers
  BY <1>9, <1>10, <1>12
<1>16. Len(a.facts) = MaxLines \/ Len(a.facts) = Cardinality({i \in DOMAIN o.facts : o.facts[i] = "PLAIN"})
  <2>1. Len(a.facts) = f
    BY <1>9, <1>12
  <2>2. f = n \/ f = MaxLines
    BY <1>5
  <2> QED BY <1>3, <2>1, <2>2
<1>17. /\ o.complete /\ o.weeks \in 1 .. MaxWeeks => a.forecast.weeks = o.weeks
       /\ o.complete => a.forecast.wape \in {o.wape, 100}
  BY <1>7, <1>12
<1> QED BY <1>11, <1>13, <1>14, <1>15, <1>16, <1>17

LEMMA HighestFound ==
  ASSUME NEW levels \in SUBSET ToSet(Levels)
  PROVE  IF levels # {}
         THEN \E i \in DOMAIN Levels :
                /\ Levels[i] \in levels /\ HighestLevel(levels) = Levels[i]
                /\ \A j \in DOMAIN Levels : Levels[j] \in levels => j <= i
         ELSE HighestLevel(levels) = NoLabel
<1>1. DOMAIN Levels = 1 .. 4
  BY DEF Levels
<1>2. PICK among : among = {i \in DOMAIN Levels : Levels[i] \in levels}
  OBVIOUS
<1>3. CASE levels = {}
  BY <1>3 DEF HighestLevel
<1>4. CASE levels # {}
  <2>1. among # {}
    BY <1>2, <1>4 DEF ToSet
  <2>2. among \subseteq 1 .. 4
    BY <1>1, <1>2
  <2>3. \E x \in among : \A y \in among : x >= y
    <3>1. CASE 4 \in among
      BY <2>2, <3>1
    <3>2. CASE 4 \notin among /\ 3 \in among
      BY <2>2, <3>2
    <3>3. CASE 4 \notin among /\ 3 \notin among /\ 2 \in among
      BY <2>2, <3>3
    <3>4. CASE 4 \notin among /\ 3 \notin among /\ 2 \notin among
      <4>1. \A y \in among : y = 1
        BY <2>2, <3>4
      <4> QED BY <2>1, <4>1
    <3> QED BY <3>1, <3>2, <3>3, <3>4
  <2>4. Max(among) \in among /\ \A y \in among : y <= Max(among)
    BY <2>2, <2>3 DEF Max
  <2>5. HighestLevel(levels) = Levels[Max(among)]
    BY <1>2, <2>1 DEF HighestLevel
  <2> QED BY <1>2, <1>4, <2>4, <2>5
<1> QED BY <1>3, <1>4

\* A command's answer, saved and twice rewritten.
LEMMA CommandIsTold ==
  ASSUME NEW o \in CommandOutput
  PROVE  LET b == RestoreCommand(RestoreCommand(ProjectCommand(o)))
         IN  b.schema = "COMMAND" /\ CommandTold(o, b)
<1>1. /\ o.type \in {"RISKS", "OTHER", "ANALYSIS"} /\ o.text \in TextKinds
      /\ o.missing \in BOOLEAN /\ o.review \in BOOLEAN /\ o.levels \in SUBSET ToSet(Levels)
      /\ o.analysis \in AnalysisGiven \cup {NoAnalysis}
  BY DEF CommandOutput
<1>2. PICK p : p = ProjectCommand(o)
  OBVIOUS
<1>3. PICK level : level = IF o.type = "RISKS" THEN HighestLevel(o.levels) ELSE NoLabel
  OBVIOUS
<1>4. PICK given : given = IF o.type = "ANALYSIS" THEN ProjectAnalysis(o.analysis) ELSE NoAnalysis
  OBVIOUS
<1>5. p = [schema   |-> "COMMAND",
           hidden   |-> o.text = "TECHNICAL",
           status   |-> IF o.missing \/ o.review THEN "PARTIAL" ELSE "COMPLETE",
           risk     |-> IF level = NoLabel THEN NoLabel ELSE LevelLabels[level],
           review   |-> o.text = "TECHNICAL" \/ o.review,
           analysis |-> given]
  BY <1>2, <1>3, <1>4 DEF ProjectCommand
<1>6. given = NoAnalysis \/ Analysed(given)
  <2>1. o.analysis \in AnalysisGiven \/ o.analysis.summary # "PLAIN"
    BY <1>1 DEF NoAnalysis
  <2>2. CASE o.type = "ANALYSIS" /\ o.analysis.summary = "PLAIN"
    BY <1>4, <2>1, <2>2, AnalysisTold
  <2>3. CASE ~(o.type = "ANALYSIS" /\ o.analysis.summary = "PLAIN")
    BY <1>4, <2>3 DEF ProjectAnalysis
  <2> QED BY <2>2, <2>3
<1>7. PICK q : q = RestoreCommand(p)
  OBVIOUS
<1>8. PICK b : b = RestoreCommand(q)
  OBVIOUS
<1>9. /\ q.schema = p.schema /\ q.hidden = p.hidden /\ q.status = p.status /\ q.risk = p.risk
      /\ q.review = (p.hidden \/ p.review)
      /\ q.analysis = IF p.hidden THEN NoAnalysis ELSE RestoreAnalysis(p.analysis)
      /\ b.schema = p.schema /\ b.hidden = p.hidden /\ b.status = p.status /\ b.risk = p.risk
      /\ b.review = (p.hidden \/ q.review)
      /\ b.analysis = IF p.hidden THEN NoAnalysis ELSE RestoreAnalysis(q.analysis)
  BY <1>5, <1>7, <1>8 DEF RestoreCommand
<1>10. /\ p.schema = "COMMAND" /\ p.hidden = (o.text = "TECHNICAL")
       /\ p.status = IF o.missing \/ o.review THEN "PARTIAL" ELSE "COMPLETE"
       /\ p.risk = IF level = NoLabel THEN NoLabel ELSE LevelLabels[level]
       /\ p.review = (o.text = "TECHNICAL" \/ o.review) /\ p.analysis = given
  BY <1>5
<1>11. b.analysis = IF b.hidden THEN NoAnalysis ELSE given
  BY <1>6, <1>9, <1>10, AnalysedStays
<1>12. /\ b.hidden <=> o.text = "TECHNICAL"
       /\ b.review <=> o.review \/ b.hidden
       /\ b.status = "COMPLETE" <=> ~o.missing /\ ~o.review
  BY <1>1, <1>9, <1>10
<1>13. IF o.type = "RISKS" /\ o.levels # {}
       THEN \E i \in DOMAIN Levels :
              /\ Levels[i] \in o.levels /\ b.risk = LevelLabels[Levels[i]]
              /\ \A j \in DOMAIN Levels : Levels[j] \in o.levels => j <= i
       ELSE b.risk = NoLabel
  <2>1. \A i \in DOMAIN Levels : Levels[i] # NoLabel
    BY DEF Levels, NoLabel
  <2>2. CASE o.type = "RISKS"
    BY <1>1, <1>3, <1>9, <1>10, <2>1, <2>2, HighestFound
  <2>3. CASE o.type # "RISKS"
    BY <1>3, <1>9, <1>10, <2>3
  <2> QED BY <2>2, <2>3
<1>14. ASSUME ~(o.type # "ANALYSIS" \/ b.hidden \/ o.analysis.summary # "PLAIN")
       PROVE  b.analysis = ProjectAnalysis(o.analysis) /\ o.analysis \in AnalysisGiven
  BY <1>1, <1>4, <1>11, <1>14 DEF NoAnalysis
<1>15. ASSUME o.type # "ANALYSIS" \/ b.hidden \/ o.analysis.summary # "PLAIN"
       PROVE  b.analysis = NoAnalysis
  BY <1>4, <1>11, <1>15 DEF ProjectAnalysis
<1>16. CommandTold(o, b)
  <2>1. CASE o.type # "ANALYSIS" \/ b.hidden \/ o.analysis.summary # "PLAIN"
    BY <1>12, <1>13, <1>15, <2>1 DEF CommandTold
  <2>2. CASE ~(o.type # "ANALYSIS" \/ b.hidden \/ o.analysis.summary # "PLAIN")
    <3>1. o.analysis.summary = "PLAIN"
      BY <2>2
    <3> QED BY <1>12, <1>13, <1>14, <2>2, <3>1, AnalysisTold DEF CommandTold
  <2> QED BY <2>1, <2>2
<1> QED BY <1>2, <1>7, <1>8, <1>9, <1>10, <1>16

-----------------------------------------------------------------------------
(* The other answers *)

\* Every label leads back to the word it stands for.
LEMMA LabelsLeadBack ==
  /\ \A v \in DOMAIN LevelLabels : ValueOf(LevelLabels, LevelLabels[v], "LOW") = v
  /\ \A v \in DOMAIN FactLabels : ValueOf(FactLabels, FactLabels[v], NoLabel) = v
  /\ ValueOf(FactLabels, NoLabel, NoLabel) = NoLabel
  /\ \A v \in DOMAIN VerdictLabels : ValueOf(VerdictLabels, VerdictLabels[v], "INSUFFICIENT_DATA") = v
  /\ \A v \in DOMAIN AdviceLabels : ValueOf(AdviceLabels, AdviceLabels[v], "MONITOR") = v
<1>1. ASSUME NEW labels, NEW v \in DOMAIN labels, NEW default,
             \A w \in DOMAIN labels : labels[w] = labels[v] => w = v
      PROVE  ValueOf(labels, labels[v], default) = v
  BY <1>1 DEF ValueOf
<1>2. \A v, w \in DOMAIN LevelLabels : LevelLabels[w] = LevelLabels[v] => w = v
  BY DEF LevelLabels
<1>3. /\ \A v, w \in DOMAIN FactLabels : FactLabels[w] = FactLabels[v] => w = v
      /\ \A v \in DOMAIN FactLabels : FactLabels[v] # NoLabel
  <2>1. DOMAIN FactLabels = {"NORMAL", "ATTENTION", "CRITICAL", "UNKNOWN"}
    BY DEF FactLabels
  <2>2. /\ FactLabels["NORMAL"] = "norma" /\ FactLabels["ATTENTION"] = "vnimanie"
        /\ FactLabels["CRITICAL"] = "kritichno" /\ FactLabels["UNKNOWN"] = "ne opredeleno"
    BY DEF FactLabels
  <2> QED BY <2>1, <2>2 DEF NoLabel
<1>4. \A v, w \in DOMAIN VerdictLabels : VerdictLabels[w] = VerdictLabels[v] => w = v
  <2>1. DOMAIN VerdictLabels =
          {"EXACT", "COMPATIBLE", "CONDITIONAL", "ENGINEERING_REVIEW", "NOT_RECOMMENDED",
           "PROHIBITED", "INSUFFICIENT_DATA"}
    BY DEF VerdictLabels
  <2>2. /\ VerdictLabels["EXACT"] = "tochnoe" /\ VerdictLabels["COMPATIBLE"] = "sovmestimo"
        /\ VerdictLabels["CONDITIONAL"] = "uslovno"
        /\ VerdictLabels["ENGINEERING_REVIEW"] = "proverka"
        /\ VerdictLabels["NOT_RECOMMENDED"] = "ne rekomenduetsja"
        /\ VerdictLabels["PROHIBITED"] = "zapreshheno"
        /\ VerdictLabels["INSUFFICIENT_DATA"] = "nedostatochno"
    BY DEF VerdictLabels
  <2> QED BY <2>1, <2>2
<1>5. \A v, w \in DOMAIN AdviceLabels : AdviceLabels[w] = AdviceLabels[v] => w = v
  BY DEF AdviceLabels
<1>6. ValueOf(FactLabels, NoLabel, NoLabel) = NoLabel
  BY <1>3 DEF ValueOf
<1> QED BY <1>1, <1>2, <1>3, <1>4, <1>5, <1>6

LEMMA UniversalIsTold ==
  ASSUME NEW o \in UniversalOutput
  PROVE  LET b == RestoreUniversal(ProjectUniversal(o))
         IN  b.schema = "UNIVERSAL" /\ UniversalTold(o, b)
<1>1. /\ o.kind \in {"ANSWER", "CLARIFICATION"} /\ o.review \in BOOLEAN
      /\ o.level \in DOMAIN LevelLabels /\ o.fact \in DOMAIN FactLabels \cup {NoLabel}
      /\ o.verdict \in DOMAIN VerdictLabels /\ o.advice \in DOMAIN AdviceLabels
      /\ o.lack \in {"MATERIAL_NOT_FOUND", "SOURCE_INCOMPLETE", "SOURCE_STALE", "SOURCE_CONFLICT",
                     "SOURCE_UNAVAILABLE", "PROJECT_SCOPE_EMPTY"}
  BY DEF UniversalOutput
<1>2. CASE o.kind = "CLARIFICATION"
  BY <1>2 DEF ProjectUniversal, RestoreUniversal, UniversalTold
<1>3. CASE o.kind = "ANSWER"
  <2>1. NoLabel \notin DOMAIN FactLabels
    BY DEF NoLabel, FactLabels
  <2>2. PICK fact : fact = IF o.fact = NoLabel THEN NoLabel ELSE FactLabels[o.fact]
    OBVIOUS
  <2>3. LabelOf(FactLabels, o.fact) = fact /\ ValueOf(FactLabels, fact, NoLabel) = o.fact
    BY <1>1, <2>1, <2>2, LabelsLeadBack DEF LabelOf
  <2>4. ProjectUniversal(o) =
          [schema  |-> "UNIVERSAL", kind |-> "ANSWER", review |-> o.review,
           level   |-> LevelLabels[o.level], fact |-> fact, verdict |-> VerdictLabels[o.verdict],
           advice  |-> AdviceLabels[o.advice], lack |-> LackStatus(o.lack)]
    BY <1>1, <1>3, <2>3 DEF ProjectUniversal, LabelOf
  <2>5. RestoreUniversal(ProjectUniversal(o)) =
          ProjectUniversal([kind |-> "ANSWER", review |-> o.review, level |-> o.level,
                            fact |-> o.fact, verdict |-> o.verdict, advice |-> o.advice,
                            lack |-> LackCode(LackStatus(o.lack))])
    BY <1>1, <2>3, <2>4, LabelsLeadBack DEF RestoreUniversal
  <2>6. LackStatus(LackCode(LackStatus(o.lack))) = LackStatus(o.lack)
    BY DEF LackStatus, LackCode
  <2>7. RestoreUniversal(ProjectUniversal(o)) = ProjectUniversal(o)
    BY <1>1, <2>3, <2>4, <2>5, <2>6 DEF ProjectUniversal, LabelOf
  <2>8. /\ LackStatus(o.lack) = "NOT_FOUND" <=> o.lack = "MATERIAL_NOT_FOUND"
        /\ LackStatus(o.lack) = "PARTIAL" <=> o.lack \in {"SOURCE_INCOMPLETE", "SOURCE_STALE"}
    BY <1>1 DEF LackStatus
  <2> QED BY <1>3, <2>2, <2>4, <2>7, <2>8 DEF UniversalTold
<1> QED BY <1>1, <1>2, <1>3

Channels == {"ATTACHMENT", "ACTION", "COMMAND", "UNIVERSAL", "DECISION"}

\* Whatever the channel, the page says what the engine said.
LEMMA AnswerIsTold ==
  ASSUME NEW channel \in Channels, NEW o \in OutputsOf(channel)
  PROVE  LET b == ShownOf(Serialized(Kept(channel, o)))
         IN  b.schema = channel /\ OutputTold(o, b)
<1>1. CASE channel = "COMMAND"
  <2>1. o \in CommandOutput
    BY <1>1 DEF OutputsOf
  <2>2. ProjectCommand(o).schema = "COMMAND" /\ RestoreCommand(ProjectCommand(o)).schema = "COMMAND"
    BY DEF ProjectCommand, RestoreCommand
  <2>3. ShownOf(Serialized(Kept(channel, o))) = RestoreCommand(RestoreCommand(ProjectCommand(o)))
    BY <1>1, <2>2 DEF ShownOf, Serialized, Kept
  <2> QED BY <1>1, <2>1, <2>3, CommandIsTold DEF OutputTold
<1>2. CASE channel = "UNIVERSAL"
  <2>1. o \in UniversalOutput
    BY <1>2 DEF OutputsOf
  <2>2. ProjectUniversal(o).schema = "UNIVERSAL"
    BY DEF ProjectUniversal
  <2>3. ShownOf(Serialized(Kept(channel, o))) = RestoreUniversal(ProjectUniversal(o))
    BY <1>2, <2>2 DEF ShownOf, Serialized, Kept
  <2> QED BY <1>2, <2>1, <2>3, UniversalIsTold DEF OutputTold
<1>3. CASE channel = "DECISION"
  <2>1. o.text \in TextKinds /\ o.review \in BOOLEAN
    BY <1>3 DEF OutputsOf, DecisionOutput
  <2>2. ShownOf(Serialized(Kept(channel, o))) = PublicDecision(o)
    BY <1>3 DEF ShownOf, Serialized, Kept, PublicDecision
  <2>3. PICK b : b = PublicDecision(o)
    OBVIOUS
  <2>4. b.schema = "DECISION"
    BY <2>3 DEF PublicDecision
  <2>5. IF o.text = "TECHNICAL" THEN b.hidden /\ b.review /\ b.sure = 0
        ELSE ~b.hidden /\ b.review = o.review /\ b.sure = o.sure
    <3>1. CASE o.text = "TECHNICAL"
      <4>1. b = [schema |-> "DECISION", hidden |-> TRUE, sure |-> 0, review |-> TRUE]
        BY <2>3, <3>1 DEF PublicDecision
      <4> QED BY <3>1, <4>1
    <3>2. CASE o.text # "TECHNICAL"
      <4>1. b = [schema |-> "DECISION", hidden |-> FALSE, sure |-> o.sure, review |-> o.review]
        BY <2>3, <3>2 DEF PublicDecision
      <4> QED BY <3>2, <4>1
    <3> QED BY <3>1, <3>2
  <2>6. OutputTold(o, b)
    BY <2>4, <2>5 DEF OutputTold
  <2> QED BY <1>3, <2>2, <2>3, <2>4, <2>6
<1>4. CASE channel = "ATTACHMENT"
  BY <1>4 DEF ShownOf, Serialized, Kept, PublicAttachment, OutputTold
<1>5. CASE channel = "ACTION"
  BY <1>5 DEF ShownOf, Serialized, Kept, PublicAction, OutputTold
<1> QED BY <1>1, <1>2, <1>3, <1>4, <1>5 DEF Channels

-----------------------------------------------------------------------------
(* Citations.  What the code decides table by table is who may see the source: *)
(* it is of the reader's project and warehouses, or the reader's own.          *)

\* A request that may chat may read everything a viewer may.
LEMMA ContextTyped ==
  ASSUME NEW g \in Grants
  PROVE  LET ctx == ContextOf(g)
         IN  /\ ctx.project \in AccessProjects \cup {NoProject}
             /\ ctx.houses \in SUBSET Houses
             /\ MayRead(ctx, "agent.chat") => ReadPermissions \subseteq ctx.may
<1>1. /\ g.members \in SUBSET AccessProjects /\ g.asked \in AccessProjects
      /\ g.role \in [AccessProjects -> {"NONE", "VIEWER", "ANALYST"}] /\ g.claims \in SUBSET Houses
  BY DEF Grants
<1>2. ActiveProject(g) \in AccessProjects \cup {NoProject}
  <2>1. PICK joined : joined = {i \in DOMAIN JoinedProjects : JoinedProjects[i] \in g.members}
    OBVIOUS
  <2>2. joined \subseteq Nat /\ joined \subseteq DOMAIN JoinedProjects
    BY <2>1, SavedAnswerAssumption
  <2>3. joined # {} => Min(joined) \in joined
    BY <2>2, LeastOne DEF Min
  <2>4. joined # {} => JoinedProjects[Min(joined)] \in AccessProjects
    BY <2>2, <2>3 DEF AccessProjects, ToSet
  <2> QED BY <1>1, <2>1, <2>4 DEF ActiveProject
<1>3. PICK ctx : ctx = ContextOf(g)
  OBVIOUS
<1>4. /\ ctx.project = ActiveProject(g) /\ ctx.houses = g.claims
      /\ ctx.may = IF ctx.project = NoProject THEN {} ELSE ExpandRole(g.role[ctx.project])
  BY <1>3 DEF ContextOf
<1>5. ASSUME MayRead(ctx, "agent.chat") PROVE ReadPermissions \subseteq ctx.may
  <2>1. ctx.project # NoProject
    BY <1>4, <1>5 DEF MayRead
  <2>2. g.role[ctx.project] \in {"NONE", "VIEWER", "ANALYST"}
    BY <1>1, <1>2, <1>4, <2>1
  <2> QED BY <1>4, <1>5, <2>1, <2>2 DEF MayRead, ExpandRole
<1> QED BY <1>1, <1>2, <1>3, <1>4, <1>5

LEMMA ReadableBelongs ==
  ASSUME NEW g \in Grants, MayRead(ContextOf(g), "agent.chat"),
         NEW ctx, ctx = ContextOf(g), NEW members,
         NEW cite \in Citations, NEW row \in RowsOf(cite)
  PROVE  IsReadable(ctx, members, cite, row) <=>
           \E way \in Ways : Belongs(way, ctx, members, cite, row)
<1> DEFINE Theirs == \E way \in Ways : Belongs(way, ctx, members, cite, row)
<1>0. Theirs <=>
        /\ ctx.project # NoProject
        /\ cite.entity # "OTHER_ID"
        /\ cite.entity \in OwnedByProject \ {"MATERIAL"} => row.project = ctx.project
        /\ cite.entity \in OwnedByReader => row.project # NoRow
        /\ cite.entity \in {"PROJECT", "RUN"} => ctx.project \in members
        /\ cite.system = "SAP" => "stock.search" \in ctx.may /\ ctx.houses # {}
        /\ cite.entity = "MOVEMENT" => row.house \in ctx.houses
        /\ cite.entity = "MATERIAL" => Copied(ctx, row) \/ InView(ctx, row)
  BY DEF Belongs, Ways, Copied, InView
<1> SUFFICES IsReadable(ctx, members, cite, row) <=> Theirs
  OBVIOUS
<1> HIDE DEF Theirs
<1>1. /\ ctx.project \in AccessProjects \cup {NoProject} /\ ctx.houses \in SUBSET Houses
      /\ ReadPermissions \subseteq ctx.may
  BY ContextTyped
<1>2. \A permission \in ReadPermissions : MayRead(ctx, permission)
  BY <1>1 DEF MayRead
<1>3. /\ NoRow # ctx.project \/ ctx.project = NoProject
      /\ NoHouse \notin ctx.houses
  BY <1>1, SavedAnswerAssumption
<1>4. /\ cite.entity = "OTHER_ID" => row.project = NoRow
      /\ cite.entity # "MATERIAL" => row.copied = NoHouse
  BY DEF RowsOf
<1>5. CASE cite.system = "APPIUS"
  <2>1. cite.entity \in {"PROJECT", "SPECIFICATION", "POSITION", "INTEGRATION", "OTHER_ID"}
    BY <1>5 DEF Citations
  <2>2. MayRead(ctx, "project.read") /\ MayRead(ctx, "specification.read")
    BY <1>2 DEF ReadPermissions
  <2> QED BY <1>0, <1>3, <1>4, <1>5, <2>1, <2>2
          DEF IsReadable, AppiusReadable, OwnedByProject, OwnedByReader
<1>6. CASE cite.system = "SAP"
  <2>1. cite.entity \in {"MATERIAL", "MOVEMENT", "SEARCH", "INTEGRATION", "OTHER_ID"}
    BY <1>6 DEF Citations
  <2>2. MayRead(ctx, "stock.search") <=> "stock.search" \in ctx.may
    BY DEF MayRead
  <2>3. ctx.project # NoProject /\ cite.entity = "OTHER_ID" => ~Copied(ctx, row) /\ ~InView(ctx, row)
    BY <1>3, <1>4 DEF Copied, InView
  <2> QED BY <1>0, <1>6, <2>1, <2>2, <2>3
          DEF IsReadable, SapReadable, OwnedByProject, OwnedByReader
<1>7. CASE cite.system = "CATALOG"
  <2>1. cite.entity \in {"DEMO_ITEM", "ITEM"}
    BY <1>7 DEF Citations
  <2>2. MayRead(ctx, "catalog.read")
    BY <1>2 DEF ReadPermissions
  <2> QED BY <1>0, <1>7, <2>1, <2>2
          DEF IsReadable, CatalogReadable, OwnedByProject, OwnedByReader
<1>8. CASE cite.system \in {"NORMATIVE", "RAG"}
  <2>1. cite.entity = "DOCUMENT"
    BY <1>8 DEF Citations
  <2>2. MayRead(ctx, "specification.read")
    BY <1>2 DEF ReadPermissions
  <2> QED BY <1>0, <1>8, <2>1, <2>2
          DEF IsReadable, NormReadable, OwnedByProject, OwnedByReader
<1>9. CASE cite.system \in {"SCENARIO", "REPORT"}
  <2>1. cite.entity \in {"RUN", "OTHER_ID"}
    BY <1>9 DEF Citations
  <2>2. MayRead(ctx, "report.read") /\ MayRead(ctx, "analysis.read")
    BY <1>2 DEF ReadPermissions
  <2> QED BY <1>0, <1>3, <1>4, <1>9, <2>1, <2>2
          DEF IsReadable, RunReadable, MayReadRuns, OwnedByProject, OwnedByReader
<1>10. CASE cite.system = "PROCESS_ENGINE"
  <2>1. cite.entity \in {"EVENT", "OTHER_ID"}
    BY <1>10 DEF Citations
  <2>2. MayRead(ctx, "analysis.read")
    BY <1>2 DEF ReadPermissions
  <2> QED BY <1>0, <1>3, <1>4, <1>10, <2>1, <2>2 DEF IsReadable, OwnedByProject, OwnedByReader
<1>11. CASE cite.system \in {"METRIC_REGISTRY", "RISK_ENGINE"}
  <2>1. cite.entity = "METRIC"
    BY <1>11 DEF Citations
  <2>2. MayRead(ctx, "analysis.read")
    BY <1>2 DEF ReadPermissions
  <2> QED BY <1>0, <1>11, <2>1, <2>2 DEF IsReadable, OwnedByProject, OwnedByReader
<1>12. CASE cite.system = "TASK_STORE"
  <2>1. cite.entity \in {"OWN_QUERY", "TASK", "REVIEW"}
    BY <1>12 DEF Citations
  <2>2. MayRead(ctx, "review.read")
    BY <1>2 DEF ReadPermissions
  <2> QED BY <1>0, <1>12, <2>1, <2>2
          DEF IsReadable, TaskReadable, OwnedByProject, OwnedByReader
<1>13. CASE cite.system = "TELEMETRY"
  <2>1. cite.entity = "OTHER_ID"
    BY <1>13 DEF Citations
  <2> QED BY <1>0, <1>13, <2>1 DEF IsReadable
<1> QED
  <2>1. cite.system \in {"APPIUS", "SAP", "CATALOG", "NORMATIVE", "RAG", "SCENARIO", "REPORT",
                         "PROCESS_ENGINE", "METRIC_REGISTRY", "RISK_ENGINE", "TASK_STORE", "TELEMETRY"}
    BY DEF Citations
  <2> QED BY <1>5, <1>6, <1>7, <1>8, <1>9, <1>10, <1>11, <1>12, <1>13, <2>1

\* What is known of a citation that is asked for again, and what its second read finds.
LEMMA SecondBelongs ==
  ASSUME NEW g \in Grants, MayRead(ContextOf(g), "agent.chat"),
         NEW ctx, ctx = ContextOf(g), NEW members,
         NEW cite \in Citations, NEW row \in RowsOf(cite), AsksAgain(ctx, members, cite, row)
  PROVE  /\ cite.entity \in {"MATERIAL", "RUN"} /\ ctx.project # NoProject
         /\ cite.entity = "MATERIAL" =>
              /\ "stock.search" \in ctx.may /\ ctx.houses # {}
              /\ ~Belongs("COPY", ctx, members, cite, row)
         /\ cite.entity = "RUN" /\ row.project = ctx.project =>
              Belongs("VIEW", ctx, members, cite, row)
<1>1. cite.entity \in {"MATERIAL", "RUN"} /\ ctx.project # NoProject
  BY DEF AsksAgain
<1>2. CASE cite.entity = "MATERIAL"
  <2>1. "stock.search" \in ctx.may /\ ctx.houses # {} /\ row.copied \notin ctx.houses
    BY <1>2 DEF AsksAgain, MayRead, Copied
  <2> QED BY <1>1, <1>2, <2>1 DEF Belongs
<1>3. CASE cite.entity = "RUN"
  <2>1. ctx.project \in members
    BY <1>3 DEF AsksAgain
  <2>2. cite.system # "SAP"
    BY <1>3 DEF Citations
  <2> QED BY <1>1, <1>3, <2>1, <2>2 DEF Belongs, OwnedByReader
<1> QED BY <1>1, <1>2, <1>3

-----------------------------------------------------------------------------
(* The requests that read it *)

Answered == Kept(Channel(message), message.output)
SeenNow == SeenBy(reading.ctx, grants, cited, reading.cites)

ReadingShape ==
  reading = [active |-> TRUE, ctx |-> reading.ctx, cites |-> reading.cites, left |-> reading.left,
             half |-> reading.half, found |-> reading.found, could |-> reading.could,
             steady |-> reading.steady]

\* A material that is asked for again was not in the copy then; a run that is asked for
\* again could be seen then if it is still there.
HalfSound(d) ==
  /\ d \in DOMAIN reading.cites
  /\ reading.ctx.project # NoProject
  /\ reading.cites[d].entity \in {"MATERIAL", "RUN"}
  /\ reading.cites[d].entity = "MATERIAL" =>
       /\ "stock.search" \in reading.ctx.may /\ reading.ctx.houses # {}
       /\ <<d, "COPY">> \notin reading.steady
  /\ reading.cites[d].entity = "RUN" /\ cited[d].project = reading.ctx.project =>
       <<d, "VIEW">> \in reading.could

\* What a request under way has found it could see, and what it could see in one way all
\* the time it has found or not yet looked for.
ReadingSound ==
  reading.active =>
    /\ ReadingShape
    /\ \E g \in Grants : MayRead(ContextOf(g), "agent.chat") /\ reading.ctx = ContextOf(g)
    /\ reading.cites = CitesSaved(message)
    /\ saved = Answered
    /\ reading.left \subseteq DOMAIN reading.cites
    /\ reading.steady \subseteq SeenNow /\ SeenNow \subseteq reading.could
    /\ \A d \in reading.half : HalfSound(d)
    /\ \A d \in reading.found : \E way \in Ways : <<d, way>> \in reading.could
    /\ \A d \in DOMAIN reading.cites, way \in Ways :
         <<d, way>> \in reading.steady => d \in reading.left \cup reading.found

ViewSound ==
  view.shown =>
    /\ view.told = ShownOf(Serialized(Answered))
    /\ view.sources \subseteq view.could
    /\ \/ view.steady \subseteq view.sources
       \/ Answered.schema = "COMMAND" /\ Cardinality(view.sources) = MaxSources
    /\ view.links \subseteq view.sources

SavedInv ==
  /\ IsMessage(message)
  /\ grants \in Grants
  /\ DOMAIN cited = DOMAIN message.cites
  /\ \A c \in DOMAIN cited : cited[c] \in RowsOf(message.cites[c])
  /\ saved \in {NoMessage, Answered}
  /\ reading.active \in BOOLEAN
  /\ ReadingSound
  /\ ViewSound

LEMMA SavedStarts == SavedInit => SavedInv
<1> SUFFICES ASSUME SavedInit PROVE SavedInv
  OBVIOUS
<1>1. reading.active = FALSE /\ view.shown = FALSE
  BY DEF SavedInit, Idle, Blank
<1> QED BY <1>1 DEF SavedInit, SavedInv, ReadingSound, ViewSound

\* What a request cites is cited by the message.
LEMMA CitesKnown ==
  ASSUME SavedInv
  PROVE  /\ DOMAIN CitesSaved(message) \subseteq DOMAIN message.cites
         /\ \A c \in DOMAIN CitesSaved(message) :
              /\ CitesSaved(message)[c] = message.cites[c] /\ CitesSaved(message)[c] \in Citations
              /\ cited[c] \in RowsOf(CitesSaved(message)[c])
<1>1. CASE CitesSaved(message) = <<>>
  BY <1>1
<1>2. CASE CitesSaved(message) = message.cites
  BY <1>2 DEF SavedInv, IsMessage
<1> QED BY <1>1, <1>2 DEF CitesSaved

\* What the message is and who answers it stays.
LEMMA MessageStays ==
  ASSUME UNCHANGED <<switches, message>>
  PROVE  Answered' = Answered /\ (IsMessage(message) => IsMessage(message)')
         /\ CitesSaved(message)' = CitesSaved(message)
<1>1. \A m : Channel(m)' = Channel(m)
  BY DEF Channel, NaturalCommand, ExecutionAllowed, ActionsEnabled, UniversalEnabled
<1> QED BY <1>1 DEF Answered, IsMessage, CitesSaved

LEMMA RequestBegins ==
  ASSUME SavedInv, PostAndAnswer \/ Reopen
  PROVE  SavedInv'
<1>1. /\ UNCHANGED <<switches, message, grants, cited>>
      /\ MayRead(ContextOf(grants), "agent.chat")
      /\ reading' = Reading(ContextOf(grants), CitesSaved(message))
      /\ saved' = Answered
  BY DEF PostAndAnswer, Reopen, SavedInv, Answered
<1>2. Answered' = Answered /\ IsMessage(message)' /\ CitesSaved(message)' = CitesSaved(message)
  BY <1>1, MessageStays DEF SavedInv
<1>3. /\ reading'.active = TRUE /\ ReadingShape' /\ reading'.ctx = ContextOf(grants)
      /\ reading'.cites = CitesSaved(message) /\ reading'.left = DOMAIN CitesSaved(message)
      /\ reading'.found = {} /\ reading'.half = {}
      /\ reading'.could = SeenBy(ContextOf(grants), grants, cited, CitesSaved(message))
      /\ reading'.steady = SeenBy(ContextOf(grants), grants, cited, CitesSaved(message))
  BY <1>1 DEF Reading, ReadingShape
<1>4. SeenNow' = SeenBy(ContextOf(grants), grants, cited, CitesSaved(message))
  BY <1>1, <1>3 DEF SeenNow, SeenBy
<1>6. ReadingSound'
  <2>1. \E g \in Grants : (MayRead(ContextOf(g), "agent.chat") /\ reading'.ctx = ContextOf(g))
    BY <1>1, <1>3 DEF SavedInv
  <2> QED BY <1>1, <1>2, <1>3, <1>4, <2>1 DEF ReadingSound
<1>7. ViewSound'
  <2>1. CASE PostAndAnswer
    BY <1>2, <2>1 DEF PostAndAnswer, SavedInv, ViewSound
  <2>2. CASE Reopen
    BY <2>2 DEF Reopen, ViewSound, Blank
  <2> QED BY <2>1, <2>2
<1> QED BY <1>1, <1>2, <1>3, <1>6, <1>7 DEF SavedInv

\* What can be seen of one citation.
LEMMA SeenOne ==
  ASSUME NEW d, NEW way \in Ways
  PROVE  <<d, way>> \in SeenNow <=>
           /\ d \in DOMAIN reading.cites
           /\ Belongs(way, reading.ctx, grants.members, reading.cites[d], cited[d])
BY DEF SeenNow, SeenBy

\* A citation is found exactly if it can be seen when it is looked for, and a material or a
\* run that is asked for again, if it can be seen in the second way, or still.
LEMMA CitationAuthorised ==
  ASSUME SavedInv, NEW c \in DOMAIN message.cites, Authorise(c)
  PROVE  SavedInv'
<1>1. reading.active /\ UNCHANGED <<switches, message, grants, cited, saved, view>>
  BY DEF Authorise
<1>2. Answered' = Answered /\ IsMessage(message)' /\ CitesSaved(message)' = CitesSaved(message)
  BY <1>1, MessageStays DEF SavedInv
<1>3. PICK with : with = {d \in reading.left : d = c \/ ReadTogether(reading.cites[c], reading.cites[d])}
  OBVIOUS
<1>4. PICK again : again = {d \in with \ reading.half :
                     AsksAgain(reading.ctx, grants.members, reading.cites[d], cited[d])}
  OBVIOUS
<1>5. PICK yes : yes = {d \in with \ again :
                   IF d \in reading.half THEN SecondRead(reading.ctx, reading.cites[d], cited[d])
                   ELSE IsReadable(reading.ctx, grants.members, reading.cites[d], cited[d])}
  OBVIOUS
<1>6. /\ ReadingShape' /\ reading'.active = TRUE /\ reading'.ctx = reading.ctx
      /\ reading'.cites = reading.cites /\ reading'.left = reading.left \ (with \ again)
      /\ reading'.half = reading.half \cup again /\ reading'.found = reading.found \cup yes
      /\ reading'.could = reading.could /\ reading'.steady = reading.steady
  BY <1>1, <1>3, <1>4, <1>5 DEF Authorise, SavedInv, ReadingSound, ReadingShape
<1>7. SeenNow' = SeenNow
  BY <1>1, <1>6 DEF SeenNow, SeenBy
<1>8. PICK g \in Grants : MayRead(ContextOf(g), "agent.chat") /\ reading.ctx = ContextOf(g)
  BY <1>1 DEF SavedInv, ReadingSound
<1>9. ASSUME NEW d \in with
      PROVE  /\ d \in DOMAIN reading.cites /\ reading.cites[d] \in Citations
             /\ cited[d] \in RowsOf(reading.cites[d])
  BY <1>1, <1>3, CitesKnown DEF SavedInv, ReadingSound
<1>10. ReadingSound /\ reading.active
  BY <1>1 DEF SavedInv
<1>11. ASSUME NEW d \in with \ again, d \notin reading.half
       PROVE  d \in yes <=> \E way \in Ways : <<d, way>> \in SeenNow
  <2>1. d \in yes <=> IsReadable(reading.ctx, grants.members, reading.cites[d], cited[d])
    BY <1>5, <1>11
  <2>2. IsReadable(reading.ctx, grants.members, reading.cites[d], cited[d])
          <=> \E way \in Ways : Belongs(way, reading.ctx, grants.members, reading.cites[d], cited[d])
    BY <1>8, <1>9, ReadableBelongs
  <2> QED BY <1>9, <2>1, <2>2, SeenOne
<1>12. ASSUME NEW d \in with \ again, d \in reading.half
       PROVE  /\ d \in yes => \E way \in Ways : <<d, way>> \in reading.could
              /\ (\E way \in Ways : <<d, way>> \in reading.steady) => d \in yes
  <2>1. HalfSound(d)
    BY <1>10, <1>12 DEF ReadingSound
  <2>2. d \in yes <=> SecondRead(reading.ctx, reading.cites[d], cited[d])
    BY <1>5, <1>12
  <2>3. CASE reading.cites[d].entity = "MATERIAL"
    <3>1. SecondRead(reading.ctx, reading.cites[d], cited[d])
            <=> Belongs("VIEW", reading.ctx, grants.members, reading.cites[d], cited[d])
      BY <2>1, <2>3 DEF SecondRead, InView, Belongs, HalfSound, OwnedByProject, OwnedByReader
    <3>2. d \in yes <=> <<d, "VIEW">> \in SeenNow
      BY <1>9, <2>2, <3>1, SeenOne DEF Ways
    <3>3. reading.steady \subseteq SeenNow /\ SeenNow \subseteq reading.could
      BY <1>10 DEF ReadingSound
    <3> QED BY <2>1, <2>3, <3>2, <3>3 DEF HalfSound, Ways
  <2>4. CASE reading.cites[d].entity = "RUN"
    <3>1. d \in yes <=> cited[d].project = reading.ctx.project
      BY <2>2, <2>4 DEF SecondRead
    <3>2. ASSUME NEW way \in Ways, <<d, way>> \in reading.steady
          PROVE  cited[d].project = reading.ctx.project
      <4>1. <<d, way>> \in SeenNow
        BY <1>10, <3>2 DEF ReadingSound
      <4> QED BY <2>4, <4>1, SeenOne DEF Belongs, OwnedByProject
    <3> QED BY <2>1, <2>4, <3>1, <3>2 DEF HalfSound, Ways
  <2> QED BY <2>1, <2>3, <2>4 DEF HalfSound
<1>13. ASSUME NEW d \in again PROVE HalfSound(d)'
  <2>1. /\ d \in with
        /\ AsksAgain(reading.ctx, grants.members, reading.cites[d], cited[d])
    BY <1>4
  <2>2. /\ reading.cites[d].entity \in {"MATERIAL", "RUN"} /\ reading.ctx.project # NoProject
        /\ reading.cites[d].entity = "MATERIAL" =>
             /\ "stock.search" \in reading.ctx.may /\ reading.ctx.houses # {}
             /\ ~Belongs("COPY", reading.ctx, grants.members, reading.cites[d], cited[d])
        /\ reading.cites[d].entity = "RUN" /\ cited[d].project = reading.ctx.project =>
             Belongs("VIEW", reading.ctx, grants.members, reading.cites[d], cited[d])
    BY <1>8, <1>9, <2>1, SecondBelongs
  <2>3. /\ reading.cites[d].entity = "MATERIAL" => <<d, "COPY">> \notin reading.steady
        /\ reading.cites[d].entity = "RUN" /\ cited[d].project = reading.ctx.project =>
             <<d, "VIEW">> \in reading.could
    BY <1>9, <1>10, <2>1, <2>2, SeenOne DEF ReadingSound, Ways
  <2> QED BY <1>1, <1>6, <1>9, <2>1, <2>2, <2>3 DEF HalfSound
<1>14. ASSUME NEW d \in reading.half PROVE HalfSound(d)'
  BY <1>1, <1>6, <1>10 DEF ReadingSound, HalfSound
<1>15. \A d \in reading'.half : HalfSound(d)'
  BY <1>6, <1>13, <1>14
<1>16. ASSUME NEW d \in reading'.found PROVE \E way \in Ways : <<d, way>> \in reading'.could
  <2>1. CASE d \in reading.found
    BY <1>6, <1>10, <2>1 DEF ReadingSound
  <2>2. CASE d \in yes
    <3>1. d \in with \ again
      BY <1>5, <2>2
    <3> QED BY <1>6, <1>10, <1>11, <1>12, <2>2, <3>1 DEF ReadingSound
  <2> QED BY <1>6, <2>1, <2>2
<1>17. ASSUME NEW d \in DOMAIN reading'.cites, NEW way \in Ways, <<d, way>> \in reading'.steady
       PROVE  d \in reading'.left \cup reading'.found
  <2>1. <<d, way>> \in SeenNow /\ d \in reading.left \cup reading.found
    BY <1>6, <1>10, <1>17 DEF ReadingSound
  <2>2. CASE d \in with \ again
    BY <1>6, <1>11, <1>12, <1>17, <2>1, <2>2
  <2> QED BY <1>6, <2>1, <2>2
<1>18. ReadingSound'
  <2>1. /\ (\E h \in Grants : MayRead(ContextOf(h), "agent.chat") /\ reading'.ctx = ContextOf(h))
        /\ reading'.cites = CitesSaved(message)' /\ saved' = Answered'
        /\ reading'.left \subseteq DOMAIN reading'.cites
        /\ reading'.steady \subseteq SeenNow' /\ SeenNow' \subseteq reading'.could
    BY <1>1, <1>2, <1>6, <1>7, <1>8, <1>10 DEF ReadingSound
  <2> QED BY <1>6, <1>15, <1>16, <1>17, <2>1 DEF ReadingSound
<1> QED BY <1>1, <1>2, <1>6, <1>18 DEF SavedInv, ViewSound

LEMMA RequestAnswered ==
  ASSUME SavedInv, AnswerRequest
  PROVE  SavedInv'
<1>1. reading.active /\ reading.left = {} /\ UNCHANGED <<switches, message, grants, cited, saved>>
  BY DEF AnswerRequest
<1>2. Answered' = Answered /\ IsMessage(message)'
  BY <1>1, MessageStays DEF SavedInv
<1>3. reading'.active = FALSE
  BY DEF AnswerRequest, Idle
<1>4. PICK sources \in SourcesShown(saved.schema, reading.found) :
        /\ view'.told = ShownOf(Serialized(saved)) /\ view'.sources = sources
        /\ view'.links \subseteq sources
        /\ view'.could = {seen[1] : seen \in reading.could}
        /\ view'.steady = {seen[1] : seen \in reading.steady}
  BY DEF AnswerRequest
<1>8. /\ sources \subseteq reading.found
      /\ \/ sources = reading.found
         \/ saved.schema = "COMMAND" /\ Cardinality(sources) = MaxSources
  BY <1>4 DEF SourcesShown, kSubset
<1>5. reading.found \subseteq {seen[1] : seen \in reading.could}
  <2>1. ASSUME NEW d \in reading.found PROVE d \in {seen[1] : seen \in reading.could}
    <3>1. PICK way \in Ways : <<d, way>> \in reading.could
      BY <1>1 DEF SavedInv, ReadingSound
    <3>2. <<d, way>>[1] = d
      OBVIOUS
    <3> QED BY <3>1, <3>2
  <2> QED BY <2>1
<1>6. {seen[1] : seen \in reading.steady} \subseteq reading.found
  <2>1. ASSUME NEW seen \in reading.steady PROVE seen[1] \in reading.found
    <3>1. seen \in (DOMAIN reading.cites) \X Ways
      BY <1>1 DEF SavedInv, ReadingSound, SeenNow, SeenBy
    <3>2. seen = <<seen[1], seen[2]>> /\ seen[1] \in DOMAIN reading.cites /\ seen[2] \in Ways
      BY <3>1
    <3> QED BY <1>1, <3>2, <2>1 DEF SavedInv, ReadingSound
  <2> QED BY <2>1
<1>7. ViewSound'
  BY <1>1, <1>2, <1>4, <1>5, <1>6, <1>8 DEF SavedInv, ReadingSound, ViewSound
<1> QED BY <1>1, <1>2, <1>3, <1>7 DEF SavedInv, ReadingSound

\* Whatever is changed meanwhile, the request is watched.
LEMMA RequestWatched ==
  ASSUME SavedInv, Watch(grants', cited'), UNCHANGED <<switches, message, saved, view>>,
         grants' \in Grants, DOMAIN cited' = DOMAIN message.cites,
         \A c \in DOMAIN cited' : cited'[c] \in RowsOf(message.cites[c]),
         \A c \in DOMAIN cited' :
           message.cites[c].entity = "RUN" => cited'[c].project \in {cited[c].project, NoRow}
  PROVE  SavedInv'
<1>1. Answered' = Answered /\ IsMessage(message)' /\ CitesSaved(message)' = CitesSaved(message)
  BY MessageStays DEF SavedInv
<1>2. CASE reading.active = FALSE
  BY <1>1, <1>2 DEF Watch, SavedInv, ReadingSound, ViewSound
<1>3. CASE reading.active = TRUE
  <2>1. PICK now : now = SeenBy(reading.ctx, grants', cited', reading.cites)
    OBVIOUS
  <2>2. /\ ReadingShape' /\ reading'.active = TRUE /\ reading'.ctx = reading.ctx
        /\ reading'.cites = reading.cites /\ reading'.left = reading.left
        /\ reading'.found = reading.found /\ reading'.half = reading.half
        /\ reading'.could = reading.could \cup now /\ reading'.steady = reading.steady \cap now
    BY <1>3, <2>1 DEF Watch, SavedInv, ReadingSound, ReadingShape
  <2>3. SeenNow' = now
    BY <2>1, <2>2 DEF SeenNow, SeenBy
  <2>4. ReadingSound /\ reading.active
    BY <1>3 DEF SavedInv
  <2>5. ASSUME NEW d \in reading.half PROVE HalfSound(d)'
    <3>1. HalfSound(d)
      BY <2>4 DEF ReadingSound
    <3>2. PICK g \in Grants : MayRead(ContextOf(g), "agent.chat") /\ reading.ctx = ContextOf(g)
      BY <2>4 DEF ReadingSound
    <3>3. reading.ctx.project # NoRow
      <4>1. reading.ctx.project \in AccessProjects \cup {NoProject}
        BY <3>2, ContextTyped
      <4> QED BY <3>1, <4>1, SavedAnswerAssumption DEF HalfSound
    <3>4. d \in DOMAIN message.cites /\ reading.cites[d] = message.cites[d]
      BY <2>4, <3>1, CitesKnown DEF ReadingSound, HalfSound
    <3>5. reading.cites[d].entity = "RUN" /\ cited'[d].project = reading.ctx.project =>
            cited[d].project = reading.ctx.project
      BY <3>3, <3>4
    <3> QED BY <2>2, <3>1, <3>5 DEF HalfSound
  <2>6. ReadingSound'
    <3>1. /\ (\E g \in Grants : MayRead(ContextOf(g), "agent.chat") /\ reading'.ctx = ContextOf(g))
          /\ reading'.cites = CitesSaved(message)' /\ saved' = Answered'
          /\ reading'.left \subseteq DOMAIN reading'.cites
          /\ reading'.steady \subseteq SeenNow' /\ SeenNow' \subseteq reading'.could
          /\ \A d \in reading'.found : \E way \in Ways : <<d, way>> \in reading'.could
          /\ \A d \in DOMAIN reading'.cites, way \in Ways :
               <<d, way>> \in reading'.steady => d \in reading'.left \cup reading'.found
      BY <1>1, <2>2, <2>3, <2>4 DEF ReadingSound
    <3>2. \A d \in reading'.half : HalfSound(d)'
      BY <2>2, <2>5
    <3> QED BY <2>2, <3>1, <3>2 DEF ReadingSound
  <2> QED BY <1>1, <2>2, <2>6 DEF SavedInv, ViewSound
<1> QED BY <1>2, <1>3 DEF SavedInv

LEMMA GrantsChanged ==
  ASSUME SavedInv, Regrant
  PROVE  SavedInv'
<1>1. UNCHANGED <<switches, message, cited, saved, view>> /\ Watch(grants', cited')
  BY DEF Regrant
<1>2. /\ grants.members \in SUBSET AccessProjects /\ grants.asked \in AccessProjects
      /\ grants.role \in [AccessProjects -> {"NONE", "VIEWER", "ANALYST"}]
      /\ grants.claims \in SUBSET Houses
      /\ grants = [members |-> grants.members, asked |-> grants.asked, role |-> grants.role,
                   claims |-> grants.claims]
  BY DEF SavedInv, Grants
<1>3. grants' \in Grants
  <2>1. ASSUME NEW p \in AccessProjects,
               grants' = [grants EXCEPT !.members = IF p \in @ THEN @ \ {p} ELSE @ \cup {p}]
        PROVE  grants' \in Grants
    BY <1>2, <2>1 DEF Grants
  <2>2. ASSUME NEW p \in grants.members, grants' = [grants EXCEPT !.asked = p]
        PROVE  grants' \in Grants
    BY <1>2, <2>2 DEF Grants
  <2>3. ASSUME NEW p \in AccessProjects, NEW r \in {"NONE", "VIEWER", "ANALYST"},
               grants' = [grants EXCEPT !.role[p] = r]
        PROVE  grants' \in Grants
    BY <1>2, <2>3 DEF Grants
  <2>4. ASSUME NEW h \in Houses,
               grants' = [grants EXCEPT !.claims = IF h \in @ THEN @ \ {h} ELSE @ \cup {h}]
        PROVE  grants' \in Grants
    BY <1>2, <2>4 DEF Grants
  <2> QED BY <2>1, <2>2, <2>3, <2>4 DEF Regrant
<1>4. \A c \in DOMAIN cited' : cited'[c] \in RowsOf(message.cites[c])
  BY <1>1 DEF SavedInv
<1>5. \A c \in DOMAIN cited' :
        message.cites[c].entity = "RUN" => cited'[c].project \in {cited[c].project, NoRow}
  BY <1>1
<1>6. DOMAIN cited' = DOMAIN message.cites
  BY <1>1 DEF SavedInv
<1> QED BY <1>1, <1>3, <1>4, <1>5, <1>6, RequestWatched

LEMMA RowChanged ==
  ASSUME SavedInv, NEW c \in DOMAIN message.cites, ChangeRow(c)
  PROVE  SavedInv'
<1>1. UNCHANGED <<switches, message, grants, saved, view>> /\ Watch(grants', cited')
  BY DEF ChangeRow
<1>2. PICK row \in RowsOf(message.cites[c]) :
        /\ message.cites[c].entity = "RUN" => row.project \in {cited[c].project, NoRow}
        /\ cited' = [cited EXCEPT ![c] = row]
  BY DEF ChangeRow
<1>3. DOMAIN cited' = DOMAIN message.cites /\ \A d \in DOMAIN cited' : cited'[d] \in RowsOf(message.cites[d])
  BY <1>2 DEF SavedInv
<1>4. \A d \in DOMAIN cited' :
        message.cites[d].entity = "RUN" => cited'[d].project \in {cited[d].project, NoRow}
  BY <1>2 DEF SavedInv
<1>5. grants' \in Grants
  BY <1>1 DEF SavedInv
<1> QED BY <1>1, <1>3, <1>4, <1>5, RequestWatched

LEMMA SavedStep ==
  ASSUME SavedInv, [SavedNext]_savedVars
  PROVE  SavedInv'
<1>1. CASE UNCHANGED savedVars
  <2>1. UNCHANGED <<switches, message, grants, cited, saved, reading, view>>
    BY <1>1 DEF savedVars
  <2>2. Answered' = Answered /\ IsMessage(message)' /\ CitesSaved(message)' = CitesSaved(message)
    BY <2>1, MessageStays DEF SavedInv
  <2>3. SeenNow' = SeenNow
    BY <2>1 DEF SeenNow, SeenBy
  <2>4. \A d : HalfSound(d)' <=> HalfSound(d)
    BY <2>1 DEF HalfSound
  <2>5. ReadingSound' /\ ViewSound'
    BY <2>1, <2>2, <2>3, <2>4 DEF SavedInv, ReadingSound, ReadingShape, ViewSound
  <2> QED BY <2>1, <2>2, <2>5 DEF SavedInv
<1> QED BY <1>1, RequestBegins, CitationAuthorised, RequestAnswered, GrantsChanged, RowChanged DEF SavedNext

LEMMA SavedSound == SavedInv => SavedReadsTrue
<1> SUFFICES ASSUME SavedInv, view.shown PROVE SavedReadsTrue
  BY DEF SavedReadsTrue
<1>1. Channel(message) \in Channels /\ message.output \in OutputsOf(Channel(message))
  BY DEF SavedInv, IsMessage, Channel, Channels
<1>2. /\ view.told.schema = Channel(message)
      /\ OutputTold(message.output, view.told)
  BY <1>1, AnswerIsTold DEF SavedInv, ViewSound, Answered
<1>3. Answered.schema = Channel(message)
  BY <1>1 DEF Answered, Kept, ProjectCommand
<1> QED BY <1>2, <1>3 DEF SavedInv, ViewSound, SavedReadsTrue

\* Whenever an answer is read, the page says what the engine said, names only sources that
\* may be seen, and all of them but for those a command's card has no room for
\* (SavedReadsTrue), for every answer and every number of citations, projects and
\* warehouses, whatever is granted, revoked or rewritten in between.
THEOREM SavedAnswersReadTrue == SavedSpec => []SavedReadsTrue
<1>1. SavedInv /\ [SavedNext]_savedVars => SavedInv'
  BY SavedStep
<1> QED BY <1>1, SavedStarts, SavedSound, PTL DEF SavedSpec
=============================================================================
