-------------------------- MODULE ScenarioRunProofs --------------------------
(***************************************************************************)
(* Theorems about ScenarioRun for every number of requests, every list of  *)
(* configured steps and every bound: how a run and its steps may stand,    *)
(* and what a run leaves behind (its output is the record of its completed *)
(* steps, its results are those of the attempt that was confirmed, and     *)
(* what the user sees is a RunLifecycle).                                  *)
(***************************************************************************)
EXTENDS ScenarioRun, FiniteSetTheorems, TLAPS

-----------------------------------------------------------------------------
(* Lemmas about the operators of the model *)

\* A configured step is one of the six the service knows, and never a run
\* status outside them.
LEMMA ConfiguredAreSteps == ConfiguredSteps \subseteq AllSteps
  BY StepsAssumption DEF ConfiguredSteps

\* What follows a configured step is another configured step, or the end.
LEMMA NextStepType ==
  ASSUME NEW s \in ConfiguredSteps
  PROVE  /\ NextConfiguredStep(s) \in ConfiguredSteps \cup {"COMPLETED"}
         /\ NextConfiguredStep(s) # s
<1>1. Steps \in Seq(AllSteps) /\ \A i, j \in DOMAIN Steps : Steps[i] = Steps[j] => i = j
  BY StepsAssumption
<1> DEFINE i == CHOOSE i \in DOMAIN Steps : Steps[i] = s
<1>2. i \in DOMAIN Steps /\ Steps[i] = s
  BY DEF ConfiguredSteps
<1>3. CASE i < Len(Steps)
  <2>1. i + 1 \in DOMAIN Steps
    BY <1>1, <1>2, <1>3
  <2>2. Steps[i + 1] # s
    BY <1>1, <1>2, <2>1
  <2> QED BY <1>3, <2>1, <2>2 DEF NextConfiguredStep, ConfiguredSteps
<1>4. CASE ~(i < Len(Steps))
  BY <1>4, ConfiguredAreSteps DEF NextConfiguredStep, AllSteps
<1> QED BY <1>3, <1>4

\* The first step is a configured one: the list is not empty.
LEMMA FirstStepType == Steps[1] \in ConfiguredSteps
  BY StepsAssumption DEF ConfiguredSteps

\* The next attempt number of a step is a number: there are finitely many rows.
LEMMA AttemptNumberType ==
  ASSUME NEW st, IsFiniteSet(DOMAIN st), NEW s
  PROVE  AttemptNumber(st, s) \in Nat
<1>1. Cardinality(Attempts(st, s)) \in Nat
  BY FS_Subset, FS_CardinalityType DEF Attempts
<1> QED BY <1>1 DEF AttemptNumber

StepTable(st) ==
  /\ DOMAIN st \subseteq Keys
  /\ IsFiniteSet(DOMAIN st)
  /\ \A k \in DOMAIN st : st[k] \in StepRow

\* Writing one well-formed row keeps the table of steps well formed.
LEMMA PutType ==
  ASSUME NEW st, StepTable(st), NEW k \in Keys, NEW row \in StepRow
  PROVE  StepTable(Put(st, k, row))
<1>1. IsFiniteSet(DOMAIN st \cup {k})
  BY FS_AddElement DEF StepTable
<1> QED BY <1>1 DEF StepTable, Put

-----------------------------------------------------------------------------
(* Type correctness.  TypeOK is not inductive: what follows a step is known    *)
(* only for configured steps, so the run, and every snapshot of it, must be    *)
(* shown to stay on them.                                                      *)

OnConfiguredStep(r) ==
  /\ r.status \in {"QUEUED"} \cup ConfiguredSteps \cup TERMINAL_STATUSES
  /\ r.errorCode \in Sources => ManualImportStep(r.errorCode) \in ConfiguredSteps

LocalType(l) ==
  /\ l \in Local
  /\ OnConfiguredStep(l.snap)
  /\ l.pc \in {"execute", "saved"} => l.snap.status \in ConfiguredSteps

RunType == run \in RunRow /\ OnConfiguredStep(run)

ProcType == proc \in [Procs -> Local] /\ \A p \in Procs : LocalType(proc[p])

CountersType == retries \in Nat /\ lapses \in Nat /\ crashes \in Nat

TypeInv ==
  /\ RunType
  /\ StepTable(steps)
  /\ results \in Nat
  /\ audit \subseteq AuditEvent
  /\ ProcType
  /\ CountersType

\* The inductive invariant is stronger than the property.
LEMMA TypeInvImpliesTypeOK == TypeInv => TypeOK
BY DEF TypeInv, TypeOK, RunType, StepTable, ProcType, CountersType

USE DEF dbVars

\* The step a run is about to execute is a configured one.
LEMMA StepStatusType ==
  ASSUME NEW r, OnConfiguredStep(r), ~Terminal(r)
  PROVE  StepStatus(r) \in ConfiguredSteps
BY FirstStepType DEF StepStatus, OnConfiguredStep, Terminal

\* A key of a configured step is a key of the table.
LEMMA StepKeyType ==
  ASSUME NEW l \in Local, OnConfiguredStep(l.snap), ~Terminal(l.snap)
  PROVE  StepKey(l) \in Keys
BY StepStatusType, ConfiguredAreSteps DEF StepKey, Keys, Local

\* A request that holds nothing is well typed.
LEMMA IdleType == LocalType(Idle)
BY DEF LocalType, Local, Idle, InitialRun, RunRow, Statuses, ErrorCodes, Ops,
       OnConfiguredStep, Sources

\* Replacing one request's record by a well-formed one keeps all of them so.
LEMMA SetType ==
  ASSUME ProcType, NEW p \in Procs, NEW l, LocalType(l), Set(p, l)
  PROVE  ProcType'
BY DEF ProcType, LocalType, OnConfiguredStep, Set

\* Ending a request keeps the local records well typed.
LEMMA ReturnType ==
  ASSUME ProcType, NEW p \in Procs, Return(p)
  PROVE  ProcType'
BY SetType, IdleType DEF Return

\* The row a worker writes when it finishes its claim.
LEMMA FinishedRowType ==
  ASSUME RunType, StepTable(steps), NEW l, StepKey(l) \in DOMAIN steps,
         NEW outcome \in Outcomes, NEW terminal \in BOOLEAN
  PROVE  FinishedRow(l, outcome, terminal) \in StepRow
<1> DEFINE stage == IF terminal THEN run.version + 1 ELSE 0
           Finish(row) == [row EXCEPT !.outcome = outcome, !.done = run.version + 1,
                                      !.fresh = FALSE, !.staged = stage]
<1>1. run.version + 1 \in Nat /\ stage \in Nat
  BY DEF RunType, RunRow
<1>2. steps[StepKey(l)] \in StepRow
  BY DEF StepTable
<1> HIDE DEF stage
<1>3. ASSUME NEW row \in StepRow PROVE Finish(row) \in StepRow
  BY <1>1 DEF StepRow
<1> QED BY <1>2, <1>3 DEF FinishedRow, stage

\* The run row moved to another status by a fenced write.
Moved(r, s, c) == [r EXCEPT !.version = @ + 1, !.status = s, !.currentStep = c]

\* A fenced move to a known status leaves a well-formed run row.
LEMMA MovedType ==
  ASSUME NEW r \in RunRow, NEW s \in Statuses, NEW c \in Statuses
  PROVE  /\ Moved(r, s, c) \in RunRow
         /\ Moved(r, s, c).version = r.version + 1
         /\ Moved(r, s, c).status = s
         /\ Moved(r, s, c).errorCode = r.errorCode
         /\ Moved(r, s, c).output = r.output
         /\ Moved(r, s, c).manual = r.manual
<1>1. r.version + 1 \in Nat
  BY DEF RunRow
<1> QED BY <1>1 DEF Moved, RunRow

\* The run row written back as a whole by a finish or a manual import.
Written(r, s, c, code, output, manual) ==
  [r EXCEPT !.version = @ + 1, !.status = s, !.currentStep = c, !.errorCode = code,
            !.output = output, !.manual = manual]

\* So does a write-back of a whole row by a worker.
LEMMA WrittenType ==
  ASSUME NEW r \in RunRow, NEW s \in Statuses, NEW c \in Statuses,
         NEW code \in ErrorCodes, NEW output \in SUBSET AllSteps,
         NEW manual \in SUBSET Sources
  PROVE  /\ Written(r, s, c, code, output, manual) \in RunRow
         /\ Written(r, s, c, code, output, manual).version = r.version + 1
         /\ Written(r, s, c, code, output, manual).status = s
         /\ Written(r, s, c, code, output, manual).currentStep = c
         /\ Written(r, s, c, code, output, manual).errorCode = code
         /\ Written(r, s, c, code, output, manual).output = output
         /\ Written(r, s, c, code, output, manual).manual = manual
<1>1. r.version + 1 \in Nat
  BY DEF RunRow
<1> QED BY <1>1 DEF Written, RunRow

\* A request that leaves the database alone.
LEMMA OnlyProcType ==
  ASSUME TypeInv, ProcType', UNCHANGED <<dbVars, retries, lapses>>, crashes' \in Nat
  PROVE  TypeInv'
BY DEF TypeInv, RunType, StepTable, CountersType, OnConfiguredStep

\* A run just created by POST /scenario-runs, with no request in flight, is
\* well typed.
THEOREM TypeInit == Init => TypeInv
<1> SUFFICES ASSUME Init PROVE TypeInv
  OBVIOUS
<1>1. RunType
  BY DEF Init, RunType, InitialRun, RunRow, Statuses, ErrorCodes, OnConfiguredStep, Sources
<1>2. StepTable(steps)
  BY FS_EmptySet DEF Init, StepTable
<1>3. ProcType
  BY IdleType DEF Init, ProcType, LocalType
<1> QED BY <1>1, <1>2, <1>3 DEF Init, TypeInv, CountersType

\* The first query copies the row into the request.
LEMMA ReadRunType ==
  ASSUME TypeInv, NEW p \in Procs, NEW op \in Ops, ReadRun(p, op)
  PROVE  TypeInv'
<1> DEFINE l == [Idle EXCEPT !.pc = "read", !.op = op, !.snap = run]
<1>1. LocalType(l)
  BY DEF LocalType, Local, Idle, TypeInv, RunType
<1>2. ProcType'
  BY <1>1, SetType DEF ReadRun, TypeInv
<1> QED BY <1>2, OnlyProcType DEF ReadRun, TypeInv, CountersType

\* The second query adds the stage, the claim and the attempt it saw.
LEMMA ReadStepsType ==
  ASSUME TypeInv, NEW p \in Procs, ReadSteps(p)
  PROVE  TypeInv'
<1> DEFINE l == proc[p]
           busy == \E k \in DOMAIN steps : IsActive(l.snap, steps[k]) /\ steps[k].fresh
           attempt == AttemptNumber(steps, StepStatus(l.snap))
           pending == PendingTerminalStage(l.snap, steps)
           r == [l EXCEPT !.pc = "decide", !.pending = pending, !.busy = busy, !.attempt = attempt]
<1>1. attempt \in Nat /\ busy \in BOOLEAN /\ pending \in BOOLEAN
  BY AttemptNumberType DEF TypeInv, StepTable, PendingTerminalStage
<1>2. Set(p, r)
  BY DEF ReadSteps
<1> HIDE DEF busy, attempt, pending
<1>3. LocalType(r)
  BY <1>1 DEF LocalType, Local, TypeInv, ProcType
<1>4. ProcType'
  BY <1>2, <1>3, SetType DEF TypeInv
<1> QED BY <1>4, OnlyProcType DEF ReadSteps, TypeInv, CountersType

\* Every action by which a request ends or re-reads without a write.
LEMMA GiveUpType ==
  ASSUME TypeInv, NEW p \in Procs,
         NothingToDo(p) \/ ClaimRefused(p) \/ FinishRefused(p) \/ PublishRefused(p)
           \/ CancelRefused(p) \/ Crash(p)
  PROVE  TypeInv'
<1>1. CASE CancelRefused(p)
  <2> DEFINE l == [Idle EXCEPT !.pc = "read", !.op = "cancelAgain", !.snap = run]
  <2>1. LocalType(l)
    BY DEF LocalType, Local, Idle, TypeInv, RunType, Ops
  <2>2. ProcType'
    BY <1>1, <2>1, SetType DEF CancelRefused, TypeInv
  <2> QED BY <1>1, <2>2, OnlyProcType DEF CancelRefused, TypeInv, CountersType
<1>2. ASSUME Return(p), UNCHANGED <<dbVars, retries, lapses>>, crashes' \in Nat
      PROVE  TypeInv'
  BY <1>2, ReturnType, OnlyProcType DEF TypeInv
<1>3. crashes \in Nat /\ crashes + 1 \in Nat
  BY DEF TypeInv, CountersType
<1> QED
  BY <1>1, <1>2, <1>3 DEF NothingToDo, ClaimRefused, FinishRefused, PublishRefused, Crash

\* A claim moves the run onto the step it executes.
LEMMA ClaimType ==
  ASSUME TypeInv, NEW p \in Procs, Claim(p)
  PROVE  TypeInv'
<1> DEFINE l == proc[p]
           step == StepStatus(l.snap)
           claimed == Moved(run, step, step)
           row == [status |-> step, outcome |-> "STARTED", at |-> claimed.version,
                   fresh |-> TRUE, done |-> 0, staged |-> 0]
           r == [l EXCEPT !.pc = "execute", !.snap = claimed]
<1>1. LocalType(l)
  BY DEF TypeInv, ProcType
<1>2. step \in ConfiguredSteps /\ step \in Statuses /\ StepKey(l) \in Keys
  BY <1>1, StepStatusType, StepKeyType, ConfiguredAreSteps
  DEF Claim, WantsClaim, LocalType, Statuses
<1>3. run' = claimed /\ steps' = Put(steps, StepKey(l), row) /\ Set(p, r)
      /\ UNCHANGED <<results, audit, retries, lapses, crashes>>
  BY DEF Claim, Moved
<1> HIDE DEF step
<1>4. claimed \in RunRow /\ claimed.status = step /\ claimed.errorCode = run.errorCode
  BY <1>2, MovedType DEF TypeInv, RunType
<1> HIDE DEF claimed
<1>5. row \in StepRow
  BY <1>2, <1>4 DEF StepRow, RunRow, Outcomes
<1>6. OnConfiguredStep(claimed)
  BY <1>2, <1>4 DEF TypeInv, RunType, OnConfiguredStep
<1> HIDE DEF row
<1>7. LocalType(r)
  BY <1>1, <1>2, <1>4, <1>6 DEF LocalType, Local
<1>8. RunType' /\ StepTable(steps') /\ ProcType'
  BY <1>2, <1>3, <1>4, <1>5, <1>6, <1>7, PutType, SetType DEF TypeInv, RunType, OnConfiguredStep
<1> QED BY <1>3, <1>8 DEF TypeInv, CountersType

\* Saving results records the version of the claim.
LEMMA SaveResultsType ==
  ASSUME TypeInv, NEW p \in Procs, SaveResults(p)
  PROVE  TypeInv'
<1>1. LocalType([proc[p] EXCEPT !.pc = "saved"])
  BY DEF TypeInv, ProcType, LocalType, Local, SaveResults
<1>2. ProcType'
  BY <1>1, SetType, ReturnType DEF SaveResults, TypeInv
<1>3. proc[p].snap.version \in Nat
  BY DEF TypeInv, ProcType, Local, RunRow
<1> QED BY <1>2, <1>3 DEF SaveResults, TypeInv, RunType, CountersType, OnConfiguredStep

\* A completed step moves the run to the next configured step, or stages the end.
LEMMA FinishCompletedType ==
  ASSUME TypeInv, NEW p \in Procs, FinishCompleted(p)
  PROVE  TypeInv'
<1> DEFINE l == proc[p]
           step == l.snap.status
           next == NextConfiguredStep(step)
           last == next = "COMPLETED"
           s == IF last THEN run.status ELSE next
           c == IF last THEN run.currentStep ELSE next
           output == l.snap.output \cup {step}
           written == Written(run, s, c, "NONE", output, l.snap.manual)
           attempt == AttemptNumber(steps, next)
           row == FinishedRow(l, "COMPLETED", last)
           r == [l EXCEPT !.pc = IF last THEN "publish" ELSE "decide",
                          !.snap = written, !.attempt = attempt]
<1>1. l \in Local /\ LocalType(l) /\ run \in RunRow /\ step \in ConfiguredSteps
  BY DEF TypeInv, ProcType, LocalType, RunType, FinishCompleted
<1>2. /\ run' = written
      /\ steps' = Put(steps, StepKey(l), row)
      /\ Set(p, r) \/ Return(p)
      /\ StepKey(l) \in DOMAIN steps
      /\ UNCHANGED <<results, audit, retries, lapses, crashes>>
  BY DEF FinishCompleted, FinishFence, Written
<1>3. attempt \in Nat
  BY AttemptNumberType DEF TypeInv, StepTable
<1>4. s \in Statuses /\ c \in Statuses /\ (s = run.status \/ s \in ConfiguredSteps)
  BY <1>1, NextStepType, ConfiguredAreSteps DEF RunRow, Statuses
<1>5. output \in SUBSET AllSteps /\ l.snap.manual \in SUBSET Sources
  BY <1>1, ConfiguredAreSteps DEF Local, RunRow
<1>6. row \in StepRow
  BY <1>2, FinishedRowType DEF TypeInv, Outcomes
<1> HIDE DEF s, c, output, attempt, row
<1>7. written \in RunRow /\ written.status = s /\ written.errorCode = "NONE"
  BY <1>1, <1>4, <1>5, WrittenType DEF ErrorCodes
<1> HIDE DEF written
<1>8. OnConfiguredStep(written)
  BY <1>4, <1>7 DEF TypeInv, RunType, OnConfiguredStep, Sources
<1>9. LocalType(r)
  BY <1>1, <1>3, <1>7, <1>8 DEF LocalType, Local
<1>10. StepTable(steps')
  BY <1>2, <1>6, PutType DEF TypeInv, StepTable
<1>11. ProcType'
  BY <1>2, <1>9, SetType, ReturnType DEF TypeInv
<1> QED BY <1>2, <1>7, <1>8, <1>10, <1>11 DEF TypeInv, RunType, CountersType, OnConfiguredStep

\* A failure names a source only at the step that calls this source.
LEMMA FailureCodesType ==
  ASSUME NEW r, NEW code \in FailureCodes(r)
  PROVE  /\ code \in ErrorCodes
         /\ code \in Sources => r.status = ManualImportStep(code)
<1>1. CASE r.status = "LOADING_APPIUS"
  BY <1>1 DEF FailureCodes, ErrorCodes, Sources, ManualImportStep
<1>2. CASE r.status = "SYNCING_SAP"
  BY <1>2 DEF FailureCodes, ErrorCodes, Sources, ManualImportStep
<1>3. CASE r.status \in {"CLASSIFYING_RESPONSIBILITY", "FINDING_ANALOGUES"}
  BY <1>3 DEF FailureCodes, ErrorCodes, Sources, ManualImportStep
<1>4. CASE r.status \notin {"LOADING_APPIUS", "SYNCING_SAP", "CLASSIFYING_RESPONSIBILITY",
                            "FINDING_ANALOGUES"}
  BY <1>4 DEF FailureCodes
<1> QED BY <1>1, <1>2, <1>3, <1>4

\* A failed step leaves the run at that step with one of its error codes.
LEMMA FinishFailedType ==
  ASSUME TypeInv, NEW p \in Procs, FinishFailed(p)
  PROVE  TypeInv'
<1> DEFINE l == proc[p]
           failed(code) == [run EXCEPT !.version = @ + 1, !.errorCode = code,
                                       !.output = l.snap.output, !.manual = l.snap.manual]
           row == FinishedRow(l, "FAILED", TRUE)
           r(code) == [l EXCEPT !.pc = "publish", !.snap = failed(code)]
<1>1. PICK code \in FailureCodes(l.snap) :
         run' = failed(code) /\ steps' = Put(steps, StepKey(l), row) /\ Set(p, r(code))
  BY DEF FinishFailed
<1>2. /\ StepKey(l) \in DOMAIN steps
      /\ l.pc = "execute"
      /\ UNCHANGED <<results, audit, retries, lapses, crashes>>
  BY DEF FinishFailed, FinishFence
<1>3. l \in Local /\ LocalType(l) /\ run \in RunRow /\ l.snap.status \in ConfiguredSteps
  BY <1>2 DEF TypeInv, ProcType, LocalType, RunType
<1>4. code \in ErrorCodes /\ (code \in Sources => ManualImportStep(code) \in ConfiguredSteps)
  BY <1>3, FailureCodesType
<1>5. row \in StepRow
  BY <1>2, FinishedRowType DEF TypeInv, Outcomes
<1>6. run.version + 1 \in Nat /\ l.snap.output \in SUBSET AllSteps /\ l.snap.manual \in SUBSET Sources
  BY <1>3 DEF RunRow, Local
<1>7. failed(code) \in RunRow /\ failed(code).status = run.status /\ failed(code).errorCode = code
  BY <1>3, <1>4, <1>6 DEF RunRow
<1> HIDE DEF failed, row
<1>8. OnConfiguredStep(failed(code))
  BY <1>4, <1>7 DEF TypeInv, RunType, OnConfiguredStep
<1>9. LocalType(r(code))
  BY <1>3, <1>7, <1>8 DEF LocalType, Local
<1>10. StepTable(steps')
  BY <1>1, <1>2, <1>5, PutType DEF TypeInv, StepTable
<1>11. ProcType'
  BY <1>1, <1>9, SetType DEF TypeInv
<1> QED BY <1>1, <1>2, <1>7, <1>8, <1>10, <1>11 DEF TypeInv, RunType, CountersType, OnConfiguredStep

\* The events projected into audit_logs are those of existing rows.
LEMMA ExpectedEventsType ==
  ASSUME StepTable(steps), NEW k \in DOMAIN steps
  PROVE  ExpectedEvents(k) \subseteq AuditEvent
<1>1. ASSUME NEW j \in DOMAIN steps PROVE AuditEventOf(j) \in AuditEvent
  BY DEF StepTable, AuditEventOf, AuditEvent, StepRow
<1> QED BY <1>1 DEF ExpectedEvents

\* Publishing moves the run to the outcome of its stage.
LEMMA PublishType ==
  ASSUME TypeInv, NEW p \in Procs, Publish(p)
  PROVE  TypeInv'
<1> DEFINE l == proc[p]
           s(k) == TerminalStatus(steps[k])
           c(k) == IF steps[k].outcome = "FAILED" THEN steps[k].status ELSE TerminalStatus(steps[k])
           published(k) == Moved(run, s(k), c(k))
           onward(k) == [l EXCEPT !.pc = "decide", !.pending = FALSE, !.snap = published(k)]
           create(k) == [l EXCEPT !.pc = "create", !.snap = published(k)]
<1>1. PICK k \in DOMAIN steps :
        /\ ValidStage(k)
        /\ run' = published(k)
        /\ audit' = audit \cup ExpectedEvents(k)
        /\ Set(p, onward(k)) \/ Set(p, create(k)) \/ Return(p)
  BY DEF Publish, Moved
<1>2. UNCHANGED <<steps, results, retries, lapses, crashes>>
  BY DEF Publish
<1>3. l \in Local /\ LocalType(l) /\ run \in RunRow /\ steps[k] \in StepRow
  BY DEF TypeInv, ProcType, LocalType, RunType, StepTable
<1>4. s(k) \in TERMINAL_STATUSES /\ s(k) \in Statuses /\ c(k) \in Statuses
  BY <1>1, <1>3 DEF ValidStage, TerminalStatus, Statuses, StepRow
<1> HIDE DEF s, c
<1>5. /\ published(k) \in RunRow
      /\ published(k).status = s(k)
      /\ published(k).errorCode = run.errorCode
  BY <1>3, <1>4, MovedType
<1> HIDE DEF published
<1>6. OnConfiguredStep(published(k))
  BY <1>4, <1>5 DEF TypeInv, RunType, OnConfiguredStep
<1>7. LocalType(onward(k)) /\ LocalType(create(k))
  BY <1>3, <1>5, <1>6 DEF LocalType, Local
<1>8. ProcType'
  BY <1>1, <1>7, SetType, ReturnType DEF TypeInv
<1>9. audit' \subseteq AuditEvent
  BY <1>1, ExpectedEventsType DEF TypeInv
<1> QED
  BY <1>1, <1>2, <1>5, <1>6, <1>8, <1>9
  DEF TypeInv, RunType, CountersType, OnConfiguredStep, StepTable

\* Staging a cancellation rewrites the live claims or adds one row.
LEMMA StageCancelType ==
  ASSUME TypeInv, NEW p \in Procs, StageCancel(p)
  PROVE  TypeInv'
<1> DEFINE l == proc[p]
           v == run.version + 1
           active == {k \in DOMAIN steps : IsActive(run, steps[k])}
           cancelled(row) == [row EXCEPT !.outcome = "CANCELLED", !.fresh = FALSE,
                                         !.done = v, !.staged = v]
           inserted == [status |-> l.snap.status, outcome |-> "CANCELLED", at |-> v,
                        fresh |-> FALSE, done |-> v, staged |-> v]
           staged == [k \in DOMAIN steps |-> IF k \in active THEN cancelled(steps[k]) ELSE steps[k]]
           r == [l EXCEPT !.pc = "publish", !.snap = run']
<1>1. /\ run' = [run EXCEPT !.version = v]
      /\ steps' = IF active # {} THEN staged ELSE Put(steps, CancelKey, inserted)
      /\ results' = ResultsAfterCancel(active)
      /\ Set(p, r)
      /\ UNCHANGED <<audit, retries, lapses, crashes>>
  BY DEF StageCancel
<1>2. l \in Local /\ LocalType(l) /\ run \in RunRow /\ v \in Nat
  BY DEF TypeInv, ProcType, LocalType, RunType, RunRow
<1>3. run' \in RunRow /\ run'.status = run.status /\ run'.errorCode = run.errorCode
  BY <1>1, <1>2 DEF RunRow
<1> HIDE DEF v
<1>4. StepTable(steps')
  <2>1. ASSUME NEW row \in StepRow PROVE cancelled(row) \in StepRow
    BY <1>2 DEF StepRow, Outcomes
  <2>2. inserted \in StepRow /\ CancelKey \in Keys
    BY <1>2 DEF StepRow, Outcomes, Keys, CancelKey, Local, RunRow
  <2> HIDE DEF active, cancelled, inserted
  <2>3. StepTable(staged)
    BY <2>1 DEF TypeInv, StepTable
  <2>4. StepTable(Put(steps, CancelKey, inserted))
    BY <2>2, PutType DEF TypeInv
  <2> QED BY <1>1, <2>3, <2>4
<1>5. OnConfiguredStep(run')
  BY <1>3 DEF TypeInv, RunType, OnConfiguredStep
<1>6. LocalType(r)
  BY <1>2, <1>3, <1>5 DEF LocalType, Local
<1>7. ProcType'
  BY <1>1, <1>6, SetType DEF TypeInv
<1>8. results' \in Nat
  BY <1>1 DEF ResultsAfterCancel, TypeInv
<1> QED BY <1>1, <1>3, <1>4, <1>5, <1>7, <1>8 DEF TypeInv, RunType, CountersType, OnConfiguredStep

\* A manual import moves the run back to the step of a source, which is
\* configured because that step has failed.
LEMMA ResumeType ==
  ASSUME TypeInv, NEW p \in Procs, Resume(p)
  PROVE  TypeInv'
<1> DEFINE l == proc[p]
           source == l.snap.errorCode
           step == ManualImportStep(source)
           resumed == Written(run, step, step, ErrorAfterResume(source), l.snap.output,
                              l.snap.manual \cup {source})
<1>1. /\ run' = resumed \/ run' = run
      /\ Return(p)
      /\ UNCHANGED <<steps, results, audit, retries, lapses, crashes>>
      /\ source \in Sources
  BY DEF Resume, WantsResume, Written
<1>2. l \in Local /\ LocalType(l) /\ run \in RunRow
  BY DEF TypeInv, ProcType, LocalType, RunType
<1>3. step \in ConfiguredSteps /\ step \in Statuses
  BY <1>1, <1>2, ConfiguredAreSteps DEF LocalType, OnConfiguredStep, Statuses
<1>4. l.snap.output \in SUBSET AllSteps /\ l.snap.manual \cup {source} \in SUBSET Sources
  BY <1>1, <1>2 DEF Local, RunRow
<1>5. ErrorAfterResume(source) = "NONE" /\ "NONE" \in ErrorCodes /\ "NONE" \notin Sources
  BY DEF ErrorAfterResume, ErrorCodes, Sources
<1> HIDE DEF step
<1>6. resumed \in RunRow /\ resumed.status = step /\ resumed.errorCode = "NONE"
  BY <1>2, <1>3, <1>4, <1>5, WrittenType
<1> HIDE DEF resumed
<1>7. OnConfiguredStep(resumed)
  BY <1>3, <1>5, <1>6 DEF OnConfiguredStep
<1>8. RunType'
  BY <1>1, <1>6, <1>7 DEF TypeInv, RunType, OnConfiguredStep
<1>9. ProcType'
  BY <1>1, ReturnType DEF TypeInv
<1> QED BY <1>1, <1>8, <1>9 DEF TypeInv, CountersType, StepTable

\* A retry does not touch the run it copies.
LEMMA CreateRetryType ==
  ASSUME TypeInv, NEW p \in Procs, CreateRetry(p)
  PROVE  TypeInv'
<1>1. ProcType'
  BY ReturnType DEF CreateRetry, TypeInv
<1> QED BY <1>1 DEF CreateRetry, TypeInv, RunType, CountersType, OnConfiguredStep, StepTable

\* A lapsed lease changes one flag of one row.
LEMMA LeaseLapseType ==
  ASSUME TypeInv, LeaseLapse
  PROVE  TypeInv'
<1>1. PICK k \in DOMAIN steps :
        /\ steps' = [steps EXCEPT ![k].fresh = FALSE]
        /\ lapses' = IF OwnerAlive(steps[k].at) THEN lapses + 1 ELSE lapses
        /\ UNCHANGED <<run, results, audit, proc, retries, crashes>>
  BY DEF LeaseLapse
<1>2. ASSUME NEW row \in StepRow PROVE [row EXCEPT !.fresh = FALSE] \in StepRow
  BY DEF StepRow
<1>3. StepTable(steps')
  BY <1>1, <1>2 DEF TypeInv, StepTable
<1> QED BY <1>1, <1>3 DEF TypeInv, RunType, ProcType, CountersType, OnConfiguredStep, LocalType

\* Every step of the system keeps the type invariant.
LEMMA TypeStep ==
  ASSUME TypeInv, [Next]_vars
  PROVE  TypeInv'
<1>1. CASE UNCHANGED vars
  BY <1>1 DEF vars, TypeInv, RunType, ProcType, CountersType, OnConfiguredStep, LocalType, StepTable
<1>2. CASE LeaseLapse
  BY <1>2, LeaseLapseType
<1>3. ASSUME NEW p \in Procs, Request(p) PROVE TypeInv'
  BY <1>3, ReadRunType DEF Request
<1>4. ASSUME NEW p \in Procs, Work(p) \/ Crash(p) PROVE TypeInv'
  BY <1>4, ReadStepsType, GiveUpType, ClaimType, SaveResultsType, FinishCompletedType,
     FinishFailedType, PublishType, StageCancelType, ResumeType, CreateRetryType
  DEF Work
<1> QED BY <1>1, <1>2, <1>3, <1>4 DEF Next

\* Every reachable state satisfies the inductive type invariant, in which a
\* run that has not ended stands on a configured step and every request works on
\* such a run.
THEOREM TypeInvariant == Spec => []TypeInv
<1>1. TypeInv /\ [Next]_vars => TypeInv'
  BY TypeStep
<1> QED BY <1>1, TypeInit, PTL DEF Spec

\* Every reachable state is well typed.
THEOREM TypeCorrect == Spec => []TypeOK
BY TypeInvariant, TypeInvImpliesTypeOK, PTL

-----------------------------------------------------------------------------
(* Safety.  One inductive invariant carries the stage, audit, error and        *)
(* snapshot properties, which support each other: a stage is never overwritten *)
(* because whoever decides on the current version has seen it, and a snapshot  *)
(* is sound because every write to the steps moves the run's version.          *)

\* Rows speak of versions the run has had; a row in progress is no stage.
RowsOfPast ==
  \A k \in DOMAIN steps :
    /\ steps[k].at <= run.version
    /\ steps[k].staged <= run.version
    /\ steps[k].outcome = "STARTED" => steps[k].staged = 0
    /\ k # CancelKey => k[1] = steps[k].status

\* No two rows were claimed at the same version.
ClaimsDistinct == \A j, k \in DOMAIN steps : steps[j].at = steps[k].at => j = k

\* The live claim is on the step the run is at, and nothing is staged under it.
ClaimIsCurrent ==
  \A k \in DOMAIN steps :
    steps[k].outcome = "STARTED" /\ steps[k].at = run.version =>
      ~Terminal(run) /\ steps[k].status = run.status /\ NoPendingTerminal

\* The pending stage is the only one and agrees with the run.
StageIsCurrent ==
  \A k \in StagesAt(run.version, steps) :
    /\ StagesAt(run.version, steps) = {k}
    /\ steps[k].outcome \in TERMINAL_STATUSES
    /\ steps[k].status = run.status
    /\ ~Terminal(run)

StepShown == ~Terminal(run) => run.currentStep = run.status

\* What a request holds is the past; where it is the present, it is all of it.
LocalSound(l, r, st) ==
  /\ l.pc # "idle" => l.snap.version <= r.version
  /\ l.pc # "idle" /\ l.snap.version = r.version => l.snap = r
  /\ l.pc \in {"execute", "saved"} => l.pending = FALSE
  /\ l.pc = "decide" /\ l.snap.version = r.version =>
       /\ l.pending = PendingTerminalStage(r, st)
       /\ ~Terminal(r) => l.attempt = AttemptNumber(st, StepStatus(r))

ProcSound == \A p \in Procs : LocalSound(proc[p], run, steps)

\* The audit log repeats rows that will not change again.
AuditOfRows ==
  \A a \in audit :
    /\ a.key \in DOMAIN steps
    /\ steps[a.key].outcome # "STARTED"
    /\ a = AuditEventOf(a.key)

DbInv ==
  /\ RowsOfPast
  /\ ClaimsDistinct
  /\ ClaimIsCurrent
  /\ StageIsCurrent
  /\ StepShown
  /\ AuditOfRows
  /\ StageNeverLost
  /\ AuditComplete
  /\ ErrorMeansFailed

SafetyInv == TypeInv /\ DbInv /\ ProcSound

\* The types the safety proofs use, unfolded once.
LEMMA RowTypes ==
  ASSUME TypeInv
  PROVE  /\ run \in RunRow /\ run.version \in Nat
         /\ \A k \in DOMAIN steps : /\ steps[k] \in StepRow
                                    /\ steps[k].at \in Nat
                                    /\ steps[k].staged \in Nat
         /\ \A p \in Procs : proc[p] \in Local /\ proc[p].snap \in RunRow
                             /\ proc[p].snap.version \in Nat
BY DEF TypeInv, RunType, StepTable, ProcType, LocalType, Local, RunRow, StepRow

\* A write that moves the version leaves every other request with the past.
LEMMA WriteSound ==
  ASSUME SafetyInv, NEW p \in Procs, NEW l, Set(p, l),
         run'.version = run.version + 1, LocalSound(l, run', steps')
  PROVE  ProcSound'
<1> SUFFICES ASSUME NEW q \in Procs PROVE LocalSound(proc[q], run, steps)'
  BY DEF ProcSound
<1>1. CASE q = p
  BY <1>1 DEF Set, SafetyInv, TypeInv, ProcType
<1>2. CASE q # p
  <2>1. proc'[q] = proc[q]
    BY <1>2 DEF Set, SafetyInv, TypeInv, ProcType
  <2>2. LocalSound(proc[q], run, steps)
    BY DEF SafetyInv, ProcSound
  <2>3. run.version \in Nat /\ proc[q].snap.version \in Nat
    BY RowTypes DEF SafetyInv
  <2> QED BY <2>1, <2>2, <2>3 DEF LocalSound
<1> QED BY <1>1, <1>2

\* A request that only looks.
LEMMA LookSound ==
  ASSUME SafetyInv, NEW p \in Procs, NEW l, Set(p, l),
         run' = run, steps' = steps, LocalSound(l, run, steps)
  PROVE  ProcSound'
BY DEF SafetyInv, TypeInv, ProcType, ProcSound, Set, LocalSound

\* A request that holds nothing knows nothing wrong.
LEMMA IdleSound == \A r, st : LocalSound(Idle, r, st)
BY DEF LocalSound, Idle

\* The next version has no stage before something is staged at it.
LEMMA NoFutureStage ==
  ASSUME SafetyInv
  PROVE  StagesAt(run.version + 1, steps) = {}
BY RowTypes DEF SafetyInv, DbInv, RowsOfPast, StagesAt

\* The database invariant speaks of the database only.
LEMMA DbFrame ==
  ASSUME DbInv, run' = run, steps' = steps, audit' = audit
  PROVE  DbInv'
BY DEF DbInv, RowsOfPast, ClaimsDistinct, ClaimIsCurrent, StageIsCurrent, StepShown,
       AuditOfRows, StageNeverLost, AuditComplete, ErrorMeansFailed, NoPendingTerminal,
       Completed, AuditEventOf

\* Rows of another step do not count as attempts.
LEMMA AttemptOfOtherStep ==
  ASSUME NEW st, NEW k \in DOMAIN st, NEW row, NEW s,
         st[k].status # s, row.status # s
  PROVE  AttemptNumber(Put(st, k, row), s) = AttemptNumber(st, s)
<1> DEFINE new == Put(st, k, row)
<1>1. DOMAIN new = DOMAIN st /\ \A j \in DOMAIN st : j # k => new[j] = st[j]
  BY DEF Put
<1>2. new[k] = row
  BY DEF Put
<1> HIDE DEF new
<1>3. Attempts(new, s) = Attempts(st, s)
  BY <1>1, <1>2 DEF Attempts
<1>4. k \notin Attempts(st, s)
  BY DEF Attempts
<1>5. \A j \in Attempts(st, s) : new[j] = st[j]
  BY <1>1, <1>4 DEF Attempts
<1>6. LastAttemptFailed(new, s) <=> LastAttemptFailed(st, s)
  BY <1>3, <1>5 DEF LastAttemptFailed
<1> QED BY <1>3, <1>6 DEF AttemptNumber, new

\* A claim: nothing is staged, so nothing is lost when the version moves on.
LEMMA ClaimSafe ==
  ASSUME SafetyInv, NEW p \in Procs, Claim(p)
  PROVE  DbInv' /\ ProcSound'
<1> DEFINE l == proc[p]
           K == StepKey(l)
           step == StepStatus(l.snap)
           v == run.version
           r == [l EXCEPT !.pc = "execute", !.snap = run']
<1>1. /\ run' = Moved(run, step, step)
      /\ steps' = Put(steps, K, [status |-> step, outcome |-> "STARTED", at |-> v + 1,
                                 fresh |-> TRUE, done |-> 0, staged |-> 0])
      /\ Set(p, r)
      /\ K \in DOMAIN steps => steps[K].outcome = "STARTED"
      /\ l.pc = "decide" /\ ~Terminal(l.snap) /\ ~l.pending /\ run.version = l.snap.version
      /\ audit' = audit
  <2>1. [run EXCEPT !.version = @ + 1, !.status = step, !.currentStep = step].version = v + 1
    BY RowTypes DEF SafetyInv, RunRow
  <2> QED BY <2>1 DEF Claim, WantsClaim, CanClaim, KeyClaimable, Moved
<1>2. l \in Local /\ LocalSound(l, run, steps) /\ LocalType(l) /\ v \in Nat /\ run \in RunRow
  BY RowTypes DEF SafetyInv, ProcSound, TypeInv, ProcType
<1>3. l.snap = run /\ StagesAt(v, steps) = {} /\ ~Terminal(run)
  BY <1>1, <1>2 DEF LocalSound, PendingTerminalStage, Local
<1>4. run.errorCode = "NONE"
  BY <1>3 DEF SafetyInv, DbInv, ErrorMeansFailed, Terminal, TERMINAL_STATUSES
<1>5. step \in ConfiguredSteps /\ step \in AllSteps /\ step \in Statuses
  BY <1>1, <1>2, StepStatusType, ConfiguredAreSteps DEF LocalType, Statuses
<1>6. /\ run'.version = v + 1 /\ run'.status = step /\ run'.errorCode = "NONE"
      /\ run'.currentStep = step
  BY <1>1, <1>2, <1>4, <1>5, MovedType DEF Moved, RunRow
<1>7. /\ DOMAIN steps' = DOMAIN steps \cup {K}
      /\ \A k \in DOMAIN steps : k # K => steps'[k] = steps[k]
      /\ steps'[K].status = step /\ steps'[K].outcome = "STARTED"
      /\ steps'[K].at = v + 1 /\ steps'[K].staged = 0
  BY <1>1 DEF Put
<1>8. K # CancelKey /\ K[1] = step
  BY <1>5 DEF StepKey, CancelKey, AllSteps
<1>9. ~Terminal(run')
  BY <1>5, <1>6 DEF Terminal, TERMINAL_STATUSES, AllSteps
<1>10. \A k \in DOMAIN steps : steps[k].at \in Nat /\ steps[k].staged \in Nat
                               /\ steps[k].at <= v /\ steps[k].staged <= v
  BY RowTypes DEF SafetyInv, DbInv, RowsOfPast
<1> HIDE DEF K, step, v, l
<1>11. RowsOfPast'
  BY <1>2, <1>6, <1>7, <1>8, <1>10 DEF SafetyInv, DbInv, RowsOfPast
<1>12. ClaimsDistinct'
  BY <1>2, <1>7, <1>10 DEF SafetyInv, DbInv, ClaimsDistinct
<1>13. StagesAt(run'.version, steps') = {}
  BY <1>2, <1>6, <1>7, <1>10 DEF StagesAt
<1>14. ClaimIsCurrent'
  BY <1>2, <1>6, <1>7, <1>9, <1>10, <1>13 DEF ClaimIsCurrent, NoPendingTerminal
<1>15. StageIsCurrent' /\ StepShown' /\ AuditComplete' /\ ErrorMeansFailed'
  BY <1>6, <1>9, <1>13 DEF StageIsCurrent, StepShown, AuditComplete, ErrorMeansFailed,
     Terminal, TERMINAL_STATUSES
<1>16. AuditOfRows'
  BY <1>1, <1>7 DEF SafetyInv, DbInv, AuditOfRows, AuditEventOf
<1>17. StageNeverLost'
  <2> SUFFICES ASSUME NEW k \in DOMAIN steps', steps'[k].staged > 0
               PROVE  AuditEventOf(k)' \in audit'
    BY DEF StageNeverLost
  <2>1. k \in DOMAIN steps /\ steps'[k] = steps[k]
    BY <1>7
  <2>2. steps[k].staged # v
    BY <1>3, <1>10, <2>1 DEF StagesAt
  <2> QED BY <1>1, <2>1, <2>2 DEF SafetyInv, DbInv, StageNeverLost, AuditEventOf, v
<1>18. LocalSound(r, run', steps')
  <2>1. r.pc = "execute" /\ r.snap = run' /\ r.pending = l.pending
    BY <1>2 DEF Local
  <2>2. l.pending = FALSE
    BY <1>1, <1>2 DEF Local
  <2>3. run'.version <= run'.version
    BY <1>2, <1>6
  <2> QED BY <2>1, <2>2, <2>3 DEF LocalSound
<1>19. ProcSound'
  BY <1>1, <1>6, <1>18, WriteSound DEF v
<1> QED BY <1>11, <1>12, <1>14, <1>15, <1>16, <1>17, <1>19 DEF DbInv

\* What FinishFence gives: the run is where the worker left it, the step is
\* still claimed by it, and nothing is staged.
LEMMA FenceGives ==
  ASSUME SafetyInv, NEW p \in Procs, proc[p].pc \in {"execute", "saved"}, FinishFence(proc[p])
  PROVE  LET K == StepKey(proc[p]) IN
         /\ proc[p].snap = run
         /\ proc[p].pending = FALSE
         /\ K \in DOMAIN steps /\ K # CancelKey
         /\ steps[K].outcome = "STARTED" /\ steps[K].status = run.status
         /\ steps[K].at = run.version
         /\ run.status \in ConfiguredSteps
         /\ ~Terminal(run) /\ run.errorCode = "NONE"
         /\ StagesAt(run.version, steps) = {}
<1> DEFINE l == proc[p]
           K == StepKey(l)
<1>1. l.pc # "idle" /\ l.snap.version = run.version
  BY DEF FinishFence
<1>2. l.snap = run /\ l.pending = FALSE
  BY <1>1 DEF SafetyInv, ProcSound, LocalSound
<1>3. K \in DOMAIN steps /\ steps[K].outcome = "STARTED" /\ steps[K].at = run.version
  BY DEF FinishFence
<1>4. ~Terminal(run) /\ steps[K].status = run.status /\ NoPendingTerminal
  BY <1>3 DEF SafetyInv, DbInv, ClaimIsCurrent
<1>5. run.errorCode = "NONE"
  BY <1>4 DEF SafetyInv, DbInv, ErrorMeansFailed, NoPendingTerminal, Terminal, TERMINAL_STATUSES
<1>6. run.status \in ConfiguredSteps /\ run.status \in AllSteps
  BY <1>2, ConfiguredAreSteps DEF SafetyInv, TypeInv, ProcType, LocalType
<1>7. K # CancelKey
  BY <1>2, <1>6 DEF StepKey, StepStatus, CancelKey, AllSteps
<1> QED BY <1>2, <1>3, <1>4, <1>5, <1>6, <1>7 DEF NoPendingTerminal

\* The row a finish writes, field by field.
LEMMA FinishedRowFields ==
  ASSUME SafetyInv, NEW l, StepKey(l) \in DOMAIN steps, NEW outcome \in Outcomes,
         NEW terminal \in BOOLEAN
  PROVE  LET row == FinishedRow(l, outcome, terminal) IN
         /\ row.status = steps[StepKey(l)].status
         /\ row.at = steps[StepKey(l)].at
         /\ row.outcome = outcome
         /\ row.staged = IF terminal THEN run.version + 1 ELSE 0
<1>1. ASSUME NEW row \in StepRow, NEW s
      PROVE  LET new == [row EXCEPT !.outcome = outcome, !.done = run.version + 1,
                                    !.fresh = FALSE, !.staged = s]
             IN  new.status = row.status /\ new.at = row.at /\ new.outcome = outcome
                 /\ new.staged = s
  BY DEF StepRow
<1>2. steps[StepKey(l)] \in StepRow
  BY RowTypes DEF SafetyInv
<1> QED BY <1>1, <1>2 DEF FinishedRow

\* Both ways to finish write one row, under the fence, at the next version; a
\* terminal outcome is staged at that version.
LEMMA FinishSafe ==
  ASSUME SafetyInv, NEW p \in Procs,
         proc[p].pc \in {"execute", "saved"}, FinishFence(proc[p]),
         NEW outcome \in {"COMPLETED", "FAILED"}, NEW terminal \in BOOLEAN,
         outcome = "FAILED" => terminal,
         steps' = Put(steps, StepKey(proc[p]), FinishedRow(proc[p], outcome, terminal)),
         run'.version = run.version + 1,
         ~Terminal(run'), run'.currentStep = run'.status,
         terminal => run'.status = run.status,
         run'.errorCode # "NONE" <=> outcome = "FAILED",
         audit' = audit
  PROVE  /\ DbInv'
         /\ terminal => StagesAt(run'.version, steps') = {StepKey(proc[p])}
         /\ ~terminal => StagesAt(run'.version, steps') = {}
<1> DEFINE l == proc[p]
           K == StepKey(l)
           v == run.version
<1>1. /\ K \in DOMAIN steps /\ K # CancelKey
      /\ steps[K].outcome = "STARTED" /\ steps[K].status = run.status /\ steps[K].at = v
      /\ StagesAt(v, steps) = {}
  BY FenceGives
<1>2. /\ DOMAIN steps' = DOMAIN steps
      /\ \A k \in DOMAIN steps : k # K => steps'[k] = steps[k]
      /\ steps'[K] = FinishedRow(l, outcome, terminal)
  BY <1>1 DEF Put
<1>3. /\ steps'[K].status = run.status
      /\ steps'[K].at = v
      /\ steps'[K].outcome = outcome
      /\ steps'[K].staged = IF terminal THEN v + 1 ELSE 0
  BY <1>1, <1>2, FinishedRowFields DEF Outcomes
<1>4. v \in Nat /\ \A k \in DOMAIN steps : steps[k].at \in Nat /\ steps[k].staged \in Nat
                               /\ steps[k].at <= v /\ steps[k].staged <= v
  BY RowTypes DEF SafetyInv, DbInv, RowsOfPast
<1>5. run'.version = v + 1
  OBVIOUS
<1>6. K[1] = run.status
  BY <1>1 DEF SafetyInv, DbInv, RowsOfPast
<1> HIDE DEF K, v, l
<1>7. RowsOfPast'
  BY <1>1, <1>2, <1>3, <1>4, <1>5, <1>6 DEF SafetyInv, DbInv, RowsOfPast
<1>8. ClaimsDistinct'
  BY <1>1, <1>2, <1>3 DEF SafetyInv, DbInv, ClaimsDistinct
<1>9. StagesAt(run'.version, steps') = IF terminal THEN {K} ELSE {}
  BY <1>1, <1>2, <1>3, <1>4, <1>5 DEF StagesAt
<1>10. ClaimIsCurrent'
  BY <1>2, <1>3, <1>4, <1>5 DEF ClaimIsCurrent
<1>11. StageIsCurrent'
  BY <1>3, <1>9 DEF StageIsCurrent, TERMINAL_STATUSES
<1>12. StepShown' /\ AuditComplete'
  BY DEF StepShown, AuditComplete
<1>13. ErrorMeansFailed'
  BY <1>3, <1>9 DEF ErrorMeansFailed, Terminal, TERMINAL_STATUSES
<1>14. AuditOfRows'
  BY <1>1, <1>2 DEF SafetyInv, DbInv, AuditOfRows, AuditEventOf
<1>15. StageNeverLost'
  <2> SUFFICES ASSUME NEW k \in DOMAIN steps', steps'[k].staged > 0, k # K
               PROVE  AuditEventOf(k)' \in audit'
    BY <1>3, <1>5 DEF StageNeverLost
  <2>1. k \in DOMAIN steps /\ steps'[k] = steps[k]
    BY <1>2
  <2>2. steps[k].staged # v
    BY <1>1, <1>4, <2>1 DEF StagesAt
  <2> QED BY <2>1, <2>2 DEF SafetyInv, DbInv, StageNeverLost, AuditEventOf, v
<1> QED BY <1>7, <1>8, <1>9, <1>10, <1>11, <1>12, <1>13, <1>14, <1>15 DEF DbInv, K, l

\* A completed step: the run moves on, or its end is staged.
LEMMA FinishCompletedSafe ==
  ASSUME SafetyInv, NEW p \in Procs, FinishCompleted(p)
  PROVE  DbInv' /\ ProcSound'
<1> DEFINE l == proc[p]
           K == StepKey(l)
           next == NextConfiguredStep(run.status)
           last == next = "COMPLETED"
           s == IF last THEN run.status ELSE next
           c == IF last THEN run.currentStep ELSE next
           output == run.output \cup {run.status}
           attempt == AttemptNumber(steps, next)
           row == FinishedRow(l, "COMPLETED", last)
           r == [l EXCEPT !.pc = IF last THEN "publish" ELSE "decide",
                          !.snap = run', !.attempt = attempt]
<1>1. l.pc \in {"execute", "saved"} /\ FinishFence(l)
  BY DEF FinishCompleted
<1>2. /\ l.snap = run /\ l.pending = FALSE
      /\ K \in DOMAIN steps /\ steps[K].status = run.status
      /\ run.status \in ConfiguredSteps /\ ~Terminal(run)
  BY <1>1, FenceGives
<1>3. /\ run' = Written(run, s, c, "NONE", output, run.manual)
      /\ steps' = Put(steps, K, row)
      /\ Set(p, r) \/ Return(p)
      /\ audit' = audit
  BY <1>2 DEF FinishCompleted, Written
<1>4. /\ next \in ConfiguredSteps \cup {"COMPLETED"} /\ next # run.status
      /\ ConfiguredSteps \subseteq AllSteps
  BY <1>2, NextStepType, ConfiguredAreSteps
<1>5. run \in RunRow /\ l \in Local
  BY RowTypes DEF SafetyInv
<1>6. run.currentStep = run.status
  BY <1>2 DEF SafetyInv, DbInv, StepShown
<1>7. s \in Statuses /\ c \in Statuses /\ s \in ConfiguredSteps /\ c = s
  BY <1>2, <1>4, <1>6 DEF Statuses
<1>8. output \in SUBSET AllSteps /\ run.manual \in SUBSET Sources
  BY <1>2, <1>4, <1>5 DEF RunRow
<1> HIDE DEF s, c, output, row, attempt, next
<1>9. /\ run'.version = run.version + 1 /\ run'.status = s /\ run'.errorCode = "NONE"
      /\ run'.currentStep = s
  BY <1>3, <1>5, <1>7, <1>8, WrittenType DEF ErrorCodes
<1>10. ~Terminal(run')
  BY <1>4, <1>7, <1>9 DEF Terminal, TERMINAL_STATUSES, AllSteps
<1>11. /\ DbInv'
       /\ ~last => StagesAt(run'.version, steps') = {}
  BY <1>1, <1>3, <1>9, <1>10, FinishSafe DEF row, s
<1>12. CASE Return(p)
  BY <1>9, <1>11, <1>12, IdleSound, WriteSound DEF Return
<1>13. CASE Set(p, r)
  <2>1. r.pc = (IF last THEN "publish" ELSE "decide") /\ r.snap = run' /\ r.pending = FALSE
        /\ r.attempt = attempt
    BY <1>2, <1>5 DEF Local
  <2>2. ASSUME ~last PROVE attempt = AttemptNumber(steps', StepStatus(run'))
    <3>1. StepStatus(run') = next
      BY <1>4, <1>9, <2>2 DEF StepStatus, s, AllSteps
    <3>2. row.status = run.status
      BY <1>2, FinishedRowFields DEF row, Outcomes
    <3> QED BY <1>2, <1>3, <1>4, <3>1, <3>2, AttemptOfOtherStep DEF attempt
  <2>3. run'.version <= run'.version
    BY <1>5, <1>9 DEF RunRow
  <2>4. ~last => PendingTerminalStage(run', steps') = FALSE
    BY <1>11 DEF PendingTerminalStage
  <2> HIDE DEF r
  <2>5. LocalSound(r, run', steps')
    BY <2>1, <2>2, <2>3, <2>4 DEF LocalSound
  <2> QED BY <1>9, <1>11, <1>13, <2>5, WriteSound
<1> QED BY <1>3, <1>12, <1>13

\* A failed step stages the failure and puts the error on the run together.
LEMMA FinishFailedSafe ==
  ASSUME SafetyInv, NEW p \in Procs, FinishFailed(p)
  PROVE  DbInv' /\ ProcSound'
<1> DEFINE l == proc[p]
           K == StepKey(l)
           failed(code) == [run EXCEPT !.version = @ + 1, !.errorCode = code,
                                       !.output = l.snap.output, !.manual = l.snap.manual]
           r == [l EXCEPT !.pc = "publish", !.snap = run']
<1>1. l.pc \in {"execute", "saved"} /\ FinishFence(l) /\ audit' = audit
  BY DEF FinishFailed
<1>2. PICK code \in FailureCodes(l.snap) :
        /\ run' = failed(code)
        /\ steps' = Put(steps, K, FinishedRow(l, "FAILED", TRUE))
        /\ Set(p, r)
  BY DEF FinishFailed
<1>3. code # "NONE"
  BY DEF FailureCodes
<1>4. run \in RunRow /\ l \in Local /\ ~Terminal(run)
  BY <1>1, RowTypes, FenceGives DEF SafetyInv
<1>5. run.currentStep = run.status
  BY <1>4 DEF SafetyInv, DbInv, StepShown
<1>6. /\ run'.version = run.version + 1 /\ run'.status = run.status
      /\ run'.currentStep = run.currentStep /\ run'.errorCode = code
  BY <1>2, <1>4 DEF RunRow
<1>7. DbInv'
  BY <1>1, <1>2, <1>3, <1>4, <1>5, <1>6, FinishSafe DEF Terminal
<1>8. LocalSound(r, run', steps')
  <2>1. r.pc = "publish" /\ r.snap = run'
    BY <1>4 DEF Local
  <2>2. run'.version <= run'.version
    BY <1>4, <1>6 DEF RunRow
  <2> QED BY <2>1, <2>2 DEF LocalSound
<1> QED BY <1>2, <1>6, <1>7, <1>8, WriteSound

\* Publishing: the single pending stage and every completed row reach the audit
\* log in the statement that shows the terminal status.
LEMMA PublishSafe ==
  ASSUME SafetyInv, NEW p \in Procs, Publish(p)
  PROVE  DbInv' /\ ProcSound'
<1> DEFINE l == proc[p]
           v == run.version
           s(k) == TerminalStatus(steps[k])
           c(k) == IF steps[k].outcome = "FAILED" THEN steps[k].status ELSE TerminalStatus(steps[k])
           onward == [l EXCEPT !.pc = "decide", !.pending = FALSE, !.snap = run']
           create == [l EXCEPT !.pc = "create", !.snap = run']
<1>1. PICK k \in DOMAIN steps :
        /\ ValidStage(k)
        /\ run' = Moved(run, s(k), c(k))
        /\ audit' = audit \cup ExpectedEvents(k)
        /\ Set(p, onward) \/ Set(p, create) \/ Return(p)
  BY DEF Publish, Moved
<1>2. steps' = steps
  BY DEF Publish
<1>3. StagesAt(v, steps) = {k} /\ steps[k].outcome \in TERMINAL_STATUSES
  BY <1>1 DEF ValidStage
<1>4. ~Terminal(run)
  BY <1>3 DEF SafetyInv, DbInv, StageIsCurrent
<1>5. l \in Local /\ run \in RunRow /\ v \in Nat /\ steps[k] \in StepRow
  BY RowTypes DEF SafetyInv
<1>6. s(k) \in Statuses /\ c(k) \in Statuses /\ s(k) = steps[k].outcome
  BY <1>3, <1>5 DEF TerminalStatus, Statuses, StepRow
<1> HIDE DEF s, c
<1>7. run'.version = v + 1 /\ run'.status = steps[k].outcome /\ run'.errorCode = run.errorCode
  BY <1>1, <1>5, <1>6, MovedType
<1>8. Terminal(run')
  BY <1>3, <1>7 DEF Terminal
<1>9. StagesAt(run'.version, steps') = {}
  BY <1>2, <1>7, NoFutureStage
<1>10. \A j \in DOMAIN steps : steps[j].at \in Nat /\ steps[j].staged \in Nat
                              /\ steps[j].at <= v /\ steps[j].staged <= v
  BY RowTypes DEF SafetyInv, DbInv, RowsOfPast
<1> HIDE DEF v
<1>11. RowsOfPast' /\ ClaimsDistinct' /\ ClaimIsCurrent'
  BY <1>2, <1>5, <1>7, <1>10
  DEF SafetyInv, DbInv, RowsOfPast, ClaimsDistinct, ClaimIsCurrent
<1>12. StageIsCurrent' /\ StepShown'
  BY <1>8, <1>9 DEF StageIsCurrent, StepShown
<1>13. \A e \in ExpectedEvents(k) : e \in audit'
  BY <1>1
<1>14. AuditEventOf(k) \in ExpectedEvents(k)
       /\ \A j \in DOMAIN steps : steps[j].outcome = "COMPLETED" => AuditEventOf(j) \in ExpectedEvents(k)
  BY DEF ExpectedEvents
<1>15. AuditOfRows'
  <2> SUFFICES ASSUME NEW a \in audit'
               PROVE  /\ a.key \in DOMAIN steps
                      /\ steps[a.key].outcome # "STARTED"
                      /\ a = AuditEventOf(a.key)
    BY <1>2 DEF AuditOfRows, AuditEventOf
  <2>1. CASE a \in audit
    BY <2>1 DEF SafetyInv, DbInv, AuditOfRows
  <2>2. CASE a \in ExpectedEvents(k)
    <3>1. PICK j \in DOMAIN steps : a = AuditEventOf(j) /\ (steps[j].outcome = "COMPLETED" \/ j = k)
      BY <2>2 DEF ExpectedEvents
    <3> QED BY <1>3, <3>1 DEF AuditEventOf, TERMINAL_STATUSES
  <2> QED BY <1>1, <2>1, <2>2
<1>16. StageNeverLost'
  <2> SUFFICES ASSUME NEW j \in DOMAIN steps, steps[j].staged > 0
               PROVE  AuditEventOf(j) \in audit'
    BY <1>2 DEF StageNeverLost, AuditEventOf
  <2>1. CASE steps[j].staged = run.version
    <3>1. j = k
      BY <1>3, <1>10, <2>1 DEF StagesAt, v
    <3> QED BY <1>13, <1>14, <3>1
  <2>2. CASE steps[j].staged # run.version
    BY <1>1, <2>2 DEF SafetyInv, DbInv, StageNeverLost
  <2> QED BY <2>1, <2>2
<1>17. AuditComplete'
  BY <1>2, <1>7, <1>13, <1>14 DEF AuditComplete, Completed, AuditEventOf
<1>18. ErrorMeansFailed'
  <2>1. run.errorCode # "NONE" <=> steps[k].outcome = "FAILED"
    BY <1>3, <1>4 DEF SafetyInv, DbInv, ErrorMeansFailed, Terminal, TERMINAL_STATUSES, v
  <2> QED BY <1>7, <1>9, <2>1 DEF ErrorMeansFailed
<1>19. run'.version <= run'.version
  BY <1>5, <1>7
<1>20. LocalSound(onward, run', steps')
  <2>1. onward.pc = "decide" /\ onward.snap = run' /\ onward.pending = FALSE
    BY <1>5 DEF Local
  <2>2. PendingTerminalStage(run', steps') = FALSE
    BY <1>9 DEF PendingTerminalStage
  <2> HIDE DEF onward
  <2> QED BY <1>8, <1>19, <2>1, <2>2 DEF LocalSound
<1>21. LocalSound(create, run', steps')
  <2>1. create.pc = "create" /\ create.snap = run'
    BY <1>5 DEF Local
  <2> QED BY <1>19, <2>1 DEF LocalSound
<1>22. ProcSound'
  BY <1>1, <1>7, <1>20, <1>21, IdleSound, WriteSound DEF Return, v
<1> QED BY <1>11, <1>12, <1>15, <1>16, <1>17, <1>18, <1>22 DEF DbInv

\* A cancellation stages over the live claim, or over nothing; never over a
\* staged outcome.
LEMMA StageCancelSafe ==
  ASSUME SafetyInv, NEW p \in Procs, StageCancel(p)
  PROVE  DbInv' /\ ProcSound'
<1> DEFINE l == proc[p]
           v == run.version
           active == {k \in DOMAIN steps : IsActive(run, steps[k])}
           cancelled(row) == [row EXCEPT !.outcome = "CANCELLED", !.fresh = FALSE,
                                         !.done = v + 1, !.staged = v + 1]
           inserted == [status |-> l.snap.status, outcome |-> "CANCELLED", at |-> v + 1,
                        fresh |-> FALSE, done |-> v + 1, staged |-> v + 1]
           r == [l EXCEPT !.pc = "publish", !.snap = run']
<1>1. /\ run' = [run EXCEPT !.version = v + 1]
      /\ steps' = IF active # {}
                  THEN [k \in DOMAIN steps |-> IF k \in active THEN cancelled(steps[k]) ELSE steps[k]]
                  ELSE Put(steps, CancelKey, inserted)
      /\ Set(p, r)
      /\ audit' = audit
      /\ CancelKey \notin DOMAIN steps /\ NoPendingTerminal
      /\ l.pc = "decide" /\ ~Terminal(l.snap) /\ v = l.snap.version
  BY DEF StageCancel, WantsCancel, CanStageCancel
<1>2. l \in Local /\ run \in RunRow /\ v \in Nat
  BY RowTypes DEF SafetyInv
<1>3. l.snap = run
  BY <1>1 DEF SafetyInv, ProcSound, LocalSound
<1>4. ~Terminal(run) /\ run.errorCode = "NONE" /\ StagesAt(v, steps) = {}
  BY <1>1, <1>3 DEF SafetyInv, DbInv, ErrorMeansFailed, NoPendingTerminal, Terminal, TERMINAL_STATUSES
<1>5. /\ run'.version = v + 1 /\ run'.status = run.status /\ run'.errorCode = run.errorCode
      /\ run'.currentStep = run.currentStep
  BY <1>1, <1>2 DEF RunRow
<1>6. \A k \in DOMAIN steps : /\ steps[k].at \in Nat /\ steps[k].staged \in Nat
                              /\ steps[k].at <= v /\ steps[k].staged <= v
                              /\ steps[k] \in StepRow
  BY RowTypes DEF SafetyInv, DbInv, RowsOfPast
\* In either case one row, C, becomes the stage and no finished row changes.
<1> DEFINE
  Staged(C) ==
    /\ DOMAIN steps' = DOMAIN steps \cup {C}
    /\ \A k \in DOMAIN steps : k # C => steps'[k] = steps[k]
    /\ C \in DOMAIN steps =>
         /\ steps[C].outcome = "STARTED"
         /\ steps'[C].at = steps[C].at
         /\ steps[C].status = steps'[C].status
    /\ C \notin DOMAIN steps => C = CancelKey /\ steps'[C].at = v + 1
    /\ steps'[C].outcome = "CANCELLED"
    /\ steps'[C].staged = v + 1
    /\ steps'[C].status = run.status
<1>7. \E C : Staged(C)
  <2>1. CASE active # {}
    <3>1. PICK C \in DOMAIN steps : C \in active
      BY <2>1
    <3>2. \A k \in DOMAIN steps : k \in active <=> k = C
      BY <3>1 DEF SafetyInv, DbInv, ClaimsDistinct, IsActive
    <3>3. ASSUME NEW row \in StepRow
          PROVE  /\ cancelled(row).outcome = "CANCELLED" /\ cancelled(row).staged = v + 1
                 /\ cancelled(row).status = row.status /\ cancelled(row).at = row.at
      BY DEF StepRow
    <3> HIDE DEF cancelled
    <3>4. steps'[C] = cancelled(steps[C]) /\ \A k \in DOMAIN steps : k # C => steps'[k] = steps[k]
      BY <1>1, <2>1, <3>1, <3>2
    <3>5. DOMAIN steps' = DOMAIN steps \cup {C}
      BY <1>1, <2>1, <3>1
    <3>6. steps[C].outcome = "STARTED" /\ steps[C].status = run.status
      BY <3>1 DEF IsActive
    <3>7. Staged(C)
      BY <1>6, <3>1, <3>3, <3>4, <3>5, <3>6
    <3> QED BY <3>7
  <2>2. CASE active = {}
    <3>1. /\ DOMAIN steps' = DOMAIN steps \cup {CancelKey}
          /\ \A k \in DOMAIN steps : k # CancelKey => steps'[k] = steps[k]
          /\ steps'[CancelKey] = inserted
      BY <1>1, <2>2 DEF Put
    <3>2. /\ inserted.status = run.status /\ inserted.outcome = "CANCELLED"
          /\ inserted.at = v + 1 /\ inserted.staged = v + 1
      BY <1>3
    <3> HIDE DEF inserted
    <3>3. CancelKey \notin DOMAIN steps
      BY <1>1
    <3>4. Staged(CancelKey)
      BY <3>1, <3>2, <3>3
    <3> QED BY <3>4
  <2> QED BY <2>1, <2>2
<1> HIDE DEF v, active, cancelled, inserted, l
<1>8. PICK C : Staged(C)
  BY <1>7
<1>9. RowsOfPast'
  BY <1>2, <1>5, <1>6, <1>8 DEF SafetyInv, DbInv, RowsOfPast
<1>10. ClaimsDistinct'
  BY <1>2, <1>6, <1>8 DEF SafetyInv, DbInv, ClaimsDistinct
<1>11. StagesAt(run'.version, steps') = {C}
  BY <1>2, <1>5, <1>6, <1>8 DEF StagesAt
<1>12. ClaimIsCurrent'
  BY <1>2, <1>5, <1>6, <1>8 DEF ClaimIsCurrent
<1>13. ~Terminal(run')
  BY <1>4, <1>5 DEF Terminal
<1>14. StageIsCurrent'
  BY <1>5, <1>8, <1>11, <1>13 DEF StageIsCurrent, TERMINAL_STATUSES
<1>15. StepShown' /\ AuditComplete'
  BY <1>4, <1>5, <1>13 DEF SafetyInv, DbInv, StepShown, AuditComplete
<1>16. ErrorMeansFailed'
  BY <1>4, <1>5, <1>8, <1>11 DEF ErrorMeansFailed, Terminal, TERMINAL_STATUSES
<1>17. AuditOfRows'
  BY <1>1, <1>8 DEF SafetyInv, DbInv, AuditOfRows, AuditEventOf
<1>18. StageNeverLost'
  <2> SUFFICES ASSUME NEW k \in DOMAIN steps', steps'[k].staged > 0, k # C
               PROVE  AuditEventOf(k)' \in audit'
    BY <1>5, <1>8 DEF StageNeverLost
  <2>1. k \in DOMAIN steps /\ steps'[k] = steps[k]
    BY <1>8
  <2>2. steps[k].staged # v
    BY <1>4, <1>6, <2>1 DEF StagesAt
  <2> QED BY <1>1, <2>1, <2>2 DEF SafetyInv, DbInv, StageNeverLost, AuditEventOf, v
<1>19. LocalSound(r, run', steps')
  <2>1. r.pc = "publish" /\ r.snap = run'
    BY <1>2 DEF Local
  <2>2. run'.version <= run'.version
    BY <1>2, <1>5
  <2> QED BY <2>1, <2>2 DEF LocalSound
<1>20. ProcSound'
  BY <1>1, <1>5, <1>19, WriteSound DEF v
<1> QED BY <1>9, <1>10, <1>12, <1>14, <1>15, <1>16, <1>17, <1>18, <1>20 DEF DbInv

\* Only a failed run carries an error, so the import reopens nothing else.
LEMMA ResumeFinds ==
  ASSUME SafetyInv, NEW p \in Procs, WantsResume(proc[p]), CanResume(proc[p])
  PROVE  /\ proc[p].snap = run
         /\ run.errorCode \in Sources
         /\ run.status = "FAILED"
         /\ StagesAt(run.version, steps) = {}
<1>1. proc[p].snap = run
  BY DEF WantsResume, CanResume, SafetyInv, ProcSound, LocalSound
<1>2. run.errorCode \in Sources /\ StagesAt(run.version, steps) = {}
  BY <1>1 DEF WantsResume, CanResume, NoPendingTerminal
<1>3. run.status = "FAILED"
  BY <1>2 DEF SafetyInv, DbInv, ErrorMeansFailed, Sources
<1> QED BY <1>1, <1>2, <1>3

\* A manual import supersedes no stage and takes the error off the run.
LEMMA ResumeSafe ==
  ASSUME SafetyInv, NEW p \in Procs, Resume(p)
  PROVE  DbInv' /\ ProcSound'
<1> DEFINE l == proc[p]
           v == run.version
           step == ManualImportStep(l.snap.errorCode)
           manual == l.snap.manual \cup {l.snap.errorCode}
<1>1. CASE ~CanResume(l)
  <2>1. run' = run /\ steps' = steps /\ audit' = audit /\ Return(p)
    BY <1>1 DEF Resume
  <2> QED BY <2>1, DbFrame, IdleSound, LookSound DEF SafetyInv, Return
<1>2. CASE CanResume(l)
  <2>1. /\ run' = Written(run, step, step, "NONE", l.snap.output, manual)
        /\ steps' = steps /\ audit' = audit /\ Return(p) /\ WantsResume(l)
    BY <1>2 DEF Resume, Written, ErrorAfterResume
  <2>2. /\ l.snap = run /\ run.errorCode \in Sources /\ run.status = "FAILED"
        /\ StagesAt(v, steps) = {}
    BY <1>2, <2>1, ResumeFinds
  <2>3. run \in RunRow /\ v \in Nat
    BY RowTypes DEF SafetyInv
  <2>4. step \in AllSteps /\ step \in Statuses /\ manual \in SUBSET Sources
        /\ l.snap.output \in SUBSET AllSteps /\ "NONE" \in ErrorCodes
    BY <2>2, <2>3 DEF ManualImportStep, AllSteps, Statuses, RunRow, ErrorCodes
  <2> HIDE DEF step, manual
  <2>5. /\ run'.version = v + 1 /\ run'.status = step /\ run'.currentStep = step
        /\ run'.errorCode = "NONE"
    BY <2>1, <2>3, <2>4, WrittenType
  <2>6. ~Terminal(run')
    BY <2>4, <2>5 DEF Terminal, TERMINAL_STATUSES, AllSteps
  <2>7. StagesAt(run'.version, steps') = {}
    BY <2>1, <2>5, NoFutureStage
  <2>8. \A j \in DOMAIN steps : steps[j].at \in Nat /\ steps[j].staged \in Nat
                               /\ steps[j].at <= v /\ steps[j].staged <= v
    BY RowTypes DEF SafetyInv, DbInv, RowsOfPast
  <2> HIDE DEF v
  <2>9. RowsOfPast' /\ ClaimsDistinct' /\ ClaimIsCurrent'
    BY <2>1, <2>3, <2>5, <2>8 DEF SafetyInv, DbInv, RowsOfPast, ClaimsDistinct, ClaimIsCurrent
  <2>10. StageIsCurrent' /\ StepShown' /\ AuditComplete' /\ ErrorMeansFailed'
    BY <2>5, <2>6, <2>7 DEF StageIsCurrent, StepShown, AuditComplete, ErrorMeansFailed,
       Terminal, TERMINAL_STATUSES
  <2>11. AuditOfRows'
    BY <2>1 DEF SafetyInv, DbInv, AuditOfRows, AuditEventOf
  <2>12. StageNeverLost'
    BY <2>1, <2>2, <2>8 DEF SafetyInv, DbInv, StageNeverLost, AuditEventOf, StagesAt, v
  <2>13. ProcSound'
    BY <2>1, <2>5, IdleSound, WriteSound DEF Return, v
  <2> QED BY <2>9, <2>10, <2>11, <2>12, <2>13 DEF DbInv
<1> QED BY <1>1, <1>2

\* Time passing under a claim changes nothing any property speaks of.
LEMMA LeaseLapseSafe ==
  ASSUME SafetyInv, LeaseLapse
  PROVE  DbInv' /\ ProcSound'
<1>1. PICK k \in DOMAIN steps :
        /\ steps' = [steps EXCEPT ![k].fresh = FALSE]
        /\ steps[k].outcome = "STARTED"
        /\ UNCHANGED <<run, audit, proc>>
  BY DEF LeaseLapse
<1>2. \A j \in DOMAIN steps : steps[j] \in StepRow
  BY RowTypes DEF SafetyInv
<1>3. /\ DOMAIN steps' = DOMAIN steps
      /\ \A j \in DOMAIN steps :
           /\ steps'[j].status = steps[j].status /\ steps'[j].outcome = steps[j].outcome
           /\ steps'[j].at = steps[j].at /\ steps'[j].staged = steps[j].staged
           /\ steps'[j].done = steps[j].done
  <2>1. ASSUME NEW row \in StepRow
        PROVE  LET new == [row EXCEPT !.fresh = FALSE]
               IN  new.status = row.status /\ new.outcome = row.outcome /\ new.at = row.at
                   /\ new.staged = row.staged /\ new.done = row.done
    BY DEF StepRow
  <2> QED BY <1>1, <1>2, <2>1
<1>4. \A version : StagesAt(version, steps') = StagesAt(version, steps)
  BY <1>3 DEF StagesAt
<1>5. \A j \in DOMAIN steps : AuditEventOf(j)' = AuditEventOf(j)
  BY <1>3 DEF AuditEventOf
<1>6. \A s : AttemptNumber(steps', s) = AttemptNumber(steps, s)
  <2> TAKE s
  <2>1. Attempts(steps', s) = Attempts(steps, s) /\ Attempts(steps, s) \subseteq DOMAIN steps
    BY <1>3 DEF Attempts
  <2>2. LastAttemptFailed(steps', s) <=> LastAttemptFailed(steps, s)
    BY <1>3, <2>1 DEF LastAttemptFailed
  <2> QED BY <2>1, <2>2 DEF AttemptNumber
<1>7. run' = run /\ audit' = audit /\ proc' = proc
  BY <1>1
<1>8. RowsOfPast' /\ ClaimsDistinct' /\ StepShown'
  BY <1>3, <1>7 DEF SafetyInv, DbInv, RowsOfPast, ClaimsDistinct, StepShown
<1>9. ClaimIsCurrent'
  BY <1>3, <1>4, <1>7 DEF SafetyInv, DbInv, ClaimIsCurrent, NoPendingTerminal
<1>10. StagesAt(run.version, steps) \subseteq DOMAIN steps
  BY DEF StagesAt
<1>11. StageIsCurrent'
  BY <1>3, <1>4, <1>7, <1>10 DEF SafetyInv, DbInv, StageIsCurrent
<1>12. AuditOfRows' /\ StageNeverLost'
  BY <1>3, <1>5, <1>7 DEF SafetyInv, DbInv, AuditOfRows, StageNeverLost
<1>13. AuditComplete'
  BY <1>3, <1>5, <1>7 DEF SafetyInv, DbInv, AuditComplete, Completed
<1>14. ErrorMeansFailed'
  BY <1>3, <1>4, <1>7, <1>10 DEF SafetyInv, DbInv, ErrorMeansFailed
<1>15. ProcSound'
  BY <1>4, <1>6, <1>7 DEF SafetyInv, ProcSound, LocalSound, PendingTerminalStage
<1> QED BY <1>8, <1>9, <1>11, <1>12, <1>13, <1>14, <1>15 DEF DbInv

\* The result rows are outside the invariant: nothing to show but the frame.
LEMMA SaveResultsSafe ==
  ASSUME SafetyInv, NEW p \in Procs, SaveResults(p)
  PROVE  DbInv' /\ ProcSound'
<1> DEFINE l == proc[p]
           r == [l EXCEPT !.pc = "saved"]
<1>1. run' = run /\ steps' = steps /\ audit' = audit /\ (Set(p, r) \/ Return(p)) /\ l.pc = "execute"
  BY DEF SaveResults
<1>2. LocalSound(r, run, steps)
  <2>1. r.pc = "saved" /\ r.snap = l.snap /\ r.pending = l.pending
    BY RowTypes DEF SafetyInv, Local
  <2>2. LocalSound(l, run, steps)
    BY DEF SafetyInv, ProcSound
  <2> QED BY <1>1, <2>1, <2>2 DEF LocalSound
<1> QED BY <1>1, <1>2, DbFrame, IdleSound, LookSound DEF SafetyInv, Return

\* The first query: the row is the current one or belongs to the past.
LEMMA ReadRunSafe ==
  ASSUME SafetyInv, NEW p \in Procs, NEW op \in Ops, ReadRun(p, op) \/ CancelRefused(p)
  PROVE  DbInv' /\ ProcSound'
<1>1. PICK o \in Ops : Set(p, [Idle EXCEPT !.pc = "read", !.op = o, !.snap = run])
  BY DEF ReadRun, CancelRefused, Ops
<1> DEFINE r == [Idle EXCEPT !.pc = "read", !.op = o, !.snap = run]
<1>2. run' = run /\ steps' = steps /\ audit' = audit
  BY DEF ReadRun, CancelRefused
<1>3. r.pc = "read" /\ r.snap = run /\ run.version <= run.version
  BY RowTypes DEF Idle, SafetyInv
<1>4. LocalSound(r, run, steps)
  BY <1>3 DEF LocalSound
<1> QED BY <1>1, <1>2, <1>4, DbFrame, LookSound DEF SafetyInv

\* The second query: if the version is still the current one, so are the steps.
LEMMA ReadStepsSafe ==
  ASSUME SafetyInv, NEW p \in Procs, ReadSteps(p)
  PROVE  DbInv' /\ ProcSound'
<1> DEFINE l == proc[p]
           pending == PendingTerminalStage(l.snap, steps)
           busy == \E k \in DOMAIN steps : IsActive(l.snap, steps[k]) /\ steps[k].fresh
           attempt == AttemptNumber(steps, StepStatus(l.snap))
           r == [l EXCEPT !.pc = "decide", !.pending = pending, !.busy = busy, !.attempt = attempt]
<1>1. run' = run /\ steps' = steps /\ audit' = audit /\ Set(p, r) /\ l.pc = "read"
  BY DEF ReadSteps
<1>2. LocalSound(l, run, steps) /\ l \in Local
  BY RowTypes DEF SafetyInv, ProcSound
<1> HIDE DEF pending, busy, attempt
<1>3. r.pc = "decide" /\ r.snap = l.snap /\ r.pending = pending /\ r.attempt = attempt
  BY <1>2 DEF Local
<1>4. l.snap.version <= run.version /\ (l.snap.version = run.version => l.snap = run)
  BY <1>1, <1>2 DEF LocalSound
<1> HIDE DEF r
<1>5. LocalSound(r, run, steps)
  BY <1>3, <1>4 DEF LocalSound, pending, attempt
<1> QED BY <1>1, <1>5, DbFrame, LookSound DEF SafetyInv

\* Requests that end without a write, and retries, leave the run alone.
LEMMA GiveUpSafe ==
  ASSUME SafetyInv, NEW p \in Procs,
         NothingToDo(p) \/ ClaimRefused(p) \/ FinishRefused(p) \/ PublishRefused(p)
           \/ CreateRetry(p) \/ Crash(p)
  PROVE  DbInv' /\ ProcSound'
<1>1. Return(p) /\ run' = run /\ steps' = steps /\ audit' = audit
  BY DEF NothingToDo, ClaimRefused, FinishRefused, PublishRefused, CreateRetry, Crash
<1> QED BY <1>1, DbFrame, IdleSound, LookSound DEF SafetyInv, Return

\* A run just created satisfies the invariant: no rows, no claims, no stage.
LEMMA SafetyInit == Init => SafetyInv
<1> SUFFICES ASSUME Init PROVE SafetyInv
  OBVIOUS
<1>1. steps = [k \in {} |-> InitialRun] /\ audit = {} /\ DOMAIN steps = {}
  BY DEF Init
<1>2. run = InitialRun /\ run.status = "QUEUED" /\ run.currentStep = "QUEUED" /\ run.errorCode = "NONE"
  BY DEF Init, InitialRun
<1>3. ~Terminal(run)
  BY <1>2 DEF Terminal, TERMINAL_STATUSES
<1>4. DbInv
  BY <1>1, <1>2, <1>3 DEF DbInv, RowsOfPast, ClaimsDistinct, ClaimIsCurrent, StageIsCurrent,
     StepShown, AuditOfRows, StageNeverLost, AuditComplete, ErrorMeansFailed, StagesAt
<1>5. ProcSound
  BY IdleSound DEF Init, ProcSound
<1> QED BY <1>4, <1>5, TypeInit DEF SafetyInv

\* Every step of the system keeps the invariant.
LEMMA SafetyStep ==
  ASSUME SafetyInv, [Next]_vars
  PROVE  SafetyInv'
<1>1. TypeInv'
  BY TypeStep DEF SafetyInv
<1>2. CASE UNCHANGED vars
  <2>1. run' = run /\ steps' = steps /\ audit' = audit /\ proc' = proc
    BY <1>2 DEF vars
  <2>2. DbInv' /\ ProcSound'
    BY <2>1, DbFrame DEF SafetyInv, ProcSound, LocalSound
  <2> QED BY <1>1, <2>2 DEF SafetyInv
<1>3. CASE LeaseLapse
  BY <1>1, <1>3, LeaseLapseSafe DEF SafetyInv
<1>4. ASSUME NEW p \in Procs, Request(p) PROVE SafetyInv'
  BY <1>1, <1>4, ReadRunSafe DEF Request, SafetyInv
<1>5. ASSUME NEW p \in Procs, Work(p) \/ Crash(p) PROVE SafetyInv'
  <2>1. "drain" \in Ops
    BY DEF Ops
  <2>2. DbInv' /\ ProcSound'
    BY <1>5, <2>1, ReadRunSafe, ReadStepsSafe, GiveUpSafe, ClaimSafe, SaveResultsSafe,
       FinishCompletedSafe, FinishFailedSafe, PublishSafe, StageCancelSafe, ResumeSafe
    DEF Work
  <2> QED BY <1>1, <2>2 DEF SafetyInv
<1> QED BY <1>2, <1>3, <1>4, <1>5 DEF Next

\* The inductive invariant behind all safety theorems: types, the version and
\* claim discipline of the rows, and what every request may rely on.
THEOREM Safety == Spec => []SafetyInv
<1>1. SafetyInv /\ [Next]_vars => SafetyInv'
  BY SafetyStep
<1> QED BY <1>1, SafetyInit, PTL DEF Spec

-----------------------------------------------------------------------------
(* The properties *)

\* Between staging and publishing, whatever runs or dies, a staged outcome
\* stays the pending one until it is in the audit log.
THEOREM StagesSurvive == Spec => []StageNeverLost
<1>1. SafetyInv => StageNeverLost
  BY DEF SafetyInv, DbInv
<1> QED BY <1>1, Safety, PTL

\* Every pending stage passes the checks of publishStagedTerminalRun: no run
\* waits for ever on a stage that is ambiguous, stale or already audited.
THEOREM StagesPublishable == Spec => []StagePublishable
<1>1. SafetyInv => StagePublishable
  <2> SUFFICES ASSUME SafetyInv, NEW k \in StagesAt(run.version, steps) PROVE ValidStage(k)
    BY DEF StagePublishable
  <2>1. /\ StagesAt(run.version, steps) = {k} /\ steps[k].outcome \in TERMINAL_STATUSES
        /\ steps[k].status = run.status /\ ~Terminal(run)
    BY DEF SafetyInv, DbInv, StageIsCurrent
  <2>2. run.currentStep = run.status
    BY <2>1 DEF SafetyInv, DbInv, StepShown
  <2>3. ~AuditConflict(ExpectedEvents(k))
    <3> SUFFICES ASSUME NEW e \in ExpectedEvents(k), NEW a \in audit, a.key = e.key
                 PROVE  a.occurredAt = e.occurredAt
      BY DEF AuditConflict
    <3>1. PICK j : e = AuditEventOf(j)
      BY DEF ExpectedEvents
    <3>2. e.key = j
      BY <3>1 DEF AuditEventOf
    <3>3. a = AuditEventOf(a.key)
      BY DEF SafetyInv, DbInv, AuditOfRows
    <3> QED BY <3>1, <3>2, <3>3
  <2> QED BY <2>1, <2>2, <2>3 DEF ValidStage
<1> QED BY <1>1, Safety, PTL

\* No terminal status without its audit projection.
THEOREM AuditIsComplete == Spec => []AuditComplete
<1>1. SafetyInv => AuditComplete
  BY DEF SafetyInv, DbInv
<1> QED BY <1>1, Safety, PTL

\* The error code of a run is a faithful sign of failure, which is all the
\* manual import looks at.
THEOREM ErrorsMeanFailure == Spec => []ErrorMeansFailed
<1>1. SafetyInv => ErrorMeansFailed
  BY DEF SafetyInv, DbInv
<1> QED BY <1>1, Safety, PTL

\* Two queries and a version are as good as one consistent read.
THEOREM SnapshotsAreSound == Spec => []SnapshotSound
<1>1. SafetyInv => SnapshotSound
  BY DEF SafetyInv, ProcSound, LocalSound, SnapshotSound
<1> QED BY <1>1, Safety, PTL

\* Which writes can touch a row of the history.
LEMMA HistoryStep ==
  ASSUME SafetyInv, [Next]_vars, NEW k \in DOMAIN steps, steps[k].outcome # "STARTED"
  PROVE  k \in DOMAIN steps' /\ steps'[k] = steps[k]
<1>1. CASE steps' = steps
  BY <1>1
<1>2. CASE LeaseLapse
  BY <1>2 DEF LeaseLapse
<1>3. ASSUME NEW p \in Procs, Claim(p)
      PROVE  k \in DOMAIN steps' /\ steps'[k] = steps[k]
  BY <1>3 DEF Claim, CanClaim, KeyClaimable, Put
<1>4. ASSUME NEW p \in Procs, FinishCompleted(p) \/ FinishFailed(p)
      PROVE  k \in DOMAIN steps' /\ steps'[k] = steps[k]
  BY <1>4 DEF FinishCompleted, FinishFailed, FinishFence, Put
<1>5. ASSUME NEW p \in Procs, StageCancel(p)
      PROVE  k \in DOMAIN steps' /\ steps'[k] = steps[k]
  BY <1>5 DEF StageCancel, CanStageCancel, IsActive, Put
<1>6. CASE \E p \in Procs : \/ Request(p) \/ Crash(p)
                            \/ ReadSteps(p) \/ NothingToDo(p) \/ ClaimRefused(p)
                            \/ SaveResults(p) \/ FinishRefused(p)
                            \/ Publish(p) \/ PublishRefused(p) \/ CancelRefused(p)
                            \/ Resume(p) \/ CreateRetry(p)
  BY <1>1, <1>6 DEF Request, ReadRun, Crash, ReadSteps, NothingToDo, ClaimRefused, SaveResults,
     FinishRefused, Publish, PublishRefused, CancelRefused, Resume, CreateRetry
<1>7. CASE UNCHANGED vars
  BY <1>1, <1>7 DEF vars
<1> QED BY <1>2, <1>3, <1>4, <1>5, <1>6, <1>7 DEF Next, Work

\* A row with an outcome is never written again, by whichever request.
THEOREM HistoryIsImmutable == Spec => HistoryImmutable
<1>1. SafetyInv /\ [Next]_vars =>
        [\A k \in DOMAIN steps :
           steps[k].outcome # "STARTED" => k \in DOMAIN steps' /\ steps'[k] = steps[k]]_vars
  BY HistoryStep
<1> QED BY <1>1, Safety, PTL DEF Spec, HistoryImmutable

\* A terminal status is left only by importing a file for the failed source.
LEMMA ReopenStep ==
  ASSUME SafetyInv, [Next]_vars, Terminal(run), run'.status # run.status
  PROVE  /\ run.status = "FAILED"
         /\ run.errorCode \in Sources
         /\ run'.status = ManualImportStep(run.errorCode)
<1>1. ASSUME NEW p \in Procs, Claim(p) PROVE FALSE
  <2>1. proc[p].pc = "decide" /\ ~Terminal(proc[p].snap) /\ proc[p].snap.version = run.version
    BY <1>1 DEF Claim, WantsClaim, CanClaim
  <2> QED BY <2>1 DEF SafetyInv, ProcSound, LocalSound
<1>2. ASSUME NEW p \in Procs, FinishCompleted(p) \/ FinishFailed(p) PROVE FALSE
  <2>1. proc[p].pc \in {"execute", "saved"} /\ FinishFence(proc[p])
    BY <1>2 DEF FinishCompleted, FinishFailed
  <2> QED BY <2>1, FenceGives
<1>3. ASSUME NEW p \in Procs, Publish(p) PROVE FALSE
  BY <1>3 DEF Publish, ValidStage, SafetyInv, DbInv, StageIsCurrent
<1>4. ASSUME NEW p \in Procs, StageCancel(p) PROVE FALSE
  <2>1. run' = [run EXCEPT !.version = run.version + 1] /\ run \in RunRow
    BY <1>4, RowTypes DEF StageCancel, SafetyInv
  <2>2. run'.status = run.status
    BY <2>1 DEF RunRow
  <2> QED BY <2>2
<1>5. ASSUME NEW p \in Procs, Resume(p)
      PROVE  /\ run.status = "FAILED"
             /\ run.errorCode \in Sources
             /\ run'.status = ManualImportStep(run.errorCode)
  <2>1. CanResume(proc[p]) /\ WantsResume(proc[p])
    BY <1>5 DEF Resume
  <2>2. /\ proc[p].snap = run /\ run.errorCode \in Sources /\ run.status = "FAILED"
    BY <2>1, ResumeFinds
  <2>3. run \in RunRow
    BY RowTypes DEF SafetyInv
  <2>4. run'.status = ManualImportStep(run.errorCode)
    BY <1>5, <2>1, <2>2, <2>3 DEF Resume, RunRow
  <2> QED BY <2>2, <2>4
<1>6. CASE run' = run
  BY <1>6
<1>7. CASE \E p \in Procs : \/ Request(p) \/ Crash(p)
                            \/ ReadSteps(p) \/ NothingToDo(p) \/ ClaimRefused(p)
                            \/ SaveResults(p) \/ FinishRefused(p)
                            \/ PublishRefused(p) \/ CancelRefused(p) \/ CreateRetry(p)
  BY <1>6, <1>7 DEF Request, ReadRun, Crash, ReadSteps, NothingToDo, ClaimRefused, SaveResults,
     FinishRefused, PublishRefused, CancelRefused, CreateRetry
<1>8. CASE LeaseLapse \/ UNCHANGED vars
  BY <1>6, <1>8 DEF LeaseLapse, vars
<1> QED BY <1>1, <1>2, <1>3, <1>4, <1>5, <1>7, <1>8 DEF Next, Work

\* COMPLETED and CANCELLED are final for every number of requests, crashes and
\* lapsed leases; FAILED ends only by importing a file for the failed source.
THEOREM OnlyFailureReopens == Spec => OnlyFailedReopens
<1>1. SafetyInv /\ [Next]_vars =>
        [Terminal(run) /\ run'.status # run.status =>
           /\ run.status = "FAILED"
           /\ run.errorCode \in Sources
           /\ run'.status = ManualImportStep(run.errorCode)]_vars
  BY ReopenStep
<1> QED BY <1>1, Safety, PTL DEF Spec, OnlyFailedReopens

-----------------------------------------------------------------------------
(* The order of the configured steps *)

\* The steps that come before s.
Before(s) ==
  {Steps[j] : j \in {i \in DOMAIN Steps : \E n \in DOMAIN Steps : Steps[n] = s /\ i < n}}

IsLast(s) == NextConfiguredStep(s) = "COMPLETED"

\* A configured step has one place in the list, the one NextConfiguredStep and
\* RunLifecycle choose.
LEMMA PlaceOfStep ==
  ASSUME NEW s \in ConfiguredSteps
  PROVE  LET i == CHOOSE i \in DOMAIN Steps : Steps[i] = s IN
         /\ i \in DOMAIN Steps /\ i \in Nat /\ Steps[i] = s
         /\ \A j \in DOMAIN Steps : Steps[j] = s => j = i
         /\ DOMAIN Steps = 1 .. Len(Steps) /\ Len(Steps) \in Nat
<1>1. Steps \in Seq(AllSteps) /\ \A i, j \in DOMAIN Steps : Steps[i] = Steps[j] => i = j
  BY StepsAssumption
<1>2. \E i \in DOMAIN Steps : Steps[i] = s
  BY DEF ConfiguredSteps
<1> QED BY <1>1, <1>2

\* What follows a step is the one in the next place, and the end after the last.
LEMMA LastByPlace ==
  ASSUME NEW s \in ConfiguredSteps, NEW i \in DOMAIN Steps, Steps[i] = s
  PROVE  /\ IsLast(s) <=> i = Len(Steps)
         /\ ~IsLast(s) => i + 1 \in DOMAIN Steps /\ NextConfiguredStep(s) = Steps[i + 1]
<1> DEFINE n == CHOOSE j \in DOMAIN Steps : Steps[j] = s
<1>1. n = i /\ DOMAIN Steps = 1 .. Len(Steps) /\ Len(Steps) \in Nat
  BY PlaceOfStep
<1>2. NextConfiguredStep(s) = IF i < Len(Steps) THEN Steps[i + 1] ELSE "COMPLETED"
  BY <1>1 DEF NextConfiguredStep
<1> HIDE DEF n
<1>3. CASE i < Len(Steps)
  <2>1. i + 1 \in DOMAIN Steps
    BY <1>1, <1>3
  <2>2. Steps[i + 1] \in AllSteps
    BY <2>1, ConfiguredAreSteps DEF ConfiguredSteps
  <2>3. Steps[i + 1] # "COMPLETED"
    BY <2>2 DEF AllSteps
  <2> QED BY <1>1, <1>2, <1>3, <2>1, <2>3 DEF IsLast
<1>4. CASE ~(i < Len(Steps))
  BY <1>1, <1>2, <1>4 DEF IsLast
<1> QED BY <1>3, <1>4

\* A step is not before itself.
LEMMA NotBeforeItself ==
  ASSUME NEW s
  PROVE  s \notin Before(s)
<1> SUFFICES ASSUME NEW i \in DOMAIN Steps, NEW n \in DOMAIN Steps,
                    Steps[i] = s, Steps[n] = s, i < n
             PROVE  FALSE
  BY DEF Before
<1>1. DOMAIN Steps \subseteq Nat /\ \A k, j \in DOMAIN Steps : Steps[k] = Steps[j] => k = j
  BY StepsAssumption
<1> QED BY <1>1

\* Nothing is before the first step.
LEMMA BeforeFirst == Before(Steps[1]) = {}
<1> SUFFICES ASSUME NEW i \in DOMAIN Steps, NEW n \in DOMAIN Steps,
                    Steps[n] = Steps[1], i < n
             PROVE  FALSE
  BY DEF Before
<1>1. /\ DOMAIN Steps = 1 .. Len(Steps) /\ Len(Steps) \in Nat /\ Len(Steps) > 0
      /\ \A k, j \in DOMAIN Steps : Steps[k] = Steps[j] => k = j
  BY StepsAssumption
<1>2. n = 1
  BY <1>1
<1> QED BY <1>1, <1>2

\* Doing a step adds it to what is before the next one.
LEMMA BeforeNext ==
  ASSUME NEW s \in ConfiguredSteps, ~IsLast(s)
  PROVE  Before(NextConfiguredStep(s)) = Before(s) \cup {s}
<1>1. PICK i \in DOMAIN Steps : Steps[i] = s
  BY DEF ConfiguredSteps
<1>2. i + 1 \in DOMAIN Steps /\ NextConfiguredStep(s) = Steps[i + 1]
  BY <1>1, LastByPlace
<1>3. DOMAIN Steps \subseteq Nat /\ \A k, j \in DOMAIN Steps : Steps[k] = Steps[j] => k = j
  BY StepsAssumption
<1>4. \A k \in DOMAIN Steps : (\E n \in DOMAIN Steps : Steps[n] = s /\ k < n) <=> k < i
  BY <1>1, <1>3
<1>5. \A k \in DOMAIN Steps : (\E n \in DOMAIN Steps : Steps[n] = Steps[i + 1] /\ k < n) <=> k < i + 1
  BY <1>2, <1>3
<1>6. \A k \in DOMAIN Steps : k < i + 1 <=> k < i \/ k = i
  BY <1>3
<1>7. Before(s) = {Steps[k] : k \in {j \in DOMAIN Steps : j < i}}
  BY <1>4 DEF Before
<1>8. Before(Steps[i + 1]) = {Steps[k] : k \in {j \in DOMAIN Steps : j < i + 1}}
  BY <1>5 DEF Before
<1>9. {j \in DOMAIN Steps : j < i + 1} = {j \in DOMAIN Steps : j < i} \cup {i}
  BY <1>6
<1> QED BY <1>1, <1>2, <1>7, <1>8, <1>9

\* The last step completes the list.
LEMMA BeforeLast ==
  ASSUME NEW s \in ConfiguredSteps, IsLast(s)
  PROVE  Before(s) \cup {s} = ConfiguredSteps
<1>1. PICK i \in DOMAIN Steps : Steps[i] = s
  BY DEF ConfiguredSteps
<1>2. i = Len(Steps) /\ DOMAIN Steps = 1 .. Len(Steps) /\ Len(Steps) \in Nat
  BY <1>1, LastByPlace, PlaceOfStep
<1>3. \A k \in DOMAIN Steps : k < i \/ k = i
  BY <1>2
<1>4. ASSUME NEW k \in DOMAIN Steps PROVE Steps[k] \in Before(s) \cup {s}
  BY <1>1, <1>3 DEF Before
<1> QED BY <1>4 DEF ConfiguredSteps, Before

-----------------------------------------------------------------------------
(* What each write does, field by field *)

CompletedRows == {k \in DOMAIN steps : Completed(k)}

\* The table of steps as every property here sees it: leases left out.
SameRows ==
  /\ DOMAIN steps' = DOMAIN steps
  /\ \A k \in DOMAIN steps :
       /\ steps'[k].status = steps[k].status /\ steps'[k].outcome = steps[k].outcome
       /\ steps'[k].at = steps[k].at /\ steps'[k].staged = steps[k].staged

\* One row, K, is written; it had no outcome yet, if it existed.
OneRow(K) ==
  /\ DOMAIN steps' = DOMAIN steps \cup {K}
  /\ \A k \in DOMAIN steps : k # K => steps'[k] = steps[k]
  /\ K \in DOMAIN steps => steps[K].outcome = "STARTED"

\* What the run keeps but for its place and its version.
SameCargo == run'.output = run.output /\ run'.manual = run.manual

NextVersion == run'.version = run.version + 1

\* Between a claim and its end nothing is staged and the run carries no error.
Open == ~Terminal(run) /\ run.errorCode = "NONE" /\ StagesAt(run.version, steps) = {}

\* A claim puts the run on the step it was about to execute.
ClaimWrites(K) ==
  /\ Open /\ NextVersion /\ SameCargo /\ OneRow(K)
  /\ run'.status = StepStatus(run) /\ StepStatus(run) \in ConfiguredSteps
  /\ run'.errorCode = "NONE"
  /\ steps'[K].outcome = "STARTED" /\ steps'[K].status = run'.status
  /\ steps'[K].at = run'.version /\ StagesAt(run'.version, steps') = {}
  /\ results' = results

\* A completed step is added to the output; the last one is staged.
CompletionWrites(K) ==
  /\ Open /\ NextVersion /\ OneRow(K)
  /\ run.status \in ConfiguredSteps /\ run'.errorCode = "NONE"
  /\ K \in DOMAIN steps /\ steps[K].at = run.version
  /\ run'.status = IF IsLast(run.status) THEN run.status ELSE NextConfiguredStep(run.status)
  /\ run'.output = run.output \cup {run.status} /\ run'.manual = run.manual
  /\ steps'[K].outcome = "COMPLETED" /\ steps'[K].status = run.status
  /\ steps'[K].at = run.version
  /\ StagesAt(run'.version, steps') = IF IsLast(run.status) THEN {K} ELSE {}
  /\ results' = results

\* A failure is staged with its code.
FailureWrites(K) ==
  /\ Open /\ NextVersion /\ SameCargo /\ OneRow(K)
  /\ run.status \in ConfiguredSteps /\ run'.status = run.status
  /\ run'.errorCode \in FailureCodes(run)
  /\ steps'[K].outcome = "FAILED" /\ StagesAt(run'.version, steps') = {K}
  /\ results' = results

\* Publishing shows the outcome of the only stage.
PublicationWrites(K) ==
  /\ StagesAt(run.version, steps) = {K} /\ steps[K].outcome \in TERMINAL_STATUSES
  /\ ~Terminal(run)
  /\ NextVersion /\ SameCargo /\ steps' = steps
  /\ run'.status = steps[K].outcome /\ run'.errorCode = run.errorCode
  /\ StagesAt(run'.version, steps') = {}
  /\ results' = results

\* A cancellation stages one row and drops the results of an interrupted step.
CancellationWrites(K) ==
  /\ Open /\ NextVersion /\ SameCargo /\ OneRow(K)
  /\ run'.status = run.status /\ run'.errorCode = run.errorCode
  /\ steps'[K].outcome = "CANCELLED" /\ StagesAt(run'.version, steps') = {K}
  /\ results' = ResultsAfterCancel({k \in DOMAIN steps : IsActive(run, steps[k])})

\* A manual import returns a failed run to the step of the failed source.
ImportWrites ==
  /\ run.status = "FAILED" /\ run.errorCode \in Sources /\ StagesAt(run.version, steps) = {}
  /\ NextVersion /\ steps' = steps
  /\ run'.status = ManualImportStep(run.errorCode) /\ run'.errorCode = "NONE"
  /\ run'.output = run.output /\ run'.manual = run.manual \cup {run.errorCode}
  /\ StagesAt(run'.version, steps') = {}
  /\ results' = results

\* What a claim leaves: the run on its step, one STARTED row, nothing staged.
LEMMA ClaimEffect ==
  ASSUME SafetyInv, NEW p \in Procs, Claim(p)
  PROVE  ClaimWrites(StepKey(proc[p]))
<1> DEFINE l == proc[p]
           K == StepKey(l)
           step == StepStatus(l.snap)
           v == run.version
<1>1. /\ run' = Moved(run, step, step)
      /\ steps' = Put(steps, K, [status |-> step, outcome |-> "STARTED", at |-> v + 1,
                                 fresh |-> TRUE, done |-> 0, staged |-> 0])
      /\ K \in DOMAIN steps => steps[K].outcome = "STARTED"
      /\ l.pc = "decide" /\ ~Terminal(l.snap) /\ ~l.pending /\ run.version = l.snap.version
      /\ results' = results
  <2>1. [run EXCEPT !.version = @ + 1, !.status = step, !.currentStep = step].version = v + 1
    BY RowTypes DEF SafetyInv, RunRow
  <2> QED BY <2>1 DEF Claim, WantsClaim, CanClaim, KeyClaimable, Moved
<1>2. l \in Local /\ LocalSound(l, run, steps) /\ LocalType(l) /\ run \in RunRow
  BY RowTypes DEF SafetyInv, ProcSound, TypeInv, ProcType
<1>3. l.snap = run /\ StagesAt(v, steps) = {} /\ ~Terminal(run)
  BY <1>1, <1>2 DEF LocalSound, PendingTerminalStage, Local
<1>4. Open
  BY <1>3 DEF SafetyInv, DbInv, ErrorMeansFailed, Terminal, TERMINAL_STATUSES, Open
<1>5. step \in ConfiguredSteps /\ step \in Statuses
  BY <1>1, <1>2, StepStatusType, ConfiguredAreSteps DEF LocalType, Statuses
<1>6. /\ run'.version = v + 1 /\ run'.status = step /\ run'.errorCode = run.errorCode
      /\ SameCargo
  BY <1>1, <1>2, <1>5, MovedType DEF SameCargo
<1>7. /\ DOMAIN steps' = DOMAIN steps \cup {K}
      /\ \A k \in DOMAIN steps : k # K => steps'[k] = steps[k]
      /\ steps'[K].status = step /\ steps'[K].outcome = "STARTED"
      /\ steps'[K].at = v + 1 /\ steps'[K].staged = 0
  BY <1>1 DEF Put
<1>8. StagesAt(run'.version, steps') = {}
  <2>1. \A k \in DOMAIN steps : steps[k].staged \in Nat /\ steps[k].staged <= v
    BY RowTypes DEF SafetyInv, DbInv, RowsOfPast
  <2>2. v \in Nat
    BY RowTypes DEF SafetyInv
  <2> QED BY <1>6, <1>7, <2>1, <2>2 DEF StagesAt
<1> QED BY <1>1, <1>3, <1>4, <1>5, <1>6, <1>7, <1>8 DEF ClaimWrites, OneRow, NextVersion, Open

\* What a completed step leaves: its section in the output, its row, and a stage
\* if it was the last.
LEMMA CompletionEffect ==
  ASSUME SafetyInv, NEW p \in Procs, FinishCompleted(p)
  PROVE  CompletionWrites(StepKey(proc[p]))
<1> DEFINE l == proc[p]
           K == StepKey(l)
           next == NextConfiguredStep(run.status)
           last == next = "COMPLETED"
           s == IF last THEN run.status ELSE next
           c == IF last THEN run.currentStep ELSE next
           output == run.output \cup {run.status}
           row == FinishedRow(l, "COMPLETED", last)
<1>1. l.pc \in {"execute", "saved"} /\ FinishFence(l)
  BY DEF FinishCompleted
<1>2. /\ l.snap = run
      /\ K \in DOMAIN steps /\ steps[K].status = run.status /\ steps[K].outcome = "STARTED"
      /\ steps[K].at = run.version
      /\ run.status \in ConfiguredSteps
      /\ Open
  BY <1>1, FenceGives DEF Open
<1>3. /\ run' = Written(run, s, c, "NONE", output, run.manual)
      /\ steps' = Put(steps, K, row)
      /\ results' = results
  BY <1>2 DEF FinishCompleted, Written
<1>4. next \in ConfiguredSteps \cup {"COMPLETED"} /\ ConfiguredSteps \subseteq AllSteps
  BY <1>2, NextStepType, ConfiguredAreSteps
<1>5. run \in RunRow
  BY RowTypes DEF SafetyInv
<1>6. s \in Statuses /\ c \in Statuses
  BY <1>2, <1>4, <1>5 DEF Statuses, RunRow
<1>7. output \in SUBSET AllSteps /\ run.manual \in SUBSET Sources
  BY <1>2, <1>4, <1>5 DEF RunRow
<1>8. /\ row.status = run.status /\ row.at = run.version /\ row.outcome = "COMPLETED"
      /\ row.staged = IF last THEN run.version + 1 ELSE 0
  <2>1. "COMPLETED" \in Outcomes /\ last \in BOOLEAN
    BY DEF Outcomes
  <2> HIDE DEF last
  <2>2. /\ row.status = steps[K].status /\ row.at = steps[K].at /\ row.outcome = "COMPLETED"
        /\ row.staged = IF last THEN run.version + 1 ELSE 0
    BY <1>2, <2>1, FinishedRowFields
  <2> QED BY <1>2, <2>2
<1> HIDE DEF s, c, output, row, next
<1>9. /\ run'.version = run.version + 1 /\ run'.status = s /\ run'.errorCode = "NONE"
      /\ run'.output = output /\ run'.manual = run.manual
  BY <1>3, <1>5, <1>6, <1>7, WrittenType DEF ErrorCodes
<1>10. OneRow(K) /\ steps'[K] = row
  BY <1>2, <1>3 DEF Put, OneRow
<1>11. StagesAt(run'.version, steps') = IF last THEN {K} ELSE {}
  <2>1. \A k \in DOMAIN steps : steps[k].staged \in Nat /\ steps[k].staged <= run.version
    BY RowTypes DEF SafetyInv, DbInv, RowsOfPast
  <2>2. run.version \in Nat
    BY RowTypes DEF SafetyInv
  <2> QED BY <1>2, <1>8, <1>9, <1>10, <2>1, <2>2 DEF StagesAt, OneRow
<1> QED BY <1>2, <1>3, <1>8, <1>9, <1>10, <1>11
        DEF CompletionWrites, NextVersion, IsLast, s, output, next

\* What a failed step leaves: its code and a stage.
LEMMA FailureEffect ==
  ASSUME SafetyInv, NEW p \in Procs, FinishFailed(p)
  PROVE  FailureWrites(StepKey(proc[p]))
<1> DEFINE l == proc[p]
           K == StepKey(l)
           failed(code) == [run EXCEPT !.version = @ + 1, !.errorCode = code,
                                       !.output = l.snap.output, !.manual = l.snap.manual]
           row == FinishedRow(l, "FAILED", TRUE)
<1>1. l.pc \in {"execute", "saved"} /\ FinishFence(l) /\ results' = results
  BY DEF FinishFailed
<1>2. /\ l.snap = run
      /\ K \in DOMAIN steps /\ steps[K].outcome = "STARTED"
      /\ run.status \in ConfiguredSteps
      /\ Open
  BY <1>1, FenceGives DEF Open
<1>3. PICK code \in FailureCodes(run) : run' = failed(code) /\ steps' = Put(steps, K, row)
  BY <1>2 DEF FinishFailed
<1>4. run \in RunRow
  BY RowTypes DEF SafetyInv
<1>5. /\ run'.version = run.version + 1 /\ run'.status = run.status /\ run'.errorCode = code
      /\ SameCargo
  BY <1>2, <1>3, <1>4 DEF RunRow, SameCargo
<1>6. row.outcome = "FAILED" /\ row.staged = run.version + 1
  BY <1>2, FinishedRowFields DEF Outcomes
<1> HIDE DEF row
<1>7. OneRow(K) /\ steps'[K] = row
  BY <1>2, <1>3 DEF Put, OneRow
<1>8. StagesAt(run'.version, steps') = {K}
  <2>1. \A k \in DOMAIN steps : steps[k].staged \in Nat /\ steps[k].staged <= run.version
    BY RowTypes DEF SafetyInv, DbInv, RowsOfPast
  <2>2. run.version \in Nat
    BY RowTypes DEF SafetyInv
  <2> QED BY <1>2, <1>5, <1>6, <1>7, <2>1, <2>2 DEF StagesAt, OneRow
<1> QED BY <1>1, <1>2, <1>3, <1>5, <1>6, <1>7, <1>8 DEF FailureWrites, NextVersion

\* What publishing leaves: the status of the stage, and the stage behind it.
LEMMA PublicationEffect ==
  ASSUME SafetyInv, NEW p \in Procs, Publish(p)
  PROVE  \E k \in DOMAIN steps : PublicationWrites(k)
<1> DEFINE s(k) == TerminalStatus(steps[k])
           c(k) == IF steps[k].outcome = "FAILED" THEN steps[k].status ELSE TerminalStatus(steps[k])
<1>1. PICK k \in DOMAIN steps : ValidStage(k) /\ run' = Moved(run, s(k), c(k))
  BY DEF Publish, Moved
<1>2. steps' = steps /\ results' = results
  BY DEF Publish
<1>3. StagesAt(run.version, steps) = {k} /\ steps[k].outcome \in TERMINAL_STATUSES
  BY <1>1 DEF ValidStage
<1>4. ~Terminal(run)
  BY <1>3 DEF SafetyInv, DbInv, StageIsCurrent
<1>5. run \in RunRow /\ steps[k] \in StepRow
  BY RowTypes DEF SafetyInv
<1>6. s(k) \in Statuses /\ c(k) \in Statuses /\ s(k) = steps[k].outcome
  BY <1>3, <1>5 DEF TerminalStatus, Statuses, StepRow
<1> HIDE DEF s, c
<1>7. NextVersion /\ SameCargo /\ run'.status = steps[k].outcome /\ run'.errorCode = run.errorCode
  BY <1>1, <1>5, <1>6, MovedType DEF NextVersion, SameCargo
<1>8. StagesAt(run'.version, steps') = {}
  BY <1>2, <1>7, NoFutureStage DEF NextVersion
<1> QED BY <1>2, <1>3, <1>4, <1>7, <1>8 DEF PublicationWrites

\* What a cancellation leaves: one cancelled row, staged, and no results of the
\* interrupted step.
LEMMA CancellationEffect ==
  ASSUME SafetyInv, NEW p \in Procs, StageCancel(p)
  PROVE  \E k : CancellationWrites(k)
<1> DEFINE l == proc[p]
           v == run.version
           active == {k \in DOMAIN steps : IsActive(run, steps[k])}
           cancelled(row) == [row EXCEPT !.outcome = "CANCELLED", !.fresh = FALSE,
                                         !.done = v + 1, !.staged = v + 1]
           inserted == [status |-> l.snap.status, outcome |-> "CANCELLED", at |-> v + 1,
                        fresh |-> FALSE, done |-> v + 1, staged |-> v + 1]
<1>1. /\ run' = [run EXCEPT !.version = v + 1]
      /\ steps' = IF active # {}
                  THEN [k \in DOMAIN steps |-> IF k \in active THEN cancelled(steps[k]) ELSE steps[k]]
                  ELSE Put(steps, CancelKey, inserted)
      /\ results' = ResultsAfterCancel(active)
      /\ CancelKey \notin DOMAIN steps /\ NoPendingTerminal
      /\ l.pc = "decide" /\ ~Terminal(l.snap) /\ v = l.snap.version
  BY DEF StageCancel, WantsCancel, CanStageCancel
<1>2. run \in RunRow /\ v \in Nat
  BY RowTypes DEF SafetyInv
<1>3. l.snap = run
  BY <1>1 DEF SafetyInv, ProcSound, LocalSound
<1>4. Open
  BY <1>1, <1>3 DEF SafetyInv, DbInv, ErrorMeansFailed, NoPendingTerminal, Terminal,
     TERMINAL_STATUSES, Open
<1>5. run'.version = v + 1 /\ run'.status = run.status /\ run'.errorCode = run.errorCode /\ SameCargo
  BY <1>1, <1>2 DEF RunRow, SameCargo
<1>6. \A k \in DOMAIN steps : steps[k].staged \in Nat /\ steps[k].staged <= v /\ steps[k] \in StepRow
  BY RowTypes DEF SafetyInv, DbInv, RowsOfPast
<1> DEFINE Staged(C) == OneRow(C) /\ steps'[C].outcome = "CANCELLED" /\ steps'[C].staged = v + 1
<1>7. \E C : Staged(C)
  <2>1. CASE active # {}
    <3>1. PICK C \in DOMAIN steps : C \in active
      BY <2>1
    <3>2. \A k \in DOMAIN steps : k \in active <=> k = C
      BY <3>1 DEF SafetyInv, DbInv, ClaimsDistinct, IsActive
    <3>3. ASSUME NEW row \in StepRow
          PROVE  cancelled(row).outcome = "CANCELLED" /\ cancelled(row).staged = v + 1
      BY DEF StepRow
    <3> HIDE DEF cancelled
    <3>4. steps'[C] = cancelled(steps[C]) /\ \A k \in DOMAIN steps : k # C => steps'[k] = steps[k]
      BY <1>1, <2>1, <3>1, <3>2
    <3>5. DOMAIN steps' = DOMAIN steps \cup {C}
      BY <1>1, <2>1, <3>1
    <3>6. steps[C].outcome = "STARTED"
      BY <3>1 DEF IsActive
    <3>7. Staged(C)
      BY <1>6, <3>1, <3>3, <3>4, <3>5, <3>6 DEF OneRow
    <3> QED BY <3>7
  <2>2. CASE active = {}
    <3>1. /\ DOMAIN steps' = DOMAIN steps \cup {CancelKey}
          /\ \A k \in DOMAIN steps : k # CancelKey => steps'[k] = steps[k]
          /\ steps'[CancelKey] = inserted
      BY <1>1, <2>2 DEF Put
    <3>2. inserted.outcome = "CANCELLED" /\ inserted.staged = v + 1
      OBVIOUS
    <3> HIDE DEF inserted
    <3>3. Staged(CancelKey)
      BY <1>1, <3>1, <3>2 DEF OneRow
    <3> QED BY <3>3
  <2> QED BY <2>1, <2>2
<1> HIDE DEF cancelled, inserted, l
<1>8. PICK C : Staged(C)
  BY <1>7
<1>9. StagesAt(run'.version, steps') = {C}
  BY <1>2, <1>5, <1>6, <1>8 DEF StagesAt, OneRow
<1>10. CancellationWrites(C)
  BY <1>1, <1>4, <1>5, <1>8, <1>9 DEF CancellationWrites, NextVersion
<1> QED BY <1>10

\* What a manual import leaves: the run back at the step that failed.
LEMMA ImportEffect ==
  ASSUME SafetyInv, NEW p \in Procs, Resume(p), CanResume(proc[p])
  PROVE  ImportWrites
<1> DEFINE l == proc[p]
           step == ManualImportStep(run.errorCode)
           manual == run.manual \cup {run.errorCode}
<1>1. /\ l.snap = run /\ run.errorCode \in Sources /\ run.status = "FAILED"
      /\ StagesAt(run.version, steps) = {}
  BY ResumeFinds DEF Resume
<1>2. /\ run' = Written(run, step, step, "NONE", run.output, manual)
      /\ steps' = steps /\ results' = results
  BY <1>1 DEF Resume, Written, ErrorAfterResume
<1>3. run \in RunRow
  BY RowTypes DEF SafetyInv
<1>4. step \in Statuses /\ manual \in SUBSET Sources /\ run.output \in SUBSET AllSteps
      /\ "NONE" \in ErrorCodes
  BY <1>1, <1>3 DEF ManualImportStep, AllSteps, Statuses, RunRow, ErrorCodes
<1> HIDE DEF step, manual
<1>5. /\ NextVersion /\ run'.status = step /\ run'.errorCode = "NONE"
      /\ run'.output = run.output /\ run'.manual = manual
  BY <1>2, <1>3, <1>4, WrittenType DEF NextVersion
<1>6. StagesAt(run'.version, steps') = {}
  BY <1>2, <1>5, NoFutureStage DEF NextVersion
<1> QED BY <1>1, <1>2, <1>5, <1>6 DEF ImportWrites, step, manual

\* The actions of a request that write neither the run nor its steps.
Looks(p) ==
  \/ Request(p) \/ Crash(p)
  \/ ReadSteps(p) \/ NothingToDo(p) \/ ClaimRefused(p)
  \/ SaveResults(p) \/ FinishRefused(p) \/ (Resume(p) /\ ~CanResume(proc[p]))
  \/ PublishRefused(p) \/ CancelRefused(p) \/ CreateRetry(p)

\* Looking, giving up, saving results and dying leave the run and its rows alone.
LEMMA LookEffect ==
  ASSUME NEW p \in Procs, Looks(p)
  PROVE  run' = run /\ steps' = steps /\ (results' = results \/ SaveResults(p))
BY DEF Looks, Request, ReadRun, Crash, ReadSteps, NothingToDo, ClaimRefused, SaveResults,
   FinishRefused, Resume, PublishRefused, CancelRefused, CreateRetry, dbVars

\* Every request looks, or makes one of the six writes.
LEMMA RequestCases ==
  ASSUME NEW p \in Procs, Request(p) \/ Work(p) \/ Crash(p)
  PROVE  \/ Looks(p)
         \/ Claim(p) \/ FinishCompleted(p) \/ FinishFailed(p) \/ StageCancel(p)
         \/ Publish(p)
         \/ Resume(p) /\ CanResume(proc[p])
BY DEF Work, Looks

\* The outcome of a step as the properties below see it.
RowWritten ==
  \E k :
    \/ ClaimWrites(k)
    \/ CompletionWrites(k) /\ \E p \in Procs : FinishCompleted(p)
    \/ FailureWrites(k)
    \/ CancellationWrites(k)

Published == \E k \in DOMAIN steps : PublicationWrites(k)

AtRest ==
  /\ run' = run /\ SameRows
  /\ results' = results \/ \E p \in Procs : SaveResults(p)

\* Every step is one of the writes above, or leaves the run and its rows as they
\* are: looking, giving up, saving results, dying, and the passing of time.
LEMMA StepCases ==
  ASSUME SafetyInv, [Next]_vars
  PROVE  RowWritten \/ Published \/ ImportWrites \/ AtRest
<1>1. ASSUME run' = run, steps' = steps, results' = results \/ \E p \in Procs : SaveResults(p)
      PROVE  AtRest
  BY <1>1 DEF SameRows, AtRest
<1>2. ASSUME LeaseLapse PROVE AtRest
  <2>1. PICK k \in DOMAIN steps : steps' = [steps EXCEPT ![k].fresh = FALSE]
    BY <1>2 DEF LeaseLapse
  <2>2. steps[k] \in StepRow
    BY RowTypes DEF SafetyInv
  <2> DEFINE lapsed == [steps[k] EXCEPT !.fresh = FALSE]
  <2>3. /\ lapsed.status = steps[k].status /\ lapsed.outcome = steps[k].outcome
        /\ lapsed.at = steps[k].at /\ lapsed.staged = steps[k].staged
    BY <2>2 DEF StepRow
  <2>4. DOMAIN steps' = DOMAIN steps /\ steps'[k] = lapsed
    BY <2>1
  <2>5. \A j \in DOMAIN steps : j # k => steps'[j] = steps[j]
    BY <2>1
  <2> HIDE DEF lapsed
  <2>6. SameRows
    BY <2>3, <2>4, <2>5 DEF SameRows
  <2> QED BY <1>2, <2>6 DEF LeaseLapse, AtRest
<1>3. CASE UNCHANGED vars
  BY <1>1, <1>3 DEF vars
<1>4. ASSUME NEW p \in Procs, Request(p) \/ Work(p) \/ Crash(p)
      PROVE  RowWritten \/ Published \/ ImportWrites \/ AtRest
  <2>1. CASE Looks(p)
    BY <1>1, <2>1, LookEffect
  <2>2. CASE Claim(p) \/ FinishCompleted(p) \/ FinishFailed(p) \/ StageCancel(p)
    BY <2>2, ClaimEffect, CompletionEffect, FailureEffect, CancellationEffect DEF RowWritten
  <2>3. CASE Publish(p)
    BY <2>3, PublicationEffect DEF Published
  <2>4. CASE Resume(p) /\ CanResume(proc[p])
    BY <2>4, ImportEffect
  <2> QED BY <1>4, <2>1, <2>2, <2>3, <2>4, RequestCases
<1> QED BY <1>2, <1>3, <1>4 DEF Next

-----------------------------------------------------------------------------
(* The output is the record of the completed steps *)

OutputRecorded == run.output = {steps[k].status : k \in CompletedRows}

CompletedStage == \E k \in StagesAt(run.version, steps) : Completed(k)

\* How far the run has come shows in its output: a run on a step has done the
\* steps before it, one that failed at a source those before the step an import
\* returns to, and one that is done, published or not, has done them all.
CourseKept ==
  /\ run.status = "QUEUED" => run.output = {}
  /\ run.status \in ConfiguredSteps /\ ~CompletedStage => run.output = Before(run.status)
  /\ run.errorCode \in Sources => run.output = Before(ManualImportStep(run.errorCode))
  /\ CompletedStage \/ run.status = "COMPLETED" => run.output = ConfiguredSteps

CourseInv == OutputRecorded /\ CourseKept

\* Writing one row adds its status to the record only if it completes the row.
LEMMA RecordAfterRow ==
  ASSUME NEW K, OneRow(K)
  PROVE  {steps'[k].status : k \in CompletedRows'} =
           {steps[k].status : k \in CompletedRows}
             \cup (IF steps'[K].outcome = "COMPLETED" THEN {steps'[K].status} ELSE {})
<1>1. \A k \in DOMAIN steps : k # K => steps'[k] = steps[k]
  BY DEF OneRow
<1>2. K \notin CompletedRows
  BY DEF OneRow, CompletedRows, Completed
<1>3. DOMAIN steps' = DOMAIN steps \cup {K}
  BY DEF OneRow
<1>4. CompletedRows' = CompletedRows \cup (IF steps'[K].outcome = "COMPLETED" THEN {K} ELSE {})
  BY <1>1, <1>2, <1>3 DEF CompletedRows, Completed
<1>5. \A k \in CompletedRows : steps'[k] = steps[k]
  BY <1>1, <1>2 DEF CompletedRows
<1> QED BY <1>4, <1>5

\* The statuses of a run are apart: a step is neither QUEUED nor terminal.
LEMMA StepsApart ==
  \A s \in ConfiguredSteps : s # "QUEUED" /\ s \notin TERMINAL_STATUSES
BY ConfiguredAreSteps DEF AllSteps, TERMINAL_STATUSES

\* The course of the run after each write.
LEMMA CourseStep ==
  ASSUME SafetyInv, CourseInv, [Next]_vars
  PROVE  CourseInv'
<1>1. ASSUME NEW K, ClaimWrites(K) PROVE CourseInv'
  <2>1. OutputRecorded'
    BY <1>1, RecordAfterRow DEF CourseInv, OutputRecorded, ClaimWrites, SameCargo
  <2>2. run.output = Before(run'.status)
    <3>1. CASE run.status = "QUEUED"
      BY <1>1, <3>1, BeforeFirst DEF CourseInv, CourseKept, ClaimWrites, StepStatus
    <3>2. CASE run.status # "QUEUED"
      BY <1>1, <3>2 DEF CourseInv, CourseKept, ClaimWrites, StepStatus, Open, CompletedStage
    <3> QED BY <3>1, <3>2
  <2>3. ~CompletedStage' /\ run'.status \in ConfiguredSteps /\ run'.errorCode = "NONE"
        /\ run'.output = run.output
    BY <1>1 DEF ClaimWrites, CompletedStage, SameCargo
  <2>4. CourseKept'
    BY <2>2, <2>3, StepsApart DEF CourseKept, TERMINAL_STATUSES, Sources
  <2> QED BY <2>1, <2>4 DEF CourseInv
<1>2. ASSUME NEW K, CompletionWrites(K) PROVE CourseInv'
  <2>1. OutputRecorded'
    BY <1>2, RecordAfterRow DEF CourseInv, OutputRecorded, CompletionWrites
  <2>2. /\ run.output = Before(run.status) /\ run'.output = Before(run.status) \cup {run.status}
        /\ run.status \in ConfiguredSteps /\ run'.errorCode = "NONE"
    BY <1>2 DEF CourseInv, CourseKept, CompletionWrites, Open, CompletedStage
  <2>3. CASE IsLast(run.status)
    <3>1. CompletedStage' /\ run'.output = ConfiguredSteps /\ run'.status \in ConfiguredSteps
      BY <1>2, <2>2, <2>3, BeforeLast DEF CompletionWrites, CompletedStage, Completed
    <3> QED BY <2>1, <2>2, <3>1, StepsApart DEF CourseInv, CourseKept, Sources
  <2>4. CASE ~IsLast(run.status)
    <3>1. ~CompletedStage' /\ run'.status = NextConfiguredStep(run.status)
      BY <1>2, <2>4 DEF CompletionWrites, CompletedStage
    <3>2. run'.output = Before(run'.status)
      BY <2>2, <2>4, <3>1, BeforeNext
    <3>3. run'.status \in ConfiguredSteps
      BY <2>2, <2>4, <3>1, NextStepType DEF IsLast
    <3> QED BY <2>1, <2>2, <3>1, <3>2, <3>3, StepsApart
            DEF CourseInv, CourseKept, Sources, TERMINAL_STATUSES
  <2> QED BY <2>3, <2>4
<1>3. ASSUME NEW K, FailureWrites(K) PROVE CourseInv'
  <2>1. OutputRecorded'
    BY <1>3, RecordAfterRow DEF CourseInv, OutputRecorded, FailureWrites, SameCargo
  <2>2. run.output = Before(run.status) /\ run'.output = run.output /\ run'.status = run.status
        /\ run.status \in ConfiguredSteps /\ ~CompletedStage'
    BY <1>3 DEF CourseInv, CourseKept, FailureWrites, Open, CompletedStage, Completed, SameCargo
  <2>3. run'.errorCode \in Sources => run.status = ManualImportStep(run'.errorCode)
    BY <1>3, FailureCodesType DEF FailureWrites
  <2> QED BY <2>1, <2>2, <2>3, StepsApart DEF CourseInv, CourseKept, TERMINAL_STATUSES
<1>4. ASSUME NEW K, CancellationWrites(K) PROVE CourseInv'
  <2>1. OutputRecorded'
    BY <1>4, RecordAfterRow DEF CourseInv, OutputRecorded, CancellationWrites, SameCargo
  <2>2. /\ run'.output = run.output /\ run'.status = run.status /\ run'.errorCode = "NONE"
        /\ ~CompletedStage /\ ~CompletedStage' /\ run.status # "COMPLETED"
    BY <1>4 DEF CancellationWrites, Open, CompletedStage, Completed, SameCargo, Terminal,
       TERMINAL_STATUSES
  <2> QED BY <2>1, <2>2 DEF CourseInv, CourseKept, Sources
<1>5. ASSUME NEW K, PublicationWrites(K) PROVE CourseInv'
  <2>1. steps' = steps /\ run'.output = run.output /\ run'.errorCode = run.errorCode
        /\ ~CompletedStage' /\ run'.status = steps[K].outcome /\ run'.status \in TERMINAL_STATUSES
    BY <1>5 DEF PublicationWrites, SameCargo, CompletedStage
  <2>2. OutputRecorded'
    BY <2>1 DEF CourseInv, OutputRecorded, CompletedRows, Completed
  <2>3. run'.status = "COMPLETED" => CompletedStage
    BY <1>5, <2>1 DEF PublicationWrites, CompletedStage, Completed
  <2>4. run'.status # "QUEUED" /\ run'.status \notin ConfiguredSteps
    BY <2>1, StepsApart DEF TERMINAL_STATUSES
  <2> QED BY <2>1, <2>2, <2>3, <2>4 DEF CourseInv, CourseKept
<1>6. ASSUME ImportWrites PROVE CourseInv'
  <2>1. steps' = steps /\ run'.output = run.output /\ run'.errorCode = "NONE" /\ ~CompletedStage'
        /\ run'.status = ManualImportStep(run.errorCode) /\ run.errorCode \in Sources
    BY <1>6 DEF ImportWrites, CompletedStage
  <2>2. OutputRecorded'
    BY <2>1 DEF CourseInv, OutputRecorded, CompletedRows, Completed
  <2>3. run'.status \notin {"QUEUED", "COMPLETED"}
    BY <2>1 DEF ManualImportStep
  <2> QED BY <2>1, <2>2, <2>3 DEF CourseInv, CourseKept, Sources
<1>7. ASSUME AtRest PROVE CourseInv'
  <2>1. CompletedRows' = CompletedRows /\ \A k \in CompletedRows : steps'[k].status = steps[k].status
    BY <1>7 DEF AtRest, SameRows, CompletedRows, Completed
  <2>2. StagesAt(run.version, steps') = StagesAt(run.version, steps)
    BY <1>7 DEF AtRest, SameRows, StagesAt
  <2>3. CompletedStage' <=> CompletedStage
    BY <1>7, <2>2 DEF AtRest, SameRows, CompletedStage, Completed, StagesAt
  <2> QED BY <1>7, <2>1, <2>3 DEF AtRest, CourseInv, OutputRecorded, CourseKept
<1> QED BY <1>1, <1>2, <1>3, <1>4, <1>5, <1>6, <1>7, StepCases DEF RowWritten, Published

\* A new run has an empty output and no rows.
LEMMA CourseInit == Init => CourseInv
<1> SUFFICES ASSUME Init PROVE CourseInv
  OBVIOUS
<1>1. run.status = "QUEUED" /\ run.output = {} /\ run.errorCode = "NONE" /\ DOMAIN steps = {}
  BY DEF Init, InitialRun
<1>2. CompletedRows = {} /\ ~CompletedStage
  BY <1>1 DEF CompletedRows, CompletedStage, StagesAt
<1> QED BY <1>1, <1>2, StepsApart DEF CourseInv, OutputRecorded, CourseKept, Sources

\* The run keeps its course, whatever its requests do.
LEMMA CourseIsKept == Spec => []CourseInv
<1>1. SafetyInv /\ CourseInv /\ [Next]_vars => CourseInv'
  BY CourseStep
<1> QED BY <1>1, CourseInit, Safety, PTL DEF Spec

\* No superseded worker adds or loses a section of output_snapshot, and a run is
\* completed with the section of every configured step.
THEOREM OutputIsHistory == Spec => []OutputMatchesHistory
<1>1. CourseInv => OutputMatchesHistory
  BY DEF CourseInv, OutputRecorded, CourseKept, OutputMatchesHistory, CompletedRows
<1> QED BY <1>1, CourseIsKept, PTL

-----------------------------------------------------------------------------
(* The run the user sees is a RunLifecycle *)

\* While nothing is staged the user's run has no verdict.
LEMMA NoVerdict ==
  /\ StagesAt(run.version, steps) = {} => PendingVerdict = "NONE"
  /\ StagesAt(run'.version, steps') = {} => PendingVerdict' = "NONE"
BY DEF PendingVerdict, NoPendingTerminal

\* The verdict of a staged run is the outcome of its only stage.
LEMMA VerdictOfStage ==
  ASSUME NEW K
  PROVE  /\ StagesAt(run.version, steps) = {K} => PendingVerdict = steps[K].outcome
         /\ StagesAt(run'.version, steps') = {K} => PendingVerdict' = steps'[K].outcome
<1>1. ASSUME StagesAt(run.version, steps) = {K}
      PROVE  PendingVerdict = steps[K].outcome
  <2>1. K \in DOMAIN steps /\ \A k \in DOMAIN steps : k \in StagesAt(run.version, steps) <=> k = K
    BY <1>1 DEF StagesAt
  <2>2. (CHOOSE k \in DOMAIN steps : k \in StagesAt(run.version, steps)) = K
    BY <2>1
  <2> QED BY <1>1, <2>2 DEF PendingVerdict, NoPendingTerminal
<1>2. ASSUME StagesAt(run'.version, steps') = {K}
      PROVE  PendingVerdict' = steps'[K].outcome
  <2>1. K \in DOMAIN steps' /\ \A k \in DOMAIN steps' : k \in StagesAt(run'.version, steps') <=> k = K
    BY <1>2 DEF StagesAt
  <2>2. (CHOOSE k \in DOMAIN steps' : k \in StagesAt(run'.version, steps')) = K
    BY <2>1
  <2> QED BY <1>2, <2>2 DEF PendingVerdict, NoPendingTerminal
<1> QED BY <1>1, <1>2

\* A claim starts a queued run, and is not seen otherwise: a taken-over step is
\* executed again without the user's run moving.
LEMMA ClaimIsStart ==
  ASSUME NEW K, ClaimWrites(K)
  PROVE  Lifecycle!Start \/ UNCHANGED Lifecycle!lifecycle
<1>1. PendingVerdict = "NONE" /\ PendingVerdict' = "NONE"
  BY NoVerdict DEF ClaimWrites, Open
<1>2. CASE run.status = "QUEUED"
  BY <1>1, <1>2 DEF ClaimWrites, Open, StepStatus, SameCargo, Lifecycle!Start
<1>3. CASE run.status # "QUEUED"
  BY <1>1, <1>3 DEF ClaimWrites, Open, StepStatus, SameCargo, Lifecycle!lifecycle
<1> QED BY <1>2, <1>3

\* A finished step advances the user's run by one place, or completes it.
LEMMA CompletionAdvances ==
  ASSUME CourseInv, NEW K, CompletionWrites(K)
  PROVE  \E i \in DOMAIN Steps : Lifecycle!Advance(Steps[i]) \/ Lifecycle!Complete(Steps[i])
<1> DEFINE s == run.status
<1>1. s \in ConfiguredSteps /\ PendingVerdict = "NONE" /\ run.errorCode = "NONE"
  BY NoVerdict DEF CompletionWrites, Open
<1>2. PICK i \in DOMAIN Steps : Steps[i] = s
  BY <1>1 DEF ConfiguredSteps
<1>3. Lifecycle!Position(s) = i /\ DOMAIN Steps = 1 .. Len(Steps) /\ Len(Steps) \in Nat
  BY <1>1, <1>2, PlaceOfStep DEF Lifecycle!Position
<1>4. Lifecycle!At(s)
  BY <1>1, <1>2 DEF Lifecycle!At
<1>5. CASE IsLast(s)
  <2>1. run'.output = ConfiguredSteps
    BY <1>1, <1>5, BeforeLast DEF CompletionWrites, CourseInv, CourseKept, CompletedStage, Open
  <2>2. PendingVerdict' = "COMPLETED"
    BY <1>5, VerdictOfStage DEF CompletionWrites
  <2>3. i = Len(Steps)
    BY <1>1, <1>2, <1>5, LastByPlace
  <2>4. Lifecycle!Complete(s)
    BY <1>1, <1>3, <1>4, <1>5, <2>1, <2>2, <2>3
    DEF CompletionWrites, Lifecycle!Complete, ConfiguredSteps
  <2> QED BY <1>2, <2>4
<1>6. CASE ~IsLast(s)
  <2>1. NextConfiguredStep(s) = Steps[i + 1] /\ i < Len(Steps)
    BY <1>1, <1>2, <1>3, <1>6, LastByPlace
  <2>2. PendingVerdict' = "NONE"
    BY <1>6, NoVerdict DEF CompletionWrites
  <2>3. Lifecycle!Advance(s)
    BY <1>1, <1>3, <1>4, <1>6, <2>1, <2>2 DEF CompletionWrites, Lifecycle!Advance
  <2> QED BY <1>2, <2>3
<1> QED BY <1>5, <1>6

\* A source that was replaced by a file fails no more, and no source fails
\* outside its own step.
LEMMA FailureCodesHonest ==
  ASSUME NEW r \in RunRow, NEW code \in FailureCodes(r)
  PROVE  /\ code \in {"APPIUS", "SAP", "OTHER"} /\ code \notin r.manual
         /\ code \in {"APPIUS", "SAP"} \ r.manual => r.status = Lifecycle!StepOf(code)
<1>1. "OTHER" \notin r.manual
  BY DEF RunRow, Sources
<1>2. CASE r.status = "LOADING_APPIUS"
  BY <1>1, <1>2 DEF FailureCodes, Lifecycle!StepOf
<1>3. CASE r.status = "SYNCING_SAP"
  BY <1>1, <1>3 DEF FailureCodes, Lifecycle!StepOf
<1>4. CASE r.status \in {"CLASSIFYING_RESPONSIBILITY", "FINDING_ANALOGUES"}
  BY <1>1, <1>4 DEF FailureCodes
<1>5. CASE r.status \notin {"LOADING_APPIUS", "SYNCING_SAP", "CLASSIFYING_RESPONSIBILITY",
                            "FINDING_ANALOGUES"}
  BY <1>5 DEF FailureCodes
<1> QED BY <1>2, <1>3, <1>4, <1>5

\* A failed step decides the user's run.
LEMMA FailureFails ==
  ASSUME SafetyInv, NEW K, FailureWrites(K)
  PROVE  \E i \in DOMAIN Steps, code \in {"APPIUS", "SAP", "OTHER"} :
           Lifecycle!Fail(Steps[i], code)
<1>1. PICK i \in DOMAIN Steps : Steps[i] = run.status
  BY DEF FailureWrites, ConfiguredSteps
<1>2. run \in RunRow
  BY RowTypes DEF SafetyInv
<1>3. PendingVerdict = "NONE" /\ PendingVerdict' = "FAILED"
  BY NoVerdict, VerdictOfStage DEF FailureWrites, Open
<1>4. run'.errorCode \in FailureCodes(run) /\ SameCargo /\ run'.status = run.status
  BY DEF FailureWrites
<1>5. Lifecycle!Fail(run.status, run'.errorCode)
  BY <1>1, <1>2, <1>3, <1>4, FailureCodesHonest DEF SameCargo, Lifecycle!Fail, Lifecycle!At
<1> QED BY <1>1, <1>2, <1>4, <1>5, FailureCodesHonest

\* A staged cancellation decides a run that had no verdict.
LEMMA CancellationCancels ==
  ASSUME NEW K, CancellationWrites(K)
  PROVE  Lifecycle!Cancel
<1>1. PendingVerdict = "NONE" /\ PendingVerdict' = "CANCELLED"
  BY NoVerdict, VerdictOfStage DEF CancellationWrites, Open
<1> QED BY <1>1 DEF CancellationWrites, Open, Terminal, TERMINAL_STATUSES, SameCargo,
           Lifecycle!Cancel, Lifecycle!Undecided

\* Publishing shows the verdict that was staged and no other.
LEMMA PublicationPublishes ==
  ASSUME NEW K, PublicationWrites(K)
  PROVE  Lifecycle!Publish
<1>1. PendingVerdict = steps[K].outcome /\ PendingVerdict' = "NONE"
  BY NoVerdict, VerdictOfStage DEF PublicationWrites
<1> QED BY <1>1 DEF PublicationWrites, TERMINAL_STATUSES, SameCargo, Lifecycle!Publish

\* A manual import takes the failed run up again at the step of its source.
LEMMA ImportResumes ==
  ASSUME ImportWrites
  PROVE  Lifecycle!Resume
<1>1. PendingVerdict = "NONE" /\ PendingVerdict' = "NONE"
  BY NoVerdict DEF ImportWrites
<1> QED BY <1>1 DEF ImportWrites, Sources, ManualImportStep, Lifecycle!Resume, Lifecycle!StepOf

\* What leaves the run and the outcomes of its rows alone is not seen.
LEMMA RestStutters ==
  ASSUME SafetyInv, AtRest
  PROVE  UNCHANGED Lifecycle!lifecycle
<1>1. StagesAt(run'.version, steps') = StagesAt(run.version, steps)
  BY DEF AtRest, SameRows, StagesAt
<1>2. PendingVerdict' = PendingVerdict
  <2>1. CASE StagesAt(run.version, steps) = {}
    BY <1>1, <2>1, NoVerdict
  <2>2. CASE StagesAt(run.version, steps) # {}
    <3>1. PICK K \in StagesAt(run.version, steps) : StagesAt(run.version, steps) = {K}
      BY <2>2 DEF SafetyInv, DbInv, StageIsCurrent
    <3>2. steps'[K].outcome = steps[K].outcome
      BY DEF AtRest, SameRows, StagesAt
    <3> QED BY <1>1, <3>1, <3>2, VerdictOfStage
  <2> QED BY <2>1, <2>2
<1> QED BY <1>2 DEF AtRest, Lifecycle!lifecycle

\* Every step of the requests is a step of the life the user sees, or none.
LEMMA LifecycleStep ==
  ASSUME SafetyInv, CourseInv, [Next]_vars
  PROVE  [Lifecycle!Next]_(Lifecycle!lifecycle)
<1>1. ASSUME NEW K, ClaimWrites(K) PROVE Lifecycle!Next \/ UNCHANGED Lifecycle!lifecycle
  BY <1>1, ClaimIsStart DEF Lifecycle!Next
<1>2. ASSUME NEW K, CompletionWrites(K) PROVE Lifecycle!Next
  BY <1>2, CompletionAdvances DEF Lifecycle!Next
<1>3. ASSUME NEW K, FailureWrites(K) PROVE Lifecycle!Next
  BY <1>3, FailureFails DEF Lifecycle!Next
<1>4. ASSUME NEW K, CancellationWrites(K) PROVE Lifecycle!Next
  BY <1>4, CancellationCancels DEF Lifecycle!Next
<1>5. ASSUME NEW K, PublicationWrites(K) PROVE Lifecycle!Next
  BY <1>5, PublicationPublishes DEF Lifecycle!Next
<1>6. ASSUME ImportWrites PROVE Lifecycle!Next
  BY <1>6, ImportResumes DEF Lifecycle!Next
<1> QED BY <1>1, <1>2, <1>3, <1>4, <1>5, <1>6, RestStutters, StepCases DEF RowWritten, Published

\* A run just created is a life that has not begun.
LEMMA LifecycleInit == Init => Lifecycle!Init
<1> SUFFICES ASSUME Init PROVE Lifecycle!Init
  OBVIOUS
<1>1. DOMAIN steps = {}
  BY DEF Init
<1>2. PendingVerdict = "NONE"
  BY <1>1, NoVerdict DEF StagesAt
<1> QED BY <1>2 DEF Init, InitialRun, Lifecycle!Init

\* Whatever the number of requests, crashes and lapsed leases, the run the user
\* sees goes through its steps once each and in order, to one verdict.
THEOREM RefinesLifecycle == Spec => ImplementsLifecycle
<1>1. SafetyInv /\ CourseInv /\ [Next]_vars => [Lifecycle!Next]_(Lifecycle!lifecycle)
  BY LifecycleStep
<1> QED BY <1>1, LifecycleInit, Safety, CourseIsKept, PTL
        DEF Spec, ImplementsLifecycle, Lifecycle!Spec

-----------------------------------------------------------------------------
(* The results of a run are those of the attempt that was confirmed *)

LiveClaim == \E k \in DOMAIN steps : IsActive(run, steps[k])

\* A worker whose claim is the run's last write still holds it, and what it saved
\* is what the table holds.
OwnerSound ==
  \A p \in Procs :
    proc[p].pc \in {"execute", "saved"} /\ proc[p].snap.version = run.version =>
      /\ LiveClaim
      /\ proc[p].pc = "saved" => results = run.version

\* Only a configured step is ever claimed.
ClaimsOfSteps ==
  \A k \in DOMAIN steps : steps[k].outcome = "STARTED" => steps[k].status \in ConfiguredSteps

\* The steps whose rows a completed run is read by.
Counted(s) ==
  \/ s = "FINDING_ANALOGUES"
  \/ s = "GENERATING_REPORT" /\ "FINDING_ANALOGUES" \notin ConfiguredSteps

ResultsFinal ==
  \A k \in DOMAIN steps : Completed(k) /\ Counted(steps[k].status) => results = steps[k].at

ConfirmedInv == ClaimsOfSteps /\ OwnerSound /\ ResultsFinal

\* Only a claim and a save leave a request executing.
LEMMA WorkerCases ==
  ASSUME SafetyInv, [Next]_vars, NEW q \in Procs, proc'[q].pc \in {"execute", "saved"}
  PROVE  proc'[q] = proc[q] \/ Claim(q) \/ SaveResults(q)
<1>1. ASSUME NEW p \in Procs, NEW l, Set(p, l), l.pc \notin {"execute", "saved"}
      PROVE  proc'[q] = proc[q]
  BY <1>1 DEF Set, SafetyInv, TypeInv, ProcType
<1>2. ASSUME NEW p \in Procs, Return(p) PROVE proc'[q] = proc[q]
  BY <1>1, <1>2 DEF Return, Idle
<1>3. ASSUME NEW p \in Procs, Claim(p) \/ SaveResults(p)
      PROVE  p = q \/ proc'[q] = proc[q]
  BY <1>2, <1>3 DEF Claim, SaveResults, Set, SafetyInv, TypeInv, ProcType
<1>4. ASSUME NEW p \in Procs, Request(p) \/ CancelRefused(p) PROVE proc'[q] = proc[q]
  <2>1. PICK op : Set(p, [Idle EXCEPT !.pc = "read", !.op = op, !.snap = run])
    BY <1>4 DEF Request, ReadRun, CancelRefused
  <2>2. [Idle EXCEPT !.pc = "read", !.op = op, !.snap = run].pc = "read"
    BY DEF Idle
  <2> QED BY <1>1, <2>1, <2>2
<1>5. ASSUME NEW p \in Procs,
             ReadSteps(p) \/ FinishCompleted(p) \/ FinishFailed(p) \/ Publish(p) \/ StageCancel(p)
      PROVE  proc'[q] = proc[q]
  <2> DEFINE l == proc[p]
             Ends == {"decide", "publish", "create"}
             Ended == Return(p) \/ \E r : Set(p, r) /\ r.pc \in Ends
  <2>1. l \in Local
    BY RowTypes DEF SafetyInv
  <2>3. ASSUME ReadSteps(p) PROVE Ended
    <3>1. PICK pending, busy, attempt :
            Set(p, [l EXCEPT !.pc = "decide", !.pending = pending, !.busy = busy, !.attempt = attempt])
      BY <2>3 DEF ReadSteps
    <3>2. [l EXCEPT !.pc = "decide", !.pending = pending, !.busy = busy, !.attempt = attempt].pc = "decide"
      BY <2>1 DEF Local
    <3> QED BY <3>1, <3>2
  <2>4. ASSUME FinishCompleted(p) PROVE Ended
    <3>1. Return(p) \/ \E last \in BOOLEAN : \E snap, attempt :
            Set(p, [l EXCEPT !.pc = IF last THEN "publish" ELSE "decide", !.snap = snap,
                             !.attempt = attempt])
      BY <2>4 DEF FinishCompleted
    <3>2. ASSUME NEW last \in BOOLEAN, NEW snap, NEW attempt
          PROVE  [l EXCEPT !.pc = IF last THEN "publish" ELSE "decide", !.snap = snap,
                           !.attempt = attempt].pc \in Ends
      BY <2>1 DEF Local
    <3> HIDE DEF Ends, l
    <3> QED BY <3>1, <3>2
  <2>5. ASSUME FinishFailed(p) PROVE Ended
    <3>1. PICK snap : Set(p, [l EXCEPT !.pc = "publish", !.snap = snap])
      BY <2>5 DEF FinishFailed
    <3>2. [l EXCEPT !.pc = "publish", !.snap = snap].pc = "publish"
      BY <2>1 DEF Local
    <3> QED BY <3>1, <3>2
  <2>6. ASSUME Publish(p) PROVE Ended
    <3>1. \/ Return(p)
          \/ \E snap : Set(p, [l EXCEPT !.pc = "decide", !.pending = FALSE, !.snap = snap])
          \/ \E snap : Set(p, [l EXCEPT !.pc = "create", !.snap = snap])
      BY <2>6 DEF Publish
    <3>2. ASSUME NEW snap, Set(p, [l EXCEPT !.pc = "decide", !.pending = FALSE, !.snap = snap])
          PROVE  Ended
      <4>1. [l EXCEPT !.pc = "decide", !.pending = FALSE, !.snap = snap].pc = "decide"
        BY <2>1 DEF Local
      <4> QED BY <3>2, <4>1
    <3>3. ASSUME NEW snap, Set(p, [l EXCEPT !.pc = "create", !.snap = snap])
          PROVE  Ended
      <4>1. [l EXCEPT !.pc = "create", !.snap = snap].pc = "create"
        BY <2>1 DEF Local
      <4> QED BY <3>3, <4>1
    <3> QED BY <3>1, <3>2, <3>3
  <2>7. ASSUME StageCancel(p) PROVE Ended
    <3>1. Set(p, [l EXCEPT !.pc = "publish", !.snap = run'])
      BY <2>7 DEF StageCancel
    <3>2. [l EXCEPT !.pc = "publish", !.snap = run'].pc = "publish"
      BY <2>1 DEF Local
    <3> QED BY <3>1, <3>2
  <2>8. Ended
    BY <1>5, <2>3, <2>4, <2>5, <2>6, <2>7
  <2> QED BY <1>1, <1>2, <2>8
<1>6. ASSUME NEW p \in Procs,
             \/ Crash(p) \/ NothingToDo(p) \/ ClaimRefused(p) \/ FinishRefused(p)
             \/ PublishRefused(p) \/ Resume(p) \/ CreateRetry(p)
      PROVE  proc'[q] = proc[q]
  BY <1>2, <1>6 DEF Crash, NothingToDo, ClaimRefused, FinishRefused, PublishRefused, Resume,
     CreateRetry
<1>7. ASSUME NEW p \in Procs, Work(p)
      PROVE  proc'[q] = proc[q] \/ Claim(q) \/ SaveResults(q)
  BY <1>3, <1>4, <1>5, <1>6, <1>7 DEF Work
<1>8. CASE LeaseLapse \/ UNCHANGED vars
  BY <1>8 DEF LeaseLapse, vars
<1> QED BY <1>4, <1>6, <1>7, <1>8 DEF Next

\* Who saves results holds the live claim of a step that writes them.
LEMMA SaveGives ==
  ASSUME SafetyInv, OwnerSound, NEW p \in Procs, SaveResults(p), results' # results
  PROVE  /\ LiveClaim /\ Materialises(run)
         /\ results' = run.version /\ run' = run /\ steps' = steps
         /\ proc'[p].pc = "saved"
<1>1. /\ proc[p].pc = "execute" /\ Materialises(proc[p].snap)
      /\ SaveFence(proc[p]) /\ results' = proc[p].snap.version
      /\ Set(p, [proc[p] EXCEPT !.pc = "saved"])
      /\ run' = run /\ steps' = steps
  BY DEF SaveResults
<1>2. proc[p].snap = run
  BY <1>1 DEF SaveFence, SafetyInv, ProcSound, LocalSound
<1>3. LiveClaim
  BY <1>1, <1>2 DEF OwnerSound
<1>4. proc'[p].pc = "saved"
  BY <1>1, RowTypes DEF Set, SafetyInv, TypeInv, ProcType, Local
<1> QED BY <1>1, <1>2, <1>3, <1>4

\* A save that finds the table as it leaves it still belongs to the claim.
LEMMA SavedIsOwn ==
  ASSUME SafetyInv, NEW p \in Procs, SaveResults(p), proc'[p].pc \in {"execute", "saved"}
  PROVE  /\ results' = run.version /\ run' = run /\ steps' = steps
         /\ proc[p].pc = "execute" /\ proc[p].snap.version = run.version
<1>1. ~Return(p)
  BY RowTypes DEF Return, Set, Idle, SafetyInv, TypeInv, ProcType
<1> QED BY <1>1 DEF SaveResults, SaveFence

\* A claim seen at rest is seen after it.
LEMMA ClaimAtRest ==
  ASSUME AtRest
  PROVE  LiveClaim' <=> LiveClaim
BY DEF AtRest, SameRows, LiveClaim, IsActive

\* Every write moves the version on, away from every other worker.
LEMMA VersionMoves ==
  ASSUME RowWritten \/ Published \/ ImportWrites
  PROVE  run'.version = run.version + 1
BY DEF RowWritten, Published, ImportWrites, ClaimWrites, CompletionWrites, FailureWrites,
   CancellationWrites, PublicationWrites, NextVersion

\* The workers after each step.
LEMMA OwnerStep ==
  ASSUME SafetyInv, OwnerSound, [Next]_vars
  PROVE  OwnerSound'
<1> SUFFICES ASSUME NEW q \in Procs, proc'[q].pc \in {"execute", "saved"},
                    proc'[q].snap.version = run'.version
             PROVE  LiveClaim' /\ (proc'[q].pc = "saved" => results' = run'.version)
  BY DEF OwnerSound
<1>1. CASE Claim(q)
  <2>1. ClaimWrites(StepKey(proc[q]))
    BY <1>1, ClaimEffect
  <2>2. LiveClaim'
    BY <2>1 DEF ClaimWrites, OneRow, LiveClaim, IsActive
  <2>3. proc'[q].pc = "execute"
    BY <1>1, RowTypes DEF Claim, Set, SafetyInv, TypeInv, ProcType, Local
  <2> QED BY <2>2, <2>3
<1>2. CASE SaveResults(q)
  <2>1. /\ results' = run.version /\ run' = run /\ steps' = steps
        /\ proc[q].pc = "execute" /\ proc[q].snap.version = run.version
    BY <1>2, SavedIsOwn
  <2>2. LiveClaim
    BY <2>1 DEF OwnerSound
  <2> QED BY <2>1, <2>2 DEF LiveClaim
<1>3. CASE proc'[q] = proc[q]
  <2>1. run'.version # run.version + 1
    BY <1>3, RowTypes DEF SafetyInv, ProcSound, LocalSound
  <2>2. AtRest
    BY <2>1, StepCases, VersionMoves
  <2>3. LiveClaim /\ (proc[q].pc = "saved" => results = run.version)
    BY <1>3, <2>2 DEF OwnerSound, AtRest
  <2>4. results' = results \/ results' = run.version
    BY <2>2, SaveGives DEF AtRest
  <2> QED BY <1>3, <2>2, <2>3, <2>4, ClaimAtRest DEF AtRest
<1> QED BY <1>1, <1>2, <1>3, WorkerCases

\* The claims after each step.
LEMMA ClaimsStep ==
  ASSUME SafetyInv, ClaimsOfSteps, [Next]_vars
  PROVE  ClaimsOfSteps'
<1>1. ASSUME NEW K, OneRow(K), steps'[K].outcome = "STARTED" => steps'[K].status \in ConfiguredSteps
      PROVE  ClaimsOfSteps'
  BY <1>1 DEF OneRow, ClaimsOfSteps
<1>2. CASE RowWritten
  BY <1>1, <1>2 DEF RowWritten, ClaimWrites, CompletionWrites, FailureWrites, CancellationWrites
<1>3. CASE Published \/ ImportWrites
  BY <1>3 DEF Published, PublicationWrites, ImportWrites, ClaimsOfSteps
<1>4. CASE AtRest
  BY <1>4 DEF AtRest, SameRows, ClaimsOfSteps
<1> QED BY <1>2, <1>3, <1>4, StepCases

\* The step under a live claim has not been done, and nothing is staged.
LEMMA ClaimedNotDone ==
  ASSUME SafetyInv, CourseInv, ClaimsOfSteps, LiveClaim
  PROVE  /\ run.status \in ConfiguredSteps /\ StagesAt(run.version, steps) = {}
         /\ run.output = Before(run.status) /\ run.status \notin run.output
         /\ ~Terminal(run) /\ run.errorCode = "NONE"
         /\ \A k \in CompletedRows : steps[k].status \in run.output
<1>1. /\ run.status \in ConfiguredSteps
      /\ ~Terminal(run) /\ StagesAt(run.version, steps) = {}
  BY DEF LiveClaim, IsActive, ClaimsOfSteps, SafetyInv, DbInv, ClaimIsCurrent, NoPendingTerminal
<1>2. run.errorCode = "NONE"
  BY <1>1 DEF SafetyInv, DbInv, ErrorMeansFailed, Terminal, TERMINAL_STATUSES
<1>3. run.output = Before(run.status)
  BY <1>1 DEF CourseInv, CourseKept, CompletedStage
<1> QED BY <1>1, <1>2, <1>3, NotBeforeItself DEF CourseInv, OutputRecorded

\* A claim whose completion is recorded is live until then, and its rows are saved.
LEMMA CompletionGives ==
  ASSUME SafetyInv, OwnerSound, NEW p \in Procs, FinishCompleted(p)
  PROVE  LiveClaim /\ (Materialises(run) => results = run.version)
<1>1. proc[p].pc \in {"execute", "saved"} /\ FinishFence(proc[p])
  BY DEF FinishCompleted
<1>2. proc[p].snap = run
  BY <1>1, FenceGives
<1> QED BY <1>1, <1>2 DEF FinishCompleted, OwnerSound

\* What came before a step was configured.
LEMMA BeforeConfigured == \A s : Before(s) \subseteq ConfiguredSteps
BY DEF Before, ConfiguredSteps

\* Under a live claim of a step that writes rows, no step that counts is done.
LEMMA NothingCountedYet ==
  ASSUME SafetyInv, CourseInv, ClaimsOfSteps, LiveClaim, Materialises(run),
         NEW k \in CompletedRows
  PROVE  ~Counted(steps[k].status)
<1>1. /\ steps[k].status \in run.output /\ run.status \notin run.output
      /\ run.status \in ConfiguredSteps /\ run.output \subseteq ConfiguredSteps
  BY ClaimedNotDone, BeforeConfigured
<1> QED BY <1>1 DEF Materialises, Counted

\* Rows that count stay what they are.
LEMMA FinalStep ==
  ASSUME SafetyInv, CourseInv, ConfirmedInv, [Next]_vars
  PROVE  ResultsFinal'
<1>1. ASSUME NEW K, OneRow(K), results' = results,
             steps'[K].outcome = "COMPLETED" /\ Counted(steps'[K].status) => results = steps'[K].at
      PROVE  ResultsFinal'
  BY <1>1 DEF OneRow, ConfirmedInv, ResultsFinal, Completed, Counted
<1>2. ASSUME NEW K, ClaimWrites(K) \/ FailureWrites(K) PROVE ResultsFinal'
  BY <1>1, <1>2 DEF ClaimWrites, FailureWrites
<1>3. ASSUME NEW K, CompletionWrites(K), NEW p \in Procs, FinishCompleted(p) PROVE ResultsFinal'
  <2>1. LiveClaim /\ (Materialises(run) => results = run.version)
    BY <1>3, CompletionGives DEF ConfirmedInv
  <2>2. run.output \subseteq ConfiguredSteps
    BY <2>1, ClaimedNotDone, BeforeConfigured DEF ConfirmedInv
  <2>3. Counted(run.status) => Materialises(run)
    BY <2>2 DEF Counted, Materialises
  <2> QED BY <1>1, <1>3, <2>1, <2>3 DEF CompletionWrites
<1>4. ASSUME NEW K, CancellationWrites(K) PROVE ResultsFinal'
  <2> DEFINE active == {k \in DOMAIN steps : IsActive(run, steps[k])}
  <2>1. CASE results' = results
    BY <1>1, <1>4, <2>1 DEF CancellationWrites
  <2>2. CASE results' # results
    <3>1. LiveClaim /\ Materialises(run)
      BY <1>4, <2>2 DEF CancellationWrites, ResultsAfterCancel, LiveClaim, Materialises
    <3>2. \A k \in CompletedRows : ~Counted(steps[k].status)
      BY <3>1, NothingCountedYet DEF ConfirmedInv
    <3> QED BY <1>4, <3>2 DEF CancellationWrites, OneRow, ResultsFinal, Completed, CompletedRows, Counted
  <2> QED BY <2>1, <2>2
<1>5. CASE Published \/ ImportWrites
  BY <1>5 DEF Published, PublicationWrites, ImportWrites, ConfirmedInv, ResultsFinal, Completed, Counted
<1>6. CASE AtRest
  <2>1. CASE results' = results
    BY <1>6, <2>1 DEF AtRest, SameRows, ConfirmedInv, ResultsFinal, Completed, Counted
  <2>2. CASE results' # results
    <3>1. LiveClaim /\ Materialises(run)
      BY <1>6, <2>2, SaveGives DEF AtRest, ConfirmedInv
    <3>2. \A k \in CompletedRows : ~Counted(steps[k].status)
      BY <3>1, NothingCountedYet DEF ConfirmedInv
    <3> QED BY <1>6, <3>2 DEF AtRest, SameRows, ResultsFinal, Completed, CompletedRows, Counted
  <2> QED BY <2>1, <2>2
<1> QED BY <1>2, <1>3, <1>4, <1>5, <1>6, StepCases DEF RowWritten

\* The rows of a completed step are for ever those of the attempt that completed
\* it: no worker that lost its claim overwrites them, no cancellation drops them.
THEOREM ConfirmedResultsStay == Spec => []ResultsFinal
<1>1. Init => ConfirmedInv
  BY DEF Init, Idle, ConfirmedInv, ClaimsOfSteps, OwnerSound, ResultsFinal
<1>2. SafetyInv /\ CourseInv /\ ConfirmedInv /\ [Next]_vars => ConfirmedInv'
  BY ClaimsStep, OwnerStep, FinalStep DEF ConfirmedInv
<1>3. ConfirmedInv => ResultsFinal
  BY DEF ConfirmedInv
<1> QED BY <1>1, <1>2, <1>3, Safety, CourseIsKept, PTL DEF Spec

\* The report comes after the analogues, if at all: so it is in
\* scenario-full-analysis.  Without the analogues the report writes the rows, and
\* a cancellation leaves them (the stock run shows it).
ReportAfterAnalogues ==
  "GENERATING_REPORT" \in ConfiguredSteps => "FINDING_ANALOGUES" \in Before("GENERATING_REPORT")

Cancelled(k) == steps[k].outcome = "CANCELLED"

\* A cancelled row is the pending stage or the end of the run.
CancelIsLast ==
  \A k \in DOMAIN steps :
    Cancelled(k) => k \in StagesAt(run.version, steps) \/ run.status = "CANCELLED"

Confirmed(r) == \E k \in DOMAIN steps : Completed(k) /\ steps[k].at = r

\* Rows no step confirmed belong to the step under way, or to the run that failed
\* in it; in either case nothing was cancelled.
Awaited ==
  /\ \A k \in DOMAIN steps : ~Cancelled(k)
  /\ \/ run.errorCode = "OTHER"
     \/ run.status = "FINDING_ANALOGUES" /\ LiveClaim

ResultsAwaited == results # 0 => Confirmed(results) \/ Awaited

AwaitedInv == CancelIsLast /\ ResultsAwaited

\* Between a claim and its end nothing was ever cancelled.
LEMMA NotCancelledWhileOpen ==
  ASSUME CancelIsLast, ~Terminal(run), StagesAt(run.version, steps) = {}, NEW k \in DOMAIN steps
  PROVE  ~Cancelled(k)
BY DEF CancelIsLast, Terminal, TERMINAL_STATUSES

\* Cancelled rows after each step.
LEMMA CancelStep ==
  ASSUME SafetyInv, CancelIsLast, [Next]_vars
  PROVE  CancelIsLast'
<1>1. ASSUME NEW K, OneRow(K), Open,
             steps'[K].outcome = "CANCELLED" => K \in StagesAt(run'.version, steps')
      PROVE  CancelIsLast'
  BY <1>1, NotCancelledWhileOpen DEF OneRow, Open, CancelIsLast, Cancelled
<1>2. CASE RowWritten
  BY <1>1, <1>2 DEF RowWritten, ClaimWrites, CompletionWrites, FailureWrites, CancellationWrites
<1>3. CASE Published
  <2>1. PICK K \in DOMAIN steps : PublicationWrites(K)
    BY <1>3 DEF Published
  <2>2. ASSUME NEW k \in DOMAIN steps, Cancelled(k) PROVE run'.status = "CANCELLED"
    BY <2>1, <2>2 DEF PublicationWrites, CancelIsLast, Cancelled, Terminal, TERMINAL_STATUSES
  <2> QED BY <2>1, <2>2 DEF PublicationWrites, CancelIsLast, Cancelled
<1>4. CASE ImportWrites
  BY <1>4 DEF ImportWrites, CancelIsLast, Cancelled
<1>5. CASE AtRest
  BY <1>5 DEF AtRest, SameRows, CancelIsLast, Cancelled, StagesAt
<1> QED BY <1>2, <1>3, <1>4, <1>5, StepCases

\* What is confirmed stays confirmed.
LEMMA ConfirmedStays ==
  ASSUME SafetyInv, [Next]_vars, Confirmed(results), results' = results
  PROVE  Confirmed(results)'
BY HistoryStep DEF Confirmed, Completed

\* Under a live claim the step that writes rows is the search for analogues.
LEMMA OnlyAnaloguesWrite ==
  ASSUME ReportAfterAnalogues, SafetyInv, CourseInv, ClaimsOfSteps, LiveClaim, Materialises(run)
  PROVE  run.status = "FINDING_ANALOGUES"
<1>1. run.status \in ConfiguredSteps /\ run.output = Before(run.status)
  BY ClaimedNotDone
<1> QED BY <1>1 DEF Materialises, ReportAfterAnalogues

\* The rows of the table after each step.
LEMMA AwaitedStep ==
  ASSUME ReportAfterAnalogues, SafetyInv, CourseInv, ConfirmedInv, AwaitedInv, [Next]_vars,
         results' # 0
  PROVE  Confirmed(results)' \/ Awaited'
<1>1. ASSUME results' = results, Awaited, RowWritten
      PROVE  Confirmed(results)' \/ Awaited'
  <2>1. PICK K : \/ ClaimWrites(K)
                 \/ CompletionWrites(K) /\ \E p \in Procs : FinishCompleted(p)
                 \/ FailureWrites(K)
                 \/ CancellationWrites(K)
    BY <1>1 DEF RowWritten
  <2>2. run.status = "FINDING_ANALOGUES" /\ LiveClaim /\ \A k \in DOMAIN steps : ~Cancelled(k)
    BY <1>1, <2>1 DEF Awaited, ClaimWrites, CompletionWrites, FailureWrites, CancellationWrites, Open
  <2>3. OneRow(K)
    BY <2>1 DEF ClaimWrites, CompletionWrites, FailureWrites, CancellationWrites
  <2>4. steps'[K].outcome # "CANCELLED" => \A k \in DOMAIN steps' : ~Cancelled(k)'
    BY <2>2, <2>3 DEF OneRow, Cancelled
  <2>5. CASE ClaimWrites(K)
    BY <2>2, <2>4, <2>5 DEF ClaimWrites, OneRow, StepStatus, Awaited, LiveClaim, IsActive
  <2>6. CASE CompletionWrites(K) /\ \E p \in Procs : FinishCompleted(p)
    <3>1. results = run.version
      BY <2>2, <2>6, CompletionGives DEF ConfirmedInv, Materialises
    <3> QED BY <1>1, <2>6, <3>1 DEF CompletionWrites, OneRow, Confirmed, Completed
  <2>7. CASE FailureWrites(K)
    <3>1. run'.errorCode = "OTHER"
      BY <2>2, <2>7 DEF FailureWrites, FailureCodes
    <3> QED BY <2>4, <2>7, <3>1 DEF FailureWrites, Awaited
  <2>8. CASE CancellationWrites(K)
    <3>1. results' = 0
      BY <2>2, <2>8 DEF CancellationWrites, ResultsAfterCancel, LiveClaim
    <3> QED BY <3>1
  <2> QED BY <2>1, <2>5, <2>6, <2>7, <2>8
<1>2. ASSUME results' = results, Awaited, Published \/ ImportWrites
      PROVE  Awaited'
  <2>1. steps' = steps /\ ~LiveClaim
    BY <1>2, ClaimedNotDone
    DEF Published, PublicationWrites, ImportWrites, ConfirmedInv, Terminal, TERMINAL_STATUSES
  <2>2. run.errorCode = "OTHER" /\ run'.errorCode = run.errorCode
    BY <1>2, <2>1 DEF Awaited, Published, PublicationWrites, ImportWrites, Sources
  <2> QED BY <1>2, <2>1, <2>2 DEF Awaited, Cancelled
<1>3. ASSUME Awaited, AtRest PROVE Awaited'
  BY <1>3, ClaimAtRest DEF Awaited, AtRest, SameRows, Cancelled
<1>4. ASSUME AtRest, results' # results PROVE Awaited'
  <2>1. LiveClaim /\ Materialises(run)
    BY <1>4, SaveGives DEF AtRest, ConfirmedInv
  <2>2. run.status = "FINDING_ANALOGUES"
    BY <2>1, OnlyAnaloguesWrite DEF ConfirmedInv
  <2>3. \A k \in DOMAIN steps : ~Cancelled(k)
    BY <2>1, ClaimedNotDone, NotCancelledWhileOpen DEF ConfirmedInv, AwaitedInv
  <2> QED BY <1>3, <1>4, <2>1, <2>2, <2>3 DEF Awaited
<1>5. ASSUME ~AtRest PROVE results' = results
  BY <1>5, StepCases DEF RowWritten, Published, ClaimWrites, CompletionWrites, FailureWrites,
     CancellationWrites, ResultsAfterCancel, PublicationWrites, ImportWrites
<1>6. Confirmed(results) \/ Awaited \/ results' # results
  BY DEF AwaitedInv, ResultsAwaited
<1> QED BY <1>1, <1>2, <1>3, <1>4, <1>5, <1>6, ConfirmedStays, StepCases

\* A run that computes the analogues before its report keeps no rows that a lost
\* or cancelled attempt wrote: whatever the requests do, what a cancelled run
\* shows was confirmed by a completed step, and what a completed step wrote stays.
THEOREM ResultsConfirmed ==
  ASSUME ReportAfterAnalogues
  PROVE  Spec => []ResultsOfConfirmedAttempt
<1>1. Init => ConfirmedInv /\ AwaitedInv
  BY DEF Init, Idle, ConfirmedInv, ClaimsOfSteps, OwnerSound, ResultsFinal, AwaitedInv,
     CancelIsLast, ResultsAwaited
<1>2. SafetyInv /\ CourseInv /\ ConfirmedInv /\ AwaitedInv /\ [Next]_vars
        => ConfirmedInv' /\ AwaitedInv'
  <2> SUFFICES ASSUME SafetyInv, CourseInv, ConfirmedInv, AwaitedInv, [Next]_vars
               PROVE  ConfirmedInv' /\ AwaitedInv'
    OBVIOUS
  <2>1. ConfirmedInv'
    BY ClaimsStep, OwnerStep, FinalStep DEF ConfirmedInv
  <2>2. CancelIsLast'
    BY CancelStep DEF AwaitedInv
  <2>3. ResultsAwaited'
    BY AwaitedStep DEF ResultsAwaited
  <2> QED BY <2>1, <2>2, <2>3 DEF AwaitedInv
<1>3. SafetyInv /\ ConfirmedInv /\ AwaitedInv => ResultsOfConfirmedAttempt
  <2> SUFFICES ASSUME SafetyInv, ConfirmedInv, AwaitedInv PROVE ResultsOfConfirmedAttempt
    OBVIOUS
  <2>1. CancelledResultsConfirmed
    BY DEF AwaitedInv, ResultsAwaited, Awaited, Cancelled, Confirmed, CancelledResultsConfirmed
  <2> QED BY <2>1 DEF ConfirmedInv, ResultsFinal, Counted, ResultsOfConfirmedAttempt
<1> QED BY <1>1, <1>2, <1>3, Safety, CourseIsKept, PTL DEF Spec

=============================================================================
