----------------------------- MODULE ScenarioRun -----------------------------
(***************************************************************************)
(* One analysis run (a row of scenario_runs with its scenario_run_steps,   *)
(* position_analysis_results and audit_logs) and the requests that drive   *)
(* it: background drains, the /advance, /cancel, /manual-import and /retry *)
(* routes.  Requests run in any number of server instances; the only thing *)
(* they share is the database, and every write to the run is one SQL       *)
(* statement fenced by the run's version.                                  *)
(*                                                                         *)
(* A request is a process that                                             *)
(*   1. reads the run row, then, in a second query, its steps;             *)
(*   2. decides from that snapshot what to do;                             *)
(*   3. issues fenced writes, doing slow work between a claim and a finish.*)
(* Between any two of these another request may run, the process may crash *)
(* (serverless time-out, lost connection, a 403 from resolveRunContext) or *)
(* the lease on its claim may lapse.                                       *)
(*                                                                         *)
(* Abstractions: a step's section of output_snapshot is the step's name;   *)
(* error codes are the classes manualImportSystem distinguishes; started_at*)
(* and completed_at are the run version at which they were written; the    *)
(* lease clock is the flag "fresh", cleared at an arbitrary moment.        *)
(***************************************************************************)
EXTENDS Integers, Sequences, FiniteSets

CONSTANTS
  Procs,       \* requests that may be in flight at once
  Steps,       \* the configured steps of the scenario, in order
  MaxLapses,   \* bound: leases that lapse under a live owner
  MaxCrashes,  \* bound: requests that die in flight
  MaxRetries   \* bound: runs created by /retry

AllSteps == {"LOADING_APPIUS", "SYNCING_SAP", "CLASSIFYING_RESPONSIBILITY",
             "MATCHING_STOCK", "FINDING_ANALOGUES", "GENERATING_REPORT"}

ASSUME StepsAssumption ==
  /\ Steps \in Seq(AllSteps)
  /\ Len(Steps) > 0
  /\ \A i, j \in DOMAIN Steps : Steps[i] = Steps[j] => i = j

ASSUME BoundsAssumption ==
  /\ MaxLapses \in Nat
  /\ MaxCrashes \in Nat
  /\ MaxRetries \in Nat

VARIABLES
  run,      \* the scenario_runs row
  steps,    \* the scenario_run_steps rows, by idempotency key
  results,  \* claim version that wrote position_analysis_results; 0: no rows
  audit,    \* the step events in audit_logs
  proc,     \* local state of every request
  retries,  \* runs created from this one by /retry
  lapses,   \* leases that lapsed under a live owner so far
  crashes   \* requests that died so far

dbVars == <<run, steps, results, audit>>
vars == <<run, steps, results, audit, proc, retries, lapses, crashes>>

-----------------------------------------------------------------------------
(* Rows and local records *)

TERMINAL_STATUSES == {"COMPLETED", "FAILED", "CANCELLED"}
Statuses == {"QUEUED"} \cup AllSteps \cup TERMINAL_STATUSES
Outcomes == {"STARTED", "COMPLETED", "FAILED", "CANCELLED"}
Sources == {"APPIUS", "SAP"}
ErrorCodes == Sources \cup {"NONE", "OTHER"}

RunRow == [version : Nat, status : Statuses, currentStep : Statuses,
           errorCode : ErrorCodes, output : SUBSET AllSteps,
           manual : SUBSET Sources]

Keys == (AllSteps \X Nat) \cup {<<"CANCELLED", 0>>}
CancelKey == <<"CANCELLED", 0>>

\* at: attemptVersion of the claim (it also orders rows by started_at);
\* done: version at which the row was completed, 0 while STARTED;
\* staged: stagedRunVersion of a terminal stage, 0 if the row is not one.
StepRow == [status : Statuses, outcome : Outcomes, at : Nat, fresh : BOOLEAN,
            done : Nat, staged : Nat]

AuditEvent == [key : Keys, outcome : Outcomes, occurredAt : Nat]

Ops == {"drain", "advance", "cancel", "cancelAgain", "resume", "retry"}
Local == [pc : {"idle", "read", "decide", "execute", "saved", "publish", "create"},
          op : Ops, snap : RunRow, pending : BOOLEAN, busy : BOOLEAN,
          attempt : Nat]

InitialRun == [version |-> 1, status |-> "QUEUED", currentStep |-> "QUEUED",
               errorCode |-> "NONE", output |-> {}, manual |-> {}]

Idle == [pc |-> "idle", op |-> "drain", snap |-> InitialRun,
         pending |-> FALSE, busy |-> FALSE, attempt |-> 0]

-----------------------------------------------------------------------------
(* Step order and attempts *)

ConfiguredSteps == {Steps[i] : i \in DOMAIN Steps}

\* Faulty variant: the end of the list is taken for one more status.
NextStepUndefined(s) ==
  LET i == CHOOSE i \in DOMAIN Steps : Steps[i] = s
  IN  IF i < Len(Steps) THEN Steps[i + 1] ELSE "undefined"

NextConfiguredStep(s) ==
  LET i == CHOOSE i \in DOMAIN Steps : Steps[i] = s
  IN  IF i < Len(Steps) THEN Steps[i + 1] ELSE "COMPLETED"

\* The step a run is about to execute.
StepStatus(r) == IF r.status = "QUEUED" THEN Steps[1] ELSE r.status

Attempts(st, s) == {k \in DOMAIN st : st[k].status = s}

LastAttemptFailed(st, s) ==
  \E k \in Attempts(st, s) :
    /\ st[k].outcome = "FAILED"
    /\ \A j \in Attempts(st, s) : st[j].at <= st[k].at

\* Faulty variant: a failed attempt is not counted as used up.
AttemptNumberReusingFailed(st, s) ==
  LET n == Cardinality(Attempts(st, s)) IN IF n = 0 THEN 1 ELSE n

AttemptNumber(st, s) ==
  LET n == Cardinality(Attempts(st, s))
  IN  IF LastAttemptFailed(st, s) THEN n + 1 ELSE IF n = 0 THEN 1 ELSE n

StepKey(l) == <<StepStatus(l.snap), l.attempt>>

Put(st, k, row) == [j \in DOMAIN st \cup {k} |-> IF j = k THEN row ELSE st[j]]

-----------------------------------------------------------------------------
(* What the statements test *)

\* A STARTED row whose attemptVersion is the run's version: the live claim.
IsActive(r, row) ==
  /\ row.outcome = "STARTED"
  /\ row.status = r.status
  /\ row.at = r.version

FreshClaim(r, st) == \E k \in DOMAIN st : IsActive(r, st[k]) /\ st[k].fresh

\* Faulty variant: the stage is looked for under the version it was claimed at.
StageOfClaimVersion(version, st) == {k \in DOMAIN st : st[k].staged = version - 1 /\ version > 1}

StagesAt(version, st) == {k \in DOMAIN st : st[k].staged = version /\ version > 0}

\* Faulty variant: the reader never recognises a staged outcome.
StageOverlooked(r, st) == FALSE

\* The reader's test in the service, on a snapshot ...
PendingTerminalStage(r, st) == StagesAt(r.version, st) # {}

\* ... and the guard inside the statements that must not overwrite a stage.
NoPendingTerminal == StagesAt(run.version, steps) = {}

\* Faulty variant: finishing is not fenced by the claim.
FinishUnfenced(l) == TRUE

\* finishScenarioStepTransition finds the run at the claimed version and the
\* claimed row still STARTED.
FinishFence(l) ==
  /\ run.version = l.snap.version
  /\ StepKey(l) \in DOMAIN steps
  /\ steps[StepKey(l)].outcome = "STARTED"
  /\ steps[StepKey(l)].at = run.version

\* Faulty variant: results are saved whoever owns the step by now.
SaveUnfenced(l) == TRUE

\* saveAnalysisResults under the row lock: expectedRunVersion, expectedRunStatus.
SaveFence(l) ==
  /\ run.version = l.snap.version
  /\ run.status = l.snap.status

\* The step that writes result rows: FINDING_ANALOGUES, or the report step when
\* the snapshot carries no results yet.
Materialises(r) ==
  \/ r.status = "FINDING_ANALOGUES"
  \/ r.status = "GENERATING_REPORT" /\ "FINDING_ANALOGUES" \notin r.output

\* Business failures a step may end with; a source replaced by an uploaded file
\* is not called any more and cannot fail.
FailureCodes(r) ==
  CASE r.status = "LOADING_APPIUS" -> IF "APPIUS" \in r.manual THEN {} ELSE {"APPIUS", "OTHER"}
    [] r.status = "SYNCING_SAP"    -> IF "SAP" \in r.manual THEN {} ELSE {"SAP", "OTHER"}
    [] r.status \in {"CLASSIFYING_RESPONSIBILITY", "FINDING_ANALOGUES"} -> {"OTHER"}
    [] OTHER -> {}

ManualImportStep(source) ==
  IF source = "SAP" THEN "SYNCING_SAP" ELSE "LOADING_APPIUS"

-----------------------------------------------------------------------------
(* Reading the run: the row first, its steps in a second query *)

Set(p, l) == proc' = [proc EXCEPT ![p] = l]
Return(p) == Set(p, Idle)

ReadRun(p, op) ==
  /\ proc[p].pc = "idle"
  /\ Set(p, [Idle EXCEPT !.pc = "read", !.op = op, !.snap = run])
  /\ UNCHANGED <<dbVars, retries, lapses, crashes>>

\* Faulty variant: pending stage, attempt and claim are taken for granted.
ReadStepsUnread(p) ==
  /\ proc[p].pc = "read"
  /\ Set(p, [proc[p] EXCEPT !.pc = "decide", !.attempt = 1])
  /\ UNCHANGED <<dbVars, retries, lapses, crashes>>

ReadSteps(p) ==
  LET l == proc[p] IN
  /\ l.pc = "read"
  /\ Set(p, [l EXCEPT
       !.pc = "decide",
       !.pending = PendingTerminalStage(l.snap, steps),
       !.busy = \E k \in DOMAIN steps : IsActive(l.snap, steps[k]) /\ steps[k].fresh,
       !.attempt = AttemptNumber(steps, StepStatus(l.snap))])
  /\ UNCHANGED <<dbVars, retries, lapses, crashes>>

Terminal(r) == r.status \in TERMINAL_STATUSES

\* Nothing to do, or not allowed, on this snapshot.
NothingToDo(p) ==
  LET l == proc[p] IN
  /\ l.pc = "decide"
  /\ \/ l.op \in {"drain", "advance"} /\ Terminal(l.snap)
     \/ l.op = "drain" /\ l.busy
     \/ l.op = "cancel" /\ ~l.pending /\ Terminal(l.snap)
     \/ l.op = "cancelAgain" /\ ~l.pending
     \/ l.op = "resume" /\ ~l.pending /\ l.snap.errorCode \notin Sources
  /\ Return(p)
  /\ UNCHANGED <<dbVars, retries, lapses, crashes>>

-----------------------------------------------------------------------------
(* Advancing one step: claim, execute, finish *)

\* The key of the attempt is new, or belongs to a STARTED row whose lease lapsed.
KeyClaimable(l) ==
  StepKey(l) \in DOMAIN steps =>
    steps[StepKey(l)].outcome = "STARTED" /\ ~steps[StepKey(l)].fresh

CanClaim(l) ==
  /\ run.version = l.snap.version
  /\ ~FreshClaim(run, steps)
  /\ KeyClaimable(l)

WantsClaim(l) ==
  /\ l.pc = "decide"
  /\ l.op = "advance" \/ (l.op = "drain" /\ ~l.busy)
  /\ ~Terminal(l.snap)
  /\ ~l.pending

Claim(p) ==
  LET l == proc[p]
      claimed == [run EXCEPT !.version = @ + 1,
                             !.status = StepStatus(l.snap),
                             !.currentStep = StepStatus(l.snap)]
  IN
  /\ WantsClaim(l)
  /\ CanClaim(l)
  /\ run' = claimed
  /\ steps' = Put(steps, StepKey(l),
                  [status |-> StepStatus(l.snap), outcome |-> "STARTED",
                   at |-> claimed.version, fresh |-> TRUE, done |-> 0, staged |-> 0])
  /\ Set(p, [l EXCEPT !.pc = "execute", !.snap = claimed])
  /\ UNCHANGED <<results, audit, retries, lapses, crashes>>

\* OptimisticLockError or ScenarioStepClaimInProgressError: a drain re-reads,
\* a route answers 409.
ClaimRefused(p) ==
  /\ WantsClaim(proc[p])
  /\ ~CanClaim(proc[p])
  /\ Return(p)
  /\ UNCHANGED <<dbVars, retries, lapses, crashes>>

SaveResults(p) ==
  LET l == proc[p] IN
  /\ l.pc = "execute"
  /\ Materialises(l.snap)
  /\ IF SaveFence(l)
     THEN results' = l.snap.version /\ Set(p, [l EXCEPT !.pc = "saved"])
     ELSE UNCHANGED results /\ Return(p)
  /\ UNCHANGED <<run, steps, audit, retries, lapses, crashes>>

\* The worker's copy of the step row after its claim, finished with an outcome.
FinishedRow(l, outcome, terminal) ==
  [steps[StepKey(l)] EXCEPT !.outcome = outcome,
                            !.done = run.version + 1,
                            !.fresh = FALSE,
                            !.staged = IF terminal THEN run.version + 1 ELSE 0]

FinishCompleted(p) ==
  LET l == proc[p]
      step == l.snap.status
      next == NextConfiguredStep(step)
      last == next = "COMPLETED"
      written == [run EXCEPT !.version = @ + 1,
                             !.status = IF last THEN @ ELSE next,
                             !.currentStep = IF last THEN @ ELSE next,
                             !.errorCode = "NONE",
                             !.output = l.snap.output \cup {step},
                             !.manual = l.snap.manual]
  IN
  /\ l.pc = "saved" \/ (l.pc = "execute" /\ ~Materialises(l.snap))
  /\ FinishFence(l)
  /\ run' = written
  /\ steps' = Put(steps, StepKey(l), FinishedRow(l, "COMPLETED", last))
  /\ \/ /\ last \/ l.op = "drain"
        /\ Set(p, [l EXCEPT !.pc = IF last THEN "publish" ELSE "decide",
                            !.snap = written,
                            !.attempt = AttemptNumber(steps, next)])
     \/ ~last /\ Return(p)  \* /advance ends here, and a drain at its limits
  /\ UNCHANGED <<results, audit, retries, lapses, crashes>>

FinishFailed(p) ==
  LET l == proc[p]
      failed(code) == [run EXCEPT !.version = @ + 1,
                                  !.errorCode = code,
                                  !.output = l.snap.output,
                                  !.manual = l.snap.manual]
  IN
  /\ l.pc = "execute"
  /\ FinishFence(l)
  /\ \E code \in FailureCodes(l.snap) :
       /\ run' = failed(code)
       /\ steps' = Put(steps, StepKey(l), FinishedRow(l, "FAILED", TRUE))
       /\ Set(p, [l EXCEPT !.pc = "publish", !.snap = failed(code)])
  /\ UNCHANGED <<results, audit, retries, lapses, crashes>>

FinishRefused(p) ==
  LET l == proc[p] IN
  /\ \/ l.pc = "saved"
     \/ l.pc = "execute" /\ (~Materialises(l.snap) \/ FailureCodes(l.snap) # {})
  /\ ~FinishFence(l)
  /\ Return(p)
  /\ UNCHANGED <<dbVars, retries, lapses, crashes>>

-----------------------------------------------------------------------------
(* Publishing a staged terminal outcome *)

AuditEventOf(k) == [key |-> k, outcome |-> steps[k].outcome, occurredAt |-> steps[k].done]

\* Faulty variant: only the terminal event is projected.
StageEventOnly(stage) == {AuditEventOf(stage)}

\* Every COMPLETED step, and the stage itself.
ExpectedEvents(stage) ==
  {AuditEventOf(k) : k \in {j \in DOMAIN steps : steps[j].outcome = "COMPLETED"} \cup {stage}}

\* The insert of an event whose deterministic id exists with other content is a
\* primary-key violation: the statement fails as a whole.
AuditConflict(events) ==
  \E e \in events, a \in audit :
    a.key = e.key /\ a.outcome = e.outcome /\ a.occurredAt # e.occurredAt

TerminalStatus(row) == row.outcome

\* Faulty variant: a cancellation is not among the outcomes it accepts.
ValidUnlessCancelled(k) ==
  /\ StagesAt(run.version, steps) = {k}
  /\ steps[k].outcome \in {"COMPLETED", "FAILED"}

ValidStage(k) ==
  /\ StagesAt(run.version, steps) = {k}
  /\ steps[k].outcome \in TERMINAL_STATUSES
  /\ steps[k].status = run.status
  /\ steps[k].status = run.currentStep
  /\ ~AuditConflict(ExpectedEvents(k))

WantsPublish(l) ==
  \/ l.pc = "publish"
  \/ /\ l.pc = "decide"
     /\ l.pending
     /\ l.op \in {"drain", "advance"} => ~Terminal(l.snap)

Publish(p) ==
  LET l == proc[p]
      published(k) ==
        [run EXCEPT !.version = @ + 1,
                    !.status = TerminalStatus(steps[k]),
                    !.currentStep = IF steps[k].outcome = "FAILED" THEN steps[k].status
                                    ELSE TerminalStatus(steps[k])]
  IN
  /\ WantsPublish(l)
  /\ run.version = l.snap.version
  /\ \E k \in DOMAIN steps :
       /\ ValidStage(k)
       /\ run' = published(k)
       /\ audit' = audit \cup ExpectedEvents(k)
       /\ \/ l.op = "resume" /\ Set(p, [l EXCEPT !.pc = "decide", !.pending = FALSE,
                                                 !.snap = published(k)])
          \/ l.op = "retry" /\ Set(p, [l EXCEPT !.pc = "create", !.snap = published(k)])
          \/ l.op # "retry" /\ Return(p)  \* a resume given an If-Match stops here
  /\ UNCHANGED <<steps, results, retries, lapses, crashes>>

PublishRefused(p) ==
  LET l == proc[p] IN
  /\ WantsPublish(l)
  /\ run.version # l.snap.version \/ \A k \in DOMAIN steps : ~ValidStage(k)
  /\ Return(p)
  /\ UNCHANGED <<dbVars, retries, lapses, crashes>>

-----------------------------------------------------------------------------
(* Cancelling *)

CanStageCancel(l) ==
  /\ run.version = l.snap.version
  /\ NoPendingTerminal
  /\ CancelKey \notin DOMAIN steps

WantsCancel(l) ==
  l.pc = "decide" /\ l.op = "cancel" /\ ~l.pending /\ ~Terminal(l.snap)

\* Faulty variant: rows written by the interrupted attempt stay behind.
ResultsKept(active) == results

\* deleted_unconfirmed_results
ResultsAfterCancel(active) ==
  IF active # {} /\ run.status = "FINDING_ANALOGUES" THEN 0 ELSE results

StageCancel(p) ==
  LET l == proc[p]
      v == run.version + 1
      active == {k \in DOMAIN steps : IsActive(run, steps[k])}
      cancelled(row) == [row EXCEPT !.outcome = "CANCELLED", !.fresh = FALSE,
                                    !.done = v, !.staged = v]
      inserted == [status |-> l.snap.status, outcome |-> "CANCELLED", at |-> v,
                   fresh |-> FALSE, done |-> v, staged |-> v]
  IN
  /\ WantsCancel(l)
  /\ CanStageCancel(l)
  /\ run' = [run EXCEPT !.version = v]
  /\ steps' = IF active # {}
              THEN [k \in DOMAIN steps |-> IF k \in active THEN cancelled(steps[k]) ELSE steps[k]]
              ELSE Put(steps, CancelKey, inserted)
  /\ results' = ResultsAfterCancel(active)
  /\ Set(p, [l EXCEPT !.pc = "publish", !.snap = run'])
  /\ UNCHANGED <<audit, retries, lapses, crashes>>

\* On a lost race cancel reads the run once more.
CancelRefused(p) ==
  LET l == proc[p] IN
  /\ WantsCancel(l)
  /\ ~CanStageCancel(l)
  /\ Set(p, [Idle EXCEPT !.pc = "read", !.op = "cancelAgain", !.snap = run])
  /\ UNCHANGED <<dbVars, retries, lapses, crashes>>

-----------------------------------------------------------------------------
(* Resuming a failed run from an uploaded file, and retrying *)

ErrorAfterResume(source) == "NONE"

WantsResume(l) ==
  l.pc = "decide" /\ l.op = "resume" /\ ~l.pending /\ l.snap.errorCode \in Sources

CanResume(l) == run.version = l.snap.version /\ NoPendingTerminal

Resume(p) ==
  LET l == proc[p]
      source == l.snap.errorCode
  IN
  /\ WantsResume(l)
  /\ IF CanResume(l)
     THEN run' = [run EXCEPT !.version = @ + 1,
                             !.status = ManualImportStep(source),
                             !.currentStep = ManualImportStep(source),
                             !.errorCode = ErrorAfterResume(source),
                             !.output = l.snap.output,
                             !.manual = l.snap.manual \cup {source}]
     ELSE UNCHANGED run
  /\ Return(p)
  /\ UNCHANGED <<steps, results, audit, retries, lapses, crashes>>

\* A retry is a new run with a copy of the input snapshot; this run keeps its
\* history.
CreateRetry(p) ==
  LET l == proc[p] IN
  /\ l.pc = "create" \/ (l.pc = "decide" /\ l.op = "retry" /\ ~l.pending)
  /\ retries < MaxRetries
  /\ retries' = retries + 1
  /\ Return(p)
  /\ UNCHANGED <<dbVars, lapses, crashes>>

-----------------------------------------------------------------------------
(* Environment: a request dies, a lease lapses *)

Crash(p) ==
  /\ proc[p].pc # "idle"
  /\ crashes < MaxCrashes
  /\ crashes' = crashes + 1
  /\ Return(p)
  /\ UNCHANGED <<dbVars, retries, lapses>>

\* Some request still works on the claim made at version v.
OwnerAlive(v) == \E p \in Procs : proc[p].pc \in {"execute", "saved"} /\ proc[p].snap.version = v

\* updated_at of the claim is more than SCENARIO_STEP_CLAIM_LEASE_MS ago: always
\* in the end when the owner is gone, at most MaxLapses times under a live one.
LeaseLapse ==
  \E k \in DOMAIN steps :
    /\ steps[k].outcome = "STARTED"
    /\ steps[k].fresh
    /\ OwnerAlive(steps[k].at) => lapses < MaxLapses
    /\ lapses' = IF OwnerAlive(steps[k].at) THEN lapses + 1 ELSE lapses
    /\ steps' = [steps EXCEPT ![k].fresh = FALSE]
    /\ UNCHANGED <<run, results, audit, proc, retries, crashes>>

-----------------------------------------------------------------------------
Init ==
  /\ run = InitialRun
  /\ steps = [k \in {} |-> InitialRun]
  /\ results = 0
  /\ audit = {}
  /\ proc = [p \in Procs |-> Idle]
  /\ retries = 0
  /\ lapses = 0
  /\ crashes = 0

Request(p) ==
  \E op \in Ops \ {"cancelAgain"} :
    /\ op = "retry" => retries < MaxRetries
    /\ ReadRun(p, op)

Work(p) ==
  \/ ReadSteps(p)
  \/ NothingToDo(p)
  \/ Claim(p)
  \/ ClaimRefused(p)
  \/ SaveResults(p)
  \/ FinishCompleted(p)
  \/ FinishFailed(p)
  \/ FinishRefused(p)
  \/ Publish(p)
  \/ PublishRefused(p)
  \/ StageCancel(p)
  \/ CancelRefused(p)
  \/ Resume(p)
  \/ CreateRetry(p)

Next ==
  \/ \E p \in Procs : Request(p) \/ Work(p) \/ Crash(p)
  \/ LeaseLapse

Spec == Init /\ [][Next]_vars

-----------------------------------------------------------------------------
(* Properties *)

TypeOK ==
  /\ run \in RunRow
  /\ DOMAIN steps \subseteq Keys
  /\ IsFiniteSet(DOMAIN steps)
  /\ \A k \in DOMAIN steps : steps[k] \in StepRow
  /\ results \in Nat
  /\ audit \subseteq AuditEvent
  /\ proc \in [Procs -> Local]
  /\ retries \in Nat /\ lapses \in Nat /\ crashes \in Nat

Completed(k) == steps[k].outcome = "COMPLETED"

\* Staging and publishing are two transactions: whatever happens in between, a
\* staged outcome is still the pending one or has reached the audit log.  No
\* claim, cancellation or manual import may supersede it.
StageNeverLost ==
  \A k \in DOMAIN steps :
    steps[k].staged > 0 =>
      \/ steps[k].staged = run.version
      \/ AuditEventOf(k) \in audit

\* publishStagedTerminalRun rejects a stage that is ambiguous, does not match
\* the run, or collides with an audit id already used.  A run that only such a
\* stage could end would be stuck for ever, so every pending stage is valid.
StagePublishable == \A k \in StagesAt(run.version, steps) : ValidStage(k)

\* A step row that has an outcome never changes again: takeovers, retries of a
\* step and late workers only touch STARTED rows.
HistoryImmutable ==
  [][\A k \in DOMAIN steps :
       steps[k].outcome # "STARTED" => k \in DOMAIN steps' /\ steps'[k] = steps[k]]_vars

\* No terminal status without the complete audit projection: every COMPLETED
\* step and the terminal event itself are in audit_logs.
AuditComplete ==
  Terminal(run) =>
    /\ \A k \in DOMAIN steps : Completed(k) => AuditEventOf(k) \in audit
    /\ \E k \in DOMAIN steps : steps[k].outcome = run.status /\ AuditEventOf(k) \in audit

\* resumeWithManualImport looks at errorCode only, never at the status: that is
\* safe because a run carries an error exactly when it has failed or is about to
\* be published as failed.
ErrorMeansFailed ==
  run.errorCode # "NONE" <=>
    \/ run.status = "FAILED"
    \/ \E k \in StagesAt(run.version, steps) : steps[k].outcome = "FAILED"

\* COMPLETED and CANCELLED are final; FAILED is left only through the import of
\* a file for the source that failed.
OnlyFailedReopens ==
  [][Terminal(run) /\ run'.status # run.status =>
       /\ run.status = "FAILED"
       /\ run.errorCode \in Sources
       /\ run'.status = ManualImportStep(run.errorCode)]_vars

\* Every worker writes back a whole output_snapshot it cloned at its claim.  No
\* section is lost or added by a superseded worker, and a completed run has the
\* section of every configured step.
OutputMatchesHistory ==
  /\ run.output = {steps[k].status : k \in {j \in DOMAIN steps : Completed(j)}}
  /\ run.status = "COMPLETED" => run.output = ConfiguredSteps

\* A cancelled run keeps only results that a completed step confirmed.
CancelledResultsConfirmed ==
  /\ results # 0
  /\ \E k \in DOMAIN steps : steps[k].outcome = "CANCELLED"
  => \E k \in DOMAIN steps : Completed(k) /\ steps[k].at = results

\* The rows of a completed materialising step were written by the very attempt
\* whose completion was recorded, never by one that lost its claim; and a run that
\* is cancelled keeps no others.
ResultsOfConfirmedAttempt ==
  /\ CancelledResultsConfirmed
  /\ \A k \in DOMAIN steps :
       LET materialises ==
             \/ steps[k].status = "FINDING_ANALOGUES"
             \/ steps[k].status = "GENERATING_REPORT" /\ "FINDING_ANALOGUES" \notin ConfiguredSteps
       IN  Completed(k) /\ materialises => results = steps[k].at

\* The run row and its steps are read by two queries, and a drain goes on with
\* the row its own finish returned.  Whoever decides on the current version has
\* nevertheless seen that version's row, steps, stage and attempt number.
SnapshotSound ==
  \A p \in Procs :
    /\ proc[p].pc = "decide"
    /\ proc[p].snap.version = run.version
    => /\ proc[p].snap = run
       /\ proc[p].pending = PendingTerminalStage(run, steps)
       /\ ~Terminal(run) => proc[p].attempt = AttemptNumber(steps, StepStatus(run))

-----------------------------------------------------------------------------
(* The promise to the user, implemented through versions, claims and stages *)

PendingVerdict ==
  IF NoPendingTerminal THEN "NONE"
  ELSE steps[CHOOSE k \in DOMAIN steps : k \in StagesAt(run.version, steps)].outcome

Lifecycle == INSTANCE RunLifecycle WITH
  status <- run.status,
  done <- run.output,
  verdict <- PendingVerdict,
  error <- run.errorCode,
  imported <- run.manual

\* Whatever the interleaving of requests, crashes and lapsed leases, the run the
\* user sees goes through its steps once each and in order, to one verdict.
ImplementsLifecycle == Lifecycle!Spec

-----------------------------------------------------------------------------
(* Fairness.  Requests that started go on, and polling the run (GET of the run *)
(* page, every few seconds while it is active) schedules drains for ever; a    *)
(* lease ends with time.  Nobody has to cancel, resume or retry.               *)

Fairness ==
  /\ \A p \in Procs : WF_vars(Work(p)) /\ SF_vars(ReadRun(p, "drain"))
  /\ WF_vars(LeaseLapse)

FairSpec == Spec /\ Fairness

\* With finitely many crashes and lapses every run ends, and once the uploaded
\* files are used up it stays ended.
EventuallyTerminal == <>[](Terminal(run))

\* A staged outcome is eventually published even if the request that staged it
\* dies before the second transaction.
StageEventuallyPublished == ~NoPendingTerminal ~> Terminal(run)
=============================================================================
