# Verification of the MTR demo

TLA+ modules, TLC configurations and TLAPS proofs for the MTR materials-and-
resources platform (`src/src`, a Next.js/TypeScript server over PostgreSQL).
The server keeps hardly any state of its own that matters: requests run in any
number of serverless instances, may be suspended or killed at any moment, and meet
in the database. What can go wrong is therefore mostly an interleaving of
statements and transactions; around it stand algorithms whose results must agree
with each other, pages that hold state while their requests are under way, and an
acceptance gate made of several processes. All four are modelled.

Contents: [1 the system](#1-the-system), [2 the modules](#2-the-modules),
[3 the runs](#3-the-runs), [4 the proofs](#4-the-proofs),
[5 what the checks found](#5-what-the-checks-found),
[6 what is left out](#6-what-is-left-out), [7 the plan](#7-the-plan).

To check: `tlc -config MCScenarioRun.cfg MCScenarioRun.tla` (and so on, section
3); `tlapm ScenarioRunProofs.tla`, and likewise for the other seven `...Proofs`
modules. The mutants of `PROJECT.json` name, for every checked property, a faulty
variant of a modelled definition under which the run must report the property
violated; the variants stand next to the definitions they change and are used
nowhere else.

## 1. The system

Paths are relative to `src/src`; `repository.ts` is
`adapters/persistence/repository.ts`, `agent-orchestrator/` is
`application/agent-orchestrator/`. The status of each component is in
`PROJECT.json`.

| Component | State | Operations | What makes it hard | What makes it correct |
|---|---|---|---|---|
| **Analysis runs** (`application/scenario-service.ts`, `scenario-runner.ts`, `scenario-background.ts`, `repository.ts`) | `scenario_runs`, `scenario_run_steps`, `position_analysis_results`, step events of `audit_logs` | drain / advance, cancel, manual import, retry | two queries per read; a claim with a 30 s lease; staging and publishing in two transactions; owners that outlive their lease | history immutable; one verdict; a staged verdict is published; the audit is complete; results belong to a confirmed attempt |
| **Agent actions** (`agent-orchestrator/action-service.ts`, `privileged-action-*.ts`, `adapters/persistence/agent-action-store.ts`) | `agent_action_proposals` and their audit | propose (from a form or a message), confirm, cancel | claim, effect and outcome are separate transactions; what was shown may be stale when it is confirmed | an effect at most once; outcome and audit say what happened; nothing changes behind a confirmed card |
| **Access administration** (`application/access-administration.ts`, `authorization-service.ts`, `domain/rbac.ts`) | users, `role_assignments`, `roles`, `project_memberships` | block, unblock, assign, revoke, change, (de)activate, suspend, reinstate | READ COMMITTED; guards that count rows; reads outside the transaction; assignments that end with time | the last administrator stays; incompatible roles never meet; every change fences its user |
| **Sessions and sign-in** (`lib/session.ts`, `lib/session-core.ts`, `app/api/auth`) | `auth_sessions` | sign in, sign out, validate | three statements without a transaction | no honoured session carries revoked roles |
| **Event inbox** (`agent-event-store.ts`, `event-service.ts`) | `agent_event_inbox`, insights | deliver, claim, complete, fail with backoff, dead letter | duplicates, retries, deaths between transactions, no lease | one record and one insight per event; all attempts used; every event settles |
| **Specification versions** (`repository.ts` 853–1352) | specifications, versions, positions | publish, promote, withdraw a file | concurrent publications without a lock | one current version, numbered without gaps |
| **Analysis reviews and expert tasks** (`repository.ts` 3458–4028) | reviews, corrections | open the page, decide, correct | several pages reset what others decide | a person's decision stays |
| **Agent commands**, **cases and learning** (`audited-command-capability.ts`, `command-handlers.ts`, `agent-case-store.ts`, `agent-learning-store.ts`) | plans, cases, evidence, candidates | execute, finish, append, close; approve, promote, revoke | several statements, each of which may fail or lose its answer | one outcome told alike everywhere; answers own up to what they did not read |
| **Prompt versions** (`repository.ts` 4479–4640) | `prompt_versions` | create, activate, roll out | no unique index on the active version | a version is always in force |
| **Uploads and manual imports** (`file-parser.ts`, `specification-import.ts`, `app/api/uploads`) | blobs, `uploaded_files` | upload, parse, attach, publish, withdraw | limits that cut; a withdrawal next to a publication | what is published is what was written; a withdrawn file stays out |
| **Matching, analogues and responsibility** (`domain/matching.ts`, `analogues.ts`, `responsibility.ts`) | a ledger per run | match, allocate, classify | one stock for several positions; ties and conflicts of rules | nothing promised twice; nobody named unless the best rules agree |
| **Inventory forecast and analytics** (`agent-orchestrator/analytics/`, `domain/agent/analytics/`) | none | quality, coverage, alternatives, advice | boundaries, rounding, capped scores | the advice supplies the requirement by the best permitted way |
| **Universal chat** (`agent-orchestrator/orchestrator.ts`, `universal-chat/`, `application/agent-service.ts`, `app/api/agent/threads`) | threads, messages | ask, answer, remember, read again | overlapping messages, failing tools, rights that change, rewriting on the way | grounded, consistent answers; sources only for who may see them |
| **Weekly digest** (`digest-service.ts`, `agent-digest-port.ts`) | none | generate | time zones; four sources read one by one, some in vain | the weeks are the reader's calendar weeks, and complete |
| **Bootstrap, readiness and demo reset** (`bootstrap.ts`, `db.ts`, `readiness-cache.ts`) | seed state, cached readiness per server | sign in, reset, roll out | a loader that outlives a reset | the cache never says what was true before |
| **Reports and catalogue** (`report-service.ts`, `lib/report-analogues.ts`, export route) | audit of exports | read, export | two ways to the same number; an audit that may have been written | numbers add up; every file handed out is recorded once |
| **Integrations** (`adapters/mock`) | states of Appius and SAP | switch, read | state and data read separately | a report names its input |
| **Web interface** (`agent-chat.tsx`, `scenario-launcher.tsx`, …) | feed, drafts, attachments, polls | send, select, poll, abort | answers arrive late, twice, or after a change of thread | the page shows what the server holds; nothing typed is lost |
| **Evaluations, scripts and deployment** (`scripts/fastgate-*.ts`, `scripts/eval-agent-fastgate.ts`) | records of an acceptance run, images, containers | evaluate, witness, supervise, verify | processes closing one after another; shared tags and tree | a run that passed is accounted for and of one build |

**How they interact.** A confirmed agent action runs an analysis (`createRun`,
`retry`) or changes access; an analysis reads the user's rights at every step and
writes results that reviews and reports read; access administration bumps
`authorization_version`, which sessions (on every request) and agent actions (at
confirmation) compare with the value they remember; uploads and events publish
specification versions, which a running analysis reads; the chat calls commands,
actions, attachments and the universal engine, and its saved answers are read
under the rights of the moment. All of it is by function call in one request and by
rows across requests: the only callbacks are the background drains scheduled after a
response, and the in-memory state shared by requests is the map that keeps one
instance from draining a run twice and the readiness cache of each server.

## 2. The modules

```
RunLifecycle     <== ScenarioRun                            MCScenarioRun
ActionContract   <== AgentAction                            MCAgentAction
                     AccessAdmin                            MCAccessAdmin
                       ^-- AccessByChat                     MCAccessByChat
                     EventInbox                             MCEventInbox
SpecVersions PromptRegistry GateSeries AgentCommand
AgentLearning AnalysisReview DemoData Uploads               MCRecords
RunInput Responsibility Supply <- Report Analytics
CommandEvidence Portfolio                                   MCAlgorithms
ChatThread GroundedAnswer SavedAnswer ChatPage RunPage
GateRun Digest                                              MCDesk
  abstract           detailed                               TLC instances

ScenarioRunProofs   ScenarioRun
AgentActionProofs   AgentAction
AccessAdminProofs   AccessAdmin AccessByChat
RunDataProofs       EventInbox RunInput Responsibility Supply Report Analytics
                    Portfolio
AgentDeskProofs     AgentCommand AgentLearning Digest SavedAnswer
RecordProofs        AnalysisReview DemoData Uploads
                    SpecVersions PromptRegistry GateSeries GateRun
ConversationProofs  ChatPage RunPage ChatThread GroundedAnswer CommandEvidence
  theorems about

FoldTheorems        least elements and folds; used by the last four
```

`<==` is refinement (`INSTANCE ... WITH`, the abstract specification a PROPERTY of
a run), `<-` is EXTENDS. **A process is a request in flight** and **an action is one
database statement or transaction** together with the purely local computation
before it; in the pages, the gate and the pure algorithms an action is what a
script does without waiting. A process returns to rest when its request ends,
however it ends, and may then serve another one. A transaction that rolls back
leaves no trace, so it is either not distinguished from a request that stopped
before it or modelled by a separate `...Refused` action where the code then does
something else.

`MCRecords`, `MCAlgorithms`, `MCDesk` and `MCAccessByChat` host several modules that
share no state. A variable `focus` chooses, in the initial state, which of them
moves; the others keep a plain initial state. A behaviour of the whole projects onto
each module, so nothing is lost for properties of one module, and the state spaces
add up instead of multiplying.

### 2.1 ScenarioRun – one analysis run

| Variable | Code |
|---|---|
| `run` | the `scenario_runs` row: `version` (fence of every write), `status`, `currentStep`, `errorCode` reduced to the classes `manualImportSystem` tells apart, `output` = which sections `outputSnapshot` has, `manual` = sources replaced by a file |
| `steps` | `scenario_run_steps`, by idempotency key (step, attempt number); `at` = the version of the claim, `done` = the version at which it was completed, `staged` = `stagedRunVersion`, `fresh` = the claim's lease has not lapsed |
| `results` | which claim wrote the present `position_analysis_results` rows |
| `audit` | the step events in `audit_logs` |
| `proc` | where a request stands, the `run` row it read (`snap`), whether it saw a pending stage, a fresh claim, and which attempt number it computed |

| Action | Code |
|---|---|
| `ReadRun`, `ReadSteps` | `getScenarioRun`: the row, then its steps |
| `NothingToDo` | the early returns of `advance`, `drain`, `cancel`, `resumeWithManualImport` |
| `Claim`, `ClaimRefused` | `claimScenarioStep`: takes over a lapsed claim, refuses on a version that moved or on an existing row |
| `SaveResults` | `saveMatchResults`, the write outside the run row |
| `FinishCompleted`, `FinishFailed`, `FinishRefused` | `executeClaimed` and `finishScenarioStep`: moves the run, or stages its outcome |
| `Publish`, `PublishRefused` | `publishStagedTerminalRun`: audit projection and terminal status in one transaction, after its checks |
| `StageCancel`, `CancelRefused` | `stageScenarioCancellation`, and the second attempt of `cancel` |
| `Resume` | `resumeWithManualImport` and its update |
| `CreateRetry` | `retry` |
| `Crash`, `LeaseLapse` | the environment |

Versions replace timestamps, which assumes that the clocks of two servers agree up
to the time between two writes of one run. `RunLifecycle` is what the user is
promised: the configured steps once each and in order, one verdict, and after a
failed source a continuation at that source's step. It knows no requests, versions,
claims or leases.

### 2.2 AccessAdmin and AccessByChat – roles, accounts, memberships, sessions

| Variable | Code |
|---|---|
| `blocked`, `version` | `users.status`, `users.authorization_version` |
| `assigned`, `lapsed` | ACTIVE `role_assignments`, and those of them whose `valid_until` has passed |
| `inactive`, `members` | `roles.active = false`, ACTIVE `project_memberships` |
| `sessions` | `auth_sessions` not revoked: user, version, assignments remembered |
| `proc`, `requests` | requests in flight; how many have arrived (bounded) |
| `chat` (AccessByChat) | the message of the chat, the card it led to, the proposal with its fingerprint, and the request that carries it out |

A request is `begun` (authorised, early reads done), then `guarded` (its guards
passed, its rows locked), then commits. The guards of a transaction see what was
committed before they run; `LocksOf` is what they hold with `FOR UPDATE`, and `Free`
says when a lock can be had. `AssignRole` is the one operation whose guards are read
*before* its transaction and which locks nothing; its inserts still need `KEY SHARE`
on the rows they refer to. A sign-in is `LoginReadUser`, `LoginReadRoles`,
`CreateSession`. `AccessByChat` composes this with the chat: from the message to the
card and its impact, the fingerprint of the resource, the confirmation that compares
it, and the call of the same functions. A fingerprint of a user is put together from
queries of their own (`ReadRow`, then `ReadResource` or `Resolve`), between which other
requests commit.

### 2.3 AgentAction – proposals and confirmations

| Action | Code |
|---|---|
| `Begin` | a request arrives with its session (`requirePermission`) |
| `Lookup`, `Insert` | `createOrGet`: read by key, insert `ON CONFLICT DO NOTHING` with the event, or read the winner |
| `ReadProposal`, `Resolve` | `getAuthorized`, the checks of `confirm` / `cancel`; the resource is resolved again and compared |
| `Claim`, `ClaimRefused` | `claimWithAudit`, PROPOSED → EXECUTING fenced by status and version |
| `Execute`, `ExecuteFails`, `ExecuteHalf` | the executor: the effect takes place; does not; or does and the audit record after it fails |
| `Complete`, `CompleteFails`, `Fail`, `FailRefused`, `Cancel`, `CancelRefused` | the outcome and its audit, with or without having been committed |
| `Drop`, `ResourceMoves`, `RightsChange`, `RightsLapse`, `Expire` | the request ends; everything else in the system |

`ActionContract` is the diagram of `AgentActionStatus` with the effect added: an
action is carried out between its confirmation and its outcome, once; a success has
been carried out, a failure may have been.

### 2.4 The records of other components (MCRecords, MCEventInbox)

| Module | Actions and the code they stand for |
|---|---|
| `EventInbox` | `Deliver` / `Poll` (enqueue, claim the next one due), `Claim`, `Complete` (insight, row and audit in one transaction, or its answer lost), `Fail` (backoff or dead letter), `Crash`, `BackoffEnds` |
| `SpecVersions` | `PublishRead`, `DeliverEvent`, `FindReceipt`, `ReadCurrent`, `UpdateStarts/Ends`, `Insert`, `Commit`, `Rollback`: statement by statement at READ COMMITTED, with row locks and unique keys; `CancelFile` |
| `AnalysisReview` | `OpenPage`, `InsertReviews`, `ResetReviews` (`ensureAnalysisReviews`), `Decide`, `ReadResult` / `CorrectResult` (`overrideAnalysisResponsibility`) |
| `AgentCommand` | `Receive`, `StartPlan`, `ExecuteCommand`, `FinishPlan`, `Answer`, `UndoPlan`, `Refuse`, `Die`; `CreateCase`, `AppendEvidence`, `CloseRead/Write` |
| `AgentLearning` | `Submit`, and reads and transitions of curators with their compare-and-set |
| `PromptRegistry` | `BeginActivate/Create/Rollout`, `DeactivateSees/Gets`, `Activate`, commit and rollback |
| `DemoData` | `SignIn`, `CountRows`, `UpgradeRows`, `RecountRows`, `SeedRows`, `AssertRows`, `StoreEntry` behind the generations of `readiness-cache.ts`; `StartReset` … `EndReset`, `Rollout` |
| `Uploads` | `Upload`, `Save`, `RecordUpload`, `AttachPaper`, `AskToPublish`, `Publish`, `FindToCancel`, `Cancel`, `RecordCancel`; parsing of tables, labelled and delimited documents as a function of what was written |
| `GateSeries` | a series of `fastgate-official.ts`, from `ReadHead` and `BuildImage` over the containers of each run to `OfflineVerifier` and `LastCheck`; any git or docker command may fail, and `Down` may remove some of the containers only; `EditTree`, `Checkout`, another series |

### 2.5 What is worked out (MCAlgorithms)

`RunInput`: which versions and which stock a run reads while they are published and
switched, and what its report says of them. `Supply`: best match, greedy allocation
of analogues from one ledger, alternatives. `Responsibility`: retrieval and
specificity of rules, conflicts. `Report` extends `Supply`: the views of a report, the
summary above them, and the exports with their audit; a report is made after the search
for analogues (`SearchedForAll`) or, in the shortened scenarios, right after the matches
(`Shortened`). `Analytics`: quality, coverage, alternatives, score, verification, advice.
`CommandEvidence`: what the six typed commands gather, what they filter away by object
and level (`AskedFor`), and how sure they say they are. `Portfolio`: the questions on
projects, materials, exhaustion within the days that are named, deadlines and reviews,
each computed as its handler computes it, so that their agreement is worth checking.
Definitions have the names of the functions they stand for.

### 2.6 What stands around the runs (MCDesk)

| Module | What it models |
|---|---|
| `ChatThread` | messages of one thread answered at once, the memory of the last universal answer, rights that change |
| `GroundedAnswer` | one `AgentService.respond`: intents, tool calls and their failures, the facts handed to the model, and confidence, citations and review flag of the answer |
| `SavedAnswer` | which of five engines answers (`Channel`: `POST` and `MtrAgentOrchestrator.handle`); what is saved of its answer; `Authorise`, the citation-by-citation check of `reauthorizeSavedAgentCitations` with the rights the request began with and the rows of the moment, a material and a run being asked for twice (`AsksAgain`, `SecondRead`) with changes in between; what the server sends (`Serialized`) and the page shows (`ShownOf`, and of the sources `SourcesShown`: a command's card has room for 50) |
| `ChatPage` | the page of the chat: feed, drafts, attachments, threads, a request whose answer is lost |
| `RunPage` | polling, aborting, cancelling, repeating of a run in the browser |
| `Digest` | `zonedMidnightToUtc` and the two weeks, the four sources, the comparison |
| `GateRun` | evaluator, proxy, application, witness and supervisor of one acceptance run |

## 3. The runs

| Run | Module, configuration | Instance | Expected | States | Question |
|---|---|---|---|---|---|
| `core` | `MCScenarioRun.cfg` | 2 requests, 3 steps, 1 lapse under a live owner, 1 crash, 1 retry | holds | 921 k | Do competing drains, cancellations and imports keep run, history, results and audit consistent, and implement `RunLifecycle`? |
| `live` | `MCLive.cfg` | 2 requests, 2 steps, 1 crash, fair | holds | 135 k | Does every run end? |
| `access` | `MCAccessByChat.cfg` | 3 users, 2 requests at a time of 3; or 1 message and 2 requests | holds | 540 k | Do competing changes of access ever remove the last administrator, or leave or revive a session with revoked roles? Is a change confirmed in the chat the one that was shown? |
| `action` | `MCAction.cfg` | 1 action, 3 requests, 2 authorization versions | holds | 436 k | Is an action carried out at most once, with a truthful row and trail, and is `ActionContract` implemented? |
| `inbox` | `MCInbox.cfg` | 2 requests, 2 events of one subject, 3 attempts, 2 crashes, fair | holds | 50 k | Is every event processed once or given up, and none forgotten? |
| `records` | `MCRecords.cfg` | section 2.4, one module in focus | holds | 850 k | Do the records keep their promises under overlapping requests? |
| `algorithms` | `MCAlgorithms.cfg` | section 2.5, one module in focus | holds | 1 130 k | Do the conclusions follow from what was read, and agree with each other? |
| `desk` | `MCDesk.cfg` | section 2.6, one module in focus | holds | 1 712 k | Does what is shown, kept and accounted for agree with what happened? |
| `stock` | `MCStock.cfg` | the steps of the shortened scenarios | violated | – | `CancelledResultsConfirmed` |
| `duties` | `MCAccessDuties.cfg` | 2 requests | violated | – | `SeparationOfDuties` with overlapping requests |
| `login` | `MCLogin.cfg` | 1 server, 2 requests | violated | – | does a sign-in spare people's work? |
| `risks` | `MCRisks.cfg` | 2 materials | violated | – | does "no risks" mean that all was checked? |

**Properties.** Each is stated in words above its definition, with the document or the
code it comes from; `PROJECT.json` lists the hazard each is for.

* *Runs*: `StageNeverLost`, `AuditComplete`, `OutputMatchesHistory`,
  `ResultsOfConfirmedAttempt`, `ImplementsLifecycle`, `EventuallyTerminal`.
* *Access*: `LastAdministratorKept`, `SessionRolesCurrent`, `SessionsStayDead`,
  `ClaimedUntouched`. *Actions*: `OutcomeMatchesEffect`, `ImplementsContract`.
* *Inbox*: `ExactlyOnce`, `RetriesComplete`, and under fairness `EventsSettle`.
* *Records*: `OneCurrentVersion`, `CommandAccounted`, `DecisionsStay`,
  `NoStaleEntry`, `PromptInForce`, `LearningAudited`, `PublishedIsWritten`,
  `CancelledStaysOut`, `SeriesIsOfOneBuild`.
* *Algorithms*: `ReportNamesItsInput`, `PartyAgreed`, `StockSharedOut`,
  `ReportAddsUp`, `ExportRecordedOnce`, `AdviceCovers`, `AnswersOwnUp`,
  `AnswersAgree`.
* *Desk*: `FollowUpContinues`, `AnswerGrounded`, `SavedReadsTrue`, `FeedIsThread`,
  `SubmittedIsNotLost`, `PageFollowsRun`, `DigestHonest`, `PassedRunIsAccountedFor`.

**Bounds and why they are enough.** Two requests suffice for every race of a run: each
write is fenced by the version, so a third request only sees what a second one can
bring about, and a request that ended is replaced by a fresh one, so the number of
requests over time is unbounded. `MaxLapses = 1` gives the interesting case – an
owner that works on after its claim was taken over. The three steps of
`AnalysisSteps` are a source that can fail and be replaced by a file, the step that
materialises results, and a last one that runs after them; the steps left out behave
as one of these. For access, three users of whom two are administrators and two
managers let every count reach one from two sides. Where the chat is used, one
administrator writes in it and the other uses the pages for changes that may undo
each other (`OneWrites`, `OtherUses`).

For versions, three writers let two overlap while a third has committed; two files and one
event. A series of the gate meets another one by the tags of their images alone, so all
but one stop once they have built, and behaviours are followed until the one that goes on
is over (`OneSeriesRuns`). Uploads have every form of document with up to three records
against a limit of two (`MaxRows`), so that cutting happens. Three rules with one
attribute give ties, conflicts and a more specific rule; two positions, one direct
material and two analogues make the ledger matter; a report varies the grades of one
position only (`OneIsGraded`). The books of the portfolio vary one part of the dataset at
a time (`TheBooks`); questions name fewer days and more than the 30 a project looks ahead
(`Days`). Two levels of risk are enough to filter one away (`RiskLevels`: LOW, which an
old snapshot never has, and CRITICAL). Two sources against room for one fill the card of a
command (`MaxSources`). Lists of saved answers are one longer than what is shown, a
forecast one longer and one shorter than allowed; what is said varies while nothing is
cited, the citations vary over all kinds while the answer is plain, and two are cited
together where they are read together (`OneSaved`, `OneIsRead`). In the chat, which
request comes first makes no difference, and the last one leaves unsaid what it is about
(`InTurn`); second threads, attachments and commands are tried with one page
(`OneAtATime`). A day of the digest has four moments, a week two days; zones that move
their clocks are tried with one row (`OneDigest`, `OneIsTouched`), by one moment
(`MaxOffset`). Every bound is named where it is declared, and every action and disjunct
fires.

Symmetry is over requests only, which no definition tells apart, and is not used
with liveness.

**Deadlock.** `core`, `live`, `stock`, `action` and `inbox` check it. The others do
not: in them a bounded number of requests, messages or answers arrive and end, a
computation reaches its result, or a gate its verdict, and then nothing more happens.

**Fairness.** `FairSpec` (runs) assumes `WF(Work(p))`: a request that has arrived goes
on unless it crashes, and crashes are bounded; `SF(ReadRun(p, "drain"))`: drains keep
arriving, because the page of an active run polls `GET /api/scenario-runs/[id]`, which
schedules a drain each time (tested in
`src/tests/unit/scenario-run-routes.test.ts`) – strong, because a process may be busy
in between; and `WF(LeaseLapse)`. Nobody has to cancel, import or retry. If nobody
polls the run, it may stay where it is: the code has no scheduler of its own.
`FairInboxSpec` assumes that requests run to their end, that a backoff ends, and that
the external scheduler which calls `/events/process` asks for an event that stays due
at some time. An event whose request died after claiming it is excepted from
`EventsSettle`: the inbox has no lease.

## 4. The proofs

All hold for every number of requests, events, users, steps, versions, files, pages and
messages and under the assumptions named in the modules. Bounds of the models are
arbitrary numbers in them. The assumptions say what the code has: `StepsAssumption` and
`BoundsAssumption`; `SeedAssumption` (finitely many users, a seeded administrator, and a
seeded manager who is a member) and `RequestAssumption`; `ActionAssumption`;
`InboxAssumption` (at least one event, at least one attempt); `SpecAssumption`,
`PromptAssumption` (nobody is called "nobody", which stands for a free lock);
`LearningAssumption`, `ReviewAssumption`, `DemoAssumption` (there is a candidate, a
position, a server); `SeriesAssumption` (at least one run is required);
`CommandAssumption`, `UploadAssumption` and `ContentsAssumption` (a document names each of
its fields once), `InputAssumption`, `EvidenceAssumption`, `AnswerAssumption`,
`SupplyAssumption`, `AnalyticsAssumption` and `PortfolioAssumption` (numbers and finite
sets), `BooksAssumption` (what the datasets looked at are made of); `GateAssumption` (a
schedule has a message); `ChatPageAssumption`, `RunPageAssumption`; `ChatAssumption`
(projects are not materials, and nothing is neither); `DigestAssumption` (days and weeks
have a length) and `SavedAnswerAssumption` (the projects one joined are a sequence, the
lists of an answer and the sources of a card have limits, and what stands for no project,
row or warehouse is none); `ResponsibilityAssumption` (finitely many rules and
attributes).

Two theorems have a hypothesis of their own, explained below: `ResultsConfirmed`
(`ReportAfterAnalogues`) and `PassedRunsAccountedFor` (`OneRefusable`). TLC checked
every inductive invariant on the instance of its component's run.

**ScenarioRunProofs.** `TypeOK` is not inductive: what follows a step is known only
for configured steps, so `TypeInv` adds that the run and every snapshot of it stay on
them, and that an error of a source leads to a configured step. `SafetyInv` adds, for
the database (`DbInv`): no row was claimed, completed or staged after the present
version (`RowsOfPast`); two rows are claimed at different versions (`ClaimsDistinct`);
a claim in progress made at the current version is on the step the run is at, with
nothing staged (`ClaimIsCurrent`); a pending stage is the only one and agrees with the
run (`StageIsCurrent`); an unfinished run shows the step it is at (`StepShown`); what
the audit log holds is what the rows say (`AuditOfRows`); and `StageNeverLost`,
`AuditComplete`, `ErrorMeansFailed`, which need each other. `ProcSound` says of every
request that a snapshot of an old version is harmless (its fence fails) and one of the
current version is exact. Each action is one lemma; `StagesSurvive`,
`StagesPublishable`, `AuditIsComplete`, `ErrorsMeanFailure`, `SnapshotsAreSound`,
`HistoryIsImmutable` and `OnlyFailureReopens` are the consequences.

Its second part, what a run leaves behind, stands on `SafetyInv`. What each transaction
does to the run and its rows is stated once, field by field (`ClaimWrites`,
`CompletionWrites`, `FailureWrites`, `PublicationWrites`, `CancellationWrites`,
`ImportWrites`), with one lemma that every action is one of them, and each proof below is
by these cases. `CourseInv`: the output has exactly the sections of the completed steps
(`OutputRecorded`), and what is completed is what stands before the present step in the
configured list, so that nothing is done twice or skipped (`CourseKept`). With it,
`OutputIsHistory`, and `RefinesLifecycle`: the initial states map to those of
`RunLifecycle`, and every statement of every request is one of its moves or a stutter –
the claim is its start, a completion or a publication its advance, and the taking over of
a lapsed claim is not seen. `ConfirmedInv`: a worker whose claim is the run's last write
still holds it, and the rows in the table are those it saved (`OwnerSound`), so rows of a
completed step are never overwritten (`ResultsFinal`). `AwaitedInv`: rows that no
completed step confirmed belong to the attempt under way or to the step in which the run
failed. `ResultsConfirmed` needs `ReportAfterAnalogues`: if the scenario has the report
step, it computes the analogues before it. `scenario-full-analysis` does; in a scenario
without the analogues the report step writes the rows, a cancellation after it does not
remove them, and the theorem would be false: this is what the run `stock` shows.

**AccessAdminProofs.** `TypeInv`: assignments are no newer than their user's version.
`Exclusive`: two requests whose guards passed hold no row in common. From it,
`AdministratorInv`: whoever is about to remove an administrator has another one that
no other guarded request is about to remove – because all of them lock the
administrator's role row. `ManagerInv` is the same argument with the project's row.
`SessionInv`: what a session or a sign-in in flight remembers is assigned, or its
user's version has advanced since.

The last section is about `ChatSpec`, with a chat that starts requests of its own.
`GuaranteesWithChat` transfers the three invariants: what the chat carries out begins as
one of the requests of `AccessAdmin` (`ExecuteBegins`), and its other steps leave the
variables alone. `ClaimsFindUntouched` has `ChatInv`: every row that was
read, for the message under way or for a stored card, holds a version its user has had,
and while the user still has that version, the user was not touched since (`RowSound`).
By the time a confirmation compares, the version may have moved on, so `EqualRows`
carries over from its own reading of the row what the comparison relies on. This is why a
change that was undone again is noticed although all rows look as they did; it holds for
targets whose fingerprint has the version, and the property says so.

**AgentActionProofs.** `SafetyInv` = `TypeOK`, `RowSound` (what a status says of
version, effect and trail), `Claimant` (a request between claim and effect finds the
row EXECUTING and not yet carried out) and `Alone` (there is at most one such request
per action). `Implements` shows that every step is a move of `ActionContract` or
leaves its variables alone, by cases on what happened to the row of one action.

**FoldTheorems.** What the last four modules share: `LeastOne` (a set of naturals has a
least element, from the library's well-foundedness), `AllAlong` (a property kept from
each number to the next, which replaces induction), and that a fold of the community
modules over a sequence of any length has the recursion it is meant to have
(`FoldPossible`). The fold is followed there by a *walk*, the function of what there is
after each element; the proofs about parsed documents and feeds are about walks.

**RunDataProofs.** *Events*: the rows alone are not inductive, because what a request
writes is computed from the row it claimed. `Inv` adds `Claimed` – as long as the row
has the version a request saw, it has the attempts it saw – and `RowSound`: a row that
waits has attempts left, a dead letter has none. `RowWritten` is the lemma all
transactions share: writing one row with a higher version, in step with its audit, keeps
`Inv`, because every other claim on it is then stale. `Counted` is a second invariant
above it: the insight of a subject has been written once for each processed event of the
subject, a statement about cardinalities proved with the library's facts on finite sets.
`EventsExactlyOnce` and `RetriesAreComplete` follow.

*The input of a run*: `InputInv` follows one loading through its reads while
specifications are published behind it: the positions of a specification are never newer
than the version read after them (`VersionsInOrder`), stock is warned of exactly when it
is neither live nor a file, and the audit has it exactly then (`StockDated`).
`ReportsNameTheirInput` follows.

*Responsibility*: `Decide` picks by `CHOOSE` among the rules retrieved, in any order, so
the proof needs that there is a rule to pick. `LeastOne` and `GreatestOne` (from the
well-foundedness of the naturals), `SpecificityIs` (bounded, as there are finitely many
attributes) and `AllRetrieved` (a sequence of all the elements of a finite set has all
of them) give `OneSelected`: what is taken is one of the most specific rules, for every
number of rules. `PartiesAgreed` follows.

*Sums.* The models add up with the folds of the community modules, which are recursive
functions on the elements left to add. What a fold comes to is stated without
recursion: `Sum(f, T)` counts pairs, `f[x]` of them for each `x`, so that sums are split,
compared and replaced by facts on cardinalities, and `SumUnique` says that whatever
obeys the recursion is `Sum`. Where induction would be used, the least counterexample is
taken (`LeastOne`).

*Stock*: `AllocatedGreedily` says what the fold of `allocateCoveragePlan` gives – of
each analogue in the order either all that is left of it, or all that is still needed,
or nothing because nothing is (`Greedy`) – for an order of any length, also with one
material taken out (`OrderWithout`, the alternatives). `SupplyInv` ties the ledger to
the plans: it holds the sum of what all positions were promised of a material, and what
the last of them found in it is what it holds without that (`LastGiven`).
`StockIsSharedOut` follows. `ReportsAddUp` needs nothing more of the run: it follows
from `SupplyInv`, by what the card and the row of a position state (`CardAddsUp`,
`RemainsStated`), by who is sent to procurement, found or left out (`StatusStated`), and
by counting the positions by category (`CategoriesAddUp`). It holds for both kinds of
report. What the cards leave out although it lacks something (`LeftOut`) is nothing after
a search, and in a shortened scenario exactly what the summary counts as insufficient.

*Advice*: `CompositeIs` gives the combination of substitutes in closed form – the
first ones with their whole share, the last with the rest – and `EvenSum` and
`EvenDeviations` its sums. Hence one substitute alone never scores better
(`CompositeCompares`), three ways remain (`RecommendedIs`), exactly one of which is best
if any is feasible (`OneIsBest`), and `AdviceIsCovered` is a comparison of their scores.
The proof shows what the instance of TLC is
too small for: with twelve substitutes or more the combination may deviate so much that
an order is preferred to it, and the property says so.

*Answers on the portfolio*: `PortfolioInv` keeps with every answer what it says of the
dataset (`AnswerTrue`), written with `Sum` and for any dataset, so that it stays true
while nothing but the thread changes; the folds of the model come to those sums
(`RecursionIsSum`). The agreements are then arithmetic: `RoundedUp` and `RoundedRunsOut`
for the roundings (whatever days the question named, what is left for no more than the
days a project looks ahead runs out at the rounded consumption too), `SumMore` for what
others were given, `SumApart` for supplies before and after the need, and counting for the
received specifications. `PortfolioAnswersAgree` follows, for a thread of any length.

*Exports*: `ExportInv` says of every point of a request what it may have recorded; a
request that was told its success was not recorded, although it may have been, goes to
"refused" and never to "failing". `ExportsRecordedOnce` follows.

**AgentDeskProofs.** `CommandInv` says of each command what its plan, its case and its
audit hold at every point where its request may fail or die (`OutcomeOf`, `AnswerOf`,
`ProgressOf`), and of a case being closed that it was there when it was read.
`LearningInv` lists the seven histories a candidate can have (`LifeOf`) and ties each to
status, version, validation and summary; what a curator read matters by its version
alone (`CuratorSound`).

*The digest* begins with its calendar. `MidnightFound`: the guess of
`zonedMidnightToUtc` is right after two of its four rounds, in every zone whose clocks
are moved once and not over a midnight; and a moment is before that midnight exactly if
the reader's clock shows an earlier day (`DivAtLeast`), so that the moments between two
midnights are those of the days between them (`DaysBetween`). `DigestInv` adds what the
requests know: whatever is changed after a digest was asked for bears a time of its own
that is no earlier, hence a row that still has an older one is as it was when it was
read (`SourceKept`), and between the two queries for the tasks the first has its half
(`TasksKept`). `DigestsHonest` follows, for every length of day and week and every
offset.

*A saved answer* is first followed through its conversions: a list of texts that may be
shown is known by its length (`PlainsShort`, `PlainOfList`), so saving an answer and
restoring it twice – once before it is stored, once before it is sent – loses nothing
the first time did not lose (`AnalysedStays`), and a label leads back to the code it
was made from (`LabelsLeadBack`). `AnswerIsTold` has this for all five engines. Then
the sources: `ReadableBelongs` shows that the decisions `citation-authorization.ts`
makes table by table, each with its own columns, come to one rule, that a row is read
by those it belongs to, in one of two ways: a material may stand in the reader's own
copy of the stock or in the operational view of the project. `SavedInv` says of a
request under way that what it has found it could see at some time since it began, and
that what it could see all the time in one and the same way it has found or not yet
looked for (`ReadingSound`); and of a citation between its two reads what the first of
them leaves behind (`HalfSound`): the copy was not open throughout, or the run, should
it still be in the project, could be seen. A material that moves from the view into the
copy between the two reads is missed, hence "in one way".
`SavedAnswersReadTrue` holds for any number of citations, projects and warehouses,
whatever is granted, revoked or rewritten between two of the queries. Only where a
command's card is full may a source be missing that could be seen all the time.

**ConversationProofs.** `ComposerInv`: while a message is on its way the composer is
empty, what was typed is in the page's `text`, and what a request reports as stored is in
its thread; threads only grow (`HeldStays`). From it, `SubmittedQuestionsKept`, an action
property. `FeedInv` is the same page seen from its list of messages. Of the server it
says that a message which was stored stands in its thread, the answer behind the
question (`StoredOf`), and that a thread holds nothing twice and nothing that was not
stored (`ThreadSound`). Of a page (`FeedOk`): what it shows is shown in the thread's
order; while it waits for the answer to a message, all it shows *precedes* that message
in the thread, so the question and the answer may be appended; and what it has read of
a thread is a beginning of it (`Prolongs`), because threads only grow. None of the
three can be spared: the answer is put last without looking at the thread, and other
pages write into the same thread at any time. `FeedsShowTheirThreads` follows.
`RunPageInv`: of the polling loops one at most is alive, the one of the latest
`abort` (`Live`); it asks for the run that is shown and holds nothing older than what is
shown, and a run that is not over has such a loop unless the page itself is changing it
or something failed (`Followed`). `RunPagesFollow` is again about a step. `ThreadInv`:
what a request continues is, of the universal answers it had read when it looked, the
last (`PostSound`); answers added since by other requests do not matter. `AnswerInv`:
facts are only added, so that what a step of a tool was allowed by is still among the
facts when the answer is given (`FactsSound`). `EvidenceInv`: what evidence may be called
complete, command by command (`Proves`), and that the reply was concluded from it.

**RecordProofs.** `CacheInv`: a loader whose generation is still its server's, with no
reset under way, has seen as many resets as there were (`LoaderSound`). `ReviewsInv`:
the statuses the page may insert or reset are those of positions nobody has decided.
`CorrectionsInv`: an editor who read a version that is still current read the row as it
is (`EditorSound`), so that corrections form a chain. `CancelledFilesStayOut` is an
action property: the publication looks at the file again under its lock.

*Uploaded documents.* `PublishedRowsAreWritten` is about what the parser makes of a
document. `UploadsInv` carries it through the requests: the rows of a file that was
parsed, and those a publication read of it, are `Parsed` of what is written in it
(`PaperSound`, `LoadSound`, `Fit`), so the theorem comes to `ParsedIsWritten`: if
everything was accepted and every record has a code, the rows are the records. The
tables are immediate, the delimited lines go line by line (`LinesRead`). The labelled
text is the hard case, because nothing but the next code separates two records. With
the fields in any order, those that stand before the code of a record (all but `Late`)
go to the row of the record *before*. The walk through one record keeps what its row
holds (`Reading`, `Started`, `Holding`): until the code is met nothing late changes;
with the code the row before is put away, and the row at hand starts from nothing. If a
required field stands before the code, the last row can therefore not have it, is
rejected, and the document is left to a person (`LabelledIsWritten`): whatever is
published came from documents that begin each record with its code.

*Versions* have no constraint that would make their promise hold by itself. `VersionsInv`:
only the current version is ever locked (`LocksCurrent`), and what a transaction read, saw
and locked stays true as long as the number it read is the latest (`WriterSound`), so of
the overlapping publications one alone passes its insert. `SourcesInv` adds that a
transaction which can still publish has a source nothing was made from (`SourceSound`):
for an event delivered twice at once, because the receipt is looked for no earlier than at
the version that is to be replaced. `PromptsInv`: a change about to commit holds its
target, and one that had the table for itself has deactivated all the others
(`AdminSound`); hence there is always an active version, and one only unless changes
overlapped. `SeriesInv`: every run a series has on record was made of the images the
series inspected, because the tags are not trusted but the containers compared
(`CaptureKeeps`); what is on the host is of the present run, and before and after a run
there is nothing (`NothingOnHost`). The images themselves, which other series may move at
any time, are in no part of it. `GateInv`: what the evaluator, the proxy, the application
and the witness each have of a message is tied to how far the message got
(`MessageSound`), and once the evaluator has accepted, that the counts agree says that the
messages do (`RowsAreRight`). The verifier compares numbers of rows, not which they are;
two messages refused and told otherwise would cancel out, and the theorem has the
hypothesis `OneRefusable`: the schedule has at most one message that may be refused. In
the schedule of the script it is one, the viewer's question for stock.

Proved but not among the properties of a run, because the theorem says more than the
instance: the type invariants, `StagesPublishable`, `ErrorsMeanFailure`,
`SnapshotsAreSound`, `HistoryIsImmutable`, `OnlyFailureReopens`, `ConfirmedResultsStay`,
`ManagerKept`, `GuaranteesWithChat`, `AtMostOnce`, `AuditTruthful`, `OutcomeStays`,
`SourcesUsedOnce`, `CorrectionsLink`.

**Checked by TLC only.**

* Liveness (`EventuallyTerminal`, `EventsSettle`): no installed prover reaches fairness.

**What the properties let pass.** Some harms of a hazard can happen in the code, or would
go unnoticed by the properties listed for it; its note in `PROJECT.json` says which. A
publication may be refused for ever because of a foreign audit event (`AuditComplete` is
about what is published). An action may end FAILED although its effect stands, and its
target may change between claim and effect. Overlapping activations may leave two active
prompts. A rule the search did not return is no part of `PartyAgreed`. What a document has
beyond the limits is cut. `SubmittedIsNotLost` is about words, not files.

## 5. What the checks found

**Disagreements** of the code with a document, a comment or a test, each a `violation`
run; the sources are quoted in `PROJECT.json`.

1. `stock`: a run of a shortened scenario that is cancelled after its report step wrote
   the results keeps results that no completed step confirmed;
   `stageScenarioCancellation` deletes them for FINDING_ANALOGUES only.
2. `duties`: two overlapping assignments give one user AUDITOR and a modifying role:
   `assignRole` checks the conflict outside its transaction.
3. `login`: once somebody has published a specification, a sign-in counts more rows than
   it expects, deletes the demo user's rows and reseeds, although the seed is complete.
4. `risks`: "no risks" is said to be proved as soon as one material has a history that
   can be forecast.

**Further disagreements seen while modelling**, in the models but without a run of
their own:

* *Access and actions*: an assignment that overlaps the deactivation of its role is
  granted by the later activation without its user's version being touched; blocking an
  account may remove the last active project manager (only the other three ways are
  guarded); an administrator whose assignment has expired still counts as the other
  one; suspending or reinstating a membership never takes effect (its INSERT names a
  column the table does not have), from the chat it ends FAILED; if recording the
  success of an action fails, it is recorded as failed while its effect stands; a
  request that dies after its claim leaves its action EXECUTING for good.
* *Chat and access*: the impact on the card is read before the fingerprint, and the
  fingerprint is compared before the claim, not at the effect; the fingerprint of a
  role's status (a count over all projects) misses changes that cancel out, and that of
  a membership's status omits the status; the idempotency key includes the impact but
  not the fingerprint, so the same command with the same impact returns the old row,
  also when that has failed or expired; changing a role to the same role counts as a
  success.
* *Saved answers*: citations the program itself makes are never found again by
  `reauthorizeSavedAgentCitations`, and so vanish even from the immediate answer of the
  chat: the version, run and integration sources of SUMMARY, the `code:plant:location`
  balances of STOCKS, freshness risks, intakes, positions of a run and the movements of a
  forecast (`OTHER_ID` in the module; `docs/mtr-agent-data-coverage.md:83` admits it for
  SAP's composite ids, `docs/api-reference.md:227` does not). Sources that are authorised
  again always read as of unknown freshness. A WAPE above 100 % is shown as 100 %.
  Technical text is withheld from answers to commands and legacy answers but not from
  universal summaries. A privileged card read again says PROPOSED although it was carried
  out. An answer without the field `requiresHumanReview` but with a confidence is labelled
  as needing no review. The card of a command shows the first 50 of its sources
  (`public-projection.ts:414`), although answers on risks and figures cite more; the rest
  is shown nowhere and nothing says so. Links of `PROCESS_ENGINE` to `run-` ids can never
  occur. The kill switch leaves the legacy chat and attachments running. `README.md:18`
  describes the new authorisation of citations only; the thread itself is bound to its
  owner.
* *Chat answers*: an answer on the portfolio in between makes a remembered project
  forgotten; a remembered shortage of one project filters an answer that names another;
  what runs out within the days a question names beyond 30
  is not among the risks of its project (`universal-chat-service.ts:74`, `:744`); three
  portfolio answers have confidence 1 when nothing was found, and so has a
  question about identity when tools failed; listings are cut at 200 and told as complete
  counts; inbound supply is counted in full for every project and the stock of
  substitutes without others' allocations; `project.listMaterials` without positions
  returns unrelated materials; `analysis.reorderRecommendations` ignores its
  material; intakes compare `<=` with an end called exclusive;
  `docs/mtr-agent-universal-chat.md:60` (memory on a change of role) is not what the
  thread does.
* *Commands*: what a filter by level removes leaves no gap in the evidence, so "no risks"
  is said to be proved, without a person, when a material runs out at another level, and
  always when the list of levels is empty (`runtime-analytics-service.ts:204`).
* *Analysis*: direct stock is counted in full for every matching position
  (`docs/mtr-project-data-model.md:57`); the quantity of a candidate is made up (required
  divided by their number); lead times count at most 50 days; a single way and a composite
  one that tie are named composite; with twelve substitutes or more an order could be
  advised instead of them (the dataset names three at most); over-reserved rows have
  availability 0 but positive direct coverage; a correction of the responsible party
  clears the review flag (`docs/agent-behavior.md:157`); SAP is read for the first hundred
  materials only; the audit of a success that fails is followed by one of a failure.
* *Reports*: in a shortened scenario a match whose stock is too small is counted for
  procurement (`report-service.ts:444`) but has no search, so the cards and the sheet on
  analogues leave it out (`report-analogues.ts:84`); `ReportAddsUp` says that this is all
  that differs. PDF and workbook say «Требуется решение» where the page says
  «Недостаточно данных» for a review without a responsible party; `getReport` falls back
  to the stored snapshot when the number of rows differs; a card taller than a page of
  the PDF runs over its margin.
* *Digest*: weeks are counted by `updatedAt`, so something touched again this week is
  missing from last week's count, and the difference is overstated; no part of the
  program writes an event with `metricSnapshot`, without which the section on metrics
  stays empty; sources without
  permission count as complete; today is in no digest; where clocks are moved over a
  midnight, the correction of the offset oscillates and the week ends an hour early
  (`docs/api-reference.md:470`; such zones are left out of the model).
* *Cases*: `createOrGet` of a case has no `ON CONFLICT`; evidence may be appended to a
  closed case, and with a weaker permission than it is read with; nothing in the
  application calls `appendEvidence`.
* *Prompts*: two overlapping activations leave two active versions
  (`admin-config-prompts.tsx:103` says one), until the next one; a rollout puts
  version 005 back in force.
* *Uploads and pages*: a labelled record without its code overwrites the fields of the
  record before; rows beyond 500 and text beyond 100 000 characters are cut without a
  word; a crash between blob and row leaves the blob; a manual Appius import compares
  codes without case, a publication with it; a published file under another target is
  answered with its first version (`docs/mtr-agent-attachments-import.md` binds the
  target as well). Files dropped while a message is pending are wiped unsent; a lost
  answer gives the draft back although the question was stored; after a failed
  cancellation or poll the page of a run stops following a run that goes on.
* *Gate*: two messages are sent in parallel although they are compared in schedule order,
  so a faultless run may fail; two refusals would cancel out in the count of rows (only
  one message may be refused); the interrupt handler runs after PASS may have been
  printed; images are inspected by digest and containers created by tag; the certificate
  is awaited by its existence and parsed at once; cleaning up after a failed attestation
  calls `docker compose down` without the variables its file requires; the reviewer's
  pins and `application-start.ts` are read from the working tree, which is why they are
  no part of `SeriesIsOfOneBuild`.

## 6. What is left out

Formatting, wording, HTTP and the validation of input, the listing queries, and all of
`src/src/app` and `src/src/components` that renders what it is given. Per component:

* *Sessions*: passwords, tokens, cookies, expiry by age, sign-out and the persona
  selector, which only remove or add sessions.
* *Runs*: clocks that disagree (attempts are ordered by version); the 403 of a revoked
  user as a lasting state (it is a crash); audit events other than those of steps.
* *Dictionaries and scenario switches*: single-row updates that nothing is compared
  with.
* *Forecasts*: the figures, trends and root causes of
  `agent-orchestrator/analytics/`, which are real-valued statistics, and
  `domain/general-analytics.ts`, which only tests use.
* *Universal chat*: the recognition of phrases and the language model, whose answers are
  nondeterministic; the live planner is a choice of plan.
* *Integrations*: OData paging and filters of the mocks; the adapters of production
  systems, which throw.
* *Evaluations*: the offline evaluators, sequential comparisons with constants;
  migrations and deployment files.
* *Schema and fixtures* (`schema.ts`, `bootstrap.ts`, `adapters/mock/fixtures`): the keys
  and columns the models rely on are part of them; the data is not.

## 7. The plan

Done: the runs, access and actions with their proofs, then the inbox, the records, the
algorithms, the desk and the composition `AccessByChat`; then the proofs of what a run
leaves behind and that it refines `RunLifecycle`, and of every other component. Every
safety and action property that a passing run checks is now stated by a theorem
(section 4).

Next:

| What | How |
|---|---|
| the 403 of a revoked user as a lasting state of a run | a right in `ScenarioRun` that the environment takes away, and `EventuallyTerminal` excepting it |
| an action left EXECUTING by a request that died | `AgentAction` has the crash; what is missing is a rule in the code by which such a row is ever looked at again, and a property of it |
| the evaluation scripts beside the gate | their scenarios as further instances of `GateRun` |
