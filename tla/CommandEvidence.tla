--------------------------- MODULE CommandEvidence ---------------------------
(***************************************************************************)
(* How sure the agent says it is of a typed command: the ports gather      *)
(* items with the evidence for them, and assessNegativeEvidence decides    *)
(* whether an empty list proves that there is nothing, and whether a       *)
(* person must look.                                                       *)
(*                                                                         *)
(* Abstractions: of the movements of a stocked material there is what kind *)
(* of history they make and how great a risk it is that the material runs  *)
(* out within the horizon; of citations, whether there is one; of what is  *)
(* missing, why.                                                           *)
(* The data stands still while a command is executed, a few queries long.  *)
(* What is asked for and how the execution is audited is the matter of     *)
(* AgentCommand; ANALYSIS is that of Analytics.                            *)
(***************************************************************************)
EXTENDS Integers, FiniteSets

CONSTANTS
  Shelves,   \* stocked materials of the warehouses, one for each storage location
  PageSize,  \* limit of searchSapMaterials: 500
  RiskLevels \* LOW, MEDIUM, HIGH and CRITICAL

ASSUME EvidenceAssumption ==
  PageSize \in Nat /\ {"none", "undated", "fresh"} \cap RiskLevels = {}

VARIABLES
  shelf,     \* what is known of each stocked material
  sapRow,    \* the integration state of SAP
  command,   \* what is asked for
  evidence,  \* AgentEvidence, and the number of items
  reply      \* NegativeEvidenceAssessment

evidenceVars == <<shelf, sapRow, command, evidence, reply>>

-----------------------------------------------------------------------------
(* Data *)

\* Twelve weeks of movements: eight of any kind ("other"), eight of consumption
\* in the unit of the stock with some in another ("mixed"), or without.
Histories == {"none", "few", "other", "mixed", "enough"}

\* hasComparableHistory, forecastMaterials and coverageSnapshot judge a history
\* each in its own way.
Comparable(s) == shelf[s].history \in {"mixed", "enough"}
Forecast(s) == shelf[s].history = "enough"
Counted(s) == shelf[s].history \in {"other", "mixed", "enough"}

CommandKinds == {"SUMMARY", "MY_TASKS", "RISKS", "STOCKS", "KPI"}
RiskObjects == {"SOURCE", "MATERIAL"}
Metrics == {"process", "STOCK_COVERAGE", "unknown"}

\* scoped: there is a permission and a warehouse; wants, levels: the filters.
TypedCommand ==
  [kind : CommandKinds, scoped : BOOLEAN, wants : SUBSET (RiskObjects \cup Metrics),
   levels : SUBSET RiskLevels]

\* The filter of the port, and once more of the handler (filterRisks).
AskedFor(object, level) == object \in command.wants /\ level \in command.levels

Gaps == {"selection", "period", "source", "rows", "scope", "history", "definition",
         "events", "reservations", "page"}
If(condition, gap) == IF condition THEN {gap} ELSE {}

\* covered: coverage is complete, and checkedScope all of requestedScope; seen:
\* the page of stock that was read; told: the metrics.
Evidence == [items : BOOLEAN, availability : {"COMPLETE", "PARTIAL", "UNAVAILABLE", "not asked"},
             covered : BOOLEAN, cited : BOOLEAN, missing : SUBSET Gaps,
             ownReview : BOOLEAN, seen : SUBSET Shelves, told : SUBSET Metrics]
Gathered(items, availability, covered, cited, missing) ==
  [items |-> items, availability |-> availability, covered |-> covered,
   cited |-> cited, missing |-> missing, ownReview |-> FALSE, seen |-> {}, told |-> {}]

NoEvidence == Gathered(FALSE, "not asked", FALSE, FALSE, {})
NoReply == [conclusion |-> "none", sure |-> FALSE, review |-> FALSE]

Pages == {page \in SUBSET Shelves :
            Cardinality(page) = IF Cardinality(Shelves) < PageSize
                                THEN Cardinality(Shelves) ELSE PageSize}

MustGather(kind) == command.kind = kind /\ evidence = NoEvidence
Gather(e) == evidence' = e /\ UNCHANGED <<shelf, sapRow, command, reply>>

-----------------------------------------------------------------------------
(* Ports *)

\* The selection and the period may leave gaps, and so do sources that are not
\* in force; there are always facts.  Runs and states with a date are cited.
Summarize ==
  /\ MustGather("SUMMARY")
  /\ \E found, period, cited \in BOOLEAN :
       LET missing == If(~found, "selection") \cup If(period, "period")
                      \cup If(sapRow.state \notin {"AVAILABLE", "SLOW"}, "source")
           complete == missing = {} /\ cited
       IN  /\ sapRow.snapshot # "undated" => cited
           /\ Gather(Gathered(TRUE, IF complete THEN "COMPLETE" ELSE "PARTIAL",
                              complete, cited, missing))

\* A list of tasks cites its tasks, and an empty one the query itself; rows that
\* cannot be read are passed over and owned up to.
ListTasks ==
  /\ MustGather("MY_TASKS")
  /\ \E some, unreadable \in BOOLEAN :
       Gather(Gathered(some, IF unreadable THEN "PARTIAL" ELSE "COMPLETE", ~unreadable,
                       TRUE, If(unreadable, "rows")))

\* evaluateRisks: an old snapshot and materials that run out; the state of SAP
\* is not looked at, and one comparable history is enough.  What is filtered away
\* leaves no gap.
EvaluateRisks ==
  /\ MustGather("RISKS")
  /\ \E page \in Pages :
       LET old == sapRow.snapshot \in RiskLevels
           comparable == command.scoped /\ \E s \in page : Comparable(s)
           told(s) == Forecast(s) /\ AskedFor("MATERIAL", shelf[s].runsOut)
           risks == If(AskedFor("SOURCE", sapRow.snapshot), "SOURCE")
                    \cup If(command.scoped /\ \E s \in page : told(s), "MATERIAL")
           missing == IF command.scoped THEN If(~comparable, "history") ELSE {"scope"}
           complete == missing = {}
       IN  Gather([Gathered(risks # {},
                            IF complete THEN "COMPLETE"
                            ELSE IF risks # {} THEN "PARTIAL" ELSE "UNAVAILABLE",
                            complete, old \/ comparable, missing)
                   EXCEPT !.ownReview = risks # {}, !.seen = page])

\* Reservations are never known, so a search of stock is never complete.
SearchStocks ==
  /\ MustGather("STOCKS")
  /\ IF ~command.scoped
     THEN Gather(Gathered(FALSE, "UNAVAILABLE", FALSE, FALSE, {"scope"}))
     ELSE IF sapRow.state = "UNAVAILABLE"
     THEN Gather(Gathered(FALSE, "UNAVAILABLE", FALSE, sapRow.snapshot # "undated",
                          {"source"}))
     ELSE \E page \in Pages, found \in BOOLEAN :
            /\ found => page # {}
            /\ Gather([Gathered(found, "PARTIAL", FALSE,
                                found \/ sapRow.snapshot # "undated",
                                {"reservations"} \cup If(page # Shelves, "page"))
                       EXCEPT !.seen = page])

\* calculateKpi: every metric cites its definition.
CalculateKpi ==
  /\ MustGather("KPI")
  /\ \E page \in Pages, events \in BOOLEAN :
       LET asked == command.wants
           measured == command.scoped /\ \E s \in page : Counted(s)
           told == asked \cap (If(events, "process") \cup If(measured, "STOCK_COVERAGE"))
           missing == If("unknown" \in asked, "definition")
                      \cup If("process" \in asked \ told, "events")
                      \cup If("STOCK_COVERAGE" \in asked \ told,
                              IF command.scoped THEN "history" ELSE "scope")
           complete == missing = {}
       IN  Gather([Gathered(told # {},
                            IF complete THEN "COMPLETE"
                            ELSE IF told # {} THEN "PARTIAL" ELSE "UNAVAILABLE",
                            complete, told # {}, missing)
                   EXCEPT !.seen = page, !.told = told])

-----------------------------------------------------------------------------
(* assessNegativeEvidence and the handlers *)

\* Faulty variant: a citation is evidence enough.
Cites(e) == e.cited

CompleteEvidence(e) ==
  e.availability = "COMPLETE" /\ e.covered /\ e.cited /\ e.missing = {}

Conclude ==
  /\ evidence # NoEvidence /\ reply = NoReply
  /\ LET complete == CompleteEvidence(evidence)
     IN  reply' = [conclusion |-> IF evidence.items THEN "NOT_EMPTY"
                                  ELSE IF complete THEN "PROVEN_EMPTY"
                                  ELSE "UNPROVEN_EMPTY",
                   sure |-> IF evidence.items THEN evidence.cited ELSE complete,
                   review |-> ~complete \/ evidence.ownReview]
  /\ UNCHANGED <<shelf, sapRow, command, evidence>>

-----------------------------------------------------------------------------
(* Specification *)

EvidenceTypeOK ==
  /\ command \in TypedCommand
  /\ evidence \in Evidence

\* Commands without filters ask for all risks, a filter may also be empty; those without
\* keys, for all metrics that are known.  runsOut: the level of the risk, or none; an old
\* snapshot has the level of its risk, which is never LOW.
EvidenceInit ==
  /\ shelf \in [Shelves -> [history : Histories, runsOut : {"none"} \cup RiskLevels]]
  /\ sapRow \in [state : {"AVAILABLE", "SLOW", "STALE", "UNAVAILABLE"},
                 snapshot : {"undated", "fresh"} \cup (RiskLevels \ {"LOW"})]
  /\ command \in TypedCommand
  /\ command.wants \subseteq CASE command.kind = "RISKS" -> RiskObjects
                               [] command.kind = "KPI" -> Metrics
                               [] OTHER -> {}
  /\ command.kind = "KPI" => command.wants # {}
  /\ command.kind # "RISKS" => command.levels = RiskLevels
  /\ evidence = NoEvidence
  /\ reply = NoReply

EvidenceNext ==
  \/ Summarize
  \/ ListTasks
  \/ EvaluateRisks
  \/ SearchStocks
  \/ CalculateKpi
  \/ Conclude

EvidenceSpec == EvidenceInit /\ [][EvidenceNext]_evidenceVars

-----------------------------------------------------------------------------
(* Properties *)

\* docs/agent-behavior.md and src/domain/agent/evidence.ts:75: what is not sent to
\* a person was read in full.  An answer without review cites a source and
\* leaves nothing asked for untold; a summary comes from sources in force; a
\* search of stock always asks for a person; that there are no risks is only
\* said of warehouses the user may read, in which a material had a comparable
\* history, none that was forecast runs out at a level asked for, and the
\* snapshot is not too old for one; and where nothing is proved the confidence is
\* zero.  A material that runs out at a level that was not asked for is filtered
\* away, and the rest is said to be proved without a person; so is nothing at all,
\* where the list of levels is empty (runtime-analytics-service.ts:204).
AnswersOwnUp ==
  reply # NoReply =>
    /\ ~reply.review =>
         /\ evidence.cited /\ reply.sure
         /\ command.kind # "STOCKS"
         /\ command.kind = "KPI" => evidence.told = command.wants
         /\ command.kind = "SUMMARY" => sapRow.state \in {"AVAILABLE", "SLOW"}
    /\ reply.conclusion = "UNPROVEN_EMPTY" => reply.review /\ ~reply.sure
    /\ reply.conclusion = "PROVEN_EMPTY" =>
         /\ command.kind \in {"MY_TASKS", "RISKS"}
         /\ command.kind = "RISKS" =>
              /\ command.scoped
              /\ \E s \in evidence.seen : Comparable(s)
              /\ "MATERIAL" \in command.wants =>
                   \A s \in evidence.seen : Forecast(s) => shelf[s].runsOut \notin command.levels
              /\ "SOURCE" \in command.wants => sapRow.snapshot \notin command.levels

\* src/domain/agent/evidence.ts:75 "An empty list is evidence only when the
\* complete requested scope was checked": when the agent says that a fully
\* checked area has no risks of materials, of whatever level, every material of it
\* was forecast.
NoRiskMeansChecked ==
  /\ reply.conclusion = "PROVEN_EMPTY"
  /\ command.kind = "RISKS"
  /\ "MATERIAL" \in command.wants /\ command.levels = RiskLevels
  => \A s \in Shelves : s \in evidence.seen /\ Forecast(s)
=============================================================================
