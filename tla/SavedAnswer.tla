----------------------------- MODULE SavedAnswer -----------------------------
(***************************************************************************)
(* What becomes of an answer of the chat once an engine has given it: the  *)
(* message is answered by one of five channels, the answer is saved with   *)
(* its citations, every read authorises the citations anew for whoever     *)
(* reads (reauthorizeSavedAgentCitations), and the server and the page     *)
(* each rebuild what may be shown from what was saved.                     *)
(*                                                                         *)
(* Between the reads of one request the rows the answer cites and the      *)
(* grants of the reader change; the request keeps the rights it began      *)
(* with, but for the memberships its queries join.                         *)
(*                                                                         *)
(* Abstractions: one saved answer (a read of a thread authorises the       *)
(* citations of all its messages together); a place of a citation stands   *)
(* for one cited entity; texts are PLAIN or TECHNICAL (tool names, raw     *)
(* JSON, reasoning); lines that are too long, dates, counts and the text   *)
(* beside files and actions are left out; the two queries for tasks are    *)
(* one.  Global roles grant nothing of a project.                          *)
(***************************************************************************)
EXTENDS Integers, Sequences, FiniteSets, SequencesExt

CONSTANTS
  CitePlaces,      \* citations of the answer
  JoinedProjects,  \* access projects, in the order the reader joined them
  Houses,          \* warehouses
  MaxLines,        \* lines of a list the page shows: 10 in the code
  MaxDrivers,      \* factors it shows: 5 in the code
  MaxSources,      \* sources a command's card shows: 50 in the code
  MaxWeeks         \* horizon of a forecast: 26 in the code

AccessProjects == ToSet(JoinedProjects)
NoProject == "NO_PROJECT"
NoRow == "NO_ROW"
NoHouse == "NO_HOUSE"

ASSUME SavedAnswerAssumption ==
  /\ MaxLines \in Nat \ {0} /\ MaxDrivers \in Nat \ {0} /\ MaxWeeks \in Nat \ {0}
  /\ MaxSources \in Nat \ {0}
  /\ JoinedProjects \in Seq(AccessProjects)
  /\ NoProject \notin AccessProjects /\ NoRow \notin AccessProjects /\ NoHouse \notin Houses

VARIABLES
  switches,  \* feature policy of the agent
  message,   \* what is asked, and what the engine that answers it says
  grants,    \* memberships, roles and warehouse claims of the reader
  cited,     \* the rows the citations lead to
  saved,     \* the message of the assistant
  reading,   \* the request that reads it
  view       \* what the page shows

savedVars == <<switches, message, grants, cited, saved, reading, view>>

-----------------------------------------------------------------------------
(* Rights *)

Grants ==
  [members : SUBSET AccessProjects, asked : AccessProjects,
   role : [AccessProjects -> {"NONE", "VIEWER", "ANALYST"}], claims : SUBSET Houses]

ReadPermissions ==
  {"agent.chat", "project.read", "specification.read", "catalog.read", "analysis.read",
   "report.read", "review.read"}

ExpandRole(role) ==
  CASE role = "NONE"    -> {}
    [] role = "VIEWER"  -> ReadPermissions
    [] role = "ANALYST" -> ReadPermissions \cup {"stock.search"}

\* The project of the session while the reader is a member, else the first joined.
ActiveProject(g) ==
  LET joined == {i \in DOMAIN JoinedProjects : JoinedProjects[i] \in g.members}
  IN  IF g.asked \in g.members THEN g.asked
      ELSE IF joined = {} THEN NoProject
      ELSE JoinedProjects[Min(joined)]

\* resolveAuthorizationContext
ContextOf(g) ==
  LET p == ActiveProject(g)
  IN  [project |-> p, may |-> IF p = NoProject THEN {} ELSE ExpandRole(g.role[p]),
       houses |-> g.claims]

Contexts == {ContextOf(g) : g \in Grants}

\* The resource is always said to be of the active project.
MayRead(ctx, permission) == permission \in ctx.may

-----------------------------------------------------------------------------
(* Citations and the rows they lead to *)

\* OTHER_ID: an id under which the read that authorises finds nothing (a version, a run, a
\* balance, a position within a run).
Citations ==
  [system : {"APPIUS"}, entity : {"PROJECT", "SPECIFICATION", "POSITION", "INTEGRATION", "OTHER_ID"}]
  \cup [system : {"SAP"}, entity : {"MATERIAL", "MOVEMENT", "SEARCH", "INTEGRATION", "OTHER_ID"}]
  \cup [system : {"CATALOG"}, entity : {"DEMO_ITEM", "ITEM"}]
  \cup [system : {"NORMATIVE", "RAG"}, entity : {"DOCUMENT"}]
  \cup [system : {"SCENARIO", "REPORT"}, entity : {"RUN", "OTHER_ID"}]
  \cup [system : {"PROCESS_ENGINE"}, entity : {"EVENT", "OTHER_ID"}]
  \cup [system : {"METRIC_REGISTRY", "RISK_ENGINE"}, entity : {"METRIC"}]
  \cup [system : {"TASK_STORE"}, entity : {"OWN_QUERY", "TASK", "REVIEW"}]
  \cup [system : {"TELEMETRY"}, entity : {"OTHER_ID"}]

\* project: of the row, NoRow when it is gone; house: of the movement or of the balance in the
\* operational view; copied: of the balance in the reader's own copy of SAP; asCited: the view
\* still shows the snapshot the citation names.
CitedRows ==
  [project : AccessProjects \cup {NoRow}, house : Houses, copied : Houses \cup {NoHouse},
   asCited : BOOLEAN]

OwnedByProject ==
  {"PROJECT", "SPECIFICATION", "POSITION", "MOVEMENT", "MATERIAL", "RUN", "EVENT", "TASK", "REVIEW"}
OwnedByReader  == {"DEMO_ITEM", "DOCUMENT"}

\* Only what the kind of entity has varies.
RowsOf(cite) ==
  LET some == CHOOSE p \in AccessProjects : TRUE
      here == CHOOSE h \in Houses : TRUE
  IN  {row \in CitedRows :
        /\ row.project \in IF cite.entity = "OTHER_ID" THEN {NoRow}
                           ELSE IF cite.entity \in OwnedByProject THEN AccessProjects \cup {NoRow}
                           ELSE IF cite.entity \in OwnedByReader THEN {some, NoRow}
                           ELSE {some}
        /\ cite.entity \notin {"MOVEMENT", "MATERIAL"} => row.house = here
        /\ cite.entity # "MATERIAL" => row.copied = NoHouse /\ row.asCited}

\* Faulty variant: a material in the reader's own copy counts wherever it lies.
CopiedAnywhere(ctx, row) == row.copied # NoHouse

\* A balance in the reader's copy of SAP.
Copied(ctx, row) == row.copied \in ctx.houses

\* canReadOperationalMaterialStock: one in the operational view, as it was cited.
InView(ctx, row) == row.project = ctx.project /\ row.asCited /\ row.house \in ctx.houses

AppiusReadable(ctx, members, cite, row) ==
  CASE cite.entity = "PROJECT" ->
         MayRead(ctx, "project.read") /\ row.project = ctx.project /\ ctx.project \in members
    [] cite.entity = "INTEGRATION" -> MayRead(ctx, "specification.read")
    [] OTHER -> MayRead(ctx, "specification.read") /\ row.project = ctx.project

SapReadable(ctx, cite, row) ==
  /\ MayRead(ctx, "stock.search")
  /\ ctx.houses # {}
  /\ CASE cite.entity \in {"INTEGRATION", "SEARCH"} -> TRUE
       [] cite.entity = "MOVEMENT" -> row.project = ctx.project /\ row.house \in ctx.houses
       [] OTHER -> Copied(ctx, row) \/ InView(ctx, row)

CatalogReadable(ctx, cite, row) ==
  MayRead(ctx, "catalog.read") /\ (cite.entity = "DEMO_ITEM" => row.project # NoRow)

NormReadable(ctx, row) ==
  /\ MayRead(ctx, "specification.read") \/ MayRead(ctx, "analysis.read")
  /\ row.project # NoRow

MayReadRuns(ctx, cite) ==
  MayRead(ctx, IF cite.system = "REPORT" THEN "report.read" ELSE "analysis.read")

RunReadable(ctx, members, cite, row) ==
  MayReadRuns(ctx, cite) /\ ctx.project \in members /\ row.project = ctx.project

TaskReadable(ctx, cite, row) ==
  MayRead(ctx, "review.read") /\ (cite.entity = "OWN_QUERY" \/ row.project = ctx.project)

\* isReadable, when nothing changes on its way: ctx as the request began, members and row
\* as they are now.
IsReadable(ctx, members, cite, row) ==
  /\ ctx.project # NoProject
  /\ CASE cite.system = "APPIUS"                -> AppiusReadable(ctx, members, cite, row)
       [] cite.system = "SAP"                   -> SapReadable(ctx, cite, row)
       [] cite.system = "CATALOG"               -> CatalogReadable(ctx, cite, row)
       [] cite.system \in {"NORMATIVE", "RAG"}  -> NormReadable(ctx, row)
       [] cite.system \in {"SCENARIO", "REPORT"} -> RunReadable(ctx, members, cite, row)
       [] cite.system = "PROCESS_ENGINE" ->
            MayRead(ctx, "analysis.read") /\ row.project = ctx.project
       [] cite.system \in {"METRIC_REGISTRY", "RISK_ENGINE"} -> MayRead(ctx, "analysis.read")
       [] cite.system = "TASK_STORE"            -> TaskReadable(ctx, cite, row)
       [] OTHER                                 -> FALSE

\* After its first read isReadable asks again: for a material that is not in the reader's
\* copy, and for a run once the membership is found (getScenarioRunInProject).
AsksAgain(ctx, members, cite, row) ==
  /\ ctx.project # NoProject
  /\ \/ /\ cite.entity = "MATERIAL"
        /\ MayRead(ctx, "stock.search") /\ ctx.houses # {} /\ ~Copied(ctx, row)
     \/ cite.entity = "RUN" /\ MayReadRuns(ctx, cite) /\ ctx.project \in members

SecondRead(ctx, cite, row) ==
  IF cite.entity = "MATERIAL" THEN InView(ctx, row) ELSE row.project = ctx.project

\* memoizedRead: lists that are read once for all the citations of a request.
ReadTogether(one, other) ==
  \/ one.entity = other.entity /\ one.entity \in {"MOVEMENT", "DOCUMENT", "EVENT"}
  \/ {one.entity, other.entity} \subseteq {"TASK", "REVIEW"}

-----------------------------------------------------------------------------
(* Answers of the engines *)

TextKinds  == {"PLAIN", "TECHNICAL"}
Levels == <<"LOW", "MEDIUM", "HIGH", "CRITICAL">>

\* What the page says instead of a level, a verdict and so on (given here in Latin script).
LevelLabels == [LOW |-> "nizkij", MEDIUM |-> "srednij", HIGH |-> "vysokij", CRITICAL |-> "kriticheskij"]
FactLabels == [NORMAL |-> "norma", ATTENTION |-> "vnimanie", CRITICAL |-> "kritichno",
               UNKNOWN |-> "ne opredeleno"]
VerdictLabels ==
  [EXACT |-> "tochnoe", COMPATIBLE |-> "sovmestimo", CONDITIONAL |-> "uslovno",
   ENGINEERING_REVIEW |-> "proverka", NOT_RECOMMENDED |-> "ne rekomenduetsja",
   PROHIBITED |-> "zapreshheno", INSUFFICIENT_DATA |-> "nedostatochno"]
AdviceLabels == [REORDER |-> "dozakaz", REPLACEMENT |-> "zamena", EXPERT_REVIEW |-> "jekspertnaja",
                 MONITOR |-> "monitoring"]

NoLabel == "NONE"
NoAnalysis == [summary |-> "NONE"]
NoForecast == [weeks |-> 0, wape |-> 0]

Lists == UNION {[1 .. n -> TextKinds] : n \in 0 .. MaxLines + 1}

AnalysisGiven ==
  [summary : TextKinds, facts : Lists, drivers : Lists, complete : BOOLEAN,
   weeks : 0 .. MaxWeeks + 1, wape : {0, 60, 150}]

CommandOutput ==
  [type : {"RISKS", "OTHER", "ANALYSIS"}, text : TextKinds, missing : BOOLEAN, review : BOOLEAN,
   levels : SUBSET ToSet(Levels), analysis : AnalysisGiven \cup {NoAnalysis}]

UniversalOutput ==
  [kind : {"ANSWER", "CLARIFICATION"}, review : BOOLEAN, level : DOMAIN LevelLabels,
   fact : DOMAIN FactLabels \cup {NoLabel}, verdict : DOMAIN VerdictLabels,
   advice : DOMAIN AdviceLabels,
   lack : {"MATERIAL_NOT_FOUND", "SOURCE_INCOMPLETE", "SOURCE_STALE", "SOURCE_CONFLICT",
           "SOURCE_UNAVAILABLE", "PROJECT_SCOPE_EMPTY"}]

DecisionOutput   == [text : TextKinds, sure : 0 .. 1, review : BOOLEAN]
AttachmentOutput == [status : {"PREVIEW", "REVIEW_REQUIRED", "PUBLISHED"}]
ActionOutput     == [status : {"PROPOSED", "CLARIFICATION"}, risky : BOOLEAN]

-----------------------------------------------------------------------------
(* What is saved, sent and shown of a command's answer *)

FirstOf(seq, n) == SubSeq(seq, 1, IF Len(seq) < n THEN Len(seq) ELSE n)

\* The plain ones of a list, which do not differ.
PlainOnly(seq) == [i \in 1 .. Cardinality({k \in DOMAIN seq : seq[k] = "PLAIN"}) |-> "PLAIN"]

Between(low, n, high) == IF n < low THEN low ELSE IF n > high THEN high ELSE n

\* projectAnalysis
ProjectAnalysis(a) ==
  IF a.summary # "PLAIN" THEN NoAnalysis
  ELSE [summary  |-> "PLAIN",
        facts    |-> FirstOf(PlainOnly(a.facts), MaxLines),
        drivers  |-> PlainOnly(FirstOf(a.drivers, MaxDrivers)),
        forecast |-> IF a.complete
                     THEN [weeks |-> Between(1, a.weeks, MaxWeeks), wape |-> Between(0, a.wape, 100)]
                     ELSE NoForecast]

\* restorePublicAnalysis
RestoreAnalysis(p) ==
  IF p.summary # "PLAIN" THEN NoAnalysis
  ELSE [summary  |-> "PLAIN",
        facts    |-> FirstOf(PlainOnly(p.facts), MaxLines),
        drivers  |-> PlainOnly(FirstOf(p.drivers, MaxDrivers)),
        forecast |-> IF p.forecast = NoForecast THEN NoForecast
                     ELSE [weeks |-> Between(1, p.forecast.weeks, MaxWeeks),
                           wape  |-> Between(0, p.forecast.wape, 100)]]

\* highestRiskLevel
HighestLevel(levels) ==
  LET among == {i \in DOMAIN Levels : Levels[i] \in levels}
  IN  IF among = {} THEN NoLabel ELSE Levels[Max(among)]

\* projectAgentCommandResult and toPublicAgentCommandResult
ProjectCommand(o) ==
  LET level == IF o.type = "RISKS" THEN HighestLevel(o.levels) ELSE NoLabel
  IN  [schema   |-> "COMMAND",
       hidden   |-> o.text = "TECHNICAL",
       status   |-> IF o.missing \/ o.review THEN "PARTIAL" ELSE "COMPLETE",
       risk     |-> IF level = NoLabel THEN NoLabel ELSE LevelLabels[level],
       review   |-> o.text = "TECHNICAL" \/ o.review,
       analysis |-> IF o.type = "ANALYSIS" THEN ProjectAnalysis(o.analysis) ELSE NoAnalysis]

\* restorePublicAgentCommandResult: at the server, with the citations authorised for the
\* request as its sources, all of them, and in the browser, with the sources sent, as far
\* as there is room for them (SourcesShown).
RestoreCommand(body) ==
  [body EXCEPT !.review   = body.hidden \/ @,
               !.analysis = IF body.hidden THEN NoAnalysis ELSE RestoreAnalysis(@)]

-----------------------------------------------------------------------------
(* ... and of the others *)

\* publicLimitationStatus, by what the code contains
LackStatus(code) ==
  CASE code = "MATERIAL_NOT_FOUND" -> "NOT_FOUND"
    [] code = "PUBLIC_REVIEW_REQUIRED" -> "REVIEW_REQUIRED"
    [] code \in {"SOURCE_INCOMPLETE", "SOURCE_STALE", "PUBLIC_PARTIAL_DATA"} -> "PARTIAL"
    [] OTHER -> "UNAVAILABLE"

\* privateLimitationCode
LackCode(status) ==
  CASE status = "NOT_FOUND"       -> "MATERIAL_NOT_FOUND"
    [] status = "PARTIAL"         -> "PUBLIC_PARTIAL_DATA"
    [] status = "REVIEW_REQUIRED" -> "PUBLIC_REVIEW_REQUIRED"
    [] OTHER                      -> "PUBLIC_DATA_UNAVAILABLE"

LabelOf(labels, value) == IF value \in DOMAIN labels THEN labels[value] ELSE NoLabel

\* publicRiskLevel, publicFactStatus, publicCompatibilityVerdict, publicRecommendationKind
ValueOf(labels, label, default) ==
  IF \E v \in DOMAIN labels : labels[v] = label
  THEN CHOOSE v \in DOMAIN labels : labels[v] = label
  ELSE default

\* projectUniversalAgentOutput
ProjectUniversal(o) ==
  IF o.kind = "CLARIFICATION" THEN [schema |-> "UNIVERSAL", kind |-> "CLARIFICATION"]
  ELSE [schema  |-> "UNIVERSAL", kind |-> "ANSWER", review |-> o.review,
        level   |-> LabelOf(LevelLabels, o.level),
        fact    |-> LabelOf(FactLabels, o.fact),
        verdict |-> LabelOf(VerdictLabels, o.verdict),
        advice  |-> LabelOf(AdviceLabels, o.advice),
        lack    |-> LackStatus(o.lack)]

\* restorePublicUniversalResult: back to the private words, and out again.
RestoreUniversal(p) ==
  IF p.kind = "CLARIFICATION" THEN p
  ELSE ProjectUniversal(
         [kind    |-> "ANSWER", review |-> p.review,
          level   |-> ValueOf(LevelLabels, p.level, "LOW"),
          fact    |-> ValueOf(FactLabels, p.fact, NoLabel),
          verdict |-> ValueOf(VerdictLabels, p.verdict, "INSUFFICIENT_DATA"),
          advice  |-> ValueOf(AdviceLabels, p.advice, "MONITOR"),
          lack    |-> LackCode(p.lack)])

\* toPublicAgentDecision
PublicDecision(o) ==
  IF o.text = "TECHNICAL"
  THEN [schema |-> "DECISION", hidden |-> TRUE, sure |-> 0, review |-> TRUE]
  ELSE [schema |-> "DECISION", hidden |-> FALSE, sure |-> o.sure, review |-> o.review]

\* toPublicAttachmentOutput
PublicAttachment(o) ==
  [schema |-> "ATTACHMENT", status |-> o.status, opens |-> o.status = "PUBLISHED"]

\* toPublicPrivilegedActionOutput and safeImpact
PublicAction(o) ==
  IF o.status = "CLARIFICATION" THEN [schema |-> "ACTION", card |-> FALSE]
  ELSE [schema |-> "ACTION", card |-> TRUE, status |-> o.status, risky |-> o.risky]

\* The structuredOutput of the saved message.
Kept(channel, o) ==
  IF channel = "COMMAND" THEN ProjectCommand(o) ELSE [schema |-> channel, output |-> o]

\* serializeAgentMessage
Serialized(kept) ==
  CASE kept.schema = "COMMAND"    -> RestoreCommand(kept)
    [] kept.schema = "ATTACHMENT" -> PublicAttachment(kept.output)
    [] kept.schema = "ACTION"     -> PublicAction(kept.output)
    [] kept.schema = "UNIVERSAL"  -> ProjectUniversal(kept.output)
    [] kept.schema = "DECISION"   -> PublicDecision(kept.output)

\* AgentMessage in the browser
ShownOf(sent) ==
  CASE sent.schema = "COMMAND"   -> RestoreCommand(sent)
    [] sent.schema = "UNIVERSAL" -> RestoreUniversal(sent)
    [] OTHER                     -> sent

\* restoreStoredSources in the browser: a command's card has room for so many sources, and
\* the list below the other answers for all; the order of the citations is left out.
SourcesShown(schema, found) ==
  IF schema = "COMMAND" /\ Cardinality(found) > MaxSources
  THEN kSubset(MaxSources, found) ELSE {found}

\* citationHref of the sources on a command's card
CardLink(cite) ==
  cite \in {[system |-> "APPIUS", entity |-> "SPECIFICATION"],
            [system |-> "SAP", entity |-> "MATERIAL"],
            [system |-> "TASK_STORE", entity |-> "REVIEW"]}

\* citationHref of the list below the other answers
ListLink(cite) ==
  \/ cite.system \in {"SCENARIO", "REPORT"}
  \/ cite \in {[system |-> "APPIUS", entity |-> "SPECIFICATION"],
               [system |-> "SAP", entity |-> "MATERIAL"],
               [system |-> "CATALOG", entity |-> "DEMO_ITEM"]}

HasLink(schema, cite) == IF schema = "COMMAND" THEN CardLink(cite) ELSE ListLink(cite)

-----------------------------------------------------------------------------
(* Which engine answers *)

Switches == [orchestrator : BOOLEAN, killed : BOOLEAN, actions : BOOLEAN, universal : BOOLEAN]

\* readAgentFeaturePolicy
ExecutionAllowed == switches.orchestrator /\ ~switches.killed
ActionsEnabled   == ExecutionAllowed /\ switches.actions
UniversalEnabled == ExecutionAllowed /\ switches.universal

\* routeNaturalAgentCommand, where commands are enabled
NaturalCommand(m) == IF ExecutionAllowed THEN m.command ELSE "NONE"

\* The order in which POST and MtrAgentOrchestrator.handle ask the engines: files are
\* attached; the text is an action; it is an analysis, unless it looks for a position; the
\* universal engine knows an answer; it is another command.
Channel(m) ==
  CASE m.files                                          -> "ATTACHMENT"
    [] ~m.files /\ ActionsEnabled /\ m.action           -> "ACTION"
    [] ~m.files /\ ~(ActionsEnabled /\ m.action)
       /\ ~m.position
       /\ NaturalCommand(m) = "ANALYSIS"                -> "COMMAND"
    [] ~m.files /\ ~(ActionsEnabled /\ m.action)
       /\ ~m.position /\ NaturalCommand(m) # "ANALYSIS"
       /\ UniversalEnabled /\ m.known                   -> "UNIVERSAL"
    [] ~m.files /\ ~(ActionsEnabled /\ m.action)
       /\ ~m.position /\ NaturalCommand(m) = "OTHER"
       /\ ~(UniversalEnabled /\ m.known)                -> "COMMAND"
    [] OTHER                                            -> "DECISION"

OutputsOf(channel) ==
  CASE channel = "ATTACHMENT" -> AttachmentOutput
    [] channel = "ACTION"     -> ActionOutput
    [] channel = "COMMAND"    -> CommandOutput
    [] channel = "UNIVERSAL"  -> UniversalOutput
    [] channel = "DECISION"   -> DecisionOutput

\* elsewhere: the page has selected a project that is not the active one.
IsMessage(m) ==
  /\ m.files \in BOOLEAN /\ m.action \in BOOLEAN /\ m.position \in BOOLEAN /\ m.known \in BOOLEAN
  /\ m.command \in {"NONE", "ANALYSIS", "OTHER"}
  /\ m.elsewhere \in BOOLEAN
  /\ m.output \in OutputsOf(Channel(m))
  /\ DOMAIN m.cites \subseteq CitePlaces
  /\ \A c \in DOMAIN m.cites : m.cites[c] \in Citations

\* Files, actions and questions back cite nothing.
CitesSaved(m) ==
  IF \/ Channel(m) \in {"ATTACHMENT", "ACTION"}
     \/ Channel(m) = "UNIVERSAL" /\ m.output.kind = "CLARIFICATION"
  THEN <<>> ELSE m.cites

-----------------------------------------------------------------------------
(* Requests *)

NoMessage == [schema |-> "NONE"]
Idle      == [active |-> FALSE]
Blank     == [shown |-> FALSE]

\* A material may be seen in two ways; any other source in whichever.
Ways == {"COPY", "VIEW"}

\* Who may see the source, said apart from how the code finds out: it is of the project and
\* the warehouses of the reader, or the reader's own.
Belongs(way, ctx, members, cite, row) ==
  /\ ctx.project # NoProject
  /\ cite.entity # "OTHER_ID"
  /\ cite.entity \in OwnedByProject \ {"MATERIAL"} => row.project = ctx.project
  /\ cite.entity \in OwnedByReader => row.project # NoRow
  /\ cite.entity \in {"PROJECT", "RUN"} => ctx.project \in members
  /\ cite.system = "SAP" => "stock.search" \in ctx.may /\ ctx.houses # {}
  /\ cite.entity = "MOVEMENT" => row.house \in ctx.houses
  /\ cite.entity = "MATERIAL" =>
       \E h \in ctx.houses :
         IF way = "COPY" THEN row.copied = h
         ELSE row.house = h /\ row.project = ctx.project /\ row.asCited

SeenBy(ctx, g, rows, cites) ==
  {seen \in (DOMAIN cites) \X Ways :
     Belongs(seen[2], ctx, g.members, cites[seen[1]], rows[seen[1]])}

\* half: the citations that are asked for again; could, steady: those that could be seen at
\* some moment of the request, at all, and in which way.
Reading(ctx, cites) ==
  LET now == SeenBy(ctx, grants, cited, cites)
  IN  [active |-> TRUE, ctx |-> ctx, cites |-> cites, left |-> DOMAIN cites, half |-> {},
       found |-> {}, could |-> now, steady |-> now]

\* What a request under way sees of a change.
Watch(g, rows) ==
  reading' = IF ~reading.active THEN reading
             ELSE LET now == SeenBy(reading.ctx, g, rows, reading.cites)
                  IN  [reading EXCEPT !.could = @ \cup now, !.steady = @ \cap now]

\* POST /threads/:id/messages, up to the saving of the answer
PostAndAnswer ==
  LET ctx == ContextOf(grants) IN
  /\ saved = NoMessage
  /\ MayRead(ctx, "agent.chat")
  /\ Channel(message) # "ACTION" => ~message.elsewhere
  /\ saved' = Kept(Channel(message), message.output)
  /\ reading' = Reading(ctx, CitesSaved(message))
  /\ UNCHANGED <<switches, message, grants, cited, view>>

\* GET /threads/:id/messages, when the thread is opened again; the page no longer waits for
\* an earlier request.
Reopen ==
  LET ctx == ContextOf(grants) IN
  /\ saved # NoMessage
  /\ MayRead(ctx, "agent.chat")
  /\ reading' = Reading(ctx, CitesSaved(message))
  /\ view' = Blank
  /\ UNCHANGED <<switches, message, grants, cited, saved>>

\* One citation is looked for, and those that are read with it, or is asked for again.
Authorise(c) ==
  LET with  == {d \in reading.left : d = c \/ ReadTogether(reading.cites[c], reading.cites[d])}
      again == {d \in with \ reading.half :
                  AsksAgain(reading.ctx, grants.members, reading.cites[d], cited[d])}
      yes   == {d \in with \ again :
                  IF d \in reading.half THEN SecondRead(reading.ctx, reading.cites[d], cited[d])
                  ELSE IsReadable(reading.ctx, grants.members, reading.cites[d], cited[d])}
  IN  /\ reading.active /\ c \in reading.left
      /\ reading' = [reading EXCEPT !.left = @ \ (with \ again), !.half = @ \cup again,
                                    !.found = @ \cup yes]
      /\ UNCHANGED <<switches, message, grants, cited, saved, view>>

\* The answer to the request, and the page.
AnswerRequest ==
  /\ reading.active /\ reading.left = {}
  /\ \E sources \in SourcesShown(saved.schema, reading.found) :
       view' = [shown   |-> TRUE,
                told    |-> ShownOf(Serialized(saved)),
                sources |-> sources,
                links   |-> {c \in sources : HasLink(saved.schema, reading.cites[c])},
                could   |-> {seen[1] : seen \in reading.could},
                steady  |-> {seen[1] : seen \in reading.steady}]
  /\ reading' = Idle
  /\ UNCHANGED <<switches, message, grants, cited, saved>>

\* An administrator, or the reader who selects another project
Regrant ==
  /\ \/ \E p \in AccessProjects :
           grants' = [grants EXCEPT !.members = IF p \in @ THEN @ \ {p} ELSE @ \cup {p}]
     \/ \E p \in grants.members : grants' = [grants EXCEPT !.asked = p]
     \/ \E p \in AccessProjects, r \in {"NONE", "VIEWER", "ANALYST"} :
           grants' = [grants EXCEPT !.role[p] = r]
     \/ \E h \in Houses :
           grants' = [grants EXCEPT !.claims = IF h \in @ THEN @ \ {h} ELSE @ \cup {h}]
  /\ Watch(grants', cited)
  /\ UNCHANGED <<switches, message, cited, saved, view>>

\* Synchronisation, another upload or a demo reset.  A run is only ever removed.
ChangeRow(c) ==
  /\ \E row \in RowsOf(message.cites[c]) :
       /\ message.cites[c].entity = "RUN" => row.project \in {cited[c].project, NoRow}
       /\ cited' = [cited EXCEPT ![c] = row]
  /\ Watch(grants, cited')
  /\ UNCHANGED <<switches, message, grants, saved, view>>

SavedInit ==
  /\ switches \in Switches
  /\ IsMessage(message)
  /\ grants \in Grants
  /\ DOMAIN cited = DOMAIN message.cites
  /\ \A c \in DOMAIN cited : cited[c] \in RowsOf(message.cites[c])
  /\ saved = NoMessage /\ reading = Idle /\ view = Blank

SavedNext ==
  \/ PostAndAnswer \/ Reopen \/ AnswerRequest \/ Regrant
  \/ \E c \in DOMAIN message.cites : Authorise(c) \/ ChangeRow(c)

SavedSpec == SavedInit /\ [][SavedNext]_savedVars

-----------------------------------------------------------------------------
(* Properties *)

\* What the engine said of its command, and nothing that must not be shown.
CommandTold(o, b) ==
  /\ b.hidden <=> o.text = "TECHNICAL"
  /\ b.review <=> o.review \/ b.hidden
  /\ b.status = "COMPLETE" <=> ~o.missing /\ ~o.review
  /\ IF o.type = "RISKS" /\ o.levels # {}
     THEN \E i \in DOMAIN Levels :
            /\ Levels[i] \in o.levels /\ b.risk = LevelLabels[Levels[i]]
            /\ \A j \in DOMAIN Levels : Levels[j] \in o.levels => j <= i
     ELSE b.risk = NoLabel
  /\ LET a == b.analysis
         plain == {i \in DOMAIN o.analysis.facts : o.analysis.facts[i] = "PLAIN"}
     IN  IF o.type # "ANALYSIS" \/ b.hidden \/ o.analysis.summary # "PLAIN" THEN a = NoAnalysis
         ELSE /\ ToSet(a.facts) \cup ToSet(a.drivers) \subseteq {"PLAIN"}
              /\ Len(a.facts) = MaxLines \/ Len(a.facts) = Cardinality(plain)
              /\ Len(a.drivers) <= MaxDrivers
              /\ o.analysis.complete /\ o.analysis.weeks \in 1 .. MaxWeeks
                   => a.forecast.weeks = o.analysis.weeks
              /\ o.analysis.complete => a.forecast.wape \in {o.analysis.wape, 100}
              /\ ~o.analysis.complete => a.forecast = NoForecast

UniversalTold(o, b) ==
  /\ b.kind = o.kind
  /\ o.kind = "ANSWER" =>
       /\ b.review = o.review /\ b.level = LevelLabels[o.level]
       /\ b.fact = IF o.fact = NoLabel THEN NoLabel ELSE FactLabels[o.fact]
       /\ b.verdict = VerdictLabels[o.verdict] /\ b.advice = AdviceLabels[o.advice]
       /\ b.lack = "NOT_FOUND" <=> o.lack = "MATERIAL_NOT_FOUND"
       /\ b.lack = "PARTIAL" <=> o.lack \in {"SOURCE_INCOMPLETE", "SOURCE_STALE"}

OutputTold(o, b) ==
  CASE b.schema = "COMMAND"    -> CommandTold(o, b)
    [] b.schema = "UNIVERSAL"  -> UniversalTold(o, b)
    [] b.schema = "DECISION"   -> IF o.text = "TECHNICAL" THEN b.hidden /\ b.review /\ b.sure = 0
                                  ELSE ~b.hidden /\ b.review = o.review /\ b.sure = o.sure
    [] b.schema = "ATTACHMENT" -> b.status = o.status /\ (b.opens => o.status = "PUBLISHED")
    [] b.schema = "ACTION"     -> b.card <=> o.status # "CLARIFICATION"

\* Whenever an answer is read, the page shows it as the kind of answer it is and says what the
\* engine said, through all the rewriting on the way; it names no source that the reader of
\* this request could not see at any moment of it, and every source the reader could see in one
\* way all the time, unless it is a command whose card is full: what it has no room for is
\* shown nowhere, and nothing says so (messages/route.ts, citation-authorization.ts, the two
\* public-projection.ts).
SavedReadsTrue ==
  view.shown =>
    /\ view.told.schema = Channel(message)
    /\ OutputTold(message.output, view.told)
    /\ view.sources \subseteq view.could
    /\ \/ view.steady \subseteq view.sources
       \/ view.told.schema = "COMMAND" /\ Cardinality(view.sources) = MaxSources
    /\ view.links \subseteq view.sources
=============================================================================
