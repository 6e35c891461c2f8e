--------------------------- MODULE GroundedAnswer ---------------------------
(***************************************************************************)
(* One answer of AgentService.respond: which tools it calls for the        *)
(* intents of the message, which facts it hands to the language model, and *)
(* how sure it says it is.  Administrators change the state of SAP and     *)
(* Appius meanwhile, and any call may fail.                                *)
(*                                                                         *)
(* Abstractions: the provider is the deterministic one behind              *)
(* IntegrationAwareLlmProvider and ConformingLlmProvider.  A fact is its   *)
(* source and what it says, as far as the provider tells it apart; what    *)
(* the message names (codes, quantities, whether it asks for positions) is *)
(* chosen when it is looked at.  Confidence is zero or more; the text, the *)
(* recommendations and the audit, which never changes the answer, are left *)
(* out.                                                                    *)
(***************************************************************************)
EXTENDS Integers, FiniteSets

CONSTANTS MaxIntents  \* bound: intents of one message

ASSUME AnswerAssumption == MaxIntents \in Nat

VARIABLES
  turn,     \* the request: RequestContext
  output    \* what is answered

answerVars == <<turn, output>>

-----------------------------------------------------------------------------
(* Facts *)

Intents == {"CATALOG", "POSITION", "SPECIFICATION", "STOCK", "RESPONSIBILITY",
            "ANALOGUE", "RUN", "REPORT"}
Systems == {"APPIUS", "SAP", "CATALOG", "NORMATIVE", "SCENARIO", "REPORT"}
SapStates == {"AVAILABLE", "STALE", "UNAVAILABLE"}
AppiusStates == {"AVAILABLE", "UNAVAILABLE"}

\* What each source may say; the second component calls for a person.
Says ==
  [ERROR          |-> <<{}, Systems>>,
   APPIUS_state   |-> <<AppiusStates, {}>>,
   SAP_state      |-> <<{"AVAILABLE", "UNAVAILABLE"}, {"STALE"}>>,
   specifications |-> <<{"listed"}, {}>>,
   version        |-> <<{"current"}, {"superseded"}>>,
   positions      |-> <<{"none", "some"}, {}>>,
   check          |-> <<{"covered"}, {"unmatched", "short", "uncertain"}>>,
   stock          |-> <<{"none", "enough"}, {"short"}>>,
   item           |-> <<{"none", "enough"}, {"short"}>>,
   search         |-> <<{"none", "some"}, {}>>,
   substitutes    |-> <<{}, {"none", "some"}>>,
   bom            |-> <<{"none", "covered"}, {"short"}>>,
   responsibility |-> <<{"assigned"}, {"unfounded"}>>,
   analogue       |-> <<{"covered"}, {"unfounded", "uncovered", "partial", "deviating"}>>,
   run            |-> <<{"other"}, {"failed"}>>,
   result         |-> <<{"certain"}, {"uncertain"}>>,
   summary        |-> <<{"given"}, {}>>]

Sources == DOMAIN Says
Fact(s, what) == [source |-> s, says |-> what]
KnownFacts == UNION {{Fact(s, what) : what \in Says[s][1] \cup Says[s][2]} : s \in Sources}

\* found: a position was resolved, and whether its version was current.
Turn == [pc : {"received", "catalogue", "details", "specification", "listing",
               "versions", "stock", "search", "resolve", "resolving", "check", "checkStock",
               "responsibility", "analogue", "coverage", "rulesOnly", "run", "report",
               "result", "llm", "answered"},
         intents : SUBSET Intents, names : BOOLEAN, facts : SUBSET KnownFacts,
         failed : SUBSET Systems, found : {"no", "current", "superseded"}]
NoTurn == [pc |-> "received", intents |-> {}, names |-> FALSE, facts |-> {},
           failed |-> {}, found |-> "no"]

Output == [from : {"nobody", "guard", "identity", "provider", "fallback"},
           citations : SUBSET Sources, sure : BOOLEAN, review : BOOLEAN]
NoOutput == [from |-> "nobody", citations |-> {}, sure |-> FALSE, review |-> FALSE]

AnswerTypeOK ==
  /\ turn \in Turn
  /\ output \in Output

AnswerInit ==
  /\ turn = NoTurn
  /\ output = NoOutput

-----------------------------------------------------------------------------
(* Tools *)

TurnAt(pc) == turn.pc = pc
Wants(intent) == intent \in turn.intents
Heard(s) == {f \in turn.facts : f.source = s}

Goes(pc) == turn' = [turn EXCEPT !.pc = pc]
Told(fact, pc) == turn' = [turn EXCEPT !.pc = pc, !.facts = @ \cup {fact}]

\* callTool returns a fact of source s, or fails and adds the error of its
\* system, of which there is at most one.
Tells(s, pc) == \E what \in Says[s][1] \cup Says[s][2] : Told(Fact(s, what), pc)
Fails(system, pc) ==
  turn' = [turn EXCEPT !.pc = pc, !.failed = @ \cup {system},
                       !.facts = @ \cup {Fact("ERROR", system)}]
Refused(system, pc) == Told(Fact("ERROR", system), pc)

\* Faulty variant: what getState says is kept, but its failure is not.
Unanswered(system, pc) == turn' = [turn EXCEPT !.pc = pc, !.failed = @ \cup {system}]

StateUnknown(system, pc) == Fails(system, pc)

\* ensureAppiusAvailable and ensureSapAvailable: the state is asked for once in
\* a request, whatever becomes of it later; yes and no are where it goes on.
Ensures(system, s, states, available, yes, no) ==
  IF Heard(s) # {} \/ system \in turn.failed
  THEN Goes(IF \E f \in Heard(s) : f.says \in available THEN yes ELSE no)
  ELSE \/ StateUnknown(system, no)
       \/ \E state \in available : Told(Fact(s, state), yes)
       \/ \E state \in states \ available :
            turn' = [turn EXCEPT !.pc = no,
              !.facts = @ \cup {Fact(s, state), Fact("ERROR", system)}]

EnsureAppius(yes, no) ==
  Ensures("APPIUS", "APPIUS_state", AppiusStates, {"AVAILABLE"}, yes, no)
EnsureSap(yes, no) ==
  Ensures("SAP", "SAP_state", SapStates, {"AVAILABLE", "STALE"}, yes, no)

-----------------------------------------------------------------------------
(* The request *)

\* A message that tries to change the agent's rules is answered at once.
Block ==
  /\ TurnAt("received")
  /\ Goes("answered")
  /\ output' = [NoOutput EXCEPT !.from = "guard", !.sure = TRUE]

\* classifyIntents; names: the message names a run.  Without a name, RUN and
\* REPORT have nothing to ask.
ClassifyIntents ==
  /\ TurnAt("received")
  /\ \E intents \in SUBSET Intents, names \in BOOLEAN :
       /\ Cardinality(intents) <= MaxIntents
       /\ turn' = [turn EXCEPT !.intents = intents, !.names = names,
                               !.pc = IF "CATALOG" \in intents THEN "catalogue"
                                      ELSE "specification"]
  /\ UNCHANGED output

\* collectCatalogueFacts: the item by its code, or a search.  Nothing else is
\* asked of a request about the catalogue but runs and reports.
Catalogue ==
  /\ TurnAt("catalogue")
  /\ \/ Fails("CATALOG", "run")
     \/ Refused("CATALOG", "run")
     \/ Told(Fact("item", "none"), "run")
     \/ \E what \in {"enough", "short"} : Told(Fact("item", what), "details")
     \/ Told(Fact("search", "none"), "run")
     \/ Told(Fact("search", "some"), "details")
  /\ UNCHANGED output

\* collectCatalogueSubstitutes and collectCatalogueBom, as far as they are
\* asked for and there is something to ask about.
CatalogueDetails ==
  /\ TurnAt("details")
  /\ \/ Goes("run")
     \/ /\ Heard("substitutes") = {}
        /\ Tells("substitutes", "details") \/ Fails("CATALOG", "details")
     \/ /\ Heard("item") # {}
        /\ Tells("bom", "run") \/ Fails("CATALOG", "run")
  /\ UNCHANGED output

\* collectSpecificationFacts
Specification ==
  /\ TurnAt("specification")
  /\ IF Wants("SPECIFICATION") THEN EnsureAppius("listing", "stock") ELSE Goes("stock")
  /\ UNCHANGED output

ListSpecifications ==
  /\ TurnAt("listing")
  /\ Told(Fact("specifications", "listed"), "versions") \/ Fails("APPIUS", "stock")
  /\ UNCHANGED output

\* For each specification its latest version, and the positions of that if they
\* are asked for.
LatestVersions ==
  /\ TurnAt("versions")
  /\ \/ Goes("stock")
     \/ Fails("APPIUS", "versions")
     \/ \E state \in {"current", "superseded"} :
          \/ Told(Fact("version", state), "versions")
          \/ \E some \in {"none", "some"} :
               turn' = [turn EXCEPT !.facts = @ \cup
                          {Fact("version", state), Fact("positions", some)}]
  /\ UNCHANGED output

\* collectStockFacts
Stock ==
  /\ TurnAt("stock")
  /\ IF Wants("STOCK") /\ ~Wants("POSITION") THEN EnsureSap("search", "resolve")
                                             ELSE Goes("resolve")
  /\ UNCHANGED output

\* One query after the other until one finds something.
SearchStock ==
  /\ TurnAt("search")
  /\ Fails("SAP", "resolve") \/ Tells("stock", "resolve")
  /\ UNCHANGED output

\* resolvePosition
Resolve ==
  /\ TurnAt("resolve")
  /\ IF turn.intents \cap {"POSITION", "RESPONSIBILITY", "ANALOGUE"} = {}
     THEN Goes("run")
     ELSE EnsureAppius("resolving", "run")
  /\ UNCHANGED output

\* Faulty variant: the positions of any version are looked at.
AnyVersionUsed(state) == TRUE

OnlyCurrent(state) == state = "current"

\* The specifications are listed; versions that are not current are reported
\* and passed over, calls that fail too; then the position is there or not.
Resolving ==
  /\ TurnAt("resolving")
  /\ \/ Fails("APPIUS", "run")
     \/ Fails("APPIUS", "resolving")
     \/ \E state \in {"current", "superseded"} :
          IF OnlyCurrent(state)
          THEN turn' = [turn EXCEPT !.pc = "check", !.found = state,
                          !.facts = @ \cup {Fact("positions", "some")}]
          ELSE Told(Fact("version", state), "resolving")
     \/ Told(Fact("positions", "none"), "run")
  /\ UNCHANGED output

\* collectPositionCheckFacts
Check ==
  /\ TurnAt("check")
  /\ IF Wants("POSITION") THEN EnsureSap("checkStock", "responsibility")
                          ELSE Goes("responsibility")
  /\ UNCHANGED output

CheckStock ==
  /\ TurnAt("checkStock")
  /\ Fails("SAP", "responsibility") \/ Tells("check", "responsibility")
  /\ UNCHANGED output

\* collectResponsibilityFacts: the first rule found decides.
ResponsibilityFacts ==
  /\ TurnAt("responsibility")
  /\ IF Wants("RESPONSIBILITY")
     THEN Fails("NORMATIVE", "analogue") \/ Tells("responsibility", "analogue")
     ELSE Goes("analogue")
  /\ UNCHANGED output

\* collectAnalogueFacts: without a rule no stock is looked at, and without SAP
\* the rules are told without a coverage.
Analogue ==
  /\ TurnAt("analogue")
  /\ IF ~Wants("ANALOGUE") THEN Goes("run")
     ELSE \/ Fails("NORMATIVE", "run")
          \/ Told(Fact("analogue", "unfounded"), "run")
          \/ EnsureSap("coverage", "rulesOnly")
  /\ UNCHANGED output

Coverage ==
  /\ \/ TurnAt("rulesOnly") /\ Told(Fact("analogue", "uncovered"), "run")
     \/ TurnAt("coverage") /\ Fails("SAP", "run")
     \/ TurnAt("coverage") /\ \E what \in {"covered", "uncovered", "partial", "deviating"} :
                                Told(Fact("analogue", what), "run")
  /\ UNCHANGED output

\* collectRunFacts; a run that is not found is an error of its own.
RunFacts ==
  /\ TurnAt("run")
  /\ IF turn.intents \cap {"RUN", "REPORT"} = {} THEN Goes("report")
     ELSE IF ~turn.names THEN Refused("SCENARIO", "report")
     ELSE \/ Fails("SCENARIO", "report")
          \/ Refused("SCENARIO", "report")
          \/ Tells("run", "report")
  /\ UNCHANGED output

\* collectReportFacts
ReportFacts ==
  /\ TurnAt("report")
  /\ IF Wants("REPORT") /\ turn.names
     THEN Fails("REPORT", "result") \/ Refused("REPORT", "result") \/ Tells("summary", "result")
     ELSE Goes("result")
  /\ UNCHANGED output

\* collectPositionResult, if the message names a position too; a result that is
\* not there is passed over in silence.
ResultFacts ==
  /\ TurnAt("result")
  /\ \/ Goes("llm")
     \/ turn.names /\ Fails("SCENARIO", "llm")
     \/ turn.names /\ Tells("result", "llm")
  /\ UNCHANGED output

-----------------------------------------------------------------------------
(* The answer *)

\* Of what the provider says there are sections, unless all it knows is that
\* the systems are well.
HasSections ==
  \E f \in turn.facts :
    f.source \notin {"APPIUS_state", "SAP_state"} \/ f.says = "STALE"

\* Faulty variant: only errors call for a person.
ErrorsOnly == \E f \in turn.facts : f.source = "ERROR"

CallsForReview == \E f \in turn.facts : f.says \in Says[f.source][2]

Cited == {f.source : f \in turn.facts} \ {"ERROR"}

\* The last word of AgentService: a factual intent without a citation.
Grounded(out) ==
  LET bare == turn.intents # {} /\ Cited = {}
  IN  [out EXCEPT !.citations = Cited, !.sure = @ /\ ~bare, !.review = @ \/ bare]

Answers(from, sure, review) ==
  /\ TurnAt("llm")
  /\ Goes("answered")
  /\ output' = Grounded([from |-> from, citations |-> {}, sure |-> sure,
                          review |-> review])

ProviderAnswers ==
  Answers("provider", HasSections /\ Heard("ERROR") = {},
          ~HasSections \/ CallsForReview)

\* A question about the agent itself is answered whatever the facts are.
IdentityAnswers == Answers("identity", TRUE, FALSE)

\* The boundary refuses the call (switched off, rate, budget), stops waiting for
\* it, or rejects what it returns; or the state of the provider forbids it.
ProviderFails == Answers("fallback", FALSE, TRUE)

-----------------------------------------------------------------------------
(* Specification *)

AnswerNext ==
  \/ Block
  \/ ClassifyIntents
  \/ Catalogue
  \/ CatalogueDetails
  \/ Specification
  \/ ListSpecifications
  \/ LatestVersions
  \/ Stock
  \/ SearchStock
  \/ Resolve
  \/ Resolving
  \/ Check
  \/ CheckStock
  \/ ResponsibilityFacts
  \/ Analogue
  \/ Coverage
  \/ RunFacts
  \/ ReportFacts
  \/ ResultFacts
  \/ ProviderAnswers
  \/ IdentityAnswers
  \/ ProviderFails

AnswerSpec == AnswerInit /\ [][AnswerNext]_answerVars

-----------------------------------------------------------------------------
(* Properties *)

\* docs/agent-behavior.md:159 (the table of failures): an answer is given
\* without asking for a person only if every call it rests on answered, with a
\* citation, from a source in force.  So a system that failed, was refused or
\* told of an old snapshot is never passed over, whatever else the message
\* wanted; stock and analogues are only spoken of after their system
\* was found in force, and checks, responsibility and analogues only of a
\* position of a current version.  (A question about the agent is answered
\* without looking at the facts, also when it asks for others beside.)
AnswerGrounded ==
  TurnAt("answered") /\ output.from \in {"provider", "fallback"} =>
    /\ turn.failed # {} \/ Heard("ERROR") # {} => output.review /\ ~output.sure
    /\ ~output.review =>
         /\ output.from = "provider" /\ output.citations # {}
         /\ Heard("SAP_state") \subseteq {Fact("SAP_state", "AVAILABLE")}
         /\ Heard("version") \subseteq {Fact("version", "current")}
         /\ \A s \in {"stock", "check"} :
              Heard(s) # {} => Heard("SAP_state") # {}
         /\ \A s \in {"check", "responsibility", "analogue"} :
              Heard(s) # {} => turn.found = "current"
=============================================================================
