---------------------------- MODULE MCAlgorithms ----------------------------
(***************************************************************************)
(* The instance for TLC of the components that work out one thing from     *)
(* what they read: the input of a run, who supplies a position, how stock  *)
(* covers it and what the report says of that, what is advised for it,     *)
(* what the answers to commands claim and whether those on the portfolio   *)
(* agree.  As in MCRecords, one of them is in focus in a behaviour and the *)
(* others stand still.                                                     *)
(***************************************************************************)
EXTENDS RunInput, Responsibility, Report, Analytics,
        CommandEvidence, Portfolio

CONSTANTS p1, p2, x1, x2, i1

VARIABLE focus

\* A rule that is not indexed is never looked at.
Unread == [types |-> "any", wants |-> {}, party |-> "CUSTOMER", expert |-> FALSE]

\* Where a component not in focus starts, and what is not looked at.
PlainPosition ==
  [found |-> TRUE, mapped |-> TRUE, ruled |-> TRUE, offered |-> TRUE, required |-> 1,
   unit |-> TRUE, onHand |-> [r \in Rows |-> 0], held |-> [r \in Rows |-> 0], inbound |-> 0,
   weeks |-> 9, regular |-> TRUE, substitutes |-> 0, delay |-> 0]
UnfitPositions ==
  {[PlainPosition EXCEPT !.found = f, !.mapped = m, !.unit = u] :
     f \in BOOLEAN, m \in BOOLEAN, u \in BOOLEAN}
PlainCommand == [kind |-> "MY_TASKS", scoped |-> TRUE, wants |-> {}, levels |-> RiskLevels]
PlainShelf == [s \in Shelves |-> [history |-> "none", runsOut |-> "none"]]
PlainSap == [state |-> "AVAILABLE", snapshot |-> "fresh"]

\* The datasets of the portfolio.
Everything ==
  {"project.read", "specification.read", "specification.history.read", "catalog.read",
   "stock.search", "analysis.read", "catalog.substitutes.read", "catalog.bom.read"}
TheGrants == {Everything, Everything \ {"stock.search"}}

BothPrograms(due, threatened) ==
  [p \in Programs |-> [status |-> IF p = p1 THEN "ACTIVE" ELSE "PLANNED",
                       due |-> due, soon |-> p = p1, threatened |-> threatened]]
EveryGood(kept, spent, safety, inbound) ==
  [i \in Goods |->
     [stock |-> [w \in Stores |-> kept], used |-> spent, safety |-> safety,
      inbound |-> inbound, scores |-> [j \in Goods |-> IF j = i1 THEN 95 ELSE 80],
      longer |-> {i1}, assembly |-> i # i1]]
PlainBook ==
  [projects |-> BothPrograms(1, TRUE),
   positions |-> [x \in Places |-> [project |-> IF x = x1 THEN p1 ELSE p2, item |-> i1,
                                    purpose |-> "REPAIR", quantity |-> 1]],
   materials |-> EveryGood(2, 1, 0, {}),
   allocated |-> [p \in Programs |-> [i \in Goods |-> 0]],
   intakes |-> [n \in Intakes |-> [project |-> p1, status |-> "COMPLETED",
                                   today |-> FALSE, late |-> FALSE]],
   versions |-> 2, stores |-> Stores]
IntakeBooks ==
  {[PlainBook EXCEPT !.intakes = f, !.versions = 1] :
     f \in [Intakes -> [project : {p1}, status : IntakeStatuses, today : BOOLEAN,
                        late : {TRUE}]]}
Supplies == {{}, {[week |-> 0, quantity |-> 1]}, {[week |-> 3, quantity |-> 1]}}
StockBooks ==
  {[PlainBook EXCEPT
      !.positions = [x \in Places |->
        [project |-> IF x = x1 THEN p1 ELSE other, item |-> i1,
         purpose |-> IF x = x1 THEN "REPAIR" ELSE "CONSTRUCTION",
         quantity |-> IF x = x1 \/ other = p1 THEN 1 ELSE 2]],
      !.materials = EveryGood(onHand, spent, safety, inbound),
      !.allocated = [p \in Programs |-> [i \in Goods |-> IF p \in allocated THEN 1 ELSE 0]],
      !.projects = BothPrograms(due, FALSE)] :
     other \in Programs, onHand \in {0, 1, 5}, spent \in {1, 5}, safety \in 0 .. 1,
     allocated \in {{}, {p1}, {p2}}, due \in 0 .. 1, inbound \in Supplies}
TheBooks == {PlainBook} \cup IntakeBooks \cup StockBooks

Still(f, vars) == focus # f => UNCHANGED vars

\* Bound: all the grades of a match are tried with one position, with the others two of them.
OneIsGraded == \A p \in Items \ {i1} : match'[p].grade \in {"REVIEW", "NO_MATCH"}

\* Of the components that may start in several ways, only the one in focus does.
AlgorithmsInit ==
  /\ focus \in {"input", "responsibility", "supply", "advice", "evidence",
               "portfolio", "export"}
  /\ IF focus = "input" THEN InputInit
     ELSE InputInit /\ filled = {} /\ appius = "AVAILABLE" /\ load.files = {} /\ load.event
  /\ IF focus = "responsibility" THEN indexed \in SUBSET Rules ELSE indexed = {}
  /\ corpus \in {c \in [Rules -> Rule] : \A r \in Rules \ indexed : c[r] = Unread}
  /\ ResponsibilityInit
  /\ focus # "responsibility" => fulfils = {}
  /\ IF focus = "supply" THEN SupplyInit
     ELSE SupplyInit /\ \A m \in Direct \cup Analogues : stock[m] = 0
  /\ ExportInit
  /\ IF focus = "advice"
     THEN \/ dataset \in UnfitPositions
          \/ dataset \in {d \in Dataset : d.found /\ d.mapped /\ d.unit}
     ELSE dataset = PlainPosition
  /\ AnalyticsInit
  /\ IF focus = "evidence" THEN command \in TypedCommand
     ELSE command = PlainCommand /\ sapRow = PlainSap
  /\ command.kind \notin {"RISKS", "KPI"} => shelf = PlainShelf
  /\ EvidenceInit
  /\ command.kind = "KPI" => \A s \in Shelves : shelf[s].runsOut = "none"
  /\ command.kind \in {"RISKS", "KPI"} => sapRow.state = "AVAILABLE"
  /\ IF focus = "portfolio" THEN PortfolioInit /\ (granted = Everything \/ book = PlainBook)
     ELSE book = PlainBook /\ granted = Everything /\ answers = <<>>

AlgorithmsNext ==
  /\ UNCHANGED focus
  /\ \/ focus = "input" /\ InputNext
     \/ focus = "responsibility" /\ ResponsibilityNext
     \/ focus = "supply" /\ SupplyNext /\ OneIsGraded
     \/ focus = "advice" /\ AnalyticsNext
     \/ focus = "evidence" /\ EvidenceNext
     \/ focus = "portfolio" /\ PortfolioNext
     \/ focus = "export" /\ ExportNext
  /\ Still("input", inputVars)
  /\ Still("responsibility", responsibilityVars)
  /\ Still("supply", supplyVars)
  /\ Still("advice", analyticsVars)
  /\ Still("evidence", evidenceVars)
  /\ Still("portfolio", portfolioVars)
  /\ Still("export", exportVars)

AlgorithmsSpec ==
  AlgorithmsInit /\ [][AlgorithmsNext]_<<focus, inputVars, responsibilityVars,
                                         supplyVars, analyticsVars, evidenceVars,
                                         portfolioVars, exportVars>>
=============================================================================
