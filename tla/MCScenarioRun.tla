---------------------------- MODULE MCScenarioRun ----------------------------
(* Instances of ScenarioRun for TLC. *)
EXTENDS ScenarioRun, TLC

Symmetry == Permutations(Procs)

\* Of scenario-full-analysis: a source that may be replaced by a file, the step
\* that writes results and fails otherwise, and the one that ends the run.
AnalysisSteps == <<"SYNCING_SAP", "FINDING_ANALOGUES", "GENERATING_REPORT">>
\* The shortened stock scenarios of scenarios.json.
StockSteps == <<"LOADING_APPIUS", "SYNCING_SAP", "MATCHING_STOCK", "GENERATING_REPORT">>
\* The shortest order with a fallible source and a step that writes rows.
ShortSteps == <<"LOADING_APPIUS", "FINDING_ANALOGUES">>
=============================================================================
