SPECIFICATION Spec
CONSTANTS
  Procs = {p1, p2}
  Steps <- AnalysisSteps
  MaxLapses = 1
  MaxCrashes = 1
  MaxRetries = 1
SYMMETRY Symmetry
INVARIANTS
  StageNeverLost
  AuditComplete
  OutputMatchesHistory
  ResultsOfConfirmedAttempt
PROPERTIES
  ImplementsLifecycle
