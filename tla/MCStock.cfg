SPECIFICATION Spec
CONSTANTS
  Procs = {p1, p2}
  Steps <- StockSteps
  MaxLapses = 0
  MaxCrashes = 0
  MaxRetries = 0
SYMMETRY Symmetry
INVARIANT
  CancelledResultsConfirmed
