SPECIFICATION FairSpec
CONSTANTS
  Procs = {p1, p2}
  Steps <- ShortSteps
  MaxLapses = 0
  MaxCrashes = 1
  MaxRetries = 0
PROPERTIES
  EventuallyTerminal
