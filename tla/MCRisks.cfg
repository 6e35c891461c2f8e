SPECIFICATION EvidenceSpec
CONSTANTS
  h1 = h1
  h2 = h2
  Shelves = {h1, h2}
  PageSize = 2
  RiskLevels = {"LOW", "CRITICAL"}
INVARIANT NoRiskMeansChecked
CHECK_DEADLOCK FALSE
