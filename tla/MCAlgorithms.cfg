SPECIFICATION AlgorithmsSpec
CONSTANTS
  Chosen = {s1, s2}
  MaxPublished = 3
  MaxChanges = 2
  Rules = {r1, r2, r3}
  Attributes = {b1}
  Items = {i1, i2}
  Direct = {m1}
  Analogues = {m2, m3}
  Severities = {0, 3}
  MaxQuantity = 2
  Rows = {o1, o2}
  MaxAmount = 2
  MaxSubstitutes = 2
  Delays = {0, 47, 70}
  Shelves = {h1, h2}
  PageSize = 1
  RiskLevels = {"LOW", "CRITICAL"}
  p1 = p1
  p2 = p2
  x1 = x1
  x2 = x2
  i1 = i1
  Programs = {p1, p2}
  Places = {x1, x2}
  Goods = {i1, i2}
  Stores = {w1}
  Intakes = {n1, n2}
  Books <- TheBooks
  Grants <- TheGrants
  Weeks = 4
  Days = {7, 180}
  Horizon = 30
  Pack = 2
  MaxAnswers = 2
  Requests = {q1, q2}
  Formats = {"json", "UNSUPPORTED"}
INVARIANTS
  ReportNamesItsInput
  PartyAgreed
  StockSharedOut
  ReportAddsUp
  ExportRecordedOnce
  AdviceCovers
  AnswersOwnUp
  AnswersAgree
CHECK_DEADLOCK FALSE
