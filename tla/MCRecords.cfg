SPECIFICATION RecordsSpec
CONSTANTS
  Writers = {w1, w2, w3}
  Files = {f1, f2}
  AppiusEvents = {ev1}
  MaxNumber = 3
  Commands = {c1}
  CaseKeys = {k1}
  Facts = {fact1}
  MaxCaseVersion = 3
  Positions = {i1}
  Pages = {v1, v2}
  Editors = {d1, d2}
  MaxResultVersion = 3
  MaxDecisions = 1
  Servers = {s1}
  Requests = {p1, p2}
  Things = {t1}
  MaxOwn = 1
  MaxResets = 1
  Admins = {a1, a2}
  Prompts = {q1, q2, q3}
  CanonicalPrompts = {q1, q2}
  Canonical005 = q1
  Candidates = {x1, x2}
  Foreign = {x2}
  Curators = {u1, u2}
  Validations = {n1, n2}
  MaxCandidateVersion = 5
  Loads = {r1, r2}
  Papers = {g1}
  Contents <- TheContents
  Targets = {"NEW", "s1"}
  MaxRows = 2
  y1 = y1
  Series = {y1, y2}
  Commits = {"c", "d"}
  Images = {"application", "verifier"}
  VerifierImage = "verifier"
  REQUIRED_RUNS = 2
  MaxBuilds = 2
INVARIANTS OneCurrentVersion CommandAccounted DecisionsStay NoStaleEntry PromptInForce LearningAudited PublishedIsWritten SeriesIsOfOneBuild
PROPERTY CancelledStaysOut
CHECK_DEADLOCK FALSE
