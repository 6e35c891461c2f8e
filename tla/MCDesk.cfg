SPECIFICATION DeskSpec
CONSTANTS
  MaxIntents = 2
  Posts = {e1, e2, e3}
  Projects = {p1}
  Materials = {m1}
  Views = {g1, g2}
  Words = {"a"}
  Suggestions = {"a"}
  Drops = {d1}
  MaxShelf = 1
  MaxThreads = 2
  MaxPosts = 2
  Polls = {l1, l2, l3}
  MaxRuns = 2
  MaxVersion = 3
  Length = 2
  Together = {1, 2}
  Refusable = {2}
  Capabilities = {"c", "d"}
  Demanded = {"c"}
  w1 = w1
  w2 = w2
  c1 = c1
  c2 = c2
  j1 = j1
  j2 = j2
  v1 = v1
  CitePlaces = {c1, c2}
  JoinedProjects <- InOrder
  Houses = {v1, v2}
  MaxLines = 1
  MaxDrivers = 1
  MaxSources = 1
  MaxWeeks = 2
  DigestItems = {w1, w2}
  DayLength = 4
  WeekLength = 2
  LastMoment = 22
  MaxOffset = 1
INVARIANTS
  DigestHonest
  SavedReadsTrue
  AnswerGrounded
  FollowUpContinues
  FeedIsThread
  PassedRunIsAccountedFor
PROPERTIES
  SubmittedIsNotLost
  PageFollowsRun
CHECK_DEADLOCK FALSE
