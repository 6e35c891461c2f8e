SPECIFICATION FairInboxSpec
CONSTANTS
  p1 = p1
  p2 = p2
  e1 = e1
  e2 = e2
  s1 = s1
  v1 = v1
  v2 = v2
  Procs = {p1, p2}
  Events = {e1, e2}
  Subjects = {s1}
  Subject <- MCSubject
  StateVersion <- MCStateVersion
  MaxAttempts = 3
  MaxCrashes = 2
INVARIANTS ExactlyOnce RetriesComplete
PROPERTIES EventsSettle
