SPECIFICATION Spec
CONSTANTS
  p1 = p1
  p2 = p2
  p3 = p3
  a1 = a1
  ann = ann
  r1 = r1
  Procs = {p1, p2, p3}
  Actions = {a1}
  Users = {ann}
  Resources = {r1}
  States <- MCStates
  Owner <- OwnerAnn
  Kind <- KindRun
  Target <- TargetOne
  MaxVersion = 2
SYMMETRY Requesters
INVARIANTS OutcomeMatchesEffect
PROPERTIES ImplementsContract
