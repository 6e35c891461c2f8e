SPECIFICATION Spec
CONSTANTS
  demo = demo
  admin = admin
  analyst = analyst
  p1 = p1
  p2 = p2
  Procs = {p1, p2}
  Users = {demo, admin, analyst}
  InitialAssignments <- Personas
  InitialMembers <- Members
  Kinds <- AdministrationKinds
  Assignable = {"AUDITOR", "MTR_ANALYST"}
  MaxRequests = 3
INVARIANT SeparationOfDuties
CHECK_DEADLOCK FALSE
