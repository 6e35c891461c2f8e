SPECIFICATION AccessSpec
CONSTANTS
  demo = demo
  admin = admin
  analyst = analyst
  p1 = p1
  p2 = p2
  Procs = {p1, p2}
  Users = {demo, admin, analyst}
  InitialAssignments <- ManagersAndAdmins
  InitialMembers <- Members
  Kinds <- AllKinds
  Assignable = {"SYSTEM_ADMIN", "PROJECT_MANAGER", "MTR_EXPERT"}
  MaxRequests = 3
  MaxMessages = 1
  ChatRequests = 2
INVARIANTS LastAdministratorKept SessionRolesCurrent ClaimedUntouched
PROPERTY SessionsStayDead
SYMMETRY Symmetry
CHECK_DEADLOCK FALSE
