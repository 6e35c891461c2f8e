---------------------------- MODULE MCAccessAdmin ----------------------------
(* Small instances of AccessAdmin.  The accounts are demo personas: "demo" is  *)
(* administrator and manager, "admin" an administrator, "analyst" a manager or *)
(* analyst as the run needs it.                                                *)
EXTENDS AccessAdmin, TLC

CONSTANTS demo, admin, analyst, p1, p2

Seeded(u, r) == [user |-> u, role |-> r, since |-> 1, temporary |-> FALSE]

ManagersAndAdmins ==
  {Seeded(demo, "SYSTEM_ADMIN"), Seeded(demo, "PROJECT_MANAGER"),
   Seeded(admin, "SYSTEM_ADMIN"), Seeded(analyst, "PROJECT_MANAGER")}

\* The personas' own roles, as they are seeded.
Personas ==
  {Seeded(demo, "SYSTEM_ADMIN"), Seeded(demo, "PROJECT_MANAGER"),
   Seeded(admin, "SYSTEM_ADMIN"), Seeded(analyst, "MTR_ANALYST")}

Symmetry == Permutations({p1, p2})

Members == {demo, analyst}
AdministrationKinds == AllKinds \ {"login"}
===============================================================================
