CONSTANTS
  Requests = {r1, r2, r3, r4}
  Kinds = {"login", "refresh", "logout", "block", "unblock", "change"}
  Devices = {d1, d2}
  Roles = {staff, manager}
  RoleSets = {{staff}, {manager}}
  None = None
  Faults = TRUE
SPECIFICATION Spec
CHECK_DEADLOCK FALSE
SYMMETRY Symmetry
INVARIANTS
  TypeOK
  SessionEndsOnce
  BlockReachesSessions
  RolesCurrent
  StoresAgree
