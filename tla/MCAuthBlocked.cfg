CONSTANTS
  Requests = {r1, r2, r3}
  Kinds = {"login", "block"}
  Devices = {d1}
  Roles = {staff}
  RoleSets = {{staff}}
  None = None
  Faults = FALSE
SPECIFICATION Spec
CHECK_DEADLOCK FALSE
INVARIANT
  BlockInvalidates
