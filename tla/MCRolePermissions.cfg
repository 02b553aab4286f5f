CONSTANTS
  Requests = {r1, r2, r3}
  Kinds = {"guard", "me", "create", "update", "remove"}
  Seeded = {i1}
  Keys = {k1, k2}
  Spellings = {c1, c2}
  Perms = {p1}
  None = None
  Faults = TRUE
SPECIFICATION Spec
SYMMETRY Symmetry
CHECK_DEADLOCK FALSE
INVARIANTS
  TypeOK
  CacheCurrent
PROPERTIES
  GuardDecidesRight
