CONSTANTS
  Requests = {r1, r2, r3}
  Slots = {s1}
  Customers = {c1}
  Members = {m1}
  None = None
  Faults = {"lost"}
SPECIFICATION Spec
CHECK_DEADLOCK FALSE
PROPERTIES
  RollbackOnlyIfUnpaid
