CONSTANTS
  Requests = {r1, r2, r3}
  Slots = {s1, s2}
  Customers = {c1}
  Members = {m1, m2}
  None = None
  Faults = {"outage", "db", "redis", "crash"}
SPECIFICATION Spec
CHECK_DEADLOCK FALSE
INVARIANTS
  TypeOK
  OwnershipVerified
  RecordsTruthful
  ChargedHasBooking
  FailedLeavesNothing
  
PROPERTIES
  ImplementsLedger
  LockRemovedWithCause
  LostHoldStaysLost
  CheckoutAnswered
  LockEventuallyFree
