CONSTANTS
  Requests = {r1, r2}
  Kinds = {"launch", "suspend", "restart", "update", "remove"}
  Recipients = {m1, m2}
  Outcomes = {"PENDING"}
  MaxCalls = 0
  Cron = Cron
  None = None
  Faults = TRUE
SPECIFICATION Spec
CHECK_DEADLOCK FALSE
PROPERTY
  RunningEnds
