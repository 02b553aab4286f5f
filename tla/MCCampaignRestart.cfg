CONSTANTS
  Requests = {r1, r2, r3}
  Kinds = {"launch", "suspend", "restart"}
  Recipients = {m1}
  Outcomes = {"REACHED"}
  MaxCalls = 0
  Cron = Cron
  None = None
  Faults = FALSE
SPECIFICATION Spec
CHECK_DEADLOCK FALSE
PROPERTY
  SuspendedCanRestart
