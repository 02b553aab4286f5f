CONSTANTS
  Requests = {r1, r2}
  Users = {u1, u2}
  Old = Old
  None = None
  MaxAttempts = 2
  MaxStalls = 1
SPECIFICATION Spec
SYMMETRY Symmetry
CHECK_DEADLOCK FALSE
INVARIANTS
  TypeOK
  HistoryNamesAssignee
  HistoryHasNoRepeats
  ConcernedAreTold
  AttachmentsStored
  LogTruthful
  SendsBounded
PROPERTIES
  AttachmentsChangeForCause
