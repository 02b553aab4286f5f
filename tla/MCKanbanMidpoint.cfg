CONSTANTS
  Pad = 2
  Gap = 2
  Initial = 2
  NoRank = NoRank
  Leads = {1, 2, 3}
  Stages = {todo}
  NoCard = NoCard
  Deleted = Deleted
  MaxVal = 65
  MaxLen = 3
  MaxStale = 3
SPECIFICATION Spec
CHECK_DEADLOCK FALSE
PROPERTY
  MidpointStrictlyBetween
