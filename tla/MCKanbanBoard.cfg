CONSTANTS
  Pad = 1
  Gap = 3
  Initial = 3
  NoRank = NoRank
  Leads = {1, 2, 3}
  Stages = {todo, done}
  NoCard = NoCard
  Deleted = Deleted
  MaxVal = 15
  MaxLen = 2
  MaxStale = 1
SPECIFICATION Spec
SYMMETRY Symmetry
CHECK_DEADLOCK FALSE
INVARIANT
  TypeOK
PROPERTIES
  FreshMoveLandsBetween
  CreateLandsLast
