SPECIFICATION Spec
CONSTANTS
  DayLength = 8
  Week = 2
  Inputs <- MCInputs
INVARIANTS
  TypeOK
  WithinRules
  SlotsDisjoint
  BufferKept
  MatchesReference
CHECK_DEADLOCK FALSE
