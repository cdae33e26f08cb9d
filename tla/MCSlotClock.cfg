SPECIFICATION Spec
CONSTANTS
  DayLength = 8
  Week = 2
  Inputs <- ChangingInputs
INVARIANTS
  LocalWorkingHours
CHECK_DEADLOCK FALSE
