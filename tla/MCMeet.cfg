SPECIFICATION Spec
CONSTANTS
  Bookings = {b1, b2, b3}
  Limit = 1
  MaxMonth = 1
  MaxMoves = 2
  MaxAmiss = 1
  Faults = {"crash", "dbError", "compensationError", "lostReply", "callFailed", "recruiterCancel"}
SYMMETRY Symmetry
INVARIANTS
  TypeOK
  ExcessGivenBack
  AnswersTruthful
  NoOrphanEvents
  EventFollowsMove
  OnlyFirstReminderStale
CHECK_DEADLOCK FALSE
