SPECIFICATION Spec
CONSTANTS
  Bookings = {b1, b2, b3}
  Limit = 1
  MaxMonth = 1
  MaxMoves = 0
  MaxAmiss = 0
  Faults = {}
SYMMETRY Symmetry
INVARIANTS
  MonthlyLinksWithinPlan
CHECK_DEADLOCK FALSE
