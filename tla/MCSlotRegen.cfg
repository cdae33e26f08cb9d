SPECIFICATION Spec
CONSTANTS
  DayLength = 2
  MaxHorizon = 2
  Types = {t1, t2}
  Bookings = {b1, b2}
  Past = {b2}
  Procs = {p1, p2}
  Kinds <- MCKinds
  Inputs <- MCInputs
  FirstKinds <- MCFirstKinds
  FirstInput <- MCFirstInput
  MaxRequests = 2
  Nobody = Nobody
SYMMETRY Symmetry
INVARIANTS TypeOK RulesValid SettledSlots
PROPERTIES ReferencedSlotsKept
CHECK_DEADLOCK FALSE
