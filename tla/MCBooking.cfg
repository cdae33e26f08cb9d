SPECIFICATION FairSpec
CONSTANTS
  s1 = s1
  s2 = s2
  s3 = s3
  Slots = {s1, s2, s3}
  Bookings = {b1, b2}
  Procs = {p1, p2}
  Start <- MCStart
  Cutoff = 1
  MaxNow = 2
  Nobody = Nobody
  NoSlot = NoSlot
  NoBooking = NoBooking
INVARIANTS
  TypeOK
  SlotFlagTruthful
  RememberedSlotCurrent
  NoDeadlock
CHECK_DEADLOCK FALSE
PROPERTIES
  CutoffFreezesBooking
  ImplementsLedger
  RequestsEnd
