SPECIFICATION Spec
CONSTANTS
  Slots = {s1, s2}
  Bookings = {b1}
  Free = Free
  Workers = {w1, w2}
  Start <- MCStart
  Lead = 1
  Cutoff = 0
  BatchSize = 2
  MaxRetries = 2
  MaxNow = 1
  MaxRows = 6
  MaxFaults = 1
SYMMETRY Symmetry
INVARIANTS
  TypeOK
  RemindersCurrent
  RemindersQueued
  MarksTruthful
CHECK_DEADLOCK FALSE
PROPERTIES
  StatusFinal
