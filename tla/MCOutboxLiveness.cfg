SPECIFICATION FairSpec
CONSTANTS
  Slots = {s1, s2}
  Bookings = {b1}
  Free = Free
  Workers = {w1}
  Start <- MCStart
  Lead = 1
  Cutoff = 0
  BatchSize = 2
  MaxRetries = 2
  MaxNow = 2
  MaxRows = 5
  MaxFaults = 1
PROPERTIES
  AllProcessed
CHECK_DEADLOCK FALSE
