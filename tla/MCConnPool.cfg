SPECIFICATION FairSpec
CONSTANTS
  Procs = {p1, p2, p3, p4}
  Conns = {c1, c2}
  Rows = {r1}
  Free = Free
  NoRow = NoRow
INVARIANTS TypeOK StallNeedsCancel
PROPERTY RequestsEnd
