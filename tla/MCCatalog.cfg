SPECIFICATION Spec
CONSTANTS
  Users = {u1, u2}
  Orgs = {g1, g2}
  Types = {t1, t2, t3}
  OrgSlugs = {a, b}
  Slugs = {s1, s2, s3}
  Plans = {"free", "pro"}
  Procs = {p1, p2}
  Limit = 1
  MaxRequests = 4
  NoOrg = NoOrg
  NoType = NoType
SYMMETRY Symmetry
INVARIANTS TypeOK TypesBounded MeetTypesLinked
PROPERTIES OnlyOwnerWrites
CHECK_DEADLOCK FALSE
