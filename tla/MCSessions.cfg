SPECIFICATION Spec
CONSTANTS
  Users = {u1}
  Clients = {c1}
  Procs = {p1, p2, p3}
  Tokens = {t1, t2, t3}
  NoToken = NoToken
SYMMETRY Symmetry
INVARIANTS TypeOK NoLockout LogoutFinal
