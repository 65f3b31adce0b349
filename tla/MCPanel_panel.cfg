\* Two accounts, a case, two requests at once, and reset-password for either account.
SPECIFICATION Spec
CONSTANTS
  u1 = u1
  u2 = u2
  c1 = c1
  r1 = r1
  r2 = r2
  None = None
  User = {u1, u2}
  Case = {c1}
  Request = {r1, r2}
  Resets = {u1, u2}
  Founder = u1
SYMMETRY Symmetry
INVARIANTS
  AlwaysAnAdmin
  SessionsInForce
PROPERTIES
  RemovedIsOut
  
CHECK_DEADLOCK FALSE
