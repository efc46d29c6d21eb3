SPECIFICATION Spec
CONSTANTS
  None = None
  u1 = u1
  p1 = p1
  p2 = p2
  r1 = r1
  r2 = r2
  r3 = r3
  r4 = r4
  Users <- MC_OneUser
  Past = {r1}
  Requests <- MC_FourRequests
  Roles = {"admin", "viewer"}
  Passwords <- MC_TwoPasswords
  MaxServed = 2
INVARIANTS TypeOK ChangeEndsSessions ChangeIsSeen 
SYMMETRY SessionSymmetry
CHECK_DEADLOCK FALSE
