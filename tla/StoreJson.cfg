SPECIFICATION Spec
CONSTANTS
  r1 = r1
  r2 = r2
  r3 = r3
  NoRequest = NoRequest
  Corrupt = Corrupt
  Requests <- MC_ThreeRequests
  DbOpens = {TRUE, FALSE}
  AllowFallback = TRUE
  CanCrash = TRUE
  MaxServed = 2
INVARIANTS  IdsDistinct
SYMMETRY RequestSymmetry
CHECK_DEADLOCK FALSE
