SPECIFICATION Spec
CONSTANTS
  r1 = r1
  r2 = r2
  r3 = r3
  NoRequest = NoRequest
  Corrupt = Corrupt
  Requests <- MC_ThreeRequests
  DbOpens = {TRUE}
  AllowFallback = FALSE
  CanCrash = TRUE
  MaxServed = 3
INVARIANTS TypeOK AnsweredIsStored FeedbackOnShownEvent AuditFollowsChange
 
SYMMETRY RequestSymmetry
CHECK_DEADLOCK FALSE
