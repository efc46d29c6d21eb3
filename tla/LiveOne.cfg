SPECIFICATION FairSpec
CONSTANTS
  o1 = o1
  e1 = e1
  e2 = e2
  s1 = s1
  s2 = s2
  s3 = s3
  None = None
  Operators <- MC_OneOperator
  Executors <- MC_OneAnalysis
  Services <- MC_ThreeServices
  Allowed <- MC_TwoServices
  ScaleTo = 2
  Replicas0 = {0, 1}
  RealModes = {TRUE}
  DryRuns = {FALSE}
  ActionOf <- MC_ActionOf
  AutoExecution = TRUE
  HealthOverride = TRUE
INVARIANTS TypeOK ScaledToZeroIsIncident
 
CHECK_DEADLOCK FALSE
