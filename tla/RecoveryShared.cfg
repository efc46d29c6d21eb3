SPECIFICATION RecoverySpec
CONSTANTS
  o1 = o1
  o2 = o2
  e1 = e1
  e2 = e2
  s1 = s1
  s2 = s2
  Operators <- MC_TwoOperators
  Executors <- MC_OneExecutor
  Services <- MC_TwoServices
  Allowed <- MC_OneService
  ScaleTo = 2
  Replicas0 = {0, 2}
  RealModes = {TRUE, FALSE}
  DryRuns = {TRUE, FALSE}
INVARIANTS RecordedIsDone 
SYMMETRY ActorSymmetry
CHECK_DEADLOCK FALSE
