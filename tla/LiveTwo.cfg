SPECIFICATION Spec
CONSTANTS
  o1 = o1
  e1 = e1
  e2 = e2
  s1 = s1
  s2 = s2
  s3 = s3
  None = None
  Operators <- MC_NoActors
  Executors <- MC_TwoAnalyses
  Services <- MC_TwoServices
  Allowed <- MC_FirstService
  ScaleTo = 2
  Replicas0 = {1}
  RealModes = {TRUE}
  DryRuns = {FALSE}
  ActionOf <- MC_ActionOf
  AutoExecution = TRUE
  HealthOverride = FALSE
INVARIANTS ExecutedAtMostOnce ExecutedOnVerdict EventIsTrue
SYMMETRY AnalysisSymmetry
CHECK_DEADLOCK FALSE
