SPECIFICATION Spec
CONSTANTS
  m1 = m1
  m2 = m2
  m3 = m3
  s1 = s1
  s2 = s2
  p1 = p1
  p2 = p2
  NoModel = NoModel
  NoSystem = NoSystem
  Models <- MC_TwoModels
  Systems <- MC_OneSystem
  Scores = {1, 2}
  Trainers <- MC_Both
  Dashboards <- MC_None
  Clis <- MC_None
  FreshRoot = FALSE
  RetrainInPlace = FALSE
  CanCrash = FALSE
  MaxCandidates = 2
  KeepPrevious = 2
INVARIANT RegisteredModelsListed
CHECK_DEADLOCK FALSE
