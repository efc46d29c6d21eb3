SPECIFICATION Spec
CONSTANTS
  m1 = m1
  m2 = m2
  m3 = m3
  s1 = s1
  s2 = s2
  p1 = p1
  p2 = p2
  NoModel = NoModel
  NoSystem = NoSystem
  Models <- MC_TwoModels
  Systems <- MC_TwoSystems
  Scores = {1}
  Trainers <- MC_P1
  Dashboards <- MC_None
  Clis <- MC_P1
  FreshRoot = FALSE
  RetrainInPlace = FALSE
  CanCrash = TRUE
  MaxCandidates = 1
  KeepPrevious = 2
INVARIANT RegisteredModelsListed
 
SYMMETRY NameSymmetry
CHECK_DEADLOCK FALSE
