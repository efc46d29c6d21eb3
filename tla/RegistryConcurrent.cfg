SPECIFICATION FairSpec
CONSTANTS
  m1 = m1
  m2 = m2
  m3 = m3
  s1 = s1
  s2 = s2
  p1 = p1
  p2 = p2
  NoModel = NoModel
  NoSystem = NoSystem
  Models <- MC_ThreeModels
  Systems <- MC_OneSystem
  Scores = {1, 2}
  Trainers <- MC_P1
  Dashboards <- MC_P2
  Clis <- MC_None
  FreshRoot = FALSE
  RetrainInPlace = FALSE
  CanCrash = FALSE
  MaxCandidates = 2
  KeepPrevious = 2
INVARIANTS
  TypeOK
  CandidateListsSound
  
 
CHECK_DEADLOCK FALSE
