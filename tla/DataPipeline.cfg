SPECIFICATION Spec
CONSTANTS
  r1 = r1
  r2 = r2
  n1 = n1
  fe = fe
  None = None
  Runs <- MC_Runs
  Extended <- MC_Extended
  Services <- MC_Services
  Frontend = fe
  FaultRows <- MC_FaultRows
  Replicas0 = {2}
  Coverages <- MC_Coverages
  PodKills = 1
  MaxFailures = 1
  MaxClock = 2
  SplitTag <- MC_SplitTag
  Modes = {"all", "collect-export", "rebuild-only"}
  Cleans = {TRUE}
  MaxBatches = 2
SYMMETRY MC_Symmetry
INVARIANTS
  TypeOK
  CompletedRunRestores
  
  LabelsTellTheTruth
  GraphsAreCurrent
  SplitsCoverCatalog
  SelectedRunsImported
CHECK_DEADLOCK FALSE
