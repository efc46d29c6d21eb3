CONSTANTS
  a1 = a1
  r1 = r1
  w1 = w1
  Dirs = {a1, r1}
  TaskOf <- MC_TaskOf
  Kinds <- MC_Kinds
  ModelKinds = {"auto"}
  Scores = {0, 1, 2}
  Epochs = 5
  Patience = 2
  Devices = {"cpu"}
  MaxAttempts = 1
  Flows = {w1}
  FlowKinds = {"dag", "script"}
  FlowDir <- MC_FlowDir
  MaxRestarts = 1
SPECIFICATION Spec
INVARIANT SavedModelIsBest
CHECK_DEADLOCK FALSE
