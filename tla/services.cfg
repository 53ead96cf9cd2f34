SPECIFICATION Spec
CONSTANTS
  None = None
  F_Infos <- SomeInfos
  F_MaskData <- SomeMasks
  F_Cells = {"c1", "c2", "c3"}
  F_MaxChanges = 4
  S_Requests = {"g1", "g2"}
  S_Places = {0, 1, 2}
  S_MaxGoals = 2
  S_MaxTroubles = 1
  Z_Steps <- SomeSteps
  Z_MaxTime = 3
  Z_MaxDt = 1
  Z_Window = 2
  Z_MaxBackoff = 2
  Z_MaxFaults = 2
  U_Fixes = {2}
  U_Attitudes <- SomeAttitudes
  U_Offset = 1
  U_MaxTime = 3
  U_Patience = 2
  C_Layers = {"temporal", "inflation"}
  C_Sensing = {"temporal"}
  C_FirstStale = {}
  C_Periodic = TRUE
INVARIANTS
  OneUpdater
PROPERTIES
  CostmapComesBack
  OdometryFlows
  LimitSettles
  GoalsSettle
\* the bounds on time, readings, moves and settings end each machine
CHECK_DEADLOCK FALSE
