SPECIFICATION Spec
CONSTANTS
  O_Sources = {"a"}
  O_Confs <- LidarConfs
  O_MaxTime = 3
  O_MaxInFlight = 2
  D_Sources = {"m", "c"}
  D_Conf <- DecayConf
  D_Shapes <- DecayShapes
  D_Cells = {1, 2}
  D_Decay = 1
  D_Acceleration = 1
  D_MarkThresholds = {1, 2}
  D_MaxTime = 2
  D_MaxBuffered = 1
  D_MaxEvents = 2
  R_Cells = {1, 2}
  R_Certainty = 80
  R_ClearOnMax = TRUE
  R_Timeout = 1
  R_MaxTime = 2
  R_MaxReadings = 3
  V_Length = 2
  V_Bits = 3
  V_Heights = {1, 2}
  V_Unknowns = {0}
  V_Marks = {1}
  V_MaxSettings = 2
  L_W = 4
  L_Radius = 1
  L_RayRange = 3
  L_Configs <- SomeConfigs
  L_Robots = {5, 18}
  L_Scans = {{}, {3}}
  L_Updates = {2}
  L_StaticMaps <- OneMap
INVARIANTS
  
  
  ObstaclesReachMaster
PROPERTIES
  SensorsAreHeard
\* the bounds on time, readings, moves and settings end each machine
CHECK_DEADLOCK FALSE
