SPECIFICATION Spec
CONSTANTS
  B_Grids <- SmallFires
  B_Windows <- FireWindows
  B_Radii = {0, 3}
  B_Footprints = {2}
  B_MaxChanges = 2
  W_Masters <- SomeMasters
  W_Masks <- SomeMasksAt
  W_Shifts <- SomeShifts
  W_Regions <- SomeRegions
  P_Costs = {254}
  P_Origins = {0, 1}
  P_Width = 2
  P_Always = {FALSE, TRUE}
  P_MaxUpdates = 2
  N_Images <- SmallImages
  N_Connectivities = {4, 8}
  N_GroupSizes = {1, 2, 3}
  Q_Square <- SomeSquare
  Q_Corner <- SomeCorner
  T_Grids <- Fields
  T_Queries <- SomeQueries
  K_Plans <- SomePlans
  K_HalfCostmap = 120
  K_Checkers <- SomeCheckers
  K_Headings = {100}
  K_Limits = {0, 25}
  K_Allowance = 30
  K_Patience = 2
  K_MaxCycles = 170
  K_MaxEvents = 1
  X_Grids <- SomeWalls
  X_Footprint <- Wedge
  X_Starts <- SomeStands
  X_Asked <- SomeStands
  X_Ahead = 2
  X_Carrots = {1, 2}
  X_MaxChanges = 3
  Y_Positions = {0, 1, 3}
  Y_Missions <- ShownMissions
  Y_Tolerance = 1
  Y_MaxMissions = 2
  Y_MaxMoves = 3
  G_Places = {0, 2}
  G_Heights = {1, 3}
  G_Ground = 1
  G_Home <- DroneHome
  G_Default <- DroneDefault
  G_Goals <- DroneGoals
  G_Tasks <- DroneTasks
  G_MaxMoves = 1
  G_MaxOrigins = 1
INVARIANTS
  InflationCovers
  PlacesKeepCosts
  SmallGroupsRemoved
  LinesAgree
  SearchIsSound
  BridgeKeepsPlaces
PROPERTIES
  ReadersSeePublished
  TrackingIsBounded
  DisplayFollows
\* the bounds on time, readings, moves and settings end each machine
CHECK_DEADLOCK FALSE
