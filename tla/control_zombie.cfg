SPECIFICATION ControllerSpec
CONSTANTS
  g1 = g1
  g2 = g2
  a = a
  b = b
  None = None
  HasCompletion = FALSE
  ZeroOnSuccess = TRUE
  Goals = {g1, g2}
  Places = {a}
  MayRestart = FALSE
PROPERTIES DrivesForGoal
CHECK_DEADLOCK FALSE
