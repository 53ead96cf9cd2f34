SPECIFICATION SensorSpec
CONSTANTS
  g1 = g1
  g2 = g2
  a = a
  b = b
  None = None
  HasCompletion = FALSE
  ZeroOnSuccess = TRUE
  Goals = {g1, g2}
  Places = {a}
  MayRestart = TRUE
PROPERTIES CancelIsServed StopReacts
CHECK_DEADLOCK FALSE
