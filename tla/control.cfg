SPECIFICATION ControllerSpec
CONSTANTS
  g1 = g1
  g2 = g2
  a = a
  b = b
  None = None
  HasCompletion = FALSE
  ZeroOnSuccess = TRUE
  Goals = {g1, g2}
  Places = {a, b}
  MayRestart = TRUE
INVARIANTS FollowsCurrentGoal IdleMeansStopped CrashesOnlyIfForced
PROPERTIES SucceedsAtDestination ImplementsAction
CHECK_DEADLOCK FALSE
