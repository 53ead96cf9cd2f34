SPECIFICATION FairSpec
CONSTANTS
  N = 2
  Commands = {"startup", "reset", "shutdown", "pause", "resume"}
  Troubled = TRUE
  Respawn = TRUE
  MaxCrashes = 2
INVARIANTS TypeOK ActiveIsWatched
PROPERTIES InOrder FailureNoticed CommandEnds
CHECK_DEADLOCK FALSE
