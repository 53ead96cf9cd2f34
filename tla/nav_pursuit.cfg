SPECIFICATION FairSpec
CONSTANTS
  home = home
  a = a
  b = b
  g1 = g1
  g2 = g2
  g3 = g3
  None = None
  Goals = {g1}
  Places <- PlacesABH
  Missions <- PursuitMissions
  Modes = {FALSE}
  Disturbed = FALSE
  MaxMissions = 3
INVARIANTS NothingSkipped
PROPERTIES MissionEnds
