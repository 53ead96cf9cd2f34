SPECIFICATION FairSpec
CONSTANTS
  home = home
  a = a
  b = b
  g1 = g1
  g2 = g2
  g3 = g3
  None = None
  Goals = {g1, g2, g3}
  Places <- PlacesABH
  Missions <- LongMission
  Modes = {TRUE}
  Disturbed = FALSE
  MaxMissions = 1
INVARIANTS NeverStranded
PROPERTIES MissionEnds
