SPECIFICATION Spec
CONSTANTS
  home = home
  a = a
  b = b
  g1 = g1
  g2 = g2
  g3 = g3
  None = None
  Goals = {g1, g2}
  Places <- PlacesABH
  Missions <- ServerMissions
  Modes = {TRUE, FALSE}
  Disturbed = TRUE
  MaxMissions = 2
SYMMETRY TwoGoalSymmetry
INVARIANTS TypeOK IndexInRange SlotsHoldActiveGoals
