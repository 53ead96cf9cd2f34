SPECIFICATION FairSpec
CONSTANTS
  g1 = g1
  g2 = g2
  g3 = g3
  None = None
  Goals = {g1, g2, g3}
  HasCompletion = TRUE
INVARIANTS SlotsHoldActiveGoals PreemptMeansPending
PROPERTIES DeactivationEnds
