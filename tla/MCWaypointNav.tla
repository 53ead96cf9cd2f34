--------------------------- MODULE MCWaypointNav ---------------------------
(* Small instances of WaypointNav for TLC. *)
EXTENDS WaypointNav, TLC

CONSTANTS home, a, b, g1, g2, g3

PlacesABH == {home, a, b}

PursuitMissions == {<<>>, <<a>>, <<a, b>>, <<b, a, b>>}
LongMission == {<<a, b, a>>}
ServerMissions == {<<>>, <<a>>, <<a, b>>}

TwoGoalSymmetry == Permutations({g1, g2})
=============================================================================
