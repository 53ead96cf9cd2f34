--------------------------- MODULE MissionDisplay ---------------------------
(***************************************************************************)
(* What the waypoint node shows of a mission: a marker and a label for each *)
(* waypoint, a line through them with arrows between them, and the path the *)
(* robot has gone.  A viewer keeps a marker until one with its id replaces  *)
(* it or all are deleted.  The robot and the waypoints are on a line.       *)
(***************************************************************************)
EXTENDS Integers, Sequences

CONSTANTS Positions,   \* of the robot, in units of the least distance of two path points
          Missions,    \* sequences of positions
          Tolerance,   \* goal_tolerance_
          MaxMissions, \* bound on the missions published
          MaxMoves     \* bound on the odometry

VARIABLES waypoints,   \* waypoints_
          index,       \* current_goal_index_
          executing,   \* the state machine is in EXECUTING_PATH
          completed,   \* ... or in COMPLETED
          pose,        \* current_pose_
          path,        \* actual_path_
          shown,       \* the markers: id -> [at, color]
          line,        \* the line strip and the arrows
          published,   \* the last path published
          replaced,    \* the most waypoints shown since all were deleted
          drawn,       \* the last mission shown that had waypoints
          longest,     \* the most waypoints ever shown
          visited,     \* the positions since the path was cleared
          missions, moves

vars == <<waypoints, index, executing, completed, pose, path, shown, line, published, replaced, drawn,
          longest, visited, missions, moves>>
lines == <<drawn, longest>>
bounds == <<missions, moves>>

Dist(a, b) == IF a < b THEN b - a ELSE a - b

Init ==
  /\ waypoints = <<>> /\ index = 0 /\ executing = FALSE /\ completed = FALSE
  /\ pose \in Positions /\ path = <<>> /\ shown = <<>> /\ line = <<>> /\ published = <<>>
  /\ replaced = 0 /\ drawn = <<>> /\ longest = 0 /\ visited = {pose} /\ missions = 0 /\ moves = 0

\* goalCallback(): the state machine stays where it is
GoalCallback(m) ==
  /\ missions < MaxMissions /\ missions' = missions + 1
  /\ waypoints' = m /\ index' = 0
  /\ UNCHANGED <<executing, completed, pose, path, shown, line, published, replaced, lines, visited, moves>>

OdomCallback(p) ==
  /\ moves < MaxMoves /\ moves' = moves + 1
  /\ pose' = p /\ visited' = visited \union {p}
  /\ UNCHANGED <<waypoints, index, executing, completed, path, shown, line, published, replaced, lines, missions>>

-----------------------------------------------------------------------------
(* The markers of the mission ws, on top of what is shown.  An index past   *)
(* the last waypoint colours none.                                          *)
OnTop(new, old) == new \o SubSeq(old, Len(new) + 1, Len(old))

WaypointMarkers(ws, i) ==
  [k \in 1 .. Len(ws) |-> [at |-> ws[k], color |-> IF k = i + 1 THEN "green" ELSE "blue"]]

PublishWaypointMarkers(ws, i, before) ==
  IF ws = <<>> THEN <<>> ELSE OnTop(WaypointMarkers(ws, i), before)

Arrows(ws) == [k \in 1 .. Len(ws) - 1 |-> <<ws[k], ws[k + 1]>>]

\* An empty mission leaves the line of the last one.  An arrow leads from
\* each waypoint to the next.
PublishPathMarkers(ws, under, before) ==
  IF ws = <<>> THEN before
  ELSE [points |-> ws, color |-> IF under THEN "orange" ELSE "gray",
        arrows |-> OnTop(Arrows(ws), IF before = <<>> THEN <<>> ELSE before.arrows)]

PublishActualPath(p, before) ==
  IF before = <<>> \/ Dist(p, before[Len(before)]) > 1 THEN Append(before, p) ELSE before

Longer(n) == IF Len(waypoints') > n THEN Len(waypoints') ELSE n

Publish ==
  /\ shown' = PublishWaypointMarkers(waypoints', index', shown)
  /\ line' = PublishPathMarkers(waypoints', FALSE, line)
  /\ published' = path'
  /\ replaced' = IF waypoints' = <<>> THEN 0 ELSE Longer(replaced)
  /\ drawn' = IF waypoints' = <<>> THEN drawn ELSE waypoints'
  /\ longest' = Longer(longest)

IsGoalReached == index >= Len(waypoints) \/ Dist(pose, waypoints[index + 1]) <= Tolerance

ResetKeepsPath ==  \* faulty: the path is not cleared
  /\ waypoints' = <<>> /\ index' = 0
  /\ path' = PublishActualPath(pose, path) /\ visited' = {pose}

ResetNavigator ==
  /\ waypoints' = <<>> /\ index' = 0
  /\ path' = PublishActualPath(pose, <<>>) /\ visited' = {pose}

\* A turn of the control loop: nav_state_ is never EXECUTING, the line stays
\* gray.
Tick ==
  /\ IF completed THEN ResetNavigator /\ completed' = FALSE /\ UNCHANGED executing
     ELSE /\ path' = PublishActualPath(pose, path)
          /\ IF executing /\ IsGoalReached
             THEN /\ index' = index + 1
                  /\ completed' = (index + 1 >= Len(waypoints)) /\ executing' = ~completed'
             ELSE /\ executing' = (executing \/ waypoints # <<>>)
                  /\ UNCHANGED <<index, completed>>
          /\ UNCHANGED <<waypoints, visited>>
  /\ Publish
  /\ UNCHANGED <<pose, bounds>>

Next ==
  \/ Tick
  \/ \E m \in Missions : GoalCallback(m)
  \/ \E p \in Positions : OdomCallback(p)

Spec == Init /\ [][Next]_vars

-----------------------------------------------------------------------------
(* After every turn the waypoints' markers are those of the mission, and   *)
(* more than it has waypoints only when a longer one has been shown since  *)
(* the node last had none: those of a mission go when it is completed.     *)
OnlyLongerLeftStep ==
  shown' # shown =>
    /\ SubSeq(shown', 1, Len(waypoints')) = WaypointMarkers(waypoints', index')
    /\ Len(shown') <= replaced'

(* The line and the arrows are never deleted: after a mission is completed *)
(* they go on showing it, until the next one is shown in their place, and  *)
(* arrows are left over only if a longer mission was shown before, however *)
(* long ago it was completed.                                              *)
LineStays ==
  IF drawn = <<>> THEN line = <<>>
  ELSE /\ line.points = drawn /\ line.color = "gray"
       /\ SubSeq(line.arrows, 1, Len(drawn) - 1) = Arrows(drawn)
       /\ Len(line.arrows) < longest

(* The path published is one the robot has gone since the last mission was *)
(* completed, without two neighbouring points in one place, and it ends    *)
(* where the robot is.                                                     *)
PathIsGoneStep ==
  published' # published =>
    /\ \A k \in DOMAIN published' : published'[k] \in visited'
    /\ \A k \in 2 .. Len(published') : Dist(published'[k], published'[k - 1]) > 1
    /\ Dist(published'[Len(published')], pose') <= 1
=============================================================================
