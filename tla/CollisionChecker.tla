-------------------------- MODULE CollisionChecker --------------------------
(***************************************************************************)
(* Who looks for collisions: the pure pursuit controller, along the way of *)
(* its command in the local costmap, and the topic collision checker, at   *)
(* the poses it is asked for, with what its two subscribers heard.  A pose *)
(* is a record [x, y, yaw]: a cell and a number of quarter turns.          *)
(***************************************************************************)
EXTENDS Raster
LOCAL INSTANCE FiniteSetsExt

CONSTANTS Grids,      \* local costmaps: functions from cells to costs
          Footprint,  \* the footprint of the robot, a sequence of corners
          Starts,     \* poses the robot starts at
          Asked,      \* poses the topic checker is asked for
          Ahead,      \* how many poses max_allowed_time_to_collision allows
          Carrots,    \* how many cells the carrot is away
          MaxChanges  \* bound on the moves of the robot and of its obstacles

VARIABLES grid,           \* the local costmap
          tracksUnknown,  \* track_unknown_space
          pose,           \* of the robot
          changes,
          heard,          \* footprint_ of the subscriber, <<>> before the first
          mapHeard,       \* the costmap of the subscriber, <<>> before the first
          checkerMap,     \* costmap_ of the checker, <<>> before the first
          own,            \* footprint_ of the checker, in the frame of the robot
          verdict         \* the pose that was last asked for, if it was free

vars == <<grid, tracksUnknown, pose, changes, heard, mapHeard, checkerMap, own, verdict>>

LethalObstacle == 254
NoInformation == 255

Cos(yaw) == <<1, 0, -1, 0>>[1 + (yaw % 4)]
Sin(yaw) == <<0, 1, 0, -1>>[1 + (yaw % 4)]

TransformFootprint(x, y, yaw, points) ==
  [i \in DOMAIN points |-> <<x + points[i][1] * Cos(yaw) - points[i][2] * Sin(yaw),
                             y + points[i][1] * Sin(yaw) + points[i][2] * Cos(yaw)>>]

Side(p, q) == LET line == LineCells(p[1], p[2], q[1], q[2])
              IN {line[i] : i \in DOMAIN line}

LineCost(map, p, q) ==
  LET costs == {map[c] : c \in Side(p, q)}
  IN IF LethalObstacle \in costs THEN LethalObstacle ELSE Max(costs)

OpenFootprintCost(map, points) ==  \* faulty: the last corner is not connected to the first
  IF \E i \in DOMAIN points : points[i] \notin DOMAIN map THEN LethalObstacle
  ELSE Max({LineCost(map, points[i], points[i + 1]) : i \in 1 .. Len(points) - 1})

\* The sides are looked at in order, until the highest cost so far is lethal:
\* an unknown cell of an earlier side is higher.
FootprintCost(map, points) ==
  LET Upto(i) == Max({LineCost(map, points[k], points[k + 1]) : k \in 1 .. i})
      last == Len(points)
      closing == LineCost(map, points[1], points[last])
  IN IF \E i \in DOMAIN points : points[i] \notin DOMAIN map THEN LethalObstacle
     ELSE IF \E i \in 1 .. last - 1 : Upto(i) = LethalObstacle THEN LethalObstacle
     ELSE Max({closing, Upto(last - 1)})

FootprintCostAtPose(map, p, points) ==
  FootprintCost(map, TransformFootprint(p.x, p.y, p.yaw, points))

OnMap(map, p) == <<p.x, p.y>> \in DOMAIN map

Init ==
  /\ grid \in Grids /\ tracksUnknown \in BOOLEAN /\ pose \in Starts /\ changes = 0
  /\ heard = <<>> /\ mapHeard = <<>> /\ checkerMap = <<>> /\ own = <<>> /\ verdict = <<>>

checker == <<heard, mapHeard, checkerMap, own, verdict>>

Change == changes < MaxChanges /\ changes' = changes + 1

\* an update of the local costmap
UpdateMap(g) ==
  /\ Change /\ g # grid /\ grid' = g
  /\ UNCHANGED <<tracksUnknown, pose, checker>>

-----------------------------------------------------------------------------
(* The pure pursuit controller.                                             *)

InCollision(p) ==
  LET cost == FootprintCostAtPose(grid, p, Footprint)
  IN /\ OnMap(grid, p)
     /\ cost >= LethalObstacle
     /\ ~(cost = NoInformation /\ tracksUnknown)

\* k steps of one cell along the heading, or of one turn where the robot is
Projected(p, linear, angular, k) ==
  [x |-> p.x + k * linear * Cos(p.yaw), y |-> p.y + k * linear * Sin(p.yaw),
   yaw |-> (p.yaw + k * angular) % 4]

\* Past the carrot nothing is checked; a command that does not move the
\* robot is not followed at all.
IsCollisionImminent(linear, angular, carrot) ==
  \/ InCollision(pose)
  \/ /\ linear # 0 \/ angular # 0
     /\ \E k \in 1 .. Ahead : /\ k * AbsOf(linear) <= carrot
                              /\ InCollision(Projected(pose, linear, angular, k))

\* A command is refused, or followed for a step.
Command(linear, angular, carrot) ==
  /\ Change
  /\ ~IsCollisionImminent(linear, angular, carrot)
  /\ pose' = Projected(pose, linear, angular, 1)
  /\ UNCHANGED <<grid, tracksUnknown, checker>>

-----------------------------------------------------------------------------
(* The topic collision checker.                                             *)

\* The costmap node publishes the footprint where the robot is.
FootprintCallback ==
  /\ heard' = <<[at |-> pose, points |-> TransformFootprint(pose.x, pose.y, pose.yaw, Footprint)]>>
  /\ UNCHANGED <<grid, tracksUnknown, pose, changes, mapHeard, checkerMap, own, verdict>>

CostmapCallback ==
  /\ mapHeard' = <<grid>>
  /\ UNCHANGED <<grid, tracksUnknown, pose, changes, heard, checkerMap, own, verdict>>

\* back to the frame of the robot, by its pose at the time of the message
GetFootprintInRobotFrame(message) ==
  TransformFootprint(0, 0, -message.at.yaw,
    TransformFootprint(-message.at.x, -message.at.y, 0, message.points))

\* getFootprint(): when there is no pose at the time of the message, what is
\* kept is the footprint as it was heard.
GetFootprint(message, tfOk) == IF tfOk THEN GetFootprintInRobotFrame(message) ELSE message.points

\* scorePose() below the lethal cost: a pose off the map, or one without a
\* costmap or a footprint, is not free.  Who does not fetch them again was
\* told that the pose before was free.
IsCollisionFree(p, fetch, tfOk) ==
  /\ fetch \/ verdict # <<>>
  /\ checkerMap' = (IF fetch /\ mapHeard # <<>> THEN mapHeard ELSE checkerMap)
  /\ LET mapped == ~fetch \/ mapHeard # <<>>
         placed == mapped /\ OnMap(checkerMap'[1], p)
         shaped == placed /\ (fetch => heard # <<>> /\ tfOk)
     IN /\ own' = (IF placed /\ fetch /\ heard # <<>> THEN <<GetFootprint(heard[1], tfOk)>> ELSE own)
        /\ verdict' = (IF /\ shaped
                          /\ FootprintCostAtPose(checkerMap'[1], p, own'[1]) < LethalObstacle
                       THEN <<p>> ELSE <<>>)
  /\ UNCHANGED <<grid, tracksUnknown, pose, changes, heard, mapHeard>>

Next ==
  \/ \E g \in Grids : UpdateMap(g)
  \/ \E carrot \in Carrots : \/ \E linear \in {-1, 1} : Command(linear, 0, carrot)
                             \/ \E angular \in {-1, 1} : Command(0, angular, carrot)
  \/ FootprintCallback \/ CostmapCallback
  \/ \E p \in Asked, fetch, tfOk \in BOOLEAN : IsCollisionFree(p, fetch, tfOk)

Spec == Init /\ [][Next]_vars

-----------------------------------------------------------------------------
\* the sides of the footprint of the robot at a pose; the closing one goes from
\* the first corner to the last, a way on which a line may take other cells
SidesAt(p) ==
  LET points == TransformFootprint(p.x, p.y, p.yaw, Footprint)
  IN {Side(points[i], points[i + 1]) : i \in 1 .. Len(points) - 1}
       \union {Side(points[1], points[Len(points)])}

HitsIn(map, p, cost) == {s \in SidesAt(p) : \E c \in s \cap DOMAIN map : map[c] = cost}

\* an obstacle at one side, and unknown space at another
Hidden(p) ==
  /\ tracksUnknown
  /\ \E s \in HitsIn(grid, p, LethalObstacle), u \in HitsIn(grid, p, NoInformation) : s # u

(* The robot never drives onto an obstacle it can see: only one that another *)
(* side's unknown space hides, or when it leaves the map.                    *)
DriveIsClearStep ==
  pose' # pose => HitsIn(grid, pose', LethalObstacle) = {} \/ Hidden(pose') \/ ~OnMap(grid, pose')

(* A pose is free only if the footprint of the robot, wherever it was when   *)
(* it was published, is neither on an obstacle nor in unknown space there.   *)
FreeIsFree ==
  verdict # <<>> => /\ UNION SidesAt(verdict[1]) \subseteq DOMAIN checkerMap[1]
                    /\ HitsIn(checkerMap[1], verdict[1], LethalObstacle) = {}
                    /\ HitsIn(checkerMap[1], verdict[1], NoInformation) = {}
=============================================================================
