---------------------------- MODULE PathTracking ----------------------------
(***************************************************************************)
(* The regulated pure pursuit controller with the goal and progress        *)
(* checkers that judge it, in the cycles of the controller server.  The    *)
(* robot and the plan are on a line: lengths in units of 12.5 mm, headings *)
(* (0 along the line) in 1/50 rad,  speeds per cycle of 0.1 s.  The        *)
(* controller plans its own path in the local costmap to the last free     *)
(* pose of the global plan, and follows that one.                          *)
(***************************************************************************)
EXTENDS Integers, Sequences
LOCAL INSTANCE FiniteSetsExt

CONSTANTS Plans,         \* global plans: [from, to, yaw]
          HalfCostmap,   \* half the size of the local costmap
          Checkers,      \* a goal checker ("simple", "stopped", "position") and a
                         \* progress checker ("simple", "pose")
          Headings,      \* of the robot at the start
          Limits,        \* speed limits, in percent
          Allowance,     \* movement_time_allowance, in cycles
          Patience,      \* failure_tolerance, in cycles
          MaxCycles,     \* in which a plan is followed, or given up
          MaxEvents      \* bound on new plans, limits and parameters

VARIABLES plan,          \* global_plan_
          x, heading,    \* the pose of the robot
          speed, spin,   \* the last command
          goalKind, checkXY,
          progressKind, baseline, still,  \* baseline_pose_, cycles since baseline_time_
          base, desired, \* base_desired_linear_vel_, desired_linear_vel_
          asked,         \* the speed limit asked for since the base speed was set
          clearance,     \* how far the obstacles let the robot go at full speed, in percent
          rounding,      \* how distance / resolution is rounded, for distances that divide
          failing,       \* cycles without a valid command
          mode,          \* how the last command came about
          status,        \* "running", "reached", "no progress" or "failed"
          cycles,        \* since the last event
          events

vars == <<plan, x, heading, speed, spin, goalKind, checkXY, progressKind, baseline, still, base,
          desired, asked, clearance, rounding, failing, mode, status, cycles, events>>
robot == <<x, heading, speed, spin>>
checks == <<checkXY, baseline, still>>
limits == <<base, desired, asked>>

Resolution == 4
GoalTolerance == 20   \* xy_goal_tolerance
YawTolerance == 10    \* yaw_goal_tolerance
Lookahead == 48      \* lookahead_dist
ApproachDist == 48   \* approach_velocity_scaling_dist
MinApproach == 1      \* min_approach_linear_velocity
MinRadius == 72      \* regulated_linear_scaling_min_radius
MinSpeed == 2         \* regulated_linear_scaling_min_speed
MinAngle == 39        \* rotate_to_heading_min_angle
RotateVel == 9       \* rotate_to_heading_angular_vel
RotateAccel == 2      \* max_angular_accel * control_duration_
Radius == 8          \* required_movement_radius
RadiusAngle == 25     \* required_movement_angle
None == <<>>

Abs(n) == IF n < 0 THEN -n ELSE n
Sign(n) == IF n > 0 THEN 1 ELSE -1
Least(a, b) == IF a < b THEN a ELSE b
Greatest(a, b) == IF a < b THEN b ELSE a
Clamp(n, lo, hi) == Greatest(lo, Least(n, hi))

\* angles::shortest_angular_distance: in -157 .. 157
Turn(from, to) == LET d == (to - from) % 314 IN IF d > 157 THEN d - 314 ELSE d

\* rounded down
SquareRoot(n) == CHOOSE k \in 0 .. 40 : k * k <= n /\ n < (k + 1) * (k + 1)

Init ==
  /\ plan \in Plans /\ x = 0 /\ heading \in Headings /\ speed = 0 /\ spin = 0
  /\ \E c \in Checkers : goalKind = c[1] /\ progressKind = c[2]
  /\ checkXY = TRUE /\ baseline = None /\ still = 0
  /\ base = 4 /\ desired = 4 /\ asked = None /\ clearance \in {50, 100} /\ rounding \in 0 .. 1
  /\ failing = 0 /\ mode = "none" /\ status = "running" /\ cycles = 0 /\ events = 0

Event == status = "running" /\ events < MaxEvents /\ events' = events + 1 /\ cycles' = 0

-----------------------------------------------------------------------------
(* The goal is pre-empted.  The progress checker is not told.              *)
SetPlan(p) ==
  /\ Event /\ plan' = p /\ checkXY' = TRUE /\ mode' = "none"
  /\ UNCHANGED <<robot, goalKind, clearance, rounding, progressKind, baseline, still, limits, failing, status>>

SetSpeedLimit(percent) ==
  /\ Event
  /\ desired' = IF percent = 0 THEN base ELSE (base * percent) \div 100
  /\ asked' = IF percent = 0 THEN None ELSE <<percent>>
  /\ UNCHANGED <<plan, robot, clearance, rounding, goalKind, progressKind, checks, base, failing, mode, status>>

(* desired_linear_vel is set: the speed limit in force is forgotten. *)
SetDesired(v) ==
  /\ Event /\ base' = v /\ desired' = v /\ asked' = None
  /\ UNCHANGED <<plan, robot, clearance, rounding, goalKind, progressKind, checks, failing, mode, status>>

-----------------------------------------------------------------------------
(* The local plan. *)

\* Poses of the global plan, one every two cells.
PlanPoses ==
  LET n == Abs(plan.to - plan.from) \div 8
      dir == Sign(plan.to - plan.from)
  IN [i \in 1 .. n + 1 |-> IF i = n + 1 THEN plan.to ELSE plan.from + 8 * (i - 1) * dir]

InCostmap(p) == Abs(p - x) < HalfCostmap

\* The poses before the first one outside the costmap.
PosesSeen(poses) ==
  IF \A i \in DOMAIN poses : InCostmap(poses[i]) THEN poses
  ELSE SubSeq(poses, 1, Min({i \in DOMAIN poses : ~InCostmap(poses[i])}) - 1)

CellCentre(p) == (p \div Resolution) * Resolution + Resolution \div 2

\* One point per cell, and the end: it comes twice in the path that is
\* interpolated.  How many points depends on how a quotient is rounded.
LinearInterpolation(from, to) ==
  LET loops == Abs(to - from) \div Resolution - rounding
  IN [k \in 1 .. Greatest(1, loops) |-> from + (k - 1) * Resolution * Sign(to - from)] \o <<to>>

LocalPlan(seen) ==
  LinearInterpolation(CellCentre(x), CellCentre(seen[Len(seen)]))

\* The yaw of the last pose of the local plan: none was set on the others.
LastYaw == IF PosesSeen(PlanPoses) = PlanPoses THEN plan.yaw ELSE 0

\* What is left of the local plan from the pose nearest to the robot on.
TransformGlobalPlan(local) ==
  LET dist == [i \in DOMAIN local |-> Abs(local[i] - x)]
      near == CHOOSE i \in DOMAIN local : \A j \in DOMAIN local : dist[i] <= dist[j] /\ (j < i => dist[i] < dist[j])
  IN SubSeq(local, near, Len(local))

GetLookAheadPoint(path) ==
  LET far == {i \in DOMAIN path : Abs(path[i] - x) >= Lookahead}
  IN IF far = {} THEN path[Len(path)]
     ELSE IF Min(far) = 1 THEN path[1]
     ELSE x + Lookahead * Sign(path[Min(far)] - x)  \* where the circle cuts the path

-----------------------------------------------------------------------------
(* The speeds. *)

ApproachVelocityScaling(path, v) ==
  LET remaining == Abs(path[Len(path)] - path[1])
      left == Abs(path[Len(path)] - x)
      scaled == IF remaining < ApproachDist THEN (v * left) \div ApproachDist ELSE v
  IN Least(v, Greatest(scaled, MinApproach))

ApplyUnclamped(v, radius, path) ==  \* faulty: the speed limit is forgotten
  LET curvatureVel == IF radius < MinRadius THEN (v * radius) \div MinRadius ELSE v
      costVel == (v * clearance) \div 100
  IN ApproachVelocityScaling(path, Greatest(MinSpeed, Least(curvatureVel, costVel)))

ApplyConstraints(v, radius, path) ==
  LET curvatureVel == IF radius < MinRadius THEN (v * radius) \div MinRadius ELSE v
      costVel == (v * clearance) \div 100
      slowest == Greatest(MinSpeed, Least(curvatureVel, costVel))
  IN Clamp(ApproachVelocityScaling(path, slowest), 0, desired)

\* The speed of a turn in place: what the acceleration allows, and no more
\* than can be braked before the angle.
RotateToHeading(angle) ==
  LET feasible == Clamp(Sign(angle) * RotateVel, spin - RotateAccel, spin + RotateAccel)
      toStop == SquareRoot((16 * Abs(angle)) \div 5)
  IN IF Abs(feasible) > toStop THEN Sign(angle) * toStop ELSE feasible

ShouldRotateToGoalHeading(carrot) == Abs(carrot - x) < GoalTolerance

AngleTo(carrot) == Turn(heading, IF carrot >= x THEN 0 ELSE 157)

ShouldRotateToPath(carrot) == Abs(AngleTo(carrot)) > MinAngle

\* A robot that turns or drives an arc has done so by the next cycle.
Rotate(angle) ==
  \E w \in {RotateToHeading(angle)} :
    /\ speed' = 0 /\ spin' = w /\ heading' = Turn(0, heading + w)
    /\ UNCHANGED x

Advance(path, carrot) ==
  LET angle == AngleTo(carrot)
      radius == IF angle = 0 THEN MinRadius ELSE (25 * Abs(carrot - x)) \div Abs(angle)
  IN \E v \in {ApplyConstraints(desired, radius, path)} :
       /\ speed' = v /\ spin' = Clamp(angle, -RotateVel, RotateVel)
       /\ x' = x + v * Sign(carrot - x)
       /\ heading' = IF carrot >= x THEN 0 ELSE 157

ComputeVelocityCommands(path) ==
  \E carrot \in {GetLookAheadPoint(path)} :
    IF ShouldRotateToGoalHeading(carrot)
    THEN mode' = "goal heading" /\ Rotate(Turn(heading, LastYaw))
    ELSE IF ShouldRotateToPath(carrot)
    THEN mode' = "path heading" /\ Rotate(AngleTo(carrot))
    ELSE mode' = "path" /\ Advance(path, carrot)

-----------------------------------------------------------------------------
(* The checkers. *)

MovedEnough ==
  \/ Abs(x - baseline[1]) > Radius
  \/ progressKind = "pose" /\ Abs(Turn(baseline[2], heading)) > RadiusAngle

Progress ==
  IF baseline = None \/ MovedEnough THEN baseline' = <<x, heading>> /\ still' = 0
  ELSE still' = still + 1 /\ UNCHANGED baseline

NoProgress == baseline # None /\ ~MovedEnough /\ still >= Allowance

NearGoal == Abs(x' - plan.to) <= GoalTolerance

(* SimpleGoalChecker: near once is near for good, until it is reset *)
SimpleReached ==
  /\ ~checkXY \/ NearGoal
  /\ Abs(Turn(heading', plan.yaw)) < YawTolerance

StoppedReached == SimpleReached /\ Abs(spin') <= 1 /\ Abs(speed') <= 2

PositionReached == ~checkXY \/ NearGoal

IsGoalReached ==
  CASE goalKind = "simple" -> SimpleReached
    [] goalKind = "stopped" -> StoppedReached
    [] goalKind = "position" -> PositionReached

Judge ==
  /\ checkXY' = (checkXY /\ ~NearGoal)
  /\ status' = IF IsGoalReached THEN "reached" ELSE "running"

-----------------------------------------------------------------------------
(* A cycle of the controller server. *)

Drive ==
  /\ status = "running" /\ ~NoProgress
  /\ Progress
  /\ \E seen \in {PosesSeen(PlanPoses)} :
       /\ seen # <<>>
       /\ \E path \in {TransformGlobalPlan(LocalPlan(seen))} : ComputeVelocityCommands(path)
  /\ failing' = 0
  /\ Judge
  /\ UNCHANGED <<plan, clearance, rounding, goalKind, progressKind, limits, events>>

\* The controller finds no local goal and throws.
Throw ==
  /\ status = "running" /\ ~NoProgress /\ PosesSeen(PlanPoses) = <<>>
  /\ Progress
  /\ failing' = failing + 1
  /\ speed' = 0 /\ spin' = 0 /\ mode' = "none"
  /\ UNCHANGED <<plan, x, heading, clearance, rounding, goalKind, progressKind, limits, events>>
  /\ IF failing' > Patience THEN status' = "failed" /\ UNCHANGED checkXY ELSE Judge

GiveUp ==
  /\ status = "running" /\ NoProgress
  /\ status' = "no progress" /\ speed' = 0 /\ spin' = 0 /\ mode' = "none"
  /\ UNCHANGED <<plan, x, heading, clearance, rounding, goalKind, progressKind, checks, limits, failing, events>>

Cycle == (Drive \/ Throw \/ GiveUp) /\ cycles' = cycles + 1

Next ==
  \/ \E p \in Plans : SetPlan(p)
  \/ \E percent \in Limits : SetSpeedLimit(percent)
  \/ SetDesired(3)
  \/ Cycle

Spec == Init /\ [][Next]_vars

-----------------------------------------------------------------------------
(* A robot that has turned to the heading of its goal keeps it, until there *)
(* is another goal.                                                         *)
HeadingKeptStep ==
  mode = "goal heading" /\ mode' = mode /\ Abs(Turn(heading, LastYaw)) <= YawTolerance
    => Abs(Turn(heading', LastYaw)) <= YawTolerance

(* No command is faster than the speed limit in force, however slow that   *)
(* is: the minimum speeds give way.                                        *)
LimitObeyedStep ==
  cycles' = cycles + 1 /\ mode' = "path" =>
    speed' <= (IF asked = None THEN base ELSE (base * asked[1]) \div 100)

(* Whatever the plan and the limits, following it comes to an end: it is    *)
(* reached or given up within MaxCycles.                                    *)
EndsInTime == cycles <= MaxCycles
=============================================================================
