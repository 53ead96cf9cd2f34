---------------------------- MODULE Global2Local ----------------------------
(***************************************************************************)
(* The node between the flight controller, which knows positions relative  *)
(* to where it was switched on, and the planners, which know them relative *)
(* to an origin the operator sends.  The horizontal position is one        *)
(* number, along the axis a drone with a yaw of +90 or -90 degrees faces.  *)
(***************************************************************************)
EXTENDS Integers, Sequences, FiniteSets

CONSTANTS Places,    \* horizontal positions
          Heights,   \* altitudes
          Home,      \* [x, z]: where the flight controller was switched on
          Ground,    \* the altitude of the ground
          Default,   \* [x, z]: the origin of the parameters
          Goals,     \* of the planners, in the world
          Tasks,     \* of the operator: [areas, path]
          MaxMoves,  \* bound on the moves of the drone
          MaxOrigins \* bound on the origins sent

VARIABLES drone,     \* [x, z, facing]: where the drone is
          origin,    \* origin_lat_, origin_alt_
          fromUi,    \* get_origin_from_ui
          uavState,  \* uav_state_
          armed,     \* armed_flag_
          pending,   \* arm_gps_flage_ and arm_pose_flag_
          fix,       \* drone_lat_, drone_alt_: the last global position, <<>> before it
          world,     \* world_local_position_
          local,     \* current_local_position_
          dif,       \* dif_pose_
          level,     \* pitch and roll, in the Euler angles of the code, are -180 degrees
          pose,      \* pose_msg, with its ypr[0]
          said,      \* the last message published, and what it was made from
          heard,     \* where the drone was when its last odometry was used
          aligned,   \* dif_pose_ was taken from one place, with the origin in force
          current,   \* world_local_position_ is that of the origin in force
          moves, origins

vars == <<drone, origin, fromUi, uavState, armed, pending, fix, world, local, dif, level, pose,
          said, heard, aligned, current, moves, origins>>
hidden == <<moves, origins>>
frame == <<origin, fromUi, uavState, armed, pending, fix, world, local, dif, level, pose, heard, aligned, current>>

Zero == [x |-> 0, z |-> 0]
Minus(a, b) == [x |-> a.x - b.x, z |-> a.z - b.z]
Plus(a, b) == [x |-> a.x + b.x, z |-> a.z + b.z]
Nothing == [topic |-> "none"]

\* What the vectors hold that are never initialised.
Rubbish == {Zero, [x |-> 3, z |-> 3]}

\* local_coordinates
LocalCoordinates(p) == Minus(p, origin)

LocalToGlobal(p) == Plus(p, origin)

Where == [x |-> drone.x, z |-> drone.z]

Init ==
  /\ drone \in [x : {Home.x}, z : {Home.z}, facing : {1, -1}]
  /\ origin = Default /\ fromUi = FALSE /\ uavState = 0 /\ armed = FALSE /\ pending = FALSE
  /\ fix = <<>> /\ level \in BOOLEAN /\ pose = [at |-> Zero, yaw |-> 0] /\ said = Nothing
  /\ world \in Rubbish /\ local = world /\ dif = world
  /\ heard = <<>> /\ aligned = FALSE /\ current = FALSE
  /\ moves = 0 /\ origins = 0

-----------------------------------------------------------------------------
Move ==
  /\ moves < MaxMoves /\ moves' = moves + 1
  /\ drone' \in [x : Places, z : Heights, facing : {1, -1}]
  /\ said' = Nothing
  /\ UNCHANGED <<frame, origins>>

OriginGps(x) ==
  /\ origins < MaxOrigins /\ origins' = origins + 1
  /\ origin' = [origin EXCEPT !.x = x] /\ fromUi' = TRUE
  /\ aligned' = (aligned /\ x = origin.x) /\ current' = (current /\ x = origin.x)
  /\ said' = Nothing
  /\ UNCHANGED <<drone, uavState, armed, pending, fix, world, local, dif, level, pose, heard, moves>>

UsmState(s) ==
  /\ uavState' = s /\ said' = Nothing
  /\ UNCHANGED <<drone, origin, fromUi, armed, pending, fix, world, local, dif, level, pose, heard,
                 aligned, current, hidden>>

\* Near the ground and level, the range finder tells the altitude of the
\* origin.  The angles have that form only for a negative yaw.
TofInfo ==
  /\ LET range == drone.z - Ground
         calibrates == uavState = 2 /\ range > 0 /\ range < 8 /\ level
         z == (IF fix = <<>> THEN -1 ELSE fix[1].z) - range
     IN /\ origin' = IF calibrates THEN [origin EXCEPT !.z = z] ELSE origin
        /\ aligned' = (aligned /\ origin' = origin) /\ current' = (current /\ origin' = origin)
  /\ said' = Nothing
  /\ UNCHANGED <<drone, fromUi, uavState, armed, pending, fix, world, local, dif, level, pose, heard, hidden>>

GlobalPosition ==
  /\ fix' = <<Where>> /\ world' = LocalCoordinates(Where) /\ current' = TRUE
  /\ pending' = FALSE
  /\ IF pending
     THEN dif' = Minus(world', local) /\ aligned' = (heard = <<Where>>)
     ELSE UNCHANGED <<dif, aligned>>
  /\ said' = Nothing
  /\ UNCHANGED <<drone, origin, fromUi, uavState, armed, local, level, pose, heard, hidden>>

Setpoint(goal) ==
  /\ said' = [topic |-> "setpoint", at |-> Minus(goal, dif), goal |-> goal]
  /\ UNCHANGED <<drone, frame, hidden>>

Arm ==
  /\ said' = IF fromUi THEN [topic |-> "arm", at |-> LocalCoordinates(Where)] ELSE Nothing
  /\ IF uavState = 2 /\ ~armed
     THEN /\ armed' = TRUE /\ pending' = TRUE /\ origin' = [origin EXCEPT !.z = drone.z]
          /\ aligned' = FALSE /\ current' = (current /\ origin' = origin)
     ELSE UNCHANGED <<armed, pending, origin, aligned, current>>
  /\ UNCHANGED <<drone, fromUi, uavState, fix, world, local, dif, level, pose, heard, hidden>>

\* quaternionToYPR: a yaw in 0 .. 180 degrees, whatever the real one
EulerYaw(facing) == 1

OdomKeepsWorld ==  \* faulty: the position is read after it was replaced
  IF ~fromUi THEN UNCHANGED <<local, pose, level>> /\ said' = Nothing
  ELSE /\ local' = world
       /\ pose' = [at |-> world, yaw |-> EulerYaw(drone.facing)]
       /\ level' = (drone.facing = -1)
       /\ said' = [topic |-> "odom", at |-> world]

OdomMessage ==
  IF ~fromUi THEN UNCHANGED <<local, pose, level>> /\ said' = Nothing
  ELSE /\ local' = Minus(Where, Home)
       /\ pose' = [at |-> world, yaw |-> EulerYaw(drone.facing)]
       /\ level' = (drone.facing = -1)
       /\ said' = [topic |-> "odom", at |-> world]

Odom ==
  /\ OdomMessage
  /\ heard' = IF fromUi THEN <<Where>> ELSE heard
  /\ UNCHANGED <<drone, origin, fromUi, uavState, armed, pending, fix, world, dif, aligned, current, hidden>>

-----------------------------------------------------------------------------
(* Tasks.  The altitude of waypoints is left as it is. *)

SetPoint(p) == LocalCoordinates([x |-> p, z |-> origin.z]).x

SetAreaSample(area) ==
  IF area.type \in {0, 1, 3, 4} /\ area.data # <<>>
  THEN [area EXCEPT !.data[1] = SetPoint(@)]
  ELSE IF area.type = 2 THEN [area EXCEPT !.data = [i \in DOMAIN @ |-> SetPoint(@[i])]]
  ELSE area

SetWaypointList(path) == [i \in DOMAIN path |-> SetPoint(path[i])]

InWorld(task) ==
  [areas |-> [i \in DOMAIN task.areas |-> SetAreaSample(task.areas[i])],
   path |-> SetWaypointList(task.path)]

Says(message) == said' = message /\ UNCHANGED <<drone, frame, hidden>>

Multitask(task) ==
  fromUi /\ Says([topic |-> "multitask", task |-> InWorld(task), from |-> task])

\* the path of a jump or cover task, a cover path or the point of one
PathTask(task) ==
  Says([topic |-> "path", path |-> SetWaypointList(task.path), from |-> task.path])

\* What is converted is the last task, not this one.
Returntask(task) == Says([topic |-> "return", task |-> task, from |-> task])

\* Of an object a distance d ahead.
Targetpose(d) ==
  LET target == [pose.at EXCEPT !.x = @ + pose.yaw * d]
  IN Says([topic |-> "target", at |-> LocalToGlobal(target), ahead |-> d])

Next ==
  \/ Move
  \/ \E x \in Places : OriginGps(x)
  \/ \E s \in {0, 2} : UsmState(s)
  \/ TofInfo \/ GlobalPosition \/ Arm \/ Odom
  \/ \E goal \in Goals : Setpoint(goal)
  \/ \E task \in Tasks : Multitask(task) \/ PathTask(task) \/ Returntask(task)
  \/ \E d \in {1} : Targetpose(d)

Spec == Init /\ [][Next]_vars

-----------------------------------------------------------------------------
(* A drone that flies where the setpoint tells it, in the frame of its      *)
(* flight controller, is at the goal of the planner.                        *)
SetpointReachesGoal ==
  said.topic = "setpoint" /\ aligned => LocalToGlobal(said.goal) = Plus(said.at, Home)

(* The position the planners are told is that of the last fix, relative to  *)
(* the origin, until the origin changes.                                    *)
OdomIsLastFix ==
  said.topic = "odom" /\ current => LocalToGlobal(said.at) = fix[1]

(* An operator's area and path mean the same places after the conversion.   *)
TasksKeepPlaces ==
  /\ said.topic = "multitask" =>
       \A i \in DOMAIN said.from.areas :
         LET old == said.from.areas[i]
             new == said.task.areas[i]
         IN \A k \in DOMAIN old.data :
              new.data[k] = IF old.type = 2 \/ k = 1 THEN old.data[k] - origin.x ELSE old.data[k]
  /\ said.topic = "path" => \A i \in DOMAIN said.from : said.path[i] + origin.x = said.from[i]
=============================================================================
