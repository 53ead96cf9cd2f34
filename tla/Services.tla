---------------------------- MODULE Services --------------------------------
(***************************************************************************)
(* The parts that must come back: the costmap's node, the costmap filters, *)
(* the straight planner, the bridge from the simulator and the fusion of   *)
(* GPS and IMU.  They share no state: the initial state picks the machine  *)
(* that runs, and the variables of the others are off.                     *)
(***************************************************************************)
EXTENDS Integers, Sequences, FiniteSets

CONSTANTS
  None,  \* no message, no goal
  \* of CostmapFilters
  F_Infos, F_MaskData, F_Cells, F_MaxChanges,
  \* of StraightPlanner
  S_Requests, S_Places, S_MaxGoals, S_MaxTroubles,
  \* of GazeboPose
  Z_Steps, Z_MaxTime, Z_MaxDt, Z_Window, Z_MaxBackoff, Z_MaxFaults,
  \* of GpsImuFusion
  U_Fixes, U_Attitudes, U_Offset, U_MaxTime, U_Patience,
  \* of Costmap2DROS
  C_Layers, C_Sensing, C_FirstStale, C_Periodic

VARIABLES
  which,  \* the machine that runs
  \* of several machines
  prev, sent, known, crashed, stamp, out,
  \* of CostmapFilters
  kind, life, offered, infoSub, reading, percentage, maskSub, maskDue, mask, pub, limit,
  enabled, isCurrent, cell, changes,
  \* of StraightPlanner
  active, latestGoal, goalValid, waiting, handle, status, target, told, cancels, robot, reached,
  goals, troubles,
  \* of GazeboPose
  clock, at, paused, proc, lines, idle, backoff, inTime, inPose, inPosition, inOrientation,
  poseName, pos, ori, recent, smooth, spoke, faults, moved, fooled,
  \* of GpsImuFusion
  now, yawOnly, position, attitude, gps, imu, lastImu, due,
  \* of Costmap2DROS
  lc, subscribed, layered, service, stopped, stopUpdates, initialized, quit, ut, mapReady, nt,
  paramLock, current, fresh

filtersOnly == <<kind, life, offered, infoSub, reading, percentage, maskSub, maskDue, mask, pub,
                limit, enabled, isCurrent, cell, changes>>

straightOnly == <<active, latestGoal, goalValid, waiting, handle, status, target, told, cancels,
                 robot, reached, goals, troubles>>

gazeboOnly == <<clock, at, paused, proc, lines, idle, backoff, inTime, inPose, inPosition,
               inOrientation, poseName, pos, ori, recent, smooth, spoke, faults, moved, fooled>>

fusionOnly == <<now, yawOnly, position, attitude, gps, imu, lastImu, due>>

costmapOnly == <<lc, subscribed, layered, service, stopped, stopUpdates, initialized, quit, ut,
                mapReady, nt, paramLock, current, fresh>>

shared == <<prev, sent, known, crashed, stamp, out>>

all == <<which, shared, filtersOnly, straightOnly, gazeboOnly, fusionOnly, costmapOnly>>

Off == "off"

FiltersOff ==
  /\ kind = Off /\ life = Off /\ offered = Off /\ infoSub = Off /\ reading = Off
  /\ percentage = Off /\ maskSub = Off /\ maskDue = Off /\ mask = Off /\ pub = Off
  /\ limit = Off /\ enabled = Off /\ isCurrent = Off /\ cell = Off /\ changes = Off

StraightOff ==
  /\ active = Off /\ latestGoal = Off /\ goalValid = Off /\ waiting = Off /\ handle = Off
  /\ status = Off /\ target = Off /\ told = Off /\ cancels = Off /\ robot = Off
  /\ reached = Off /\ goals = Off /\ troubles = Off

GazeboOff ==
  /\ clock = Off /\ at = Off /\ paused = Off /\ proc = Off /\ lines = Off /\ idle = Off
  /\ backoff = Off /\ inTime = Off /\ inPose = Off /\ inPosition = Off /\ inOrientation = Off
  /\ poseName = Off /\ pos = Off /\ ori = Off /\ recent = Off /\ smooth = Off /\ spoke = Off
  /\ faults = Off /\ moved = Off /\ fooled = Off

FusionOff ==
  /\ now = Off /\ yawOnly = Off /\ position = Off /\ attitude = Off /\ gps = Off /\ imu = Off
  /\ lastImu = Off /\ due = Off

CostmapOff ==
  /\ lc = Off /\ subscribed = Off /\ layered = Off /\ service = Off /\ stopped = Off
  /\ stopUpdates = Off /\ initialized = Off /\ quit = Off /\ ut = Off /\ mapReady = Off
  /\ nt = Off /\ paramLock = Off /\ current = Off /\ fresh = Off

F == INSTANCE CostmapFilters WITH
       Infos <- F_Infos, MaskData <- F_MaskData, Cells <- F_Cells, None <- None,
       MaxChanges <- F_MaxChanges

S == INSTANCE StraightPlanner WITH
       Requests <- S_Requests, Places <- S_Places, None <- None, MaxGoals <- S_MaxGoals,
       MaxTroubles <- S_MaxTroubles

Z == INSTANCE GazeboPose WITH
       Steps <- Z_Steps, MaxTime <- Z_MaxTime, MaxDt <- Z_MaxDt, Window <- Z_Window,
       MaxBackoff <- Z_MaxBackoff, MaxFaults <- Z_MaxFaults

U == INSTANCE GpsImuFusion WITH
       Fixes <- U_Fixes, Attitudes <- U_Attitudes, Offset <- U_Offset, MaxTime <- U_MaxTime,
       Patience <- U_Patience

C == INSTANCE Costmap2DROS WITH
       Layers <- C_Layers, Sensing <- C_Sensing, FirstStale <- C_FirstStale,
       Periodic <- C_Periodic

-----------------------------------------------------------------------------
FiltersInit ==
  /\ which = "filters" /\ F!Init
  /\ StraightOff /\ GazeboOff /\ FusionOff /\ CostmapOff /\ stamp = Off /\ out = Off

StraightInit ==
  /\ which = "straight" /\ S!Init
  /\ FiltersOff /\ GazeboOff /\ FusionOff /\ CostmapOff /\ prev = Off /\ sent = Off
  /\ known = Off /\ crashed = Off /\ stamp = Off /\ out = Off

GazeboInit ==
  /\ which = "gazebo" /\ Z!Init
  /\ FiltersOff /\ StraightOff /\ FusionOff /\ CostmapOff /\ sent = Off /\ known = Off
  /\ crashed = Off

FusionInit ==
  /\ which = "fusion" /\ U!Init
  /\ FiltersOff /\ StraightOff /\ GazeboOff /\ CostmapOff /\ prev = Off /\ known = Off
  /\ crashed = Off

CostmapInit ==
  /\ which = "costmap" /\ C!Init
  /\ FiltersOff /\ StraightOff /\ GazeboOff /\ FusionOff /\ prev = Off /\ sent = Off
  /\ stamp = Off /\ out = Off

Init == FiltersInit \/ StraightInit \/ GazeboInit \/ FusionInit \/ CostmapInit

FiltersStep ==
  /\ which = "filters" /\ F!Next
  /\ UNCHANGED <<which, straightOnly, gazeboOnly, fusionOnly, costmapOnly, stamp, out>>

StraightStep ==
  /\ which = "straight" /\ S!Next
  /\ UNCHANGED <<which, filtersOnly, gazeboOnly, fusionOnly, costmapOnly, prev, sent, known,
                 crashed, stamp, out>>

GazeboStep ==
  /\ which = "gazebo" /\ Z!Next
  /\ UNCHANGED <<which, filtersOnly, straightOnly, fusionOnly, costmapOnly, sent, known, crashed>>

FusionStep ==
  /\ which = "fusion" /\ U!Next
  /\ UNCHANGED <<which, filtersOnly, straightOnly, gazeboOnly, costmapOnly, prev, known, crashed>>

CostmapStep ==
  /\ which = "costmap" /\ C!Next
  /\ UNCHANGED <<which, filtersOnly, straightOnly, gazeboOnly, fusionOnly, prev, sent, stamp,
                 out>>

Next == FiltersStep \/ StraightStep \/ GazeboStep \/ FusionStep \/ CostmapStep

(* The fairness of each module: the threads, timers and executors go on.    *)
filterVars == F!vars
straightVars == S!vars
gazeboVars == Z!vars
fusionVars == U!vars
costmapVars == C!vars

FilterFairness ==
  /\ WF_filterVars(which = "filters" /\ F!FilterInfoCallback)
  /\ WF_filterVars(which = "filters" /\ F!MaskCallback)
  /\ WF_filterVars(which = "filters" /\ F!Process)

StraightFairness ==
  /\ WF_straightVars(which = "straight" /\ S!Tick)
  /\ SF_straightVars(which = "straight" /\ S!Drive)
  /\ \A g \in S_Requests :
       /\ WF_straightVars(which = "straight" /\ S!GoalResponse(g))
       /\ WF_straightVars(which = "straight" /\ S!Result(g))
       /\ WF_straightVars(which = "straight" /\ S!Accept(g))
       /\ WF_straightVars(which = "straight" /\ S!End(g))

GazeboFairness ==
  /\ WF_gazeboVars(which = "gazebo" /\ Z!PrintPoses)
  /\ WF_gazeboVars(which = "gazebo" /\ Z!Resume)
  /\ WF_gazeboVars(which = "gazebo" /\ Z!Watchdog)
  /\ WF_gazeboVars(which = "gazebo" /\ Z!ReaderLoop)

FusionFairness ==
  /\ WF_fusionVars(which = "fusion" /\ U!Tick)
  /\ WF_fusionVars(which = "fusion" /\ U!ImuCallback)
  /\ WF_fusionVars(which = "fusion" /\ U!PublishOdomAndTf)

CostmapFairness ==
  /\ \A l \in C_Layers : /\ WF_costmapVars(which = "costmap" /\ C!SubscribeLayer(l))
                          /\ WF_costmapVars(which = "costmap" /\ C!UnsubscribeLayer(l))
  /\ WF_costmapVars(which = "costmap" /\ C!SpawnUpdater)
  /\ WF_costmapVars(which = "costmap" /\ C!Start)
  /\ WF_costmapVars(which = "costmap" /\ C!Started)
  /\ WF_costmapVars(which = "costmap" /\ C!Stop)
  /\ WF_costmapVars(which = "costmap" /\ C!TellUpdater)
  /\ WF_costmapVars(which = "costmap" /\ C!JoinUpdater)
  /\ WF_costmapVars(which = "costmap" /\ C!LoopTop)
  /\ SF_costmapVars(which = "costmap" /\ C!LockParameters)
  /\ WF_costmapVars(which = "costmap" /\ C!CheckStop)
  /\ WF_costmapVars(which = "costmap" /\ C!UpdateMap)
  /\ WF_costmapVars(which = "costmap" /\ C!MarkInitialized)
  /\ WF_costmapVars(which = "costmap" /\ C!PublishCostmap)
  /\ WF_costmapVars(which = "costmap" /\ C!ParametersApplied)
  /\ WF_costmapVars(which = "costmap" /\ C!ResizeMap)
  /\ WF_costmapVars(which = "costmap" /\ C!ResizedUpdate)
  /\ WF_costmapVars(which = "costmap" /\ C!ResizedMark)

Spec ==
  Init /\ [][Next]_all
  /\ FilterFairness /\ StraightFairness /\ GazeboFairness /\ FusionFairness /\ CostmapFairness

-----------------------------------------------------------------------------
(* The map update thread lives only while the costmap is active, and never  *)
(* updates while the parameter callback resizes the map                     *)
(* (costmap_2d_ros.cpp:300, 466).                                           *)
OneUpdater == which = "costmap" => C!UpdaterWithinActivation /\ C!OneUpdateAtATime

(* Activation and deactivation end, and a costmap that was cleared or whose *)
(* sensors were silent is current again when pose and sensors are back      *)
(* (costmap_2d_ros.cpp:279, 328, 547).                                      *)
CostmapComesBack ==
  /\ (which = "costmap" /\ C!Deactivating) ~> (which = "costmap" /\ C!Deactivated)
  /\ <>[](which = "costmap" => C!PoseKnown)
       => ((which = "costmap" /\ C!Activating) ~> (which = "costmap" /\ C!Activated))
  /\ <>[](which = "costmap" => C!SensorsBack)
       => ((which = "costmap" /\ C!NotCurrent) ~> (which = "costmap" /\ ~C!NotCurrent))

(* No odometry mixes poses, has a velocity the robot cannot have (but for   *)
(* resets of the simulator that its clock does not show), or goes back in   *)
(* time once the IMU is heard; the simulator's bridge always speaks again,  *)
(* after crashes, pauses and resets in any order, the fusion once a sensor  *)
(* was heard (gazebo_pose_to_ros2.py:254, 307, gps_imu_fusion_node.cpp:148).*)
OdometryFlows ==
  /\ [][/\ which = "gazebo" => Z!NoMixedPose' /\ Z!VelocityBounded'
        /\ which = "fusion" => U!StampsGoOnStep]_all
  /\ []<>(which = "gazebo" => spoke)
  /\ (which = "fusion" /\ U!Heard) ~> (which = "fusion" /\ U!Spoken)

(* When its inputs settle, a costmap filter has published the number that   *)
(* the last info, the mask of that info and the cell of the robot call for, *)
(* and in its unit, unless the number was the right one before the info     *)
(* came; until then only an inactive filter uses a publisher it does not    *)
(* have (speed_filter.cpp:96, 243, binary_filter.cpp:103, 229).             *)
LimitSettles ==
  /\ <>[](which = "filters" => F!Settled)
  /\ [][which = "filters" => F!CrashesOnlyInactive']_all

(* The straight planner drops a goal only where the robot is at it, and     *)
(* does not keep one for ever (straight_planner.cpp:251, 312).              *)
GoalsSettle ==
  /\ [][which = "straight" => S!DroppedOnlyWhenReachedStep]_all
  /\ (which = "straight" /\ S!Busy) ~> (which = "straight" /\ ~S!Busy)
=============================================================================
