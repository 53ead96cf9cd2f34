---------------------------- MODULE WaypointNav ----------------------------
(***************************************************************************)
(* The waypoint node (waypoint_nav): a 100 ms control tick drives the       *)
(* mission state machine, subscriptions replace the mission and the pose, a *)
(* parameter callback switches between the node's own pure pursuit and the  *)
(* controller server, and results of follow_path goals move the mission on. *)
(* rclcpp::spin runs one callback at a time, so a callback is one action.   *)
(*                                                                          *)
(* A place stands for all poses within goal_tolerance of it.  nav_state_ is *)
(* left out: no code reads it.  IDLE, FAILED and GOAL_REACHED are left out: *)
(* no callback ever finds the machine in them.                              *)
(***************************************************************************)
EXTENDS FollowPathAction

CONSTANTS Missions,    \* the waypoint lists that can be published
          Modes,       \* values of use_controller_server
          Disturbed,   \* TRUE: lifecycle changes, other clients' cancels, no
                       \* odometry at first, odometry lagging behind the robot
          MaxMissions  \* bound on the missions published

ASSUME MissionsAreWaypoints == Missions \subseteq Seq(Places)
ASSUME ModesAreModes == Modes \subseteq BOOLEAN /\ Disturbed \in BOOLEAN
ASSUME MaxMissionsIsNat == MaxMissions \in Nat

VARIABLES fsm,        \* current_state_ of NavigationFSM
          waypoints,  \* waypoints_
          idx,        \* current_goal_index_, from 0
          pose,       \* current_pose_, from the last odometry message
          pathSent,   \* path_sent_to_controller_
          lastSent,   \* last_goal_index_sent_
          useServer,  \* use_controller_server_
          cmd,        \* last /cmd_vel of this node; "never": no publisher yet
          robot,      \* where the robot is
          visited,    \* waypoints (from 1) the mission's odometry has shown
          missions    \* how many missions were published

navVars == <<fsm, waypoints, idx, pose, pathSent, lastSent, useServer, cmd,
             robot, visited, missions>>
vars == <<actionVars, navVars>>

States == {"WAITING_FOR_GOALS", "INITIALIZING", "EXECUTING_PATH", "COMPLETED"}

Init ==
  /\ ActionInit
  /\ fsm = "WAITING_FOR_GOALS"
  /\ waypoints = <<>>
  /\ idx = 0
  /\ robot \in Places
  /\ pose \in IF Disturbed THEN Places ELSE {robot}
  /\ ~Disturbed => life = "active"
  /\ pathSent = FALSE
  /\ lastSent = 0
  /\ useServer \in Modes
  /\ cmd = "never"
  /\ visited = {}
  /\ missions = 0

At(wps, p) == {i \in DOMAIN wps : wps[i] = p}

-----------------------------------------------------------------------------
(* computeVelocityCommand() for the waypoint of index i                     *)

NeedsPathOnce(i) == ~pathSent  \* faulty: the index is not compared

NeedsPath(i) == ~pathSent \/ i # lastSent

MarkSent(i) ==
  /\ pathSent' = TRUE
  /\ lastSent' = i

NothingSent == UNCHANGED <<actionVars, pathSent, lastSent>>

(* sendPathToControllerServer(): the server exists once it is configured;
   a waypoint the pose is already at counts as sent. *)
SendPathToControllerServer(i) ==
  \/ life = "unconfigured" /\ NothingSent
  \/ /\ life # "unconfigured"
     /\ MarkSent(i)
     /\ IF pose = waypoints[i + 1]
        THEN UNCHANGED actionVars
        ELSE \E g \in Goals : Send(g, waypoints[i + 1])

FollowServer(i) ==
  /\ useServer
  /\ UNCHANGED cmd
  /\ IF i < Len(waypoints) /\ NeedsPath(i)
     THEN SendPathToControllerServer(i)
     ELSE NothingSent

PurePursuit(i) ==
  /\ ~useServer
  /\ cmd' = IF i < Len(waypoints) THEN waypoints[i + 1] ELSE "zero"
  /\ NothingSent

ComputeVelocityCommand(i) == FollowServer(i) \/ PurePursuit(i)

-----------------------------------------------------------------------------
(* controlLoop(): the handler of the state, then, unless the handler ended
   the mission, a velocity command.  A waiting tick without waypoints does
   nothing. *)

WaitingTick ==
  /\ fsm = "WAITING_FOR_GOALS"
  /\ waypoints # <<>>
  /\ fsm' = "INITIALIZING"
  /\ ComputeVelocityCommand(idx)
  /\ UNCHANGED <<waypoints, idx, pose, useServer, robot, visited, missions>>

InitializingTick ==
  /\ fsm = "INITIALIZING"
  /\ fsm' = "EXECUTING_PATH"
  /\ ComputeVelocityCommand(idx)
  /\ UNCHANGED <<waypoints, idx, pose, useServer, robot, visited, missions>>

(* faulty: compared with the last waypoint *)
IsMissionReached ==
  IF idx < Len(waypoints) THEN pose = waypoints[Len(waypoints)] ELSE TRUE

IsGoalReached == IF idx < Len(waypoints) THEN pose = waypoints[idx + 1] ELSE TRUE

ExecutingTick ==
  /\ fsm = "EXECUTING_PATH"
  /\ ~IsGoalReached
  /\ ComputeVelocityCommand(idx)
  /\ UNCHANGED <<fsm, waypoints, idx, pose, useServer, robot, visited, missions>>

NextGoalTick ==
  /\ fsm = "EXECUTING_PATH"
  /\ IsGoalReached
  /\ idx + 1 < Len(waypoints)
  /\ idx' = idx + 1
  /\ ComputeVelocityCommand(idx + 1)
  /\ UNCHANGED <<fsm, waypoints, pose, useServer, robot, visited, missions>>

(* faulty: off by one at the end of the mission *)
LateLastGoalTick ==
  /\ fsm = "EXECUTING_PATH"
  /\ IsGoalReached
  /\ idx + 1 > Len(waypoints)
  /\ idx' = idx + 1
  /\ fsm' = "COMPLETED"
  /\ UNCHANGED <<actionVars, waypoints, pose, pathSent, lastSent, useServer,
                 cmd, robot, visited, missions>>

LastGoalTick ==
  /\ fsm = "EXECUTING_PATH"
  /\ IsGoalReached
  /\ idx + 1 >= Len(waypoints)
  /\ idx' = idx + 1
  /\ fsm' = "COMPLETED"
  /\ UNCHANGED <<actionVars, waypoints, pose, pathSent, lastSent, useServer,
                 cmd, robot, visited, missions>>

(* handleCompletedState() with resetNavigator(), which keeps the path flags *)
CompletedTick ==
  /\ fsm = "COMPLETED"
  /\ fsm' = "WAITING_FOR_GOALS"
  /\ cmd' = IF cmd = "never" THEN "never" ELSE "zero"
  /\ waypoints' = <<>>
  /\ idx' = 0
  /\ visited' = {}
  /\ UNCHANGED <<actionVars, pose, pathSent, lastSent, useServer, robot, missions>>

Tick == \/ WaitingTick \/ InitializingTick \/ ExecutingTick
        \/ NextGoalTick \/ LastGoalTick \/ CompletedTick

-----------------------------------------------------------------------------
(* Subscriptions and the parameter callback                                 *)

(* faulty: the index of the old mission stays *)
GoalCallbackKeepsIndex(m) ==
  /\ missions < MaxMissions
  /\ missions' = missions + 1
  /\ waypoints' = m
  /\ visited' = At(m, pose)
  /\ UNCHANGED <<actionVars, fsm, idx, pose, pathSent, lastSent, useServer, cmd,
                 robot>>

GoalCallback(m) ==
  /\ missions < MaxMissions
  /\ missions' = missions + 1
  /\ waypoints' = m
  /\ idx' = 0
  /\ visited' = At(m, pose)
  /\ UNCHANGED <<actionVars, fsm, pose, pathSent, lastSent, useServer, cmd, robot>>

OdomCallback ==
  /\ pose' = robot
  /\ visited' = visited \union At(waypoints, robot)
  /\ UNCHANGED <<actionVars, fsm, waypoints, idx, pathSent, lastSent, useServer,
                 cmd, robot, missions>>

ParamCallback(b) ==
  /\ useServer' = b
  /\ pathSent' = FALSE
  /\ UNCHANGED <<actionVars, fsm, waypoints, idx, pose, lastSent, cmd, robot,
                 visited, missions>>

(* The result callback looks at the mission of the moment, not at the one its
   goal was sent for. *)
HasNext == idx + 1 < Len(waypoints)

OnSucceeded ==
  IF HasNext THEN idx' = idx + 1 /\ pathSent' = FALSE
             ELSE UNCHANGED <<idx, pathSent>>

(* faulty: the path counts as sent after it failed *)
OnAbortedKeepsPath ==
  /\ idx' = IF HasNext /\ pose = waypoints[idx + 1] THEN idx + 1 ELSE idx
  /\ UNCHANGED pathSent

OnAborted ==
  /\ pathSent' = FALSE
  /\ idx' = IF HasNext /\ pose = waypoints[idx + 1] THEN idx + 1 ELSE idx

(* faulty: back to the waypoint before, which may not exist *)
OnCanceledStepsBack ==
  /\ pathSent' = FALSE
  /\ idx' = idx - 1

OnCanceled ==
  /\ pathSent' = FALSE
  /\ UNCHANGED idx

ResultCallback(g) ==
  /\ Deliver(g)
  /\ \/ status[g] = "succeeded" /\ OnSucceeded
     \/ status[g] = "aborted" /\ OnAborted
     \/ status[g] = "canceled" /\ OnCanceled
  /\ UNCHANGED <<fsm, waypoints, pose, lastSent, useServer, cmd, robot, visited,
                 missions>>

-----------------------------------------------------------------------------
(* The controller server and the robot                                      *)

(* Where the robot is being driven: by the goal the server executes, and by
   the node's own last command.  Both write /cmd_vel. *)
Headings ==
  (IF current = None THEN {} ELSE {dest[current]})
     \union (IF cmd \in {"never", "zero"} THEN {} ELSE {cmd})

Move(p) ==
  /\ Disturbed \/ pose = robot
  /\ robot' = p
  /\ UNCHANGED <<actionVars, fsm, waypoints, idx, pose, pathSent, lastSent,
                 useServer, cmd, visited, missions>>

Arrive == \E p \in Headings \ {robot} : Move(p)

(* On its way the robot may pass any place. *)
PassBy == \E p \in Places : Headings # {} /\ robot \notin Headings /\ Move(p)

(* The server's goal tolerance (0.25 m) is tighter than the node's (1.0 m):
   unless disturbed, the odometry shows the arrival before a goal succeeds. *)
ServeGoals ==
  /\ ServerStep(IF Disturbed \/ pose = robot THEN robot ELSE None)
  /\ UNCHANGED navVars

Disturbance ==
  /\ Disturbed
  /\ Lifecycle \/ EndAll \/ \E g \in Goals : Cancel(g)
  /\ UNCHANGED navVars

Next ==
  \/ Tick
  \/ \E m \in Missions : GoalCallback(m)
  \/ OdomCallback
  \/ \E b \in Modes : ParamCallback(b)
  \/ \E g \in Goals : ResultCallback(g)
  \/ Arrive \/ PassBy
  \/ ServeGoals
  \/ Disturbance

Spec == Init /\ [][Next]_vars

(* The timer, the subscription and the result callbacks are served by a
   spinning executor (weak fairness); the server takes the requests it gets
   and preempts for them; a robot that keeps being driven to a place, though
   with interruptions, gets there (strong fairness). *)
Fairness ==
  /\ WF_vars(Tick)
  /\ WF_vars(OdomCallback)
  /\ \A g \in Goals : WF_vars(ResultCallback(g))
  /\ WF_vars((AcceptAsCurrent \/ AcceptAsPending) /\ UNCHANGED navVars)
  /\ WF_vars(Preempt /\ UNCHANGED navVars)
  /\ SF_vars(Arrive)

FairSpec == Spec /\ Fairness

-----------------------------------------------------------------------------
TypeOK ==
  /\ ActionTypeOK
  /\ fsm \in States
  /\ waypoints \in Seq(Places)
  /\ idx \in Nat
  /\ pose \in Places
  /\ pathSent \in BOOLEAN
  /\ lastSent \in Nat
  /\ useServer \in BOOLEAN
  /\ cmd \in Places \union {"never", "zero"}
  /\ robot \in Places
  /\ visited \subseteq Nat
  /\ missions \in Nat

(* Whatever replaces the mission and whatever result comes late, the index
   stays inside the mission until the state machine has completed it: an
   index past the end would end a mission on the next tick. *)
IndexInRange ==
  fsm # "COMPLETED" => idx < Len(waypoints) \/ (waypoints = <<>> /\ idx = 0)

(* No waypoint is passed over: the odometry has shown the robot at every
   waypoint before the current one since the mission arrived. *)
NothingSkipped ==
  fsm # "COMPLETED" => 1 .. idx \subseteq visited

(* While a mission runs through the controller server, a path marked as sent
   has a goal that will bring a result, or the pose is at the waypoint: the
   node is never left waiting for a result that cannot come. *)
NeverStranded ==
  fsm = "EXECUTING_PATH" /\ useServer /\ idx < Len(waypoints) /\ ~NeedsPath(idx) =>
    pose = waypoints[idx + 1] \/ \E g \in Goals : dest[g] = waypoints[idx + 1]

(* A mission under way ends. *)
MissionEnds == fsm = "EXECUTING_PATH" ~> fsm = "WAITING_FOR_GOALS"
=============================================================================
