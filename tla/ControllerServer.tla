-------------------------- MODULE ControllerServer --------------------------
(***************************************************************************)
(* nav2_controller::ControllerServer: SimpleActionServer with computeControl*)
(* as its execute callback, between the lifecycle callbacks of the node.    *)
(* The control loop checks the server's state, the cancellations and the    *)
(* pending goal once a turn, each under its own hold of the lock, and       *)
(* publishes one velocity; clients and the lifecycle thread step in between.*)
(* A velocity is abstracted to the place it leads to, or "zero".            *)
(***************************************************************************)
EXTENDS SimpleActionServer

CONSTANTS Places,         \* where a path may end
          ZeroOnSuccess,  \* publish_zero_velocity
          MayRestart      \* whether the node is deactivated and cleaned up

ASSUME ZeroOnSuccessIsBool == ZeroOnSuccess \in BOOLEAN
ASSUME NoCompletionGiven == HasCompletion = FALSE
ASSUME NoneNotPlace == None \notin Places \union {"unknown", "empty", "zero"}

VARIABLES want,     \* what a goal asks for: a place, or a goal that is at fault
          life,     \* lifecycle state of the node
          control,  \* the next step of computeControl()
          path,     \* where current_path_ ends
          vel,      \* last velocity published
          costmap,  \* whether the costmap is current
          robot     \* where the robot is

loopVars == <<control, path, vel>>
ownVars == <<want, life, loopVars, costmap, robot>>
controllerVars == <<serverVars, ownVars>>

(* "unknown" names a controller or goal checker that is not loaded, "empty" is
   a path without poses. *)
Wants == Places \union {"unknown", "empty"}

ControllerInit ==
  /\ ServerInit
  /\ want = [g \in Goals |-> None]
  /\ life = "unconfigured"
  /\ control = "out"
  /\ path = None
  /\ vel = "zero"
  /\ costmap \in BOOLEAN
  /\ robot \in Places

-----------------------------------------------------------------------------
(* computeControl()                                                         *)

(* A step of the callback that touches none of the action server's variables *)
Locally == UNCHANGED <<serverVars, want, life, costmap, robot>>

(* A step of the callback that goes through the action server's slots *)
Through(SlotStep) ==
  /\ SlotStep
  /\ UNCHANGED <<queue, accepted, flagVars, worker, want, life, costmap, robot>>

Leave ==
  /\ control' = "out"
  /\ worker' = "returned"

(* The three get_current_goal() calls and setPlannerPath(): without a goal they
   dereference null. *)
Enter ==
  /\ worker = "run"
  /\ control = "out"
  /\ UNCHANGED <<vel, queue, accepted, flagVars, want, life, costmap, robot>>
  /\ \/ /\ current = None
        /\ control' = "crashed"
        /\ UNCHANGED <<path, slotVars, worker>>
     \/ /\ current # None
        /\ want[current] = "unknown"
        /\ TerminateCurrent
        /\ Leave
        /\ UNCHANGED path
     \/ /\ current # None
        /\ want[current] = "empty"
        /\ control' = "fail"
        /\ UNCHANGED <<path, slotVars, worker>>
     \/ /\ current # None
        /\ want[current] \in Places
        /\ path' = want[current]
        /\ control' = "check"
        /\ UNCHANGED <<slotVars, worker>>

(* faulty: the loop does not look whether the server is still active *)
CheckNothing ==
  /\ control = "check"
  /\ control' = "cancel"
  /\ UNCHANGED worker
  /\ UNCHANGED <<path, vel, queue, accepted, slotVars, flagVars, want, life, costmap, robot>>

CheckActive ==
  /\ control = "check"
  /\ IF serverActive THEN control' = "cancel" /\ UNCHANGED worker ELSE Leave
  /\ UNCHANGED <<path, vel, queue, accepted, slotVars, flagVars, want, life, costmap, robot>>

(* faulty: cancellations are not looked at *)
CancelIgnored ==
  /\ control = "cancel"
  /\ control' = "costmap"
  /\ UNCHANGED <<path, vel>>
  /\ Locally

CheckCancel ==
  /\ control = "cancel"
  /\ control' = IF IsCancelRequested THEN "canceled" ELSE "costmap"
  /\ UNCHANGED <<path, vel>>
  /\ Locally

EndCanceled ==
  /\ control = "canceled"
  /\ Through(TerminateAll)
  /\ control' = "stopped"
  /\ UNCHANGED <<path, vel>>

StopCanceled ==
  /\ control = "stopped"
  /\ vel' = "zero"
  /\ Leave
  /\ UNCHANGED <<path, queue, accepted, slotVars, flagVars, want, life, costmap, robot>>

AwaitCostmap ==
  /\ control = "costmap"
  /\ costmap
  /\ control' = "update"
  /\ UNCHANGED <<path, vel>>
  /\ Locally

(* updateGlobalPath(): is_preempt_requested() *)
CheckPreempt ==
  /\ control = "update"
  /\ control' = IF preempt THEN "accept" ELSE "drive"
  /\ UNCHANGED <<path, vel>>
  /\ Locally

(* faulty: the new goal is taken but its path is not passed on *)
AcceptGoalOnly ==
  /\ control = "accept"
  /\ \/ /\ pending = None
        /\ control' = "crashed"
        /\ UNCHANGED path
        /\ Locally
     \/ /\ Through(AcceptPendingGoal)
        /\ control' = "drive"
        /\ UNCHANGED path
  /\ UNCHANGED vel

(* updateGlobalPath(): accept_pending_goal() and setPlannerPath(); if there is
   none any more, null is dereferenced. *)
AcceptNewPath ==
  /\ control = "accept"
  /\ \/ /\ pending = None
        /\ control' = "crashed"
        /\ UNCHANGED path
        /\ Locally
     \/ /\ Through(AcceptPendingGoal)
        /\ control' = CASE want[pending] = "unknown" -> "refuse"
                        [] want[pending] = "empty" -> "fail"
                        [] OTHER -> "drive"
        /\ path' = IF want[pending] \in Places THEN want[pending] ELSE path
  /\ UNCHANGED vel

(* updateGlobalPath() ends the goal and returns; the loop goes on with the path
   it has. *)
RefuseNewGoal ==
  /\ control = "refuse"
  /\ Through(TerminateCurrent)
  /\ control' = "drive"
  /\ UNCHANGED <<path, vel>>

(* computeAndPublishVelocity(): no pose, no progress or no patience left throws;
   a controller that fails for a while publishes zero. *)
Drive ==
  /\ control = "drive"
  /\ \/ control' = "fail" /\ UNCHANGED vel
     \/ control' = "arrived" /\ vel' \in {path, "zero"}
  /\ UNCHANGED path
  /\ Locally

(* faulty: arrived wherever the robot is *)
ArriveAnywhere ==
  /\ control = "arrived"
  /\ control' \in {"check", "succeed"}
  /\ UNCHANGED <<path, vel>>
  /\ Locally

(* isGoalReached(): place, heading and speed have to be right *)
CheckArrival ==
  /\ control = "arrived"
  /\ \/ control' = "check"
     \/ robot = path /\ control' = "succeed"
  /\ UNCHANGED <<path, vel>>
  /\ Locally

StopAtGoal ==
  /\ control = "succeed"
  /\ vel' = IF ZeroOnSuccess THEN "zero" ELSE vel
  /\ control' = "result"
  /\ UNCHANGED path
  /\ Locally

ReportSuccess ==
  /\ control = "result"
  /\ SucceededCurrent
  /\ Leave
  /\ UNCHANGED <<path, vel, queue, accepted, flagVars, want, life, costmap, robot>>

(* faulty: the exception handlers leave the last velocity *)
FailDriving ==
  /\ control = "fail"
  /\ control' = "failed"
  /\ UNCHANGED <<path, vel>>
  /\ Locally

(* the exception handlers *)
StopOnFailure ==
  /\ control = "fail"
  /\ vel' = "zero"
  /\ control' = "failed"
  /\ UNCHANGED path
  /\ Locally

ReportFailure ==
  /\ control = "failed"
  /\ TerminateCurrent
  /\ Leave
  /\ UNCHANGED <<path, vel, queue, accepted, flagVars, want, life, costmap, robot>>

ComputeControl ==
  \/ Enter \/ CheckActive \/ CheckCancel \/ EndCanceled \/ StopCanceled
  \/ AwaitCostmap \/ CheckPreempt \/ AcceptNewPath \/ RefuseNewGoal
  \/ Drive \/ CheckArrival \/ StopAtGoal \/ ReportSuccess
  \/ StopOnFailure \/ ReportFailure

-----------------------------------------------------------------------------
(* Lifecycle callbacks                                                      *)

OnConfigure ==
  /\ life = "unconfigured"
  /\ life' = "inactive"
  /\ UNCHANGED <<serverVars, want, loopVars, costmap, robot>>

OnActivate ==
  /\ life = "inactive"
  /\ Activate
  /\ life' = "active"
  /\ UNCHANGED <<want, loopVars, costmap, robot>>

OnDeactivate ==
  /\ MayRestart
  /\ life = "active"
  /\ Deactivate
  /\ life' = "deactivating"
  /\ UNCHANGED <<want, loopVars, costmap, robot>>

(* action_server_->deactivate() has returned *)
FinishDeactivate ==
  /\ life = "deactivating"
  /\ ~deactivating
  /\ vel' = "zero"
  /\ life' = "inactive"
  /\ UNCHANGED <<serverVars, want, control, path, costmap, robot>>

(* action_server_.reset() joins the executor thread and waits for the worker *)
OnCleanup ==
  /\ MayRestart
  /\ life = "inactive"
  /\ accepted = None
  /\ ~IsRunning
  /\ life' = "unconfigured"
  /\ queue' = <<>>
  /\ LET lost(g) == status[g] \in Active \union {"requested"}
     IN /\ status' = [g \in Goals |-> IF lost(g) THEN "free" ELSE status[g]]
        /\ want' = [g \in Goals |-> IF lost(g) THEN None ELSE want[g]]
  /\ current' = None
  /\ pending' = None
  /\ preempt' = FALSE
  /\ stop' = FALSE
  /\ UNCHANGED <<accepted, serverActive, worker, deactivating, loopVars, costmap, robot>>

Lifecycle == \/ OnConfigure \/ OnActivate \/ OnDeactivate \/ FinishDeactivate \/ OnCleanup
             \/ (MissedDeadline \/ Deactivated) /\ UNCHANGED ownVars

-----------------------------------------------------------------------------
(* Clients, costmap, robot                                                  *)

(* a client sends once it sees the action server *)
Request(g, w) ==
  /\ life # "unconfigured"
  /\ SendGoal(g)
  /\ want' = [want EXCEPT ![g] = w]
  /\ UNCHANGED <<life, loopVars, costmap, robot>>

Result(g) ==
  /\ TakeResult(g)
  /\ want' = [want EXCEPT ![g] = None]
  /\ UNCHANGED <<life, loopVars, costmap, robot>>

Reject ==
  /\ life # "unconfigured"
  /\ HandleGoalReject
  /\ want' = [want EXCEPT ![Head(queue)] = None]
  /\ UNCHANGED <<life, loopVars, costmap, robot>>

Accept ==
  /\ HandleGoalAccept \/ HandleAcceptedAsPending \/ HandleAcceptedAsCurrent
  /\ UNCHANGED ownVars

CancelGoal(g) == HandleCancel(g) /\ UNCHANGED ownVars

(* sensor data comes in, or is overdue *)
CostmapChanges ==
  /\ costmap' = ~costmap
  /\ UNCHANGED <<serverVars, want, life, loopVars, robot>>

RobotMoves ==
  /\ vel # "zero"
  /\ robot' = vel
  /\ UNCHANGED <<serverVars, want, life, loopVars, costmap>>

WorkerStep == Work /\ UNCHANGED ownVars

ControllerNext ==
  /\ control # "crashed"
  /\ \/ ComputeControl
     \/ WorkerStep
     \/ Lifecycle
     \/ \E g \in Goals : Result(g) \/ CancelGoal(g) \/ \E w \in Wants : Request(g, w)
     \/ Reject
     \/ Accept
     \/ CostmapChanges
     \/ RobotMoves

ControllerSpec == ControllerInit /\ [][ControllerNext]_controllerVars

(* The worker, the executor and the lifecycle thread run. *)
ThreadFairness ==
  /\ WF_controllerVars(ComputeControl)
  /\ WF_controllerVars(WorkerStep)
  /\ WF_controllerVars(Accept)
  /\ WF_controllerVars((MissedDeadline \/ Deactivated) /\ UNCHANGED ownVars)
  /\ WF_controllerVars(FinishDeactivate)

ThreadSpec == ControllerSpec /\ ThreadFairness

(* Sensor data keeps coming in, and the costmap stays current long enough for
   the wait, which looks every 10 ms, to notice. *)
SensorSpec ==
  /\ ThreadSpec
  /\ WF_controllerVars(~costmap /\ CostmapChanges)
  /\ SF_controllerVars(AwaitCostmap)

-----------------------------------------------------------------------------
(* What clients see of the controller server is the follow_path action: a goal
   handle_goal() has let through is still a request to them. *)
Action == INSTANCE FollowPathAction
  WITH Places <- Wants,
       life <- IF life = "unconfigured" THEN life
               ELSE IF serverActive THEN "active" ELSE "inactive",
       queue <- IF accepted = None THEN queue ELSE <<accepted>> \o queue,
       status <- [g \in Goals |-> IF g = accepted THEN "requested" ELSE status[g]],
       dest <- want

ImplementsAction == Action!ActionSpec

(* The path the loop follows is the one of the goal it will report on, however
   clients preempt and cancel: success is not reported for another goal. *)
FollowsCurrentGoal ==
  control \notin {"out", "fail", "failed", "refuse", "crashed"} /\ current # None =>
    path = want[current]

(* A goal ends as succeeded with the robot where it asked to be. *)
SucceedsAtDestination ==
  [][\A g \in Goals :
       status[g] # "succeeded" /\ status'[g] = "succeeded" => robot = want[g]]_controllerVars

(* Between goals the last velocity published is zero: no way out of the loop
   leaves the robot driving. *)
IdleMeansStopped ==
  worker = "none" /\ life # "deactivating" => vel = "zero"

(* A goal cancelled while computeControl() is at work on it ends, though not
   always as canceled: a pending goal hides the cancellation, but preempts. *)
CancelIsServed ==
  \A g \in Goals : current = g /\ status[g] = "canceling" /\ control # "out"
                      ~> status[g] # "canceling"

(* Of the three places that dereference the goal they get without a look at it,
   none is reached with a null one, unless deactivate() has given up waiting and
   taken the goals away from under the callback. *)
CrashesOnlyIfForced == control = "crashed" => deactivating

(* "server_timeout Timeout to to react to stop or preemption requests":
   deactivate() comes to its end, unless the callback dereferences null. *)
StopReacts == deactivating ~> ~deactivating \/ control = "crashed"

(* "Terminating action, invalid controller %s requested.": after that the robot
   is not driven. *)
DrivesForGoal ==
  [][vel' # vel /\ vel' # "zero" => current # None]_controllerVars
=============================================================================
