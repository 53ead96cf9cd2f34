----------------------- MODULE ControllerServerProofs -----------------------
(***************************************************************************)
(* Proofs about ControllerServer, for every set of goals and places: what  *)
(* the control loop does between the executor and the lifecycle thread.    *)
(***************************************************************************)
EXTENDS ControllerServer, SimpleActionServerProofs

Controls == {"out", "check", "cancel", "canceled", "stopped", "costmap", "update", "accept",
             "refuse", "drive", "arrived", "succeed", "result", "fail", "failed", "crashed"}

OwnTypes ==
  /\ control \in Controls
  /\ life \in {"unconfigured", "inactive", "active", "deactivating"}
  /\ want \in [Goals -> Wants \union {None}]

(* computeControl() runs within work() only. *)
LoopIsWorker == control # "out" => worker = "run"

(* A goal that is on its way or accepted asks for something. *)
GoalsWant == \A g \in Goals : status[g] # "free" => want[g] \in Wants

(* What computeControl() will dereference is there, or was taken by force. *)
NullOnlyIfForced ==
  /\ worker = "run" /\ control = "out" /\ current = None => deactivating
  /\ control = "accept" /\ pending = None => deactivating

(* The lifecycle state of the node and the flags of its action server; a    *)
(* worker that starts after the deactivation does not call computeControl().*)
LifeFollowsServer ==
  /\ serverActive <=> life = "active"
  /\ deactivating => life = "deactivating"
  /\ life = "deactivating" => stop
  /\ life # "active" /\ ~deactivating => worker \in {"none", "loop", "exit"}
  /\ life # "active" /\ ~stop => worker = "none" /\ accepted = None

(* Outside the loop the robot is stopped, but for a deactivation under way. *)
StoppedOutside ==
  ZeroOnSuccess /\ control \in {"out", "result", "failed"} /\ life # "deactivating" => vel = "zero"

(* From the velocity on that led to the arrival, the robot does not leave.  *)
StaysAtPath ==
  /\ control \in {"arrived", "succeed", "result"} => vel \in {path, "zero"}
  /\ control \in {"succeed", "result"} => robot = path

Own ==
  /\ OwnTypes /\ LoopIsWorker /\ GoalsWant /\ NullOnlyIfForced /\ LifeFollowsServer
  /\ StoppedOutside /\ StaysAtPath /\ FollowsCurrentGoal /\ CrashesOnlyIfForced

LoopInv == Inv /\ Own

(* What the action server says of the two slots. *)
LEMMA SlotFacts ==
  ASSUME Inv
  PROVE  /\ current # None => current \in Goals /\ status[current] \in Active /\ current # pending
         /\ pending # None => pending \in Goals /\ status[pending] \in Active
         /\ accepted # None => accepted \in Goals /\ status[accepted] \in Active
         /\ preempt <=> pending # None
  BY NoneNotGoal DEF Inv, TypeOK, SlotsHoldActiveGoals, PreemptMeansPending

LEMMA InitLoopInv == ControllerInit => LoopInv
<1> SUFFICES ASSUME ControllerInit PROVE LoopInv
  OBVIOUS
<1>1. Inv
  BY InitInv DEF ControllerInit
<1>2. Own
  BY DEF ControllerInit, ServerInit, Own, OwnTypes, LoopIsWorker, GoalsWant, NullOnlyIfForced,
         LifeFollowsServer, StoppedOutside, StaysAtPath, FollowsCurrentGoal, CrashesOnlyIfForced, Controls
<1>. QED
  BY <1>1, <1>2 DEF LoopInv

-----------------------------------------------------------------------------
(* The invariants of the action server hold with this callback. *)
LEMMA CallbackKeepsInv == LoopInv /\ ComputeControl => Inv'
<1> SUFFICES ASSUME LoopInv, ComputeControl PROVE Inv'
  OBVIOUS
<1> USE DEF LoopInv, serverVars, slotVars, flagVars
<1>1. "run" \in WorkerStates /\ "returned" \in WorkerStates /\ worker \in WorkerStates
  BY DEF WorkerStates, Inv, TypeOK
<1>2. ASSUME UNCHANGED <<queue, accepted, slotVars, flagVars>>, worker' \in WorkerStates PROVE Inv'
  BY <1>2, SameQueue DEF Inv, TypeOK, SlotsHoldActiveGoals, PreemptMeansPending, Active
<1>3. CASE Enter
  BY <1>1, <1>2, <1>3, SlotSteps DEF Enter, Leave
<1>4. CASE CheckActive
  BY <1>1, <1>2, <1>4 DEF CheckActive, Leave
<1>5. CASE CheckCancel \/ AwaitCostmap \/ CheckPreempt \/ Drive \/ CheckArrival \/ StopAtGoal \/ StopOnFailure
  BY <1>1, <1>2, <1>5
  DEF CheckCancel, AwaitCostmap, CheckPreempt, Drive, CheckArrival, StopAtGoal, StopOnFailure, Locally
<1>6. CASE EndCanceled
  BY <1>1, <1>6, SlotSteps DEF EndCanceled, Through
<1>7. CASE StopCanceled
  BY <1>1, <1>2, <1>7 DEF StopCanceled, Leave
<1>8. CASE AcceptNewPath
  BY <1>1, <1>2, <1>8, SlotSteps DEF AcceptNewPath, Through, Locally
<1>9. CASE RefuseNewGoal
  BY <1>1, <1>9, SlotSteps DEF RefuseNewGoal, Through
<1>10. CASE ReportSuccess \/ ReportFailure
  BY <1>1, <1>10, SlotSteps DEF ReportSuccess, ReportFailure, Leave
<1>. QED
  BY <1>3, <1>4, <1>5, <1>6, <1>7, <1>8, <1>9, <1>10 DEF ComputeControl

LEMMA CleanupKeepsInv == LoopInv /\ OnCleanup => Inv'
<1> SUFFICES ASSUME LoopInv, OnCleanup PROVE Inv'
  OBVIOUS
<1> USE NoneNotGoal DEF LoopInv, Inv, OnCleanup, Active
<1>1. TypeOK'
  <2>1. queue' \in Seq(Goals) /\ status' \in [Goals -> {"free", "requested"} \union Active \union Ended]
    BY DEF TypeOK
  <2>2. ~deactivating /\ ~serverActive
    BY DEF Own, LifeFollowsServer
  <2>. QED
    BY <2>1, <2>2 DEF TypeOK
<1>2. QueueHoldsRequests'
  BY DEF QueueHoldsRequests
<1>3. SlotsHoldActiveGoals' /\ PreemptMeansPending'
  BY DEF SlotsHoldActiveGoals, PreemptMeansPending, TypeOK
<1>. QED
  BY <1>1, <1>2, <1>3

LEMMA ServerKeepsInv == LoopInv /\ [ControllerNext]_controllerVars => Inv'
<1> SUFFICES ASSUME LoopInv, [ControllerNext]_controllerVars PROVE Inv'
  OBVIOUS
<1>1. CASE ComputeControl
  BY <1>1, CallbackKeepsInv
<1>2. CASE OnCleanup
  BY <1>2, CleanupKeepsInv
<1>3. ASSUME [Next]_serverVars PROVE Inv'
  BY <1>3, StepInv DEF LoopInv
<1>4. CASE WorkerStep \/ Reject \/ Accept \/ Lifecycle
  <2>1. CASE OnConfigure \/ FinishDeactivate
    BY <1>3, <2>1 DEF OnConfigure, FinishDeactivate
  <2>2. CASE WorkerStep \/ Reject \/ Accept \/ OnActivate \/ OnDeactivate \/ MissedDeadline \/ Deactivated
    BY <1>3, <2>2
    DEF WorkerStep, Reject, Accept, OnActivate, OnDeactivate, Next, Server, Executor, LifecycleThread
  <2>. QED
    BY <1>2, <1>4, <2>1, <2>2 DEF Lifecycle
<1>5. ASSUME NEW g \in Goals, Result(g) \/ CancelGoal(g) \/ \E w \in Wants : Request(g, w) PROVE Inv'
  BY <1>3, <1>5 DEF Result, CancelGoal, Request, Next, Server
<1>6. CASE CostmapChanges \/ RobotMoves
  BY <1>3, <1>6 DEF CostmapChanges, RobotMoves
<1>7. CASE UNCHANGED controllerVars
  BY <1>3, <1>7 DEF controllerVars
<1>. QED
  BY <1>1, <1>4, <1>5, <1>6, <1>7 DEF ControllerNext

-----------------------------------------------------------------------------
(* The loop's own invariants *)

(* A step that leaves the server's slots and flags alone, or frees goals,    *)
(* needs no more than this about who wants what.                             *)
LEMMA WantsKept ==
  ASSUME LoopInv, UNCHANGED want, \A g \in Goals : status'[g] # "free" => status[g] # "free"
  PROVE  GoalsWant'
  BY DEF LoopInv, Own, GoalsWant

LEMMA SlotsFree ==
  ASSUME Inv, AcceptPendingGoal \/ TerminateCurrent \/ TerminateAll \/ SucceededCurrent
  PROVE  \A g \in Goals : status'[g] # "free" => status[g] # "free"
<1>0. \A g \in Goals : g \in {current, pending} => status[g] # "free"
  BY SlotFacts, NoneNotGoal DEF Active
<1>1. CASE TerminateCurrent
  BY <1>0, <1>1 DEF TerminateCurrent, Terminated
<1>2. CASE TerminateAll
  BY <1>0, <1>2 DEF TerminateAll, Terminated
<1>3. CASE AcceptPendingGoal
  BY <1>0, <1>3 DEF AcceptPendingGoal
<1>4. CASE SucceededCurrent
  BY <1>0, <1>4 DEF SucceededCurrent
<1>. QED
  BY <1>1, <1>2, <1>3, <1>4

LEMMA CallbackKeepsOwn == LoopInv /\ ComputeControl => Own'
<1> SUFFICES ASSUME LoopInv, ComputeControl PROVE Own'
  OBVIOUS
<1>0. Inv
  BY DEF LoopInv
<1> USE DEF LoopInv, Own, OwnTypes, LoopIsWorker, NullOnlyIfForced, LifeFollowsServer,
            StoppedOutside, StaysAtPath, FollowsCurrentGoal, CrashesOnlyIfForced, Controls,
            serverVars, slotVars, flagVars
<1>1. CASE Enter
  <2>1. GoalsWant'
    BY <1>0, <1>1, WantsKept, SlotsFree DEF Enter
  <2>. QED
    BY <1>1, <2>1 DEF Enter, Leave, TerminateCurrent
<1>2. CASE CheckActive
  <2>1. GoalsWant'
    BY <1>2, WantsKept DEF CheckActive
  <2>. QED
    BY <1>2, <2>1 DEF CheckActive, Leave
<1>3. CASE CheckCancel
  <2>1. GoalsWant'
    BY <1>3, WantsKept DEF CheckCancel, Locally
  <2>. QED
    BY <1>3, <2>1 DEF CheckCancel, Locally
<1>4. CASE EndCanceled
  <2>1. GoalsWant'
    BY <1>0, <1>4, WantsKept, SlotsFree DEF EndCanceled, Through
  <2>. QED
    BY <1>4, <2>1 DEF EndCanceled, Through, TerminateAll
<1>5. CASE StopCanceled
  <2>1. GoalsWant'
    BY <1>5, WantsKept DEF StopCanceled
  <2>. QED
    BY <1>5, <2>1 DEF StopCanceled, Leave
<1>6. CASE AwaitCostmap
  <2>1. GoalsWant'
    BY <1>6, WantsKept DEF AwaitCostmap, Locally
  <2>. QED
    BY <1>6, <2>1 DEF AwaitCostmap, Locally
<1>7. CASE CheckPreempt
  <2>1. GoalsWant'
    BY <1>7, WantsKept DEF CheckPreempt, Locally
  <2>. QED
    BY <1>0, <1>7, <2>1, SlotFacts DEF CheckPreempt, Locally
<1>8. CASE AcceptNewPath
  <2>1. CASE pending = None /\ control' = "crashed" /\ UNCHANGED path /\ Locally
    <3>1. GoalsWant'
      BY <2>1, WantsKept DEF Locally
    <3>. QED
      BY <1>8, <2>1, <3>1 DEF AcceptNewPath, Locally
  <2>2. CASE /\ Through(AcceptPendingGoal)
             /\ control' = CASE want[pending] = "unknown" -> "refuse"
                             [] want[pending] = "empty" -> "fail"
                             [] OTHER -> "drive"
             /\ path' = IF want[pending] \in Places THEN want[pending] ELSE path
    <3>1. GoalsWant'
      BY <1>0, <2>2, WantsKept, SlotsFree DEF Through
    <3>2. pending # None /\ pending \in Goals /\ status[pending] # "free"
      BY <1>0, <2>2, SlotFacts DEF Through, AcceptPendingGoal, Active
    <3>3. want[pending] \in Wants
      BY <3>2 DEF GoalsWant
    <3>4. /\ control' \in {"refuse", "fail", "drive"}
          /\ control' = "drive" => path' = want[pending]
      BY <2>2, <3>3 DEF Wants
    <3>5. /\ current' = pending /\ pending' = None
          /\ UNCHANGED <<queue, accepted, flagVars, worker, want, life, costmap, robot, vel>>
      BY <1>8, <2>2 DEF Through, AcceptPendingGoal, AcceptNewPath
    <3>. QED
      BY <1>8, <3>1, <3>4, <3>5 DEF AcceptNewPath
  <2>. QED
    BY <1>8, <2>1, <2>2 DEF AcceptNewPath
<1>9. CASE RefuseNewGoal
  <2>1. GoalsWant'
    BY <1>0, <1>9, WantsKept, SlotsFree DEF RefuseNewGoal, Through
  <2>. QED
    BY <1>9, <2>1 DEF RefuseNewGoal, Through, TerminateCurrent
<1>10. CASE Drive
  <2>1. GoalsWant'
    BY <1>10, WantsKept DEF Drive, Locally
  <2>. QED
    BY <1>10, <2>1 DEF Drive, Locally
<1>11. CASE CheckArrival
  <2>1. GoalsWant'
    BY <1>11, WantsKept DEF CheckArrival, Locally
  <2>. QED
    BY <1>11, <2>1 DEF CheckArrival, Locally
<1>12. CASE StopAtGoal
  <2>1. GoalsWant'
    BY <1>12, WantsKept DEF StopAtGoal, Locally
  <2>. QED
    BY <1>12, <2>1 DEF StopAtGoal, Locally
<1>13. CASE ReportSuccess
  <2>1. GoalsWant'
    BY <1>0, <1>13, WantsKept, SlotsFree DEF ReportSuccess
  <2>. QED
    BY <1>13, <2>1 DEF ReportSuccess, Leave, SucceededCurrent
<1>14. CASE StopOnFailure
  <2>1. GoalsWant'
    BY <1>14, WantsKept DEF StopOnFailure, Locally
  <2>. QED
    BY <1>14, <2>1 DEF StopOnFailure, Locally
<1>15. CASE ReportFailure
  <2>1. GoalsWant'
    BY <1>0, <1>15, WantsKept, SlotsFree DEF ReportFailure
  <2>. QED
    BY <1>15, <2>1 DEF ReportFailure, Leave, TerminateCurrent
<1>. QED
  BY <1>1, <1>2, <1>3, <1>4, <1>5, <1>6, <1>7, <1>8, <1>9, <1>10, <1>11, <1>12, <1>13, <1>14, <1>15
  DEF ComputeControl

LEMMA WorkerKeepsOwn == LoopInv /\ WorkerStep => Own'
<1> SUFFICES ASSUME LoopInv, WorkerStep PROVE Own'
  OBVIOUS
<1>0. Inv
  BY DEF LoopInv
<1> USE DEF LoopInv, Own, OwnTypes, LoopIsWorker, NullOnlyIfForced, LifeFollowsServer,
            StoppedOutside, StaysAtPath, FollowsCurrentGoal, CrashesOnlyIfForced,
            ownVars, loopVars, slotVars, flagVars
<1>1. UNCHANGED <<want, life, control, path, vel, costmap, robot, serverActive, stop, deactivating, accepted>>
  BY DEF WorkerStep, Work, WorkLoop, WorkStop, WorkUnfinished, WorkNext, WorkThrew, WorkExit
<1>2. control = "out" /\ control' = "out"
  BY <1>1 DEF WorkerStep, Work, WorkLoop, WorkStop, WorkUnfinished, WorkNext, WorkThrew, WorkExit
<1>3. GoalsWant'
  <2>0. \A g \in Goals : g \in {current, pending} => status[g] # "free"
    BY <1>0, SlotFacts, NoneNotGoal DEF Active
  <2>1. CASE WorkLoop \/ WorkExit
    BY <2>1, <1>1, WantsKept DEF WorkLoop, WorkExit
  <2>2. CASE WorkStop \/ WorkThrew
    BY <2>2, <1>0, <1>1, WantsKept, SlotsFree DEF WorkStop, WorkThrew
  <2>3. CASE WorkNext
    BY <2>3, <1>0, <1>1, WantsKept, SlotsFree DEF WorkNext
  <2>4. CASE WorkUnfinished
    <3>1. \A g \in Goals : status'[g] # "free" => status[g] # "free"
      BY <2>0, <2>4 DEF WorkUnfinished, TerminateCurrent, Terminated
    <3>. QED
      BY <3>1, <1>1, WantsKept
  <2>. QED
    BY <2>1, <2>2, <2>3, <2>4 DEF WorkerStep, Work
<1>4. worker' = "run" => current' = current /\ current # None /\ ~stop
  BY DEF WorkerStep, Work, WorkLoop, WorkStop, WorkUnfinished, WorkNext, WorkThrew, WorkExit
<1>5. worker \in {"none", "loop", "exit"} => worker' \in {"none", "exit"} \/ ~stop
  BY DEF WorkerStep, Work, WorkLoop, WorkStop, WorkUnfinished, WorkNext, WorkThrew, WorkExit
<1>6. worker # "none"
  BY DEF WorkerStep, Work, WorkLoop, WorkStop, WorkUnfinished, WorkNext, WorkThrew, WorkExit
<1>. QED
  BY <1>1, <1>2, <1>3, <1>4, <1>5, <1>6

LEMMA LifecycleKeepsOwn == LoopInv /\ Lifecycle => Own'
<1> SUFFICES ASSUME LoopInv, Lifecycle PROVE Own'
  OBVIOUS
<1>0. Inv
  BY DEF LoopInv
<1> USE DEF LoopInv, Own, OwnTypes, LoopIsWorker, NullOnlyIfForced, LifeFollowsServer,
            StoppedOutside, StaysAtPath, FollowsCurrentGoal, CrashesOnlyIfForced,
            ownVars, loopVars, serverVars, slotVars, flagVars
<1>1. CASE OnConfigure
  <2>1. GoalsWant'
    BY <1>1, WantsKept DEF OnConfigure
  <2>. QED
    BY <1>1, <2>1 DEF OnConfigure
<1>2. CASE OnActivate
  <2>1. GoalsWant'
    BY <1>2, WantsKept DEF OnActivate, Activate
  <2>. QED
    BY <1>2, <2>1 DEF OnActivate, Activate
<1>3. CASE OnDeactivate
  <2>1. GoalsWant'
    BY <1>3, WantsKept DEF OnDeactivate, Deactivate
  <2>. QED
    BY <1>3, <2>1 DEF OnDeactivate, Deactivate, IsRunning
<1>4. CASE FinishDeactivate
  <2>1. GoalsWant'
    BY <1>4, WantsKept DEF FinishDeactivate
  <2>. QED
    BY <1>4, <2>1 DEF FinishDeactivate
<1>5. CASE OnCleanup
  <2>1. GoalsWant'
    BY <1>5 DEF OnCleanup, GoalsWant
  <2>2. want' \in [Goals -> Wants \union {None}]
    BY <1>5 DEF OnCleanup
  <2>3. worker = "none" /\ control = "out" /\ current' = None
    BY <1>5 DEF OnCleanup, IsRunning
  <2>. QED
    BY <1>5, <2>1, <2>2, <2>3 DEF OnCleanup
<1>6. CASE MissedDeadline /\ UNCHANGED ownVars
  <2>1. GoalsWant'
    BY <1>0, <1>6, WantsKept, SlotsFree DEF MissedDeadline
  <2>. QED
    BY <1>6, <2>1 DEF MissedDeadline, TerminateAll
<1>7. CASE Deactivated /\ UNCHANGED ownVars
  <2>1. GoalsWant'
    BY <1>7, WantsKept DEF Deactivated
  <2>. QED
    BY <1>7, <2>1 DEF Deactivated, IsRunning
<1>. QED
  BY <1>1, <1>2, <1>3, <1>4, <1>5, <1>6, <1>7 DEF Lifecycle

LEMMA ClientsKeepOwn ==
  ASSUME LoopInv, NEW g \in Goals, Result(g) \/ CancelGoal(g) \/ \E w \in Wants : Request(g, w)
  PROVE  Own'
<1>0. Inv
  BY DEF LoopInv
<1> USE DEF LoopInv, Own, OwnTypes, LoopIsWorker, NullOnlyIfForced, LifeFollowsServer,
            StoppedOutside, StaysAtPath, FollowsCurrentGoal, CrashesOnlyIfForced,
            ownVars, loopVars, serverVars, slotVars, flagVars
<1>1. status \in [Goals -> {"free", "requested"} \union Active \union Ended]
  BY <1>0 DEF Inv, TypeOK
<1>2. current # None => status[current] \in Active
  BY <1>0, SlotFacts
<1>3. CASE Result(g)
  <2>1. GoalsWant'
    BY <1>1, <1>3 DEF Result, TakeResult, GoalsWant
  <2>2. current # g
    BY <1>2, <1>3, NoneNotGoal DEF Result, TakeResult, Active, Ended
  <2>. QED
    BY <1>3, <2>1, <2>2 DEF Result, TakeResult
<1>4. CASE CancelGoal(g)
  <2>1. GoalsWant'
    BY <1>1, <1>4 DEF CancelGoal, HandleCancel, GoalsWant
  <2>. QED
    BY <1>4, <2>1 DEF CancelGoal, HandleCancel
<1>5. ASSUME NEW w \in Wants, Request(g, w) PROVE Own'
  <2>1. GoalsWant'
    BY <1>1, <1>5 DEF Request, SendGoal, GoalsWant
  <2>2. current # g
    BY <1>2, <1>5, NoneNotGoal DEF Request, SendGoal, Active
  <2>. QED
    BY <1>5, <2>1, <2>2 DEF Request, SendGoal
<1>. QED
  BY <1>3, <1>4, <1>5

LEMMA ExecutorKeepsOwn == LoopInv /\ (Reject \/ Accept) => Own'
<1> SUFFICES ASSUME LoopInv, Reject \/ Accept PROVE Own'
  OBVIOUS
<1>0. Inv
  BY DEF LoopInv
<1> USE DEF LoopInv, Own, OwnTypes, LoopIsWorker, NullOnlyIfForced, LifeFollowsServer,
            StoppedOutside, StaysAtPath, FollowsCurrentGoal, CrashesOnlyIfForced,
            ownVars, loopVars, serverVars, slotVars, flagVars
<1>1. status \in [Goals -> {"free", "requested"} \union Active \union Ended]
  BY <1>0 DEF Inv, TypeOK
<1>2. queue # <<>> => Head(queue) \in Goals /\ status[Head(queue)] = "requested"
  <2>1. ASSUME queue # <<>> PROVE Head(queue) = queue[1] /\ 1 \in 1 .. Len(queue)
    BY <1>0, <2>1 DEF Inv, TypeOK
  <2>. QED
    BY <1>0, <2>1 DEF Inv, TypeOK, QueueHoldsRequests
<1>3. CASE Reject
  <2>1. GoalsWant'
    BY <1>1, <1>2, <1>3 DEF Reject, HandleGoalReject, GoalsWant
  <2>2. current # Head(queue)
    BY <1>0, <1>2, <1>3, SlotFacts, NoneNotGoal DEF Reject, HandleGoalReject, Active
  <2>3. current # None => want'[current] = want[current]
    BY <1>0, <1>2, <1>3, <2>2, SlotFacts DEF Reject, HandleGoalReject
  <2>4. want' \in [Goals -> Wants \union {None}]
    BY <1>2, <1>3 DEF Reject, HandleGoalReject
  <2>5. UNCHANGED <<current, pending, worker, flagVars, accepted, life, loopVars, costmap, robot>>
    BY <1>3 DEF Reject, HandleGoalReject
  <2>. QED
    BY <2>1, <2>3, <2>4, <2>5
<1>4. CASE HandleGoalAccept /\ UNCHANGED ownVars
  <2>1. GoalsWant'
    BY <1>1, <1>2, <1>4 DEF HandleGoalAccept, GoalsWant
  <2>. QED
    BY <1>4, <2>1 DEF HandleGoalAccept
<1>5. \A g \in Goals : g = pending => status[g] # "free"
  BY <1>0, SlotFacts, NoneNotGoal DEF Active
<1>6. CASE HandleAcceptedAsPending /\ UNCHANGED ownVars
  <2>1. GoalsWant'
    BY <1>5, <1>6 DEF HandleAcceptedAsPending, Terminated, GoalsWant
  <2>. QED
    BY <1>6, <2>1 DEF HandleAcceptedAsPending
<1>7. CASE HandleAcceptedAsCurrent /\ UNCHANGED ownVars
  <2>1. GoalsWant'
    BY <1>5, <1>7 DEF HandleAcceptedAsCurrent, Terminated, GoalsWant
  <2>. QED
    BY <1>7, <2>1 DEF HandleAcceptedAsCurrent, IsRunning
<1>. QED
  BY <1>3, <1>4, <1>6, <1>7 DEF Accept

LEMMA StepKeepsLoopInv == LoopInv /\ [ControllerNext]_controllerVars => LoopInv'
<1> SUFFICES ASSUME LoopInv, [ControllerNext]_controllerVars PROVE LoopInv'
  OBVIOUS
<1>1. Inv'
  BY ServerKeepsInv
<1>2. Own'
  <2>1. CASE ComputeControl
    BY <2>1, CallbackKeepsOwn
  <2>2. CASE WorkerStep
    BY <2>2, WorkerKeepsOwn
  <2>3. CASE Lifecycle
    BY <2>3, LifecycleKeepsOwn
  <2>4. ASSUME NEW g \in Goals, Result(g) \/ CancelGoal(g) \/ \E w \in Wants : Request(g, w)
        PROVE  Own'
    BY <2>4, ClientsKeepOwn
  <2>5. CASE Reject \/ Accept
    BY <2>5, ExecutorKeepsOwn
  <2> USE DEF LoopInv, Own, OwnTypes, LoopIsWorker, NullOnlyIfForced, LifeFollowsServer,
              StoppedOutside, StaysAtPath, FollowsCurrentGoal, CrashesOnlyIfForced, GoalsWant,
              ownVars, loopVars, serverVars, slotVars, flagVars
  <2>6. CASE CostmapChanges
    BY <2>6 DEF CostmapChanges
  <2>7. CASE RobotMoves
    BY <2>7 DEF RobotMoves
  <2>8. CASE UNCHANGED controllerVars
    BY <2>8 DEF controllerVars
  <2>. QED
    BY <2>1, <2>2, <2>3, <2>4, <2>5, <2>6, <2>7, <2>8 DEF ControllerNext
<1>. QED
  BY <1>1, <1>2 DEF LoopInv

LEMMA LoopInvHolds == ControllerSpec => []LoopInv
<1>. QED
  BY InitLoopInv, StepKeepsLoopInv, PTL DEF ControllerSpec

-----------------------------------------------------------------------------
(* Whatever clients send and cancel, the loop follows the path of the goal   *)
(* on which it will report (controller_server.cpp:541).                      *)
THEOREM LoopFollowsCurrentGoal == ControllerSpec => []FollowsCurrentGoal
<1>1. LoopInv => FollowsCurrentGoal
  BY DEF LoopInv, Own
<1>. QED
  BY <1>1, LoopInvHolds, PTL

(* Null is dereferenced only when deactivate() has lost its patience and     *)
(* taken the goals away (simple_action_server.hpp:291).                      *)
THEOREM NullIsForced == ControllerSpec => []CrashesOnlyIfForced
<1>1. LoopInv => CrashesOnlyIfForced
  BY DEF LoopInv, Own
<1>. QED
  BY <1>1, LoopInvHolds, PTL

(* With publish_zero_velocity, the robot stands still between goals: every   *)
(* way out of the loop stops it (controller_server.cpp:422).                 *)
THEOREM IdleRobotIsStopped == ZeroOnSuccess => (ControllerSpec => []IdleMeansStopped)
<1> SUFFICES ASSUME ZeroOnSuccess PROVE ControllerSpec => []IdleMeansStopped
  OBVIOUS
<1>1. LoopInv => IdleMeansStopped
  BY DEF LoopInv, Own, LoopIsWorker, StoppedOutside, IdleMeansStopped
<1>. QED
  BY <1>1, LoopInvHolds, PTL

(* Only succeeded_current() makes a goal succeed, the current one. *)
LEMMA SuccessIsReported ==
  ASSUME LoopInv, [ControllerNext]_controllerVars,
         NEW g \in Goals, status[g] # "succeeded", status'[g] = "succeeded"
  PROVE  ReportSuccess /\ g = current
<1>0. Inv /\ status \in [Goals -> {"free", "requested"} \union Active \union Ended]
  BY DEF LoopInv, Inv, TypeOK
<1>1. ~ UNCHANGED status
  OBVIOUS
<1>2. ~TerminateCurrent /\ ~TerminateAll /\ ~AcceptPendingGoal
  BY DEF TerminateCurrent, TerminateAll, AcceptPendingGoal, Terminated
<1> USE DEF serverVars, slotVars, controllerVars
<1>3. CASE ComputeControl
  <2>1. ~ (Enter \/ CheckActive \/ CheckCancel \/ EndCanceled \/ StopCanceled \/ AwaitCostmap)
    BY <1>1, <1>2
    DEF Enter, CheckActive, CheckCancel, EndCanceled, StopCanceled, AwaitCostmap, Locally, Through
  <2>2. ~ (CheckPreempt \/ AcceptNewPath \/ RefuseNewGoal \/ Drive \/ CheckArrival \/ StopAtGoal)
    BY <1>1, <1>2
    DEF CheckPreempt, AcceptNewPath, RefuseNewGoal, Drive, CheckArrival, StopAtGoal, Locally, Through
  <2>3. ~ (StopOnFailure \/ ReportFailure)
    BY <1>1, <1>2 DEF StopOnFailure, ReportFailure, Locally
  <2>4. ReportSuccess
    BY <1>3, <2>1, <2>2, <2>3 DEF ComputeControl
  <2>. QED
    BY <2>4 DEF ReportSuccess, SucceededCurrent
<1>4. CASE WorkerStep
  BY <1>1, <1>2, <1>4
  DEF WorkerStep, Work, WorkLoop, WorkStop, WorkUnfinished, WorkNext, WorkThrew, WorkExit, Terminated
<1>5. CASE Lifecycle
  BY <1>1, <1>2, <1>5
  DEF Lifecycle, OnConfigure, OnActivate, Activate, OnDeactivate, Deactivate, FinishDeactivate,
      OnCleanup, MissedDeadline, Deactivated
<1>6. ASSUME NEW h \in Goals, Result(h) \/ CancelGoal(h) \/ \E w \in Wants : Request(h, w)
      PROVE  FALSE
  BY <1>0, <1>6 DEF Result, TakeResult, CancelGoal, HandleCancel, Request, SendGoal
<1>7. CASE Reject \/ Accept
  BY <1>0, <1>7
  DEF Reject, HandleGoalReject, Accept, HandleGoalAccept, HandleAcceptedAsPending,
      HandleAcceptedAsCurrent, Terminated
<1>8. CASE CostmapChanges \/ RobotMoves \/ UNCHANGED controllerVars
  BY <1>1, <1>8 DEF CostmapChanges, RobotMoves
<1>. QED
  BY <1>3, <1>4, <1>5, <1>6, <1>7, <1>8 DEF ControllerNext

(* A goal succeeds where it asked the robot to be, although goals come and  *)
(* go between the check of the goal and the report                          *)
(* (controller_server.cpp:441).                                             *)
THEOREM SuccessAtDestination == ControllerSpec => SucceedsAtDestination
<1> DEFINE AtDestination ==
      \A g \in Goals : status[g] # "succeeded" /\ status'[g] = "succeeded" => robot = want[g]
<1>1. LoopInv /\ [ControllerNext]_controllerVars => [AtDestination]_controllerVars
  <2> SUFFICES ASSUME LoopInv, [ControllerNext]_controllerVars,
                      NEW g \in Goals, status[g] # "succeeded", status'[g] = "succeeded"
               PROVE  robot = want[g]
    OBVIOUS
  <2>1. control = "result" /\ g = current
    BY SuccessIsReported DEF ReportSuccess
  <2>2. g # None
    BY NoneNotGoal
  <2>. QED
    BY <2>1, <2>2 DEF LoopInv, Own, StaysAtPath, FollowsCurrentGoal
<1>. QED
  BY <1>1, LoopInvHolds, PTL DEF ControllerSpec, SucceedsAtDestination

-----------------------------------------------------------------------------
(* The controller server implements the follow_path action its clients rely *)
(* on, for every set of goals and places: every step of its threads is a    *)
(* step of FollowPathAction or none that a client can see.                  *)

(* The goal on its way into the slots: there is none in a server that does  *)
(* not exist, and nobody cancels or ends it.                                *)
OnItsWay ==
  /\ life = "unconfigured" => accepted = None
  /\ accepted # None => status[accepted] = "executing"

RefInv == LoopInv /\ OnItsWay

(* The steps of the slots do not touch it. *)
LEMMA SlotStepsKeepIt ==
  ASSUME LoopInv, OnItsWay, UNCHANGED <<accepted, life>>,
         \/ TerminateCurrent \/ TerminateAll \/ AcceptPendingGoal \/ SucceededCurrent
         \/ UNCHANGED status \/ status' = Terminated({pending})
  PROVE  OnItsWay'
<1>1. Inv
  BY DEF LoopInv
<1>2. accepted # None => accepted \in Goals \ {current, pending}
  BY <1>1, NoneNotGoal, SlotFacts DEF Inv, SlotsHoldActiveGoals
<1>3. accepted # None => status'[accepted] = status[accepted]
  BY <1>2 DEF TerminateCurrent, TerminateAll, AcceptPendingGoal, SucceededCurrent, Terminated
<1>. QED
  BY <1>3 DEF OnItsWay

LEMMA StepKeepsIt == LoopInv /\ OnItsWay /\ [ControllerNext]_controllerVars => OnItsWay'
<1> SUFFICES ASSUME LoopInv, OnItsWay, [ControllerNext]_controllerVars
             PROVE  OnItsWay'
  OBVIOUS
<1>0. /\ Inv /\ (serverActive => life = "active")
      /\ queue # <<>> => Head(queue) \in Goals /\ status[Head(queue)] = "requested"
      /\ status \in [Goals -> {"free", "requested"} \union Active \union Ended]
  <2>1. Inv /\ (serverActive => life = "active")
    BY DEF LoopInv, Own, LifeFollowsServer
  <2>2. queue # <<>> => Head(queue) = queue[1] /\ 1 \in 1 .. Len(queue) /\ queue[1] \in Goals
    BY <2>1 DEF Inv, TypeOK
  <2>. QED
    BY <2>1, <2>2 DEF Inv, TypeOK, QueueHoldsRequests
<1> USE <1>0 DEF serverVars, slotVars, flagVars, ownVars, loopVars, controllerVars
<1>1. CASE ComputeControl
  <2>1. CASE Enter \/ ReportSuccess \/ ReportFailure
    BY <2>1, SlotStepsKeepIt DEF Enter, ReportSuccess, ReportFailure
  <2>2. CASE EndCanceled \/ AcceptNewPath \/ RefuseNewGoal
    BY <2>2, SlotStepsKeepIt DEF EndCanceled, AcceptNewPath, RefuseNewGoal, Through, Locally
  <2>3. UNCHANGED <<accepted, life, status>> \/ Enter \/ ReportSuccess \/ ReportFailure
          \/ EndCanceled \/ AcceptNewPath \/ RefuseNewGoal
    BY <1>1 DEF ComputeControl, CheckActive, CheckCancel, StopCanceled, AwaitCostmap, CheckPreempt,
                Drive, CheckArrival, StopAtGoal, StopOnFailure, Locally
  <2>. QED
    BY <2>1, <2>2, <2>3, SlotStepsKeepIt
<1>2. CASE WorkerStep
  BY <1>2, SlotStepsKeepIt, NoCompletionGiven
  DEF WorkerStep, Work, WorkLoop, WorkStop, WorkUnfinished, WorkNext, WorkThrew, WorkExit
<1>3. CASE Lifecycle
  <2>1. CASE OnConfigure \/ OnActivate \/ OnDeactivate \/ FinishDeactivate \/ OnCleanup
    BY <2>1 DEF OnConfigure, OnActivate, Activate, OnDeactivate, Deactivate, FinishDeactivate,
                OnCleanup, OnItsWay
  <2>2. CASE (MissedDeadline \/ Deactivated) /\ UNCHANGED ownVars
    BY <2>2, SlotStepsKeepIt DEF MissedDeadline, Deactivated
  <2>. QED
    BY <1>3, <2>1, <2>2 DEF Lifecycle
<1>4. ASSUME NEW g \in Goals, Result(g) \/ CancelGoal(g) \/ \E w \in Wants : Request(g, w)
      PROVE  OnItsWay'
  <2>1. accepted' = accepted /\ life' = life
    BY <1>4 DEF Result, TakeResult, CancelGoal, HandleCancel, Request, SendGoal
  <2>2. ASSUME accepted # None PROVE status'[accepted] = "executing"
    <3>1. accepted \in Goals /\ status[accepted] = "executing"
      BY <2>2, SlotFacts DEF OnItsWay
    <3>2. CASE Result(g)
      BY <3>1, <3>2 DEF Result, TakeResult, Ended
    <3>3. CASE CancelGoal(g)
      BY <2>2, <3>3 DEF CancelGoal, HandleCancel
    <3>4. ASSUME NEW w \in Wants, Request(g, w) PROVE status'[accepted] = "executing"
      BY <3>1, <3>4 DEF Request, SendGoal
    <3>. QED
      BY <1>4, <3>2, <3>3, <3>4
  <2>. QED
    BY <2>1, <2>2 DEF OnItsWay
<1>5. CASE Reject
  BY <1>5 DEF OnItsWay, Reject, HandleGoalReject
<1>6. CASE Accept
  <2>1. CASE HandleGoalAccept
    <3>1. accepted' = Head(queue) /\ life' = "active" /\ status'[Head(queue)] = "executing"
      BY <1>6, <2>1 DEF Accept, HandleGoalAccept
    <3>. QED
      BY <3>1 DEF OnItsWay
  <2>2. CASE HandleAcceptedAsPending \/ HandleAcceptedAsCurrent
    BY <1>6, <2>2 DEF Accept, OnItsWay, HandleAcceptedAsPending, HandleAcceptedAsCurrent
  <2>. QED
    BY <1>6, <2>1, <2>2 DEF Accept
<1>7. CASE CostmapChanges \/ RobotMoves \/ UNCHANGED controllerVars
  BY <1>7, SlotStepsKeepIt DEF CostmapChanges, RobotMoves
<1>. QED
  BY <1>1, <1>2, <1>3, <1>4, <1>5, <1>6, <1>7 DEF ControllerNext

LEMMA RefInvHolds == ControllerSpec => []RefInv
<1>1. ControllerInit => OnItsWay
  BY DEF ControllerInit, ServerInit, OnItsWay
<1>. QED
  BY <1>1, StepKeepsIt, LoopInvHolds, PTL DEF ControllerSpec, RefInv

-----------------------------------------------------------------------------
(* The steps of the slots, seen by a client                                 *)

(* Nothing a client can see *)
Unseen == UNCHANGED <<life, serverActive, queue, accepted, status, current, pending, want>>

LEMMA UnseenStutters == Unseen => UNCHANGED Action!actionVars
  BY DEF Unseen, Action!actionVars

LEMMA ServerStepsMap ==
  ASSUME NEW p \in Wants, Action!ServerStep(p)
  PROVE  Action!ActionNext
  BY DEF Action!ActionNext

LEMMA SuccessMaps ==
  ASSUME NEW p \in Wants, Action!Succeed(p)
  PROVE  Action!ActionNext
  BY DEF Action!ActionNext, Action!ServerStep

LEMMA SomeWant == "unknown" \in Wants
  BY DEF Wants

(* What stays as it is when only the slots change *)
SlotsOnly == UNCHANGED <<life, serverActive, queue, accepted, want>>

LEMMA TerminateCurrentMaps ==
  ASSUME RefInv, SlotsOnly, TerminateCurrent
  PROVE  [Action!ActionNext]_Action!actionVars
<1>0. Inv /\ status \in [Goals -> {"free", "requested"} \union Active \union Ended]
  BY DEF RefInv, LoopInv, Inv, TypeOK
<1> USE NoneNotGoal DEF SlotsOnly, TerminateCurrent
<1>1. CASE current = None
  <2>1. status' = status
    BY <1>0, <1>1 DEF Terminated
  <2>. QED
    BY <1>1, <2>1, UnseenStutters DEF Unseen
<1>2. CASE current # None
  <2>1. current # accepted
    BY <1>0, <1>2, SlotFacts DEF Inv, SlotsHoldActiveGoals
  <2>2. Action!Fail
    BY <1>0, <1>2, <2>1 DEF Action!Fail, Action!Terminate, Action!TerminatedAs, Terminated
  <2>. QED
    BY <2>2, SomeWant, ServerStepsMap DEF Action!ServerStep
<1>. QED
  BY <1>1, <1>2

LEMMA TerminateAllMaps ==
  ASSUME RefInv, SlotsOnly, TerminateAll
  PROVE  [Action!ActionNext]_Action!actionVars
<1>0. Inv /\ status \in [Goals -> {"free", "requested"} \union Active \union Ended]
  BY DEF RefInv, LoopInv, Inv, TypeOK
<1> USE NoneNotGoal DEF SlotsOnly, TerminateAll
<1>1. CASE current = None /\ pending = None
  <2>1. status' = status
    BY <1>0, <1>1 DEF Terminated
  <2>. QED
    BY <1>1, <2>1, UnseenStutters DEF Unseen
<1>2. CASE current # None \/ pending # None
  <2>1. accepted = None \/ accepted \notin {current, pending}
    BY <1>0 DEF Inv, SlotsHoldActiveGoals
  <2>2. Action!EndAll
    BY <1>0, <1>2, <2>1
    DEF Action!EndAll, Action!TerminateAll, Action!Terminate, Action!TerminatedAs, Terminated
  <2>. QED
    BY <2>2 DEF Action!ActionNext
<1>. QED
  BY <1>1, <1>2

LEMMA AcceptPendingMaps ==
  ASSUME RefInv, SlotsOnly, AcceptPendingGoal
  PROVE  [Action!ActionNext]_Action!actionVars
<1>0. Inv /\ status \in [Goals -> {"free", "requested"} \union Active \union Ended]
  BY DEF RefInv, LoopInv, Inv, TypeOK
<1>1. accepted = None \/ accepted \notin {current, pending}
  BY <1>0 DEF Inv, SlotsHoldActiveGoals
<1>2. Action!Preempt
  BY <1>0, <1>1, NoneNotGoal DEF Action!Preempt, SlotsOnly, AcceptPendingGoal
<1>. QED
  BY <1>2, SomeWant, ServerStepsMap DEF Action!ServerStep

LEMMA SucceededMaps ==
  ASSUME RefInv, SlotsOnly, SucceededCurrent
  PROVE  [Action!ActionNext]_Action!actionVars
<1>0. Inv /\ status \in [Goals -> {"free", "requested"} \union Active \union Ended]
  BY DEF RefInv, LoopInv, Inv, TypeOK
<1> USE NoneNotGoal DEF SlotsOnly, SucceededCurrent
<1>1. CASE current = None
  <2>1. status' = status
    BY <1>0, <1>1
  <2>. QED
    BY <1>1, <2>1, UnseenStutters DEF Unseen
<1>2. CASE current # None
  <2>1. current # accepted /\ current \in Goals
    BY <1>0, <1>2, SlotFacts DEF Inv, SlotsHoldActiveGoals
  <2>2. PICK p \in Wants : p = want[current]
    BY <1>0, <1>2, SlotFacts DEF RefInv, LoopInv, Own, GoalsWant, Active
  <2>3. Action!Succeed(p)
    BY <1>0, <1>2, <2>1, <2>2 DEF Action!Succeed
  <2>. QED
    BY <2>3, SuccessMaps
<1>. QED
  BY <1>1, <1>2

-----------------------------------------------------------------------------
(* The threads                                                              *)

LEMMA CallbackMaps ==
  ASSUME RefInv, ComputeControl
  PROVE  [Action!ActionNext]_Action!actionVars
<1> USE DEF serverVars, slotVars, flagVars, SlotsOnly, Unseen
<1>1. CASE Enter
  <2>1. CASE UNCHANGED slotVars
    BY <1>1, <2>1, UnseenStutters DEF Enter
  <2>2. CASE TerminateCurrent
    BY <1>1, <2>2, TerminateCurrentMaps DEF Enter
  <2>. QED
    BY <1>1, <2>1, <2>2 DEF Enter
<1>2. CASE CheckActive \/ StopCanceled
  BY <1>2, UnseenStutters DEF CheckActive, StopCanceled
<1>3. CASE CheckCancel \/ AwaitCostmap \/ CheckPreempt \/ Drive \/ CheckArrival \/ StopAtGoal \/ StopOnFailure
  BY <1>3, UnseenStutters
  DEF CheckCancel, AwaitCostmap, CheckPreempt, Drive, CheckArrival, StopAtGoal, StopOnFailure, Locally
<1>4. CASE EndCanceled
  BY <1>4, TerminateAllMaps DEF EndCanceled, Through
<1>5. CASE AcceptNewPath
  <2>1. CASE Locally
    BY <2>1, UnseenStutters DEF Locally
  <2>2. CASE Through(AcceptPendingGoal)
    BY <2>2, AcceptPendingMaps DEF Through
  <2>. QED
    BY <1>5, <2>1, <2>2 DEF AcceptNewPath
<1>6. CASE RefuseNewGoal \/ ReportFailure
  BY <1>6, TerminateCurrentMaps DEF RefuseNewGoal, ReportFailure, Through
<1>7. CASE ReportSuccess
  BY <1>7, SucceededMaps DEF ReportSuccess
<1>. QED
  BY <1>1, <1>2, <1>3, <1>4, <1>5, <1>6, <1>7 DEF ComputeControl

LEMMA WorkerMaps ==
  ASSUME RefInv, WorkerStep
  PROVE  [Action!ActionNext]_Action!actionVars
<1> USE DEF slotVars, flagVars, ownVars, SlotsOnly, Unseen, WorkerStep
<1>1. CASE WorkLoop \/ WorkExit
  BY <1>1, UnseenStutters DEF WorkLoop, WorkExit
<1>2. CASE WorkStop \/ WorkThrew
  BY <1>2, TerminateAllMaps DEF WorkStop, WorkThrew
<1>3. CASE WorkUnfinished
  BY <1>3, NoCompletionGiven, TerminateCurrentMaps DEF WorkUnfinished
<1>4. CASE WorkNext
  BY <1>4, UnseenStutters, AcceptPendingMaps DEF WorkNext
<1>. QED
  BY <1>1, <1>2, <1>3, <1>4 DEF Work

(* Configured, active from activate() to the beginning of deactivate(), and *)
(* destroyed with all its goals by cleanup.                                 *)
LEMMA LifecycleMaps ==
  ASSUME RefInv, Lifecycle
  PROVE  [Action!ActionNext]_Action!actionVars
<1>1. serverActive <=> life = "active"
  BY DEF RefInv, LoopInv, Own, LifeFollowsServer
<1> USE <1>1 DEF serverVars, slotVars, flagVars, ownVars, loopVars, SlotsOnly, Unseen
<1>2. CASE OnConfigure
  <2>1. Action!Configure
    BY <1>2 DEF OnConfigure, Action!Configure
  <2>. QED
    BY <2>1 DEF Action!ActionNext, Action!Lifecycle
<1>3. CASE OnActivate
  <2>1. Action!Activate
    BY <1>3 DEF OnActivate, Activate, Action!Activate
  <2>. QED
    BY <2>1 DEF Action!ActionNext, Action!Lifecycle
<1>4. CASE OnDeactivate
  <2>1. Action!Deactivate
    BY <1>4 DEF OnDeactivate, Deactivate, Action!Deactivate
  <2>. QED
    BY <2>1 DEF Action!ActionNext, Action!Lifecycle
<1>5. CASE FinishDeactivate
  BY <1>5 DEF FinishDeactivate, Action!actionVars
<1>6. CASE OnCleanup
  <2>1. Action!Cleanup
    BY <1>6, NoneNotGoal DEF OnCleanup, Action!Cleanup, Action!Active, Active
  <2>. QED
    BY <2>1 DEF Action!ActionNext, Action!Lifecycle
<1>7. CASE MissedDeadline /\ UNCHANGED ownVars
  BY <1>7, TerminateAllMaps DEF MissedDeadline
<1>8. CASE Deactivated /\ UNCHANGED ownVars
  BY <1>8, UnseenStutters DEF Deactivated
<1>. QED
  BY <1>2, <1>3, <1>4, <1>5, <1>6, <1>7, <1>8 DEF Lifecycle

(* The goal between handle_goal() and handle_accepted() is the first of the *)
(* queue a client sees.                                                     *)
LEMMA FirstOfQueue ==
  ASSUME NEW a \in Goals, NEW q \in Seq(Goals)
  PROVE  /\ <<a>> \o q # <<>>
         /\ Head(<<a>> \o q) = a
         /\ Tail(<<a>> \o q) = q
         /\ \A g \in Goals : <<a>> \o Append(q, g) = Append(<<a>> \o q, g)
         /\ q # <<>> => Head(q) \in Goals /\ Tail(q) \in Seq(Goals) /\ <<Head(q)>> \o Tail(q) = q
  OBVIOUS

LEMMA ClientMaps ==
  ASSUME RefInv, NEW g \in Goals,
         Result(g) \/ CancelGoal(g) \/ \E w \in Wants : Request(g, w)
  PROVE  [Action!ActionNext]_Action!actionVars
<1>0. /\ Inv /\ queue \in Seq(Goals) /\ accepted \in Goals \union {None}
      /\ status \in [Goals -> {"free", "requested"} \union Active \union Ended]
      /\ want \in [Goals -> Wants \union {None}]
  BY DEF RefInv, LoopInv, Inv, TypeOK, Own, OwnTypes
<1>1. accepted # None => status[accepted] \in Active
  BY <1>0, SlotFacts
<1> USE NoneNotGoal DEF Active, Ended, flagVars, ownVars, loopVars
<1>2. CASE Result(g)
  <2>1. Action!Deliver(g)
    BY <1>0, <1>1, <1>2 DEF Result, TakeResult, Action!Deliver, Action!Ended
  <2>. QED
    BY <2>1 DEF Action!ActionNext
<1>3. CASE CancelGoal(g)
  <2>1. Action!Cancel(g)
    BY <1>0, <1>3 DEF CancelGoal, HandleCancel, Action!Cancel
  <2>. QED
    BY <2>1 DEF Action!ActionNext
<1>4. ASSUME NEW w \in Wants, Request(g, w) PROVE Action!Send(g, w)
  <2>1. g # accepted /\ UNCHANGED <<life, serverActive, accepted, current, pending>>
    BY <1>1, <1>4 DEF Request, SendGoal
  <2>2. accepted # None => <<accepted>> \o queue' = Append(<<accepted>> \o queue, g)
    BY <1>0, <1>4, FirstOfQueue DEF Request, SendGoal
  <2>3. accepted = None => queue' = Append(queue, g)
    BY <1>4 DEF Request, SendGoal
  <2>4. status[g] = "free" /\ status' = [status EXCEPT ![g] = "requested"] /\ want' = [want EXCEPT ![g] = w]
    BY <1>4 DEF Request, SendGoal
  <2>. QED
    BY <1>0, <2>1, <2>2, <2>3, <2>4 DEF Action!Send
<1>. QED
  BY <1>2, <1>3, <1>4 DEF Action!ActionNext

LEMMA ExecutorMaps ==
  ASSUME RefInv, Reject \/ Accept
  PROVE  [Action!ActionNext]_Action!actionVars
<1>0. /\ Inv /\ queue \in Seq(Goals) /\ accepted \in Goals \union {None}
      /\ status \in [Goals -> {"free", "requested"} \union Active \union Ended]
      /\ want \in [Goals -> Wants \union {None}]
  BY DEF RefInv, LoopInv, Inv, TypeOK, Own, OwnTypes
<1>1. queue # <<>> => Head(queue) \in Goals /\ status[Head(queue)] = "requested"
  <2>1. queue # <<>> => Head(queue) = queue[1] /\ 1 \in 1 .. Len(queue) /\ queue[1] \in Goals
    BY <1>0
  <2>. QED
    BY <1>0, <2>1 DEF Inv, QueueHoldsRequests
<1>2. serverActive => life = "active"
  BY DEF RefInv, LoopInv, Own, LifeFollowsServer
<1>3. accepted # None => /\ life # "unconfigured" /\ accepted \notin {current, pending}
                         /\ status[accepted] = "executing"
  BY <1>0 DEF RefInv, OnItsWay, Inv, SlotsHoldActiveGoals
<1> USE NoneNotGoal DEF flagVars, ownVars, loopVars
<1>5. CASE Reject
  <2>1. Action!Reject
    BY <1>0, <1>1, <1>5 DEF Reject, HandleGoalReject, Action!Reject
  <2>. QED
    BY <2>1, SomeWant, ServerStepsMap DEF Action!ServerStep
<1>6. CASE HandleGoalAccept /\ UNCHANGED ownVars
  <2>1. <<Head(queue)>> \o Tail(queue) = queue
    BY <1>0, <1>1, <1>6, FirstOfQueue DEF HandleGoalAccept
  <2>2. [h \in Goals |-> IF h = accepted' THEN "requested" ELSE status'[h]]
          = [h \in Goals |-> IF h = accepted THEN "requested" ELSE status[h]]
    BY <1>0, <1>1, <1>6 DEF HandleGoalAccept
  <2>. QED
    BY <1>1, <1>6, <2>1, <2>2 DEF HandleGoalAccept, Action!actionVars
<1>7. CASE HandleAcceptedAsPending /\ UNCHANGED ownVars
  <2>1. <<accepted>> \o queue # <<>> /\ Head(<<accepted>> \o queue) = accepted /\ Tail(<<accepted>> \o queue) = queue
    BY <1>0, <1>7, FirstOfQueue DEF HandleAcceptedAsPending
  <2>2. status' = Terminated({pending})
    BY <1>7 DEF HandleAcceptedAsPending
  <2>3. accepted # None
    BY <1>7 DEF HandleAcceptedAsPending
  <2>4. UNCHANGED <<life, serverActive, want, queue, current>> /\ pending' = accepted /\ accepted' = None
    BY <1>7 DEF HandleAcceptedAsPending
  <2>5. Action!AcceptAsPending
    BY <1>0, <1>2, <1>3, <2>1, <2>2, <2>3, <2>4
    DEF Action!AcceptAsPending, Action!TerminatedAs, Terminated
  <2>. QED
    BY <2>5, SomeWant, ServerStepsMap DEF Action!ServerStep
<1>8. CASE HandleAcceptedAsCurrent /\ UNCHANGED ownVars
  <2>1. <<accepted>> \o queue # <<>> /\ Head(<<accepted>> \o queue) = accepted /\ Tail(<<accepted>> \o queue) = queue
    BY <1>0, <1>8, FirstOfQueue DEF HandleAcceptedAsCurrent
  <2>2. status' = Terminated({pending}) /\ current = None /\ pending' = None /\ current' = accepted
    BY <1>8 DEF HandleAcceptedAsCurrent
  <2>3. accepted # None
    BY <1>8 DEF HandleAcceptedAsCurrent
  <2>4. UNCHANGED <<life, serverActive, want, queue>> /\ accepted' = None
    BY <1>8 DEF HandleAcceptedAsCurrent
  <2>5. Action!AcceptAsCurrent
    BY <1>0, <1>2, <1>3, <2>1, <2>2, <2>3, <2>4
    DEF Action!AcceptAsCurrent, Action!TerminatedAs, Terminated
  <2>. QED
    BY <2>5, SomeWant, ServerStepsMap DEF Action!ServerStep
<1>. QED
  BY <1>5, <1>6, <1>7, <1>8 DEF Accept

LEMMA StepMaps ==
  ASSUME RefInv, [ControllerNext]_controllerVars
  PROVE  [Action!ActionNext]_Action!actionVars
<1>1. CASE CostmapChanges \/ RobotMoves \/ UNCHANGED controllerVars
  BY <1>1, UnseenStutters
  DEF CostmapChanges, RobotMoves, controllerVars, serverVars, slotVars, flagVars, ownVars, Unseen
<1>. QED
  BY <1>1, CallbackMaps, WorkerMaps, LifecycleMaps, ClientMaps, ExecutorMaps DEF ControllerNext

LEMMA InitMaps == ControllerInit => Action!ActionInit
  BY NoneNotGoal DEF ControllerInit, ServerInit, Action!ActionInit

-----------------------------------------------------------------------------
(* What clients see of the controller server, with its worker, its executor *)
(* and its lifecycle thread (simple_action_server.hpp:143, :182 and         *)
(* controller_server.cpp:541), is the follow_path action.                   *)
THEOREM ServerImplementsAction == ControllerSpec => ImplementsAction
<1>. QED
  BY InitMaps, StepMaps, RefInvHolds, PTL
  DEF ControllerSpec, ImplementsAction, Action!ActionSpec
=============================================================================
