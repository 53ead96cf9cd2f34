------------------------- MODULE WaypointNavProofs -------------------------
(***************************************************************************)
(* Theorems about the waypoint node, for any missions, places and goals.    *)
(***************************************************************************)
EXTENDS WaypointNav, FollowPathActionProofs

NavInv == TypeOK /\ IndexInRange /\ ActionInv

LEMMA InitNavInv == Init => NavInv
<1> SUFFICES ASSUME Init
             PROVE  NavInv
  OBVIOUS
<1>1. ActionInv
  BY ActionInitInv DEF Init
<1>2. waypoints \in Seq(Places) /\ pose \in Places /\ useServer \in BOOLEAN
  BY ModesAreModes DEF Init
<1> QED
  BY <1>1, <1>2 DEF Init, NavInv, TypeOK, IndexInRange, States, ActionInv

(* What a tick's velocity command does to the server is a send or nothing. *)
LEMMA CommandSends ==
  ASSUME NavInv, NEW i \in Nat, ComputeVelocityCommand(i)
  PROVE  /\ [ActionNext]_actionVars
         /\ pathSent' \in BOOLEAN
         /\ lastSent' \in Nat
         /\ cmd' \in Places \union {"never", "zero"}
<1>1. waypoints \in Seq(Places) /\ Len(waypoints) \in Nat
  BY DEF NavInv, TypeOK
<1>2. i < Len(waypoints) => waypoints[i + 1] \in Places
  BY <1>1
<1>3. CASE FollowServer(i)
  BY <1>2, <1>3
  DEF FollowServer, SendPathToControllerServer, MarkSent, NothingSent, NavInv, TypeOK,
      ActionNext
<1>4. CASE PurePursuit(i)
  BY <1>2, <1>4 DEF PurePursuit, NothingSent, NavInv, TypeOK
<1> QED
  BY <1>3, <1>4 DEF ComputeVelocityCommand

(* Every step of the node's specification is, to the server, a step of the
   action or none. *)
LEMMA StepsAreActionSteps ==
  ASSUME NavInv, [Next]_vars
  PROVE  [ActionNext]_actionVars \/ ServerStep(None)
<1> USE DEF NavInv
<1>1. CASE WaitingTick \/ InitializingTick \/ ExecutingTick
  BY <1>1, CommandSends DEF WaitingTick, InitializingTick, ExecutingTick, TypeOK
<1>2. CASE NextGoalTick
  BY <1>2, CommandSends DEF NextGoalTick, TypeOK
<1>3. CASE LastGoalTick \/ CompletedTick
  BY <1>3 DEF LastGoalTick, CompletedTick
<1>4. CASE \E m \in Missions : GoalCallback(m)
  BY <1>4 DEF GoalCallback
<1>5. CASE OdomCallback \/ \E b \in Modes : ParamCallback(b)
  BY <1>5 DEF OdomCallback, ParamCallback
<1>6. CASE \E g \in Goals : ResultCallback(g)
  BY <1>6 DEF ResultCallback, ActionNext
<1>7. CASE Arrive \/ PassBy
  BY <1>7 DEF Arrive, PassBy, Move
<1>8. CASE ServeGoals
  BY <1>8 DEF ServeGoals, ActionNext, TypeOK
<1>9. CASE Disturbance
  BY <1>9 DEF Disturbance, ActionNext
<1>10. CASE UNCHANGED vars
  BY <1>10 DEF vars
<1> QED
  BY <1>1, <1>2, <1>3, <1>4, <1>5, <1>6, <1>7, <1>8, <1>9, <1>10 DEF Next, Tick

THEOREM StepNavInv == NavInv /\ [Next]_vars => NavInv'
<1> SUFFICES ASSUME NavInv, [Next]_vars
             PROVE  NavInv'
  OBVIOUS
<1>1. ActionInv'
  BY StepsAreActionSteps, ActionStepInv DEF NavInv
<1>2. ActionTypeOK'
  BY <1>1 DEF ActionInv
<1>3. /\ TypeOK /\ IndexInRange
      /\ waypoints \in Seq(Places) /\ Len(waypoints) \in Nat
      /\ idx \in Nat
  BY DEF NavInv, TypeOK
<1>4. CASE WaitingTick \/ InitializingTick \/ ExecutingTick
  <2>1. TypeOK'
    BY <1>2, <1>3, <1>4, CommandSends
    DEF WaitingTick, InitializingTick, ExecutingTick, TypeOK, States
  <2>2. IndexInRange'
    BY <1>3, <1>4 DEF WaitingTick, InitializingTick, ExecutingTick, IndexInRange
  <2> QED
    BY <1>1, <2>1, <2>2 DEF NavInv
<1>5. CASE NextGoalTick
  <2>1. TypeOK'
    BY <1>2, <1>3, <1>5, CommandSends DEF NextGoalTick, TypeOK
  <2>2. IndexInRange'
    BY <1>3, <1>5 DEF NextGoalTick, IndexInRange
  <2> QED
    BY <1>1, <2>1, <2>2 DEF NavInv
<1>6. CASE LastGoalTick
  BY <1>1, <1>2, <1>3, <1>6 DEF LastGoalTick, NavInv, TypeOK, IndexInRange, States
<1>7. CASE CompletedTick
  BY <1>1, <1>2, <1>3, <1>7 DEF CompletedTick, NavInv, TypeOK, IndexInRange, States
<1>8. ASSUME NEW m \in Missions, GoalCallback(m)
      PROVE  NavInv'
  <2>1. m \in Seq(Places) /\ Len(m) \in Nat /\ (Len(m) = 0 => m = <<>>)
    BY MissionsAreWaypoints
  <2>2. At(m, pose) \subseteq Nat
    BY <2>1 DEF At
  <2> QED
    BY <1>1, <1>2, <1>3, <1>8, <2>1, <2>2
    DEF GoalCallback, NavInv, TypeOK, IndexInRange
<1>9. CASE OdomCallback
  <2>1. At(waypoints, robot) \subseteq Nat
    BY <1>3 DEF At
  <2> QED
    BY <1>1, <1>2, <1>3, <1>9, <2>1 DEF OdomCallback, NavInv, TypeOK, IndexInRange
<1>10. ASSUME NEW b \in Modes, ParamCallback(b)
       PROVE  NavInv'
  BY <1>1, <1>2, <1>3, <1>10, ModesAreModes
  DEF ParamCallback, NavInv, TypeOK, IndexInRange
<1>11. ASSUME NEW g \in Goals, ResultCallback(g)
       PROVE  NavInv'
  <2>1. OnSucceeded \/ OnAborted \/ OnCanceled
    BY <1>11 DEF ResultCallback
  <2>2. idx' \in Nat
    BY <1>3, <2>1 DEF OnSucceeded, OnAborted, OnCanceled
  <2>3. pathSent' \in BOOLEAN
    BY <1>3, <2>1 DEF OnSucceeded, OnAborted, OnCanceled, TypeOK
  <2>4. TypeOK'
    BY <1>2, <1>3, <1>11, <2>2, <2>3 DEF ResultCallback, TypeOK
  <2>5. IndexInRange'
    BY <1>3, <1>11
    DEF ResultCallback, OnSucceeded, OnAborted, OnCanceled, HasNext, IndexInRange
  <2> QED
    BY <1>1, <2>4, <2>5 DEF NavInv
<1>12. ASSUME NEW p \in Places, Move(p)
       PROVE  NavInv'
  BY <1>1, <1>2, <1>3, <1>12 DEF Move, NavInv, TypeOK, IndexInRange
<1>13. CASE Arrive \/ PassBy
  <2>1. Headings \subseteq Places
    BY <1>3, NoneIsNoGoal
    DEF Headings, TypeOK, ActionTypeOK, NavInv, ActionInv, BusyGoalsLead,
        SlotsHoldActiveGoals, Active
  <2> QED
    BY <1>12, <1>13, <2>1 DEF Arrive, PassBy
<1>14. CASE ServeGoals \/ Disturbance \/ UNCHANGED vars
  BY <1>1, <1>2, <1>3, <1>14
  DEF ServeGoals, Disturbance, vars, navVars, NavInv, TypeOK, IndexInRange
<1> QED
  BY <1>4, <1>5, <1>6, <1>7, <1>8, <1>9, <1>10, <1>11, <1>13, <1>14 DEF Next, Tick

LEMMA NavInvHolds == Spec => []NavInv
BY InitNavInv, StepNavInv, PTL DEF Spec

(* The node's and the server's variables keep their types. *)
THEOREM NavTypes == Spec => []TypeOK
<1>1. NavInv => TypeOK
  BY DEF NavInv
<1> QED
  BY <1>1, NavInvHolds, PTL

(* A new mission, a result that comes late or an odometry message never puts
   current_goal_index_ outside the mission before the last goal is reached, so
   the code's indexing of waypoints_ is safe and no mission ends early by it. *)
THEOREM IndexStaysInRange == Spec => []IndexInRange
<1>1. NavInv => IndexInRange
  BY DEF NavInv
<1> QED
  BY <1>1, NavInvHolds, PTL

(* Under the waypoint node as its client, the server still loses no goal. *)
THEOREM NavGoalsStayInSlots == Spec => []SlotsHoldActiveGoals
<1>1. NavInv => SlotsHoldActiveGoals
  BY DEF NavInv, ActionInv
<1> QED
  BY <1>1, NavInvHolds, PTL

-----------------------------------------------------------------------------
(* Pure pursuit: without the controller server no goal is ever sent, so only
   the tick moves the index, and it does so at a waypoint the odometry shows. *)
NoGoals ==
  /\ useServer = FALSE
  /\ queue = <<>>
  /\ \A g \in Goals : status[g] = "free"

PoseIsVisited == fsm # "COMPLETED" => At(waypoints, pose) \subseteq visited

PursuitInv == NavInv /\ NoGoals /\ PoseIsVisited /\ NothingSkipped

LEMMA InitPursuitInv == ASSUME Modes = {FALSE} PROVE Init => PursuitInv
<1> SUFFICES ASSUME Init
             PROVE  PursuitInv
  OBVIOUS
<1>1. NavInv
  BY InitNavInv
<1>2. NoGoals
  BY DEF NoGoals, Init, ActionInit
<1>3. PoseIsVisited /\ NothingSkipped
  BY DEF PoseIsVisited, NothingSkipped, At, Init
<1> QED
  BY <1>1, <1>2, <1>3 DEF PursuitInv

LEMMA PursuitSendsNothing ==
  ASSUME Modes = {FALSE}, PursuitInv, [Next]_vars
  PROVE  NoGoals'
<1> USE DEF PursuitInv, NoGoals
<1>1. current = None /\ pending = None
  BY DEF NavInv, ActionInv, ActionTypeOK, SlotsHoldActiveGoals, Active
<1>2. \A i \in Nat : ComputeVelocityCommand(i) => UNCHANGED <<queue, status>>
  BY DEF ComputeVelocityCommand, FollowServer, PurePursuit, NothingSent, actionVars
<1>3. idx \in Nat
  BY DEF NavInv, TypeOK
<1>4. CASE WaitingTick \/ InitializingTick \/ ExecutingTick
  BY <1>2, <1>3, <1>4 DEF WaitingTick, InitializingTick, ExecutingTick
<1>5. CASE NextGoalTick
  BY <1>2, <1>3, <1>5 DEF NextGoalTick
<1>6. CASE LastGoalTick \/ CompletedTick
  BY <1>6 DEF LastGoalTick, CompletedTick, actionVars
<1>7. CASE OdomCallback \/ Arrive \/ PassBy \/ \E m \in Missions : GoalCallback(m)
  BY <1>7 DEF OdomCallback, Arrive, PassBy, Move, GoalCallback, actionVars
<1>8. ASSUME NEW b \in Modes, ParamCallback(b)
      PROVE  NoGoals'
  BY <1>8 DEF ParamCallback, actionVars
<1>9. ASSUME NEW g \in Goals, ResultCallback(g)
      PROVE  FALSE
  BY <1>9 DEF ResultCallback
<1>10. ASSUME NEW p, ServerStep(p)
       PROVE  FALSE
  BY <1>1, <1>10
  DEF ServerStep, Reject, AcceptAsCurrent, AcceptAsPending, Preempt, Succeed, Fail
<1>11. CASE ServeGoals
  BY <1>10, <1>11 DEF ServeGoals
<1>12. CASE Disturbance
  <2>1. ASSUME NEW g \in Goals, Cancel(g)
        PROVE  FALSE
    BY <2>1 DEF Cancel
  <2>2. CASE Configure \/ Activate \/ Deactivate
    BY <1>12, <2>2 DEF Disturbance, Configure, Activate, Deactivate, navVars
  <2>3. ASSUME EndAll
        PROVE  FALSE
    BY <1>1, <2>3 DEF EndAll
  <2>4. CASE Cleanup
    BY <1>12, <2>4 DEF Disturbance, Cleanup, Active, navVars
  <2> QED
    BY <1>12, <2>1, <2>2, <2>3, <2>4 DEF Disturbance, Lifecycle
<1>13. CASE UNCHANGED vars
  BY <1>13 DEF vars, actionVars, navVars
<1> QED
  BY <1>4, <1>5, <1>6, <1>7, <1>8, <1>9, <1>11, <1>12, <1>13 DEF Next, Tick

LEMMA StepPursuitInv ==
  ASSUME Modes = {FALSE}
  PROVE  PursuitInv /\ [Next]_vars => PursuitInv'
<1> SUFFICES ASSUME PursuitInv, [Next]_vars
             PROVE  PursuitInv'
  OBVIOUS
<1>1. NavInv' /\ NoGoals'
  BY StepNavInv, PursuitSendsNothing DEF PursuitInv
<1>2. idx \in Nat /\ Len(waypoints) \in Nat /\ DOMAIN waypoints = 1 .. Len(waypoints)
  BY DEF PursuitInv, NavInv, TypeOK
<1> USE DEF PursuitInv, PoseIsVisited, NothingSkipped
<1>3. CASE WaitingTick \/ InitializingTick \/ ExecutingTick
  BY <1>1, <1>3 DEF WaitingTick, InitializingTick, ExecutingTick
<1>4. CASE NextGoalTick
  <2>1. idx + 1 \in At(waypoints, pose)
    BY <1>2, <1>4 DEF NextGoalTick, IsGoalReached, At
  <2>2. idx + 1 \in visited /\ 1 .. idx \subseteq visited
    BY <1>4, <2>1 DEF NextGoalTick
  <2>3. 1 .. (idx + 1) \subseteq visited
    BY <1>2, <2>2
  <2> QED
    BY <1>1, <1>4, <2>3 DEF NextGoalTick
<1>5. CASE LastGoalTick
  BY <1>1, <1>5 DEF LastGoalTick
<1>6. CASE CompletedTick
  BY <1>1, <1>6 DEF CompletedTick, At
<1>7. ASSUME NEW m \in Missions, GoalCallback(m)
      PROVE  PursuitInv'
  BY <1>1, <1>7 DEF GoalCallback
<1>8. CASE OdomCallback
  BY <1>1, <1>8 DEF OdomCallback
<1>9. ASSUME NEW b \in Modes, ParamCallback(b)
      PROVE  PursuitInv'
  BY <1>1, <1>9 DEF ParamCallback
<1>10. ASSUME NEW g \in Goals, ResultCallback(g)
       PROVE  PursuitInv'
  BY <1>10 DEF ResultCallback, NoGoals
<1>11. CASE Arrive \/ PassBy
  BY <1>1, <1>11 DEF Arrive, PassBy, Move
<1>12. CASE ServeGoals \/ Disturbance \/ UNCHANGED vars
  BY <1>1, <1>12 DEF ServeGoals, Disturbance, vars, navVars
<1> QED
  BY <1>3, <1>4, <1>5, <1>6, <1>7, <1>8, <1>9, <1>10, <1>11, <1>12 DEF Next, Tick

(* Pure pursuit passes over no waypoint, whatever missions are published and
   however late the odometry is: the race between the tick and the results of
   follow_path goals is the only way to skip one. *)
THEOREM PursuitSkipsNothing ==
  ASSUME Modes = {FALSE}
  PROVE  Spec => []NothingSkipped
<1>1. Init => PursuitInv
  BY InitPursuitInv
<1>2. PursuitInv /\ [Next]_vars => PursuitInv'
  BY StepPursuitInv
<1>3. PursuitInv => NothingSkipped
  BY DEF PursuitInv
<1> QED
  BY <1>1, <1>2, <1>3, PTL DEF Spec
-----------------------------------------------------------------------------
(* The controller server: in the first mission the node never waits in vain. *)

(* The goal that the server will end last. *)
Newest == IF queue # <<>> THEN queue[Len(queue)]
          ELSE IF pending # None THEN pending ELSE current

Quiet ==
  /\ life = "active"
  /\ useServer = TRUE
  /\ cmd \in {"never", "zero"}
  /\ \A g \in Goals : status[g] \notin {"canceling", "canceled"}
  /\ \A i \in 1 .. Len(waypoints) - 1 : waypoints[i] # waypoints[i + 1]

BeforeMission ==
  missions = 0 =>
    /\ waypoints = <<>> /\ fsm = "WAITING_FOR_GOALS"
    /\ pathSent = FALSE /\ lastSent = 0
    /\ queue = <<>> /\ current = None /\ pending = None
    /\ \A g \in Goals : status[g] = "free" /\ dest[g] = None
    /\ pose = robot

(* Until the first result moves the index, all goals lead to the first
   waypoint, and a robot that is there stays. *)
FirstLeg ==
  missions = 1 /\ idx = 0 /\ waypoints # <<>> =>
    /\ \A g \in Goals : dest[g] \in {None, waypoints[1]}
    /\ pose = waypoints[1] => robot = pose
    /\ \A g \in Goals : status[g] = "succeeded" => pose = waypoints[1]

(* One goal at most is sent before the machine executes the path; when its
   result moves the index, the robot is at the first waypoint. *)
StartUp ==
  missions = 1 /\ waypoints # <<>> =>
    /\ fsm = "WAITING_FOR_GOALS" => idx = 0 /\ \A g \in Goals : status[g] = "free"
    /\ fsm = "INITIALIZING" =>
         /\ \A g, h \in Goals : status[g] # "free" /\ status[h] # "free" => g = h
         /\ idx # 0 => /\ idx = 1 /\ pose = waypoints[1] /\ robot = pose
                       /\ \A g \in Goals : status[g] = "free"

SentBefore == missions <= 1 /\ waypoints # <<>> => lastSent <= idx

(* The path that counts as sent is the newest goal's; or it was aborted, which
   the node has yet to hear; or no goal is left and the robot is at its end. *)
PathIsServed(p) ==
  \/ Newest # None /\ dest[Newest] = p
  \/ Newest = None /\ \E g \in Goals : status[g] = "aborted" /\ dest[g] = p
  \/ Newest = None /\ pose = robot /\ robot = p

SentIsOnItsWay ==
  missions = 1 /\ fsm # "COMPLETED" /\ idx < Len(waypoints) /\ ~NeedsPath(idx) =>
    PathIsServed(waypoints[idx + 1])

FirstMission ==
  Quiet /\ BeforeMission /\ FirstLeg /\ StartUp /\ SentBefore /\ SentIsOnItsWay

FirstMissionInv == missions <= 1 => FirstMission

(* The node uses the controller server, nobody disturbs, and no mission names
   the same place twice in a row. *)
PlainMissions ==
  /\ Modes = {TRUE}
  /\ Disturbed = FALSE
  /\ \A m \in Missions : \A i \in 1 .. Len(m) - 1 : m[i] # m[i + 1]

LEMMA NewestIsBusy ==
  ASSUME ActionInv, Newest # None
  PROVE  Newest \in Goals /\ status[Newest] \in {"requested", "executing", "canceling"}
<1>1. CASE queue # <<>>
  <2>1. Len(queue) \in 1 .. Len(queue) /\ queue[Len(queue)] \in Goals
    BY <1>1 DEF ActionInv, ActionTypeOK
  <2> QED
    BY <1>1, <2>1 DEF Newest, ActionInv, QueueHoldsRequests
<1>2. CASE queue = <<>>
  BY <1>2 DEF Newest, ActionInv, ActionTypeOK, SlotsHoldActiveGoals, Active
<1> QED
  BY <1>1, <1>2

LEMMA SentIsNewest ==
  ASSUME ActionInv, NEW g \in Goals, NEW p, Send(g, p)
  PROVE  Newest' = g /\ dest'[g] = p
<1>1. queue \in Seq(Goals) /\ queue' = Append(queue, g) /\ dest \in [Goals -> Places \union {None}]
  BY DEF ActionInv, ActionTypeOK, Send
<1>2. queue' # <<>> /\ queue'[Len(queue')] = g
  BY <1>1
<1> QED
  BY <1>1, <1>2 DEF Newest, Send

(* The server takes and preempts goals in their order. *)
LEMMA TakingKeepsNewest ==
  ASSUME ActionInv, AcceptAsCurrent \/ AcceptAsPending \/ Preempt
  PROVE  Newest' = Newest /\ Newest # None
<1>0. queue \in Seq(Goals) /\ None \notin Goals
  BY NoneIsNoGoal DEF ActionInv, ActionTypeOK
<1>1. CASE AcceptAsCurrent \/ AcceptAsPending
  <2>1. queue # <<>> /\ queue' = Tail(queue)
    BY <1>0, <1>1 DEF AcceptAsCurrent, AcceptAsPending
  <2>2. queue[Len(queue)] \in Goals /\ Head(queue) = queue[1]
    BY <1>0, <2>1
  <2>3. CASE Len(queue) = 1
    <3>1. queue' = <<>> /\ Newest = Head(queue)
      BY <1>0, <2>1, <2>2, <2>3 DEF Newest
    <3> QED
      BY <1>0, <1>1, <2>2, <2>3, <3>1 DEF Newest, AcceptAsCurrent, AcceptAsPending
  <2>4. CASE Len(queue) > 1
    <3>1. Len(Tail(queue)) \in 1 .. Len(Tail(queue)) /\ Len(Tail(queue)) + 1 = Len(queue)
      BY <1>0, <2>1, <2>4, QueueTail
    <3>2. Tail(queue)[Len(Tail(queue))] = queue[Len(queue)] /\ Tail(queue) # <<>>
      BY <1>0, <2>1, <3>1, QueueTail
    <3>3. queue' # <<>> /\ queue'[Len(queue')] = queue[Len(queue)]
      BY <2>1, <3>2
    <3> QED
      BY <1>0, <2>1, <2>2, <3>3 DEF Newest
  <2>5. Len(queue) = 1 \/ Len(queue) > 1
    <3>1. Len(queue) \in Nat /\ Len(queue) # 0
      BY <1>0, <2>1
    <3> QED
      BY <3>1
  <2> QED
    BY <2>3, <2>4, <2>5
<1>2. CASE Preempt
  <2>1. CASE queue # <<>>
    <3>1. queue[Len(queue)] \in Goals
      BY <1>0, <2>1
    <3> QED
      BY <1>0, <1>2, <2>1, <3>1 DEF Newest, Preempt
  <2> QED
    BY <1>2, <2>1 DEF Newest, Preempt
<1> QED
  BY <1>1, <1>2

LEMMA ServingKeepsPath ==
  ASSUME NavInv, Quiet, Disturbed = FALSE, ServeGoals, NEW p \in Places, PathIsServed(p)
  PROVE  PathIsServed(p)'
<1>0. /\ ActionInv /\ pose' = pose /\ robot' = robot /\ None \notin Goals
      /\ status \in [Goals -> Status] /\ current \in Goals \union {None} /\ queue \in Seq(Goals)
  BY NoneIsNoGoal DEF NavInv, ActionInv, ActionTypeOK, ServeGoals, navVars
<1>1. CASE AcceptAsCurrent \/ AcceptAsPending \/ Preempt
  <2>1. dest' = dest
    BY <1>1 DEF AcceptAsCurrent, AcceptAsPending, Preempt
  <2> QED
    BY <1>0, <1>1, <2>1, TakingKeepsNewest DEF PathIsServed
<1>2. ASSUME current # None, current' = None, UNCHANGED <<queue, dest, pending>>,
             \/ status'[current] = "aborted"
             \/ pose = robot /\ robot = dest[current]
      PROVE  PathIsServed(p)'
  <2>1. CASE queue # <<>>
    <3>1. queue[Len(queue)] \in Goals
      BY <1>0, <2>1
    <3> QED
      BY <1>0, <1>2, <2>1, <3>1 DEF PathIsServed, Newest
  <2>2. CASE queue = <<>> /\ pending # None
    BY <1>2, <2>2 DEF PathIsServed, Newest
  <2>3. CASE queue = <<>> /\ pending = None
    <3>1. Newest = current /\ Newest' = None /\ dest[current] = p
      BY <1>2, <2>3 DEF PathIsServed, Newest
    <3> QED
      BY <1>0, <1>2, <3>1 DEF PathIsServed
  <2> QED
    BY <2>1, <2>2, <2>3
<1>3. CASE Fail
  <2>1. status'[current] = "aborted"
    BY <1>0, <1>3 DEF Fail, Terminate, TerminatedAs, Quiet
  <2> QED
    BY <1>2, <1>3, <2>1 DEF Fail
<1>4. CASE Succeed(IF Disturbed \/ pose = robot THEN robot ELSE None)
  <2>1. dest[current] \in Places
    BY <1>0, <1>4 DEF Succeed, ActionInv, BusyGoalsLead, SlotsHoldActiveGoals, Active
  <2>2. pose = robot /\ robot = dest[current]
    BY <1>4, <2>1, NoneIsNoGoal DEF Succeed
  <2> QED
    BY <1>2, <1>4, <2>2 DEF Succeed
<1>5. ~Reject
  BY DEF Reject, Quiet
<1> QED
  BY <1>1, <1>3, <1>4, <1>5 DEF ServeGoals, ServerStep

(* A result takes no goal from the server, and the path of an aborted one is
   sent again. *)
LEMMA ResultKeepsPath ==
  ASSUME NavInv, Quiet, NEW g \in Goals, ResultCallback(g), NEW p, PathIsServed(p), pathSent'
  PROVE  PathIsServed(p)' /\ idx' = idx
<1>0. /\ ActionInv /\ pose' = pose /\ robot' = robot
      /\ dest \in [Goals -> Places \union {None}] /\ status \in [Goals -> Status]
      /\ UNCHANGED <<queue, current, pending>>
  BY DEF NavInv, ActionInv, ActionTypeOK, ResultCallback, Deliver
<1>1. status[g] = "succeeded" /\ idx' = idx
  BY DEF ResultCallback, OnSucceeded, OnAborted, OnCanceled
<1>2. Newest' = Newest
  BY <1>0 DEF Newest
<1>3. Newest # None => Newest \in Goals /\ Newest # g
  BY <1>0, <1>1, NewestIsBusy
<1>4. \A h \in Goals \ {g} : dest'[h] = dest[h] /\ status'[h] = status[h]
  BY <1>0 DEF ResultCallback, Deliver
<1> QED
  BY <1>0, <1>1, <1>2, <1>3, <1>4 DEF PathIsServed

(* What a tick does with the path of waypoint i. *)
LEMMA CommandServesPath ==
  ASSUME NavInv, Quiet, NEW i \in Nat, i < Len(waypoints), ComputeVelocityCommand(i),
         UNCHANGED <<waypoints, pose, robot>>
  PROVE  /\ cmd' = cmd
         /\ pathSent' /\ lastSent' = i
         /\ \/ UNCHANGED actionVars /\ (~NeedsPath(i) \/ pose = waypoints[i + 1])
            \/ /\ \E g \in Goals : Send(g, waypoints[i + 1])
               /\ PathIsServed(waypoints[i + 1])'
<1>1. FollowServer(i)
  BY DEF ComputeVelocityCommand, PurePursuit, Quiet
<1>2. CASE ~NeedsPath(i)
  BY <1>1, <1>2 DEF FollowServer, NothingSent, NeedsPath, NavInv, TypeOK
<1>3. CASE NeedsPath(i)
  <2>1. MarkSent(i) /\ IF pose = waypoints[i + 1] THEN UNCHANGED actionVars
                       ELSE \E g \in Goals : Send(g, waypoints[i + 1])
    BY <1>1, <1>3 DEF FollowServer, SendPathToControllerServer, Quiet
  <2>2. ASSUME NEW g \in Goals, Send(g, waypoints[i + 1])
        PROVE  PathIsServed(waypoints[i + 1])'
    BY <2>2, SentIsNewest, NoneIsNoGoal DEF PathIsServed, NavInv
  <2> QED
    BY <1>1, <2>1, <2>2 DEF FollowServer, MarkSent
<1> QED
  BY <1>2, <1>3

LEMMA SendKeepsQuiet ==
  ASSUME NavInv, Quiet, UNCHANGED <<waypoints, useServer, cmd>>,
         \/ UNCHANGED actionVars
         \/ \E g \in Goals, p \in Places : Send(g, p)
  PROVE  Quiet'
<1>1. status \in [Goals -> Status]
  BY DEF NavInv, ActionInv, ActionTypeOK
<1> QED
  BY <1>1 DEF Send, Quiet, actionVars

(* A server that serves has goals to serve; it frees none and moves none. *)
LEMMA ServingMovesGoals ==
  ASSUME NavInv, Quiet, Disturbed = FALSE, ServeGoals
  PROVE  /\ \E g \in Goals : status[g] # "free"
         /\ dest' = dest
         /\ \A g \in Goals :
              /\ status'[g] # "free" => status[g] # "free"
              /\ status'[g] \notin {"canceling", "canceled"}
              /\ status'[g] = "succeeded" =>
                   status[g] = "succeeded" \/ (pose = robot /\ dest[g] = pose /\ g = current)
<1>0. /\ ActionInv /\ None \notin Goals /\ None \notin Places
      /\ status \in [Goals -> Status] /\ current \in Goals \union {None}
      /\ pending \in Goals \union {None} /\ queue \in Seq(Goals)
      /\ \A g \in Goals : status[g] \notin {"canceling", "canceled"}
  BY NoneIsNoGoal DEF NavInv, ActionInv, ActionTypeOK, Quiet
<1>1. current # None => status[current] = "executing" /\ dest[current] \in Places
  BY <1>0 DEF ActionInv, SlotsHoldActiveGoals, Active, BusyGoalsLead
<1>2. pending # None => status[pending] = "executing"
  BY <1>0 DEF ActionInv, SlotsHoldActiveGoals, Active
<1>3. CASE AcceptAsCurrent \/ AcceptAsPending
  <2>1. Head(queue) \in Goals /\ status[Head(queue)] = "requested"
    BY <1>0, <1>3, QueueTail DEF AcceptAsCurrent, AcceptAsPending
  <2> QED
    BY <1>0, <1>2, <1>3, <2>1 DEF AcceptAsCurrent, AcceptAsPending, TerminatedAs
<1>4. CASE Preempt
  BY <1>0, <1>1, <1>2, <1>4 DEF Preempt
<1>5. CASE Fail
  BY <1>0, <1>1, <1>5 DEF Fail, Terminate, TerminatedAs
<1>6. CASE Succeed(IF Disturbed \/ pose = robot THEN robot ELSE None)
  <2>1. pose = robot /\ dest[current] = robot
    BY <1>0, <1>1, <1>6 DEF Succeed
  <2> QED
    BY <1>0, <1>1, <1>6, <2>1 DEF Succeed
<1>7. ~Reject
  BY DEF Reject, Quiet
<1> QED
  BY <1>3, <1>4, <1>5, <1>6, <1>7 DEF ServeGoals, ServerStep

LEMMA InitFirstMission ==
  ASSUME PlainMissions
  PROVE  Init => FirstMissionInv
BY DEF PlainMissions, Init, ActionInit, FirstMissionInv, FirstMission, Quiet, BeforeMission,
       FirstLeg, StartUp, SentBefore, SentIsOnItsWay

(* A tick that leaves the index alone. *)
LEMMA TickKeepsFirstMission ==
  ASSUME PlainMissions, NavInv, FirstMission, missions <= 1,
         WaitingTick \/ InitializingTick \/ ExecutingTick
  PROVE  FirstMission'
<1>0. /\ UNCHANGED <<waypoints, idx, pose, useServer, robot, visited, missions>>
      /\ ComputeVelocityCommand(idx)
      /\ fsm # "COMPLETED" /\ fsm' \in {"INITIALIZING", "EXECUTING_PATH"}
      /\ idx \in Nat /\ waypoints \in Seq(Places) /\ Len(waypoints) \in Nat /\ missions \in Nat
      /\ status \in [Goals -> Status] /\ ActionInv
  BY DEF WaitingTick, InitializingTick, ExecutingTick, NavInv, TypeOK, ActionInv, ActionTypeOK
<1>1. CASE waypoints = <<>>
  <2>1. NothingSent /\ cmd' = cmd
    BY <1>0, <1>1 DEF ComputeVelocityCommand, FollowServer, PurePursuit, FirstMission, Quiet
  <2>2. missions # 0
    BY <1>1 DEF WaitingTick, InitializingTick, ExecutingTick, FirstMission, BeforeMission
  <2> QED
    BY <1>0, <1>1, <2>1, <2>2 DEF NothingSent, actionVars, FirstMission, Quiet, BeforeMission,
       FirstLeg, StartUp, SentBefore, SentIsOnItsWay
<1>2. CASE waypoints # <<>>
  <2>1. missions = 1 /\ idx < Len(waypoints)
    BY <1>0, <1>2 DEF FirstMission, BeforeMission, NavInv, IndexInRange
  <2>2. /\ cmd' = cmd /\ pathSent' /\ lastSent' = idx
        /\ \/ UNCHANGED actionVars /\ (~NeedsPath(idx) \/ pose = waypoints[idx + 1])
           \/ /\ \E g \in Goals : Send(g, waypoints[idx + 1])
              /\ PathIsServed(waypoints[idx + 1])'
    BY <1>0, <2>1, CommandServesPath DEF FirstMission
  <2>3. waypoints[idx + 1] \in Places
    BY <1>0, <2>1
  <2>4. Quiet'
    BY <1>0, <2>2, <2>3, SendKeepsQuiet DEF FirstMission
  <2>5. BeforeMission' /\ SentBefore'
    BY <1>0, <2>1, <2>2 DEF BeforeMission, SentBefore
  <2>6. FirstLeg'
    <3> SUFFICES ASSUME idx = 0
                 PROVE  FirstLeg'
      BY <1>0 DEF FirstLeg
    <3>1. /\ \A g \in Goals : dest[g] \in {None, waypoints[1]}
          /\ pose = waypoints[1] => robot = pose
          /\ \A g \in Goals : status[g] = "succeeded" => pose = waypoints[1]
      BY <1>2, <2>1 DEF FirstMission, FirstLeg
    <3>2. CASE UNCHANGED actionVars
      BY <1>0, <3>1, <3>2 DEF FirstLeg, actionVars
    <3>3. ASSUME NEW g \in Goals, Send(g, waypoints[idx + 1])
          PROVE  FirstLeg'
      <4>1. \A h \in Goals : dest'[h] \in {dest[h], waypoints[1]}
                             /\ status'[h] \in {status[h], "requested"}
        BY <1>0, <3>3 DEF Send
      <4> QED
        BY <1>0, <3>1, <4>1 DEF FirstLeg
    <3> QED
      BY <2>2, <3>2, <3>3
  <2>7. StartUp'
    BY <1>0, <2>1, <2>2 DEF FirstMission, StartUp, Send, actionVars,
       WaitingTick, InitializingTick, ExecutingTick
  <2>8. PathIsServed(waypoints[idx + 1])'
    <3>1. CASE UNCHANGED actionVars /\ ~NeedsPath(idx)
      <4>1. PathIsServed(waypoints[idx + 1])
        BY <1>0, <2>1, <3>1 DEF FirstMission, SentIsOnItsWay
      <4> QED
        BY <1>0, <3>1, <4>1 DEF actionVars, PathIsServed, Newest
    <3>2. CASE UNCHANGED actionVars /\ pose = waypoints[idx + 1]
      <4>1. idx = 0
        <5>1. ~ExecutingTick
          BY <2>1, <3>2 DEF ExecutingTick, IsGoalReached
        <5>2. idx # 0 => idx = 1 /\ pose = waypoints[1] /\ waypoints[1] # waypoints[2]
          BY <1>0, <1>2, <2>1, <5>1
          DEF FirstMission, StartUp, Quiet, WaitingTick, InitializingTick
        <5> QED
          BY <3>2, <5>2
      <4>2. robot = pose /\ \A g \in Goals : dest[g] \in {None, waypoints[1]}
        BY <1>2, <2>1, <3>2, <4>1 DEF FirstMission, FirstLeg
      <4>3. Newest # None => dest[Newest] = waypoints[1]
        BY <1>0, <4>2, NewestIsBusy, NoneIsNoGoal DEF ActionInv, BusyGoalsLead
      <4> QED
        BY <1>0, <3>2, <4>1, <4>2, <4>3 DEF PathIsServed, Newest, actionVars
    <3> QED
      BY <2>2, <3>1, <3>2
  <2>9. SentIsOnItsWay'
    BY <1>0, <2>8 DEF SentIsOnItsWay
  <2> QED
    BY <2>4, <2>5, <2>6, <2>7, <2>9 DEF FirstMission
<1> QED
  BY <1>1, <1>2

(* The next waypoint is another place, so its path is always sent. *)
LEMMA NextGoalKeepsFirstMission ==
  ASSUME PlainMissions, NavInv, FirstMission, missions <= 1, NextGoalTick
  PROVE  FirstMission'
<1>0. /\ UNCHANGED <<fsm, waypoints, pose, useServer, robot, missions>>
      /\ ComputeVelocityCommand(idx + 1) /\ fsm = "EXECUTING_PATH" /\ idx' = idx + 1
      /\ idx \in Nat /\ waypoints \in Seq(Places) /\ Len(waypoints) \in Nat /\ missions \in Nat
      /\ idx + 1 < Len(waypoints) /\ pose = waypoints[idx + 1] /\ lastSent \in Nat
      /\ status \in [Goals -> Status]
  BY DEF NextGoalTick, IsGoalReached, NavInv, TypeOK, ActionTypeOK
<1>1. missions = 1 /\ waypoints # <<>> /\ lastSent <= idx
  BY <1>0 DEF FirstMission, BeforeMission, SentBefore
<1>2. waypoints[idx + 1] # waypoints[(idx + 1) + 1] /\ waypoints[(idx + 1) + 1] \in Places
  BY <1>0 DEF FirstMission, Quiet
<1>3. idx + 1 \in Nat /\ NeedsPath(idx + 1)
  BY <1>0, <1>1 DEF NeedsPath
<1>4. PICK i \in Nat : i = idx + 1
  BY <1>0
<1>5. /\ cmd' = cmd /\ pathSent' /\ lastSent' = i
      /\ \E g \in Goals : Send(g, waypoints[i + 1])
      /\ PathIsServed(waypoints[i + 1])'
  BY <1>0, <1>2, <1>3, <1>4, CommandServesPath DEF FirstMission
<1>6. Quiet'
  BY <1>0, <1>2, <1>4, <1>5, SendKeepsQuiet DEF FirstMission
<1>7. BeforeMission' /\ FirstLeg' /\ StartUp' /\ SentBefore'
  BY <1>0, <1>1, <1>4, <1>5 DEF BeforeMission, FirstLeg, StartUp, SentBefore
<1>8. SentIsOnItsWay'
  BY <1>0, <1>4, <1>5 DEF SentIsOnItsWay, PathIsServed
<1> QED
  BY <1>6, <1>7, <1>8 DEF FirstMission

LEMMA CallbackKeepsFirstMission ==
  ASSUME PlainMissions, NavInv, FirstMission, missions' <= 1,
         \/ LastGoalTick \/ CompletedTick \/ OdomCallback
         \/ \E m \in Missions : GoalCallback(m)
         \/ \E b \in Modes : ParamCallback(b)
  PROVE  FirstMission'
<1>0. /\ idx \in Nat /\ missions \in Nat /\ lastSent \in Nat /\ waypoints \in Seq(Places)
      /\ Len(waypoints) \in Nat
  BY DEF NavInv, TypeOK
<1> USE DEF FirstMission, Quiet, BeforeMission, FirstLeg, StartUp, SentBefore, SentIsOnItsWay,
            NeedsPath, PathIsServed, Newest, actionVars
<1>1. CASE LastGoalTick
  BY <1>0, <1>1 DEF LastGoalTick
<1>2. CASE CompletedTick
  BY <1>0, <1>2 DEF CompletedTick
<1>3. CASE OdomCallback
  BY <1>0, <1>3 DEF OdomCallback
<1>4. ASSUME NEW m \in Missions, GoalCallback(m)
      PROVE  FirstMission'
  <2>1. missions = 0 /\ missions' = 1
    BY <1>0, <1>4 DEF GoalCallback
  <2> QED
    BY <1>0, <1>4, <2>1 DEF GoalCallback, PlainMissions
<1>5. ASSUME NEW b \in Modes, ParamCallback(b)
      PROVE  FirstMission'
  BY <1>0, <1>5 DEF ParamCallback, PlainMissions
<1> QED
  BY <1>1, <1>2, <1>3, <1>4, <1>5

LEMMA ResultKeepsFirstMission ==
  ASSUME NavInv, FirstMission, missions <= 1, NEW g \in Goals, ResultCallback(g)
  PROVE  FirstMission'
<1>0. /\ idx \in Nat /\ missions \in Nat /\ lastSent \in Nat /\ waypoints \in Seq(Places)
      /\ Len(waypoints) \in Nat /\ pathSent \in BOOLEAN
      /\ status \in [Goals -> Status] /\ dest \in [Goals -> Places \union {None}]
      /\ status[g] \in {"succeeded", "aborted"} /\ status[g] # "free"
      /\ UNCHANGED <<life, fsm, waypoints, pose, lastSent, useServer, cmd, robot, missions>>
  BY DEF NavInv, TypeOK, ActionTypeOK, ResultCallback, Deliver, FirstMission, Quiet, Ended
<1>1. /\ \A h \in Goals : status'[h] \in {status[h], "free"} /\ dest'[h] \in {dest[h], None}
      /\ status'[g] = "free"
  BY <1>0 DEF ResultCallback, Deliver
<1>2. missions = 1
  BY <1>0 DEF FirstMission, BeforeMission
<1>3. /\ idx' = idx \/ (idx' = idx + 1 /\ HasNext)
      /\ idx' # idx => status[g] = "succeeded" \/ pose = waypoints[idx + 1]
      /\ pathSent' => pathSent
  BY <1>0 DEF ResultCallback, OnSucceeded, OnAborted, OnCanceled
<1>4. Quiet'
  BY <1>0, <1>1 DEF FirstMission, Quiet
<1>5. BeforeMission' /\ SentBefore' /\ FirstLeg'
  BY <1>0, <1>1, <1>2, <1>3 DEF FirstMission, BeforeMission, SentBefore, FirstLeg
<1>6. StartUp'
  <2> SUFFICES ASSUME waypoints # <<>>, fsm \in {"WAITING_FOR_GOALS", "INITIALIZING"}
               PROVE  StartUp'
    BY <1>0 DEF StartUp
  <2>1. fsm = "INITIALIZING" /\ idx = 0
    BY <1>0, <1>2 DEF FirstMission, StartUp
  <2>2. \A h \in Goals : status'[h] = "free"
    BY <1>0, <1>1, <1>2, <2>1 DEF FirstMission, StartUp
  <2>3. idx' # 0 => idx' = 1 /\ pose = waypoints[1] /\ robot = pose
    BY <1>0, <1>2, <1>3, <2>1 DEF FirstMission, FirstLeg
  <2> QED
    BY <1>0, <2>1, <2>2, <2>3 DEF StartUp
<1>7. SentIsOnItsWay'
  <2> SUFFICES ASSUME fsm # "COMPLETED", idx' < Len(waypoints), pathSent', idx' = lastSent
               PROVE  PathIsServed(waypoints[idx + 1])'
    BY <1>0 DEF SentIsOnItsWay, NeedsPath
  <2>1. idx' = idx
    BY <1>0 DEF ResultCallback, OnSucceeded, OnAborted, OnCanceled
  <2>2. PathIsServed(waypoints[idx + 1])
    BY <1>0, <1>2, <1>3, <2>1 DEF FirstMission, SentIsOnItsWay, NeedsPath
  <2>3. PICK p : p = waypoints[idx + 1]
    OBVIOUS
  <2>4. PathIsServed(p)'
    BY <2>2, <2>3, ResultKeepsPath DEF FirstMission
  <2> QED
    BY <1>0, <2>1, <2>3, <2>4 DEF PathIsServed
<1> QED
  BY <1>4, <1>5, <1>6, <1>7 DEF FirstMission

(* Only the server drives the robot, and not away from where it is to be. *)
LEMMA MovingKeepsFirstMission ==
  ASSUME NavInv, FirstMission, missions <= 1, Arrive \/ PassBy
  PROVE  FirstMission'
<1>0. /\ UNCHANGED <<actionVars, fsm, waypoints, idx, pose, pathSent, lastSent, useServer, cmd,
                     missions>>
      /\ missions \in Nat
  BY DEF Arrive, PassBy, Move, NavInv, TypeOK
<1>1. current # None /\ current \in Goals /\ dest[current] # robot
  BY DEF Arrive, PassBy, Headings, FirstMission, Quiet, NavInv, TypeOK, ActionTypeOK
<1>2. status[current] # "free" /\ dest[current] \in Places
  BY <1>1 DEF NavInv, ActionInv, SlotsHoldActiveGoals, Active, BusyGoalsLead
<1>3. Newest # None
  <2>1. queue # <<>> => queue[Len(queue)] \in Goals
    BY DEF NavInv, TypeOK, ActionTypeOK
  <2> QED
    BY <1>1, <2>1, NoneIsNoGoal DEF Newest
<1>4. missions = 1
  BY <1>0, <1>1 DEF FirstMission, BeforeMission
<1>5. Quiet' /\ BeforeMission' /\ SentBefore'
  BY <1>0, <1>4 DEF FirstMission, Quiet, BeforeMission, SentBefore, actionVars
<1>6. FirstLeg'
  BY <1>0, <1>1, <1>2, <1>4, NoneIsNoGoal DEF FirstMission, FirstLeg, actionVars
<1>7. StartUp'
  BY <1>0, <1>1, <1>2, <1>4 DEF FirstMission, StartUp, actionVars
<1>8. SentIsOnItsWay'
  BY <1>0, <1>3 DEF FirstMission, SentIsOnItsWay, NeedsPath, PathIsServed, Newest, actionVars
<1> QED
  BY <1>5, <1>6, <1>7, <1>8 DEF FirstMission

LEMMA ServingKeepsFirstMission ==
  ASSUME PlainMissions, NavInv, FirstMission, missions <= 1, ServeGoals
  PROVE  FirstMission'
<1>0. /\ UNCHANGED navVars /\ missions \in Nat /\ waypoints \in Seq(Places) /\ idx \in Nat
      /\ Disturbed = FALSE /\ life' = life
  BY DEF ServeGoals, NavInv, TypeOK, PlainMissions, ServerStep, Reject, AcceptAsCurrent,
         AcceptAsPending, Preempt, Succeed, Fail
<1>1. /\ \E g \in Goals : status[g] # "free"
      /\ dest' = dest
      /\ \A g \in Goals :
           /\ status'[g] # "free" => status[g] # "free"
           /\ status'[g] \notin {"canceling", "canceled"}
           /\ status'[g] = "succeeded" =>
                status[g] = "succeeded" \/ (pose = robot /\ dest[g] = pose /\ g = current)
  BY <1>0, ServingMovesGoals DEF FirstMission
<1>2. missions = 1
  BY <1>0, <1>1 DEF FirstMission, BeforeMission
<1>3. Quiet' /\ BeforeMission' /\ SentBefore'
  BY <1>0, <1>1, <1>2 DEF FirstMission, Quiet, BeforeMission, SentBefore, navVars
<1>4. FirstLeg'
  <2>1. pose \in Places
    BY DEF NavInv, TypeOK
  <2> QED
    BY <1>0, <1>1, <1>2, <2>1, NoneIsNoGoal DEF FirstMission, FirstLeg, navVars
<1>5. StartUp'
  BY <1>0, <1>1, <1>2 DEF FirstMission, StartUp, navVars
<1>6. SentIsOnItsWay'
  <2> SUFFICES ASSUME fsm # "COMPLETED", idx < Len(waypoints), ~NeedsPath(idx)
               PROVE  PathIsServed(waypoints[idx + 1])'
    BY <1>0 DEF SentIsOnItsWay, NeedsPath, navVars
  <2>1. PICK p \in Places : p = waypoints[idx + 1]
    BY <1>0
  <2>2. PathIsServed(p)
    BY <1>2, <2>1 DEF FirstMission, SentIsOnItsWay
  <2>3. PathIsServed(p)'
    BY <1>0, <2>2, ServingKeepsPath DEF FirstMission
  <2> QED
    BY <1>0, <2>1, <2>3 DEF PathIsServed, navVars
<1> QED
  BY <1>3, <1>4, <1>5, <1>6 DEF FirstMission

LEMMA StepFirstMission ==
  ASSUME PlainMissions
  PROVE  NavInv /\ FirstMissionInv /\ [Next]_vars => FirstMissionInv'
<1> SUFFICES ASSUME NavInv, FirstMissionInv, [Next]_vars, missions' <= 1
             PROVE  FirstMission'
  BY DEF FirstMissionInv
<1>1. missions <= 1
  <2>1. missions' = missions \/ missions' = missions + 1
    BY DEF Next, Tick, WaitingTick, InitializingTick, ExecutingTick, NextGoalTick, LastGoalTick,
           CompletedTick, GoalCallback, OdomCallback, ParamCallback, ResultCallback, Arrive,
           PassBy, Move, ServeGoals, Disturbance, vars, navVars
  <2> QED
    BY <2>1 DEF NavInv, TypeOK
<1>2. FirstMission
  BY <1>1 DEF FirstMissionInv
<1>3. CASE UNCHANGED vars
  BY <1>2, <1>3 DEF vars, navVars, actionVars, FirstMission, Quiet, BeforeMission, FirstLeg,
     StartUp, SentBefore, SentIsOnItsWay, NeedsPath, PathIsServed, Newest
<1>4. CASE ServeGoals
  BY <1>1, <1>2, <1>4, ServingKeepsFirstMission
<1>5. ~Disturbance
  BY DEF Disturbance, PlainMissions
<1> QED
  BY <1>1, <1>2, <1>3, <1>4, <1>5, TickKeepsFirstMission, NextGoalKeepsFirstMission,
     CallbackKeepsFirstMission, ResultKeepsFirstMission, MovingKeepsFirstMission
  DEF Next, Tick

(* In a first mission through the controller server no path is marked as sent
   without a goal that will bring a result, unless the pose is at the waypoint:
   whatever the order of ticks, results, odometry and failures, the node never
   waits for a result that cannot come. *)
THEOREM NeverLeftWaiting ==
  ASSUME PlainMissions
  PROVE  Spec => [](missions <= 1 => NeverStranded)
<1>1. Init => FirstMissionInv
  BY InitFirstMission
<1>2. NavInv /\ FirstMissionInv /\ [Next]_vars => FirstMissionInv'
  BY StepFirstMission
<1>3. NavInv /\ FirstMissionInv => (missions <= 1 => NeverStranded)
  <2> SUFFICES ASSUME NavInv, FirstMission, missions <= 1, fsm = "EXECUTING_PATH",
                      idx < Len(waypoints), ~NeedsPath(idx)
               PROVE  \/ pose = waypoints[idx + 1]
                      \/ \E g \in Goals : dest[g] = waypoints[idx + 1]
    BY DEF FirstMissionInv, NeverStranded
  <2>1. PathIsServed(waypoints[idx + 1])
    BY DEF FirstMission, SentIsOnItsWay, BeforeMission, NavInv, TypeOK
  <2> QED
    BY <2>1, NewestIsBusy DEF PathIsServed, NavInv
<1> QED
  BY <1>1, <1>2, <1>3, NavInvHolds, PTL DEF Spec
=============================================================================
