-------------------------- MODULE StraightPlanner --------------------------
(***************************************************************************)
(* The straight planner: it takes a goal pose and, every planning period,  *)
(* cancels the follow_path goal it has a handle of and sends another one   *)
(* with a straight path from where the robot is now.  One thread runs its  *)
(* callbacks; what the action server answers comes in any order, except    *)
(* that the result of a goal follows the response to it.                   *)
(***************************************************************************)
EXTENDS Integers, FiniteSets

CONSTANTS Requests,    \* identities of follow_path goals, reused when over
          Places,      \* where the robot and the goals can be, on a line
          None,
          MaxGoals,    \* bound on the goal poses
          MaxTroubles  \* bound on rejections, aborts and deactivations

VARIABLES active,      \* the lifecycle state is active
          latestGoal,  \* latest_goal_
          goalValid,   \* goal_valid_
          waiting,     \* wait_fp_finish_after_reached_
          handle,      \* active_goal_handle_
          status,      \* what has become of each request
          target,      \* where its path ends
          told,        \* the response to it has arrived
          cancels,     \* cancel requests on their way
          robot,
          reached,     \* a tick saw the robot at latestGoal
          goals, troubles

vars == <<active, latestGoal, goalValid, waiting, handle, status, target, told, cancels, robot,
          reached, goals, troubles>>
planner == <<latestGoal, goalValid, waiting, reached>>
server == <<status, target, told>>

Init ==
  /\ active = FALSE /\ latestGoal = None /\ goalValid = FALSE /\ waiting = FALSE
  /\ handle = None /\ status = [g \in Requests |-> "free"]
  /\ target = [g \in Requests |-> None] /\ told = [g \in Requests |-> FALSE]
  /\ cancels = {} /\ robot \in Places /\ reached = FALSE /\ goals = 0 /\ troubles = 0

Trouble == troubles < MaxTroubles /\ troubles' = troubles + 1

-----------------------------------------------------------------------------
(* The planner. *)

OnActivate ==
  /\ ~active /\ active' = TRUE
  /\ UNCHANGED <<planner, handle, server, cancels, robot, goals, troubles>>

OnDeactivate ==
  /\ active /\ Trouble /\ active' = FALSE
  /\ cancels' = cancels \union ({handle} \ {None})
  /\ handle' = None /\ goalValid' = FALSE /\ waiting' = FALSE
  /\ UNCHANGED <<latestGoal, reached, server, robot, goals>>

OnGoalKeepsWaiting(p) ==  \* faulty: it still waits for the path to the last goal
  /\ active /\ goals < MaxGoals /\ goals' = goals + 1
  /\ latestGoal' = p /\ goalValid' = TRUE /\ reached' = FALSE
  /\ UNCHANGED <<active, waiting, handle, server, cancels, robot, troubles>>

OnGoal(p) ==
  /\ active /\ goals < MaxGoals /\ goals' = goals + 1
  /\ latestGoal' = p /\ goalValid' = TRUE /\ waiting' = FALSE /\ reached' = FALSE
  /\ UNCHANGED <<active, handle, server, cancels, robot, troubles>>

\* A tick while the planner waits for a result that will not come.
GiveUpWaiting ==
  /\ active /\ goalValid /\ waiting /\ handle = None
  /\ goalValid' = FALSE /\ waiting' = FALSE
  /\ UNCHANGED <<active, latestGoal, reached, handle, server, cancels, robot, goals, troubles>>

Planning == active /\ goalValid /\ ~waiting

\* A tick at the goal: the current path may be driven to its end.
ReachGoal ==
  /\ Planning /\ robot = latestGoal
  /\ IF handle = None THEN goalValid' = FALSE /\ UNCHANGED waiting
     ELSE waiting' = TRUE /\ UNCHANGED goalValid
  /\ reached' = TRUE
  /\ UNCHANGED <<active, latestGoal, handle, server, cancels, robot, goals, troubles>>

StraightPath(from, to) ==
  LET n == IF to > from THEN to - from ELSE from - to
      sign == IF to > from THEN 1 ELSE -1
  IN [i \in 0 .. n |-> from + i * sign]

\* A tick elsewhere: a new request replaces the current one.
Plan ==
  /\ Planning /\ robot # latestGoal
  /\ cancels' = cancels \union ({handle} \ {None})
  /\ handle' = None
  /\ LET path == StraightPath(robot, latestGoal)
     IN \E g \in Requests :
          /\ status[g] = "free"
          /\ status' = [status EXCEPT ![g] = "requested"]
          /\ target' = [target EXCEPT ![g] = path[Cardinality(DOMAIN path) - 1]]
          /\ told' = [told EXCEPT ![g] = FALSE]
  /\ UNCHANGED <<active, planner, robot, goals, troubles>>

\* goal_response_callback
GoalResponse(g) ==
  /\ ~told[g] /\ status[g] \in {"running", "ended", "rejected"}
  /\ told' = [told EXCEPT ![g] = TRUE]
  /\ IF status[g] = "rejected"
     THEN status' = [status EXCEPT ![g] = "free"] /\ UNCHANGED handle
     ELSE handle' = g /\ UNCHANGED status
  /\ UNCHANGED <<active, planner, target, cancels, robot, goals, troubles>>

\* result_callback: the handle is dropped, whichever goal it is of.
Result(g) ==
  /\ told[g] /\ status[g] = "ended"
  /\ status' = [status EXCEPT ![g] = "free"]
  /\ cancels' = cancels \ {g}
  /\ handle' = None
  /\ goalValid' = (goalValid /\ ~waiting) /\ waiting' = FALSE
  /\ UNCHANGED <<active, latestGoal, reached, target, told, robot, goals, troubles>>

-----------------------------------------------------------------------------
(* The action server and the robot. *)

Running == {g \in Requests : status[g] = "running"}

Accept(g) ==
  /\ status[g] = "requested"
  /\ status' = [h \in Requests |-> IF h = g THEN "running" ELSE IF h \in Running THEN "ended" ELSE status[h]]
  /\ UNCHANGED <<active, planner, handle, target, told, cancels, robot, goals, troubles>>

Reject(g) ==
  /\ status[g] = "requested" /\ Trouble
  /\ status' = [status EXCEPT ![g] = "rejected"]
  /\ UNCHANGED <<active, planner, handle, target, told, cancels, robot, goals>>

End(g) ==
  /\ g \in Running
  /\ \/ g \in cancels /\ UNCHANGED troubles
     \/ robot = target[g] /\ UNCHANGED troubles
     \/ robot # target[g] /\ g \notin cancels /\ Trouble  \* it is aborted
  /\ status' = [status EXCEPT ![g] = "ended"]
  /\ UNCHANGED <<active, planner, handle, target, told, cancels, robot, goals>>

Drive ==
  \E g \in Running :
    /\ robot # target[g]
    /\ robot' = IF target[g] > robot THEN robot + 1 ELSE robot - 1
    /\ UNCHANGED <<active, planner, handle, server, cancels, goals, troubles>>

-----------------------------------------------------------------------------
Tick == GiveUpWaiting \/ ReachGoal \/ Plan

Next ==
  \/ OnActivate \/ OnDeactivate \/ Tick \/ Drive
  \/ \E p \in Places : OnGoal(p)
  \/ \E g \in Requests : GoalResponse(g) \/ Result(g) \/ Accept(g) \/ Reject(g) \/ End(g)

Spec == Init /\ [][Next]_vars

Fairness ==
  /\ WF_vars(Tick) /\ SF_vars(Drive)
  /\ \A g \in Requests : WF_vars(GoalResponse(g)) /\ WF_vars(Result(g)) /\ WF_vars(Accept(g))
                         /\ WF_vars(End(g))

-----------------------------------------------------------------------------
(* The planner drops a goal unasked only after a tick that saw the robot at *)
(* that goal: no result, late or of an earlier goal, drops it before.       *)
DroppedOnlyWhenReachedStep == goalValid /\ ~goalValid' /\ active' => reached'

(* A planner that stays active is done with its goal pose in the end,       *)
(* whatever was rejected, aborted or answered late.                         *)
Busy == active /\ goalValid
=============================================================================
