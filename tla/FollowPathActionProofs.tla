----------------------- MODULE FollowPathActionProofs -----------------------
(***************************************************************************)
(* The goal slots of the action server, for any number of goals.  A goal    *)
(* enters a slot only from the queue, so the invariant must also say that   *)
(* the queue holds requested goals, each once: otherwise accepting its head *)
(* could put a goal in both slots.  A goal that is not free has a place to  *)
(* lead the robot to, which the waypoint node's proofs need.                *)
(***************************************************************************)
EXTENDS FollowPathAction, TLAPS

QueueHoldsRequests ==
  /\ \A i \in 1 .. Len(queue) : status[queue[i]] = "requested"
  /\ \A i, j \in 1 .. Len(queue) : queue[i] = queue[j] => i = j

BusyGoalsLead == \A g \in Goals : status[g] # "free" => dest[g] \in Places

ActionInv ==
  ActionTypeOK /\ QueueHoldsRequests /\ BusyGoalsLead /\ SlotsHoldActiveGoals

(* The head of a queue of requests is a goal, and the rest is still a queue of
   requests without it. *)
LEMMA QueueTail ==
  ASSUME ActionInv, queue # <<>>
  PROVE  /\ Head(queue) \in Goals
         /\ status[Head(queue)] = "requested"
         /\ Tail(queue) \in Seq(Goals)
         /\ Len(Tail(queue)) = Len(queue) - 1
         /\ \A i \in 1 .. Len(Tail(queue)) :
              /\ Tail(queue)[i] = queue[i + 1]
              /\ i + 1 \in 1 .. Len(queue)
              /\ Tail(queue)[i] # Head(queue)
<1> USE DEF ActionInv, ActionTypeOK, QueueHoldsRequests
<1>1. queue \in Seq(Goals) /\ Len(queue) \in Nat /\ Len(queue) > 0
  OBVIOUS
<1>2. 1 \in 1 .. Len(queue) /\ Head(queue) = queue[1] /\ Head(queue) \in Goals
  BY <1>1
<1>3. Tail(queue) \in Seq(Goals) /\ Len(Tail(queue)) = Len(queue) - 1
  BY <1>1
<1>4. ASSUME NEW i \in 1 .. Len(Tail(queue))
      PROVE  Tail(queue)[i] = queue[i + 1] /\ i + 1 \in 1 .. Len(queue) /\ i + 1 # 1
  BY <1>1, <1>3
<1> QED
  BY <1>1, <1>2, <1>3, <1>4

THEOREM ActionInitInv == ActionInit => ActionInv
BY NoneIsNoGoal DEF ActionInit, ActionInv, ActionTypeOK, QueueHoldsRequests,
   BusyGoalsLead, SlotsHoldActiveGoals, Status, Active, Ended

(* A step that leaves the queue alone and keeps its goals requested keeps the
   queue invariant. *)
LEMMA SameQueue ==
  ASSUME ActionInv, queue' = queue,
         \A g \in Goals : status[g] = "requested" => status'[g] = "requested"
  PROVE  QueueHoldsRequests'
<1>1. \A i \in 1 .. Len(queue) : queue[i] \in Goals
  BY DEF ActionInv, ActionTypeOK
<1> QED
  BY <1>1 DEF ActionInv, QueueHoldsRequests

(* So does a step that takes the head of the queue. *)
LEMMA ShorterQueue ==
  ASSUME ActionInv, queue # <<>>, queue' = Tail(queue),
         \A g \in Goals \ {Head(queue)} :
           status[g] = "requested" => status'[g] = "requested"
  PROVE  QueueHoldsRequests' /\ queue' \in Seq(Goals)
<1>1. \A i \in 1 .. Len(queue) : queue[i] \in Goals
  BY DEF ActionInv, ActionTypeOK
<1> QED
  BY <1>1, QueueTail DEF ActionInv, QueueHoldsRequests

(* The step may also be one of a server that does not see where the robot is. *)
THEOREM ActionStepInv ==
  ActionInv /\ ([ActionNext]_actionVars \/ ServerStep(None)) => ActionInv'
<1> SUFFICES ASSUME ActionInv, [ActionNext]_actionVars \/ ServerStep(None)
             PROVE  ActionInv'
  OBVIOUS
<1> USE NoneIsNoGoal DEF ActionTypeOK, BusyGoalsLead, SlotsHoldActiveGoals, Status,
                         Active, Ended
<1>1. ASSUME NEW g \in Goals, NEW p \in Places, Send(g, p)
      PROVE  ActionInv'
  <2>1. ActionTypeOK' /\ BusyGoalsLead' /\ SlotsHoldActiveGoals'
    BY <1>1 DEF Send, ActionInv
  <2>2. QueueHoldsRequests'
    BY <1>1 DEF Send, ActionInv, QueueHoldsRequests
  <2> QED
    BY <2>1, <2>2 DEF ActionInv
<1>2. CASE Reject
  <2>1. QueueHoldsRequests' /\ queue' \in Seq(Goals)
    BY <1>2, ShorterQueue DEF Reject, ActionInv
  <2>2. ActionTypeOK' /\ BusyGoalsLead' /\ SlotsHoldActiveGoals'
    BY <1>2, <2>1, QueueTail DEF Reject, ActionInv
  <2> QED
    BY <2>1, <2>2 DEF ActionInv
<1>3. CASE AcceptAsCurrent
  <2>1. QueueHoldsRequests' /\ queue' \in Seq(Goals)
    BY <1>3, ShorterQueue DEF AcceptAsCurrent, ActionInv, TerminatedAs
  <2>2. ActionTypeOK' /\ BusyGoalsLead'
    BY <1>3, <2>1, QueueTail DEF AcceptAsCurrent, ActionInv, TerminatedAs
  <2>3. SlotsHoldActiveGoals'
    BY <1>3, QueueTail DEF AcceptAsCurrent, ActionInv, TerminatedAs
  <2> QED
    BY <2>1, <2>2, <2>3 DEF ActionInv
<1>4. CASE AcceptAsPending
  <2>1. QueueHoldsRequests' /\ queue' \in Seq(Goals)
    BY <1>4, ShorterQueue DEF AcceptAsPending, ActionInv, TerminatedAs
  <2>2. ActionTypeOK' /\ BusyGoalsLead'
    BY <1>4, <2>1, QueueTail DEF AcceptAsPending, ActionInv, TerminatedAs
  <2>3. SlotsHoldActiveGoals'
    BY <1>4, QueueTail DEF AcceptAsPending, ActionInv, TerminatedAs
  <2> QED
    BY <2>1, <2>2, <2>3 DEF ActionInv
<1>5. CASE Preempt
  <2>1. ActionTypeOK' /\ BusyGoalsLead' /\ SlotsHoldActiveGoals'
    BY <1>5 DEF Preempt, ActionInv
  <2>2. QueueHoldsRequests'
    BY <1>5, SameQueue DEF Preempt, ActionInv
  <2> QED
    BY <2>1, <2>2 DEF ActionInv
<1>6. ASSUME NEW p \in Places \union {None}, Succeed(p)
      PROVE  ActionInv'
  <2>1. ActionTypeOK' /\ BusyGoalsLead' /\ SlotsHoldActiveGoals'
    BY <1>6 DEF Succeed, ActionInv
  <2>2. QueueHoldsRequests'
    BY <1>6, SameQueue DEF Succeed, ActionInv
  <2> QED
    BY <2>1, <2>2 DEF ActionInv
<1>7. CASE Fail
  <2>1. ActionTypeOK' /\ BusyGoalsLead' /\ SlotsHoldActiveGoals'
    BY <1>7 DEF Fail, ActionInv, Terminate, TerminatedAs
  <2>2. QueueHoldsRequests'
    BY <1>7, SameQueue DEF Fail, ActionInv, Terminate
  <2> QED
    BY <2>1, <2>2 DEF ActionInv
<1>8. ASSUME NEW g \in Goals, Cancel(g)
      PROVE  ActionInv'
  <2>1. ActionTypeOK' /\ BusyGoalsLead' /\ SlotsHoldActiveGoals'
    BY <1>8 DEF Cancel, ActionInv
  <2>2. QueueHoldsRequests'
    BY <1>8, SameQueue DEF Cancel, ActionInv
  <2> QED
    BY <2>1, <2>2 DEF ActionInv
<1>9. CASE EndAll
  <2>1. ActionTypeOK' /\ BusyGoalsLead' /\ SlotsHoldActiveGoals'
    BY <1>9 DEF EndAll, TerminateAll, ActionInv, Terminate, TerminatedAs
  <2>2. QueueHoldsRequests'
    BY <1>9, SameQueue DEF EndAll, TerminateAll, ActionInv, Terminate
  <2> QED
    BY <2>1, <2>2 DEF ActionInv
<1>10. ASSUME NEW g \in Goals, Deliver(g)
       PROVE  ActionInv'
  <2>1. ActionTypeOK' /\ BusyGoalsLead' /\ SlotsHoldActiveGoals'
    BY <1>10 DEF Deliver, ActionInv
  <2>2. QueueHoldsRequests'
    BY <1>10, SameQueue DEF Deliver, ActionInv
  <2> QED
    BY <2>1, <2>2 DEF ActionInv
<1>11. CASE Configure \/ Activate \/ Deactivate
  BY <1>11, SameQueue DEF Configure, Activate, Deactivate, ActionInv
<1>12. CASE Cleanup
  <2>1. ActionTypeOK' /\ BusyGoalsLead' /\ SlotsHoldActiveGoals'
    BY <1>12 DEF Cleanup, ActionInv
  <2>2. QueueHoldsRequests'
    BY <1>12 DEF Cleanup, QueueHoldsRequests
  <2> QED
    BY <2>1, <2>2 DEF ActionInv
<1>13. CASE UNCHANGED actionVars
  BY <1>13, SameQueue DEF actionVars, ActionInv
<1> QED
  BY <1>1, <1>2, <1>3, <1>4, <1>5, <1>6, <1>7, <1>8, <1>9, <1>10, <1>11, <1>12,
     <1>13
  DEF ActionNext, Lifecycle, ServerStep

(* The goals in an active state are exactly the two in the server's slots:
   SimpleActionServer loses no goal it accepted and holds none twice. *)
THEOREM GoalsStayInSlots == ActionSpec => []SlotsHoldActiveGoals
<1>1. ActionInv => SlotsHoldActiveGoals
  BY DEF ActionInv
<1> QED
  BY <1>1, ActionInitInv, ActionStepInv, PTL DEF ActionSpec

=============================================================================
