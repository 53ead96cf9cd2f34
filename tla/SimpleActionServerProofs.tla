---------------------- MODULE SimpleActionServerProofs ----------------------
(***************************************************************************)
(* The slots of SimpleActionServer under its three threads, for any number  *)
(* of goals and any execute callback.                                       *)
(***************************************************************************)
EXTENDS SimpleActionServer, TLAPS

QueueHoldsRequests ==
  /\ \A i \in 1 .. Len(queue) : status[queue[i]] = "requested"
  /\ \A i, j \in 1 .. Len(queue) : queue[i] = queue[j] => i = j

Inv == TypeOK /\ QueueHoldsRequests /\ SlotsHoldActiveGoals /\ PreemptMeansPending

LEMMA InitInv == ServerInit => Inv
<1> SUFFICES ASSUME ServerInit
             PROVE  Inv
  OBVIOUS
<1>1. TypeOK
  <2>1. queue \in Seq(Goals) /\ status \in [Goals -> {"free"}]
    BY DEF ServerInit
  <2>2. /\ preempt \in BOOLEAN /\ serverActive \in BOOLEAN
        /\ stop \in BOOLEAN /\ deactivating \in BOOLEAN
    BY DEF ServerInit
  <2> QED
    BY <2>1, <2>2 DEF ServerInit, TypeOK, WorkerStates
<1>2. QueueHoldsRequests
  BY DEF ServerInit, QueueHoldsRequests
<1>3. SlotsHoldActiveGoals /\ PreemptMeansPending
  BY DEF ServerInit, SlotsHoldActiveGoals, PreemptMeansPending, Active
<1> QED
  BY <1>1, <1>2, <1>3 DEF Inv

(* The goals in the queue stay requests when a step leaves the queue alone and
   touches only goals that are not requests. *)
LEMMA SameQueue ==
  ASSUME Inv, queue' = queue,
         \A g \in Goals : status[g] = "requested" => status'[g] = "requested"
  PROVE  QueueHoldsRequests'
<1>1. \A i \in 1 .. Len(queue) : queue[i] \in Goals
  BY DEF Inv, TypeOK
<1> QED
  BY <1>1 DEF Inv, QueueHoldsRequests

(* The executor takes the oldest request; the others stay. *)
LEMMA ShorterQueue ==
  ASSUME Inv, queue # <<>>, queue' = Tail(queue),
         \A g \in Goals \ {Head(queue)} :
           status[g] = "requested" => status'[g] = "requested"
  PROVE  /\ QueueHoldsRequests'
         /\ queue' \in Seq(Goals)
         /\ Head(queue) \in Goals
         /\ status[Head(queue)] = "requested"
<1> USE DEF Inv, TypeOK, QueueHoldsRequests
<1>1. /\ queue \in Seq(Goals) /\ Len(queue) \in Nat /\ Len(queue) > 0
      /\ \A i \in 1 .. Len(queue) : queue[i] \in Goals
  OBVIOUS
<1>2. 1 \in 1 .. Len(queue) /\ Head(queue) = queue[1]
  BY <1>1
<1>3. Tail(queue) \in Seq(Goals) /\ Len(Tail(queue)) = Len(queue) - 1
  BY <1>1
<1>4. ASSUME NEW i \in 1 .. Len(Tail(queue))
      PROVE  Tail(queue)[i] = queue[i + 1] /\ i + 1 \in 1 .. Len(queue) /\ i + 1 # 1
  BY <1>1, <1>3
<1>5. ASSUME NEW i \in 1 .. Len(Tail(queue))
      PROVE  Tail(queue)[i] \in Goals \ {Head(queue)} /\ status[Tail(queue)[i]] = "requested"
  BY <1>1, <1>2, <1>4
<1>6. ASSUME NEW i \in 1 .. Len(Tail(queue)), NEW j \in 1 .. Len(Tail(queue)),
             Tail(queue)[i] = Tail(queue)[j]
      PROVE  i = j
  BY <1>1, <1>3, <1>4, <1>6
<1> QED
  BY <1>1, <1>2, <1>3, <1>5, <1>6

(* What the callback and the worker do to the slots keeps the slot invariants,
   whoever calls it. *)
LEMMA SlotSteps ==
  ASSUME Inv, AcceptPendingGoal \/ TerminateCurrent \/ TerminateAll \/ SucceededCurrent,
         UNCHANGED <<queue, accepted, flagVars>>, worker' \in WorkerStates
  PROVE  Inv'
<1> USE NoneNotGoal DEF Inv, Active, Ended, flagVars
<1>1. TypeOK'
  BY DEF TypeOK, AcceptPendingGoal, TerminateCurrent, TerminateAll, SucceededCurrent,
         Terminated
<1>2. SlotsHoldActiveGoals'
  BY DEF TypeOK, SlotsHoldActiveGoals, AcceptPendingGoal, TerminateCurrent, TerminateAll,
         SucceededCurrent, Terminated
<1>3. PreemptMeansPending'
  BY DEF PreemptMeansPending, AcceptPendingGoal, TerminateCurrent, TerminateAll,
         SucceededCurrent
<1>4. QueueHoldsRequests'
  BY SameQueue DEF TypeOK, SlotsHoldActiveGoals, AcceptPendingGoal, TerminateCurrent,
         TerminateAll, SucceededCurrent, Terminated
<1> QED
  BY <1>1, <1>2, <1>3, <1>4

LEMMA StepInv == Inv /\ [Next]_serverVars => Inv'
<1> SUFFICES ASSUME Inv, [Next]_serverVars
             PROVE  Inv'
  OBVIOUS
<1> USE NoneNotGoal DEF Active, Ended, flagVars
<1>1. ASSUME NEW g \in Goals, SendGoal(g)
      PROVE  Inv'
  <2>1. QueueHoldsRequests'
    BY <1>1 DEF SendGoal, Inv, TypeOK, QueueHoldsRequests
  <2>2. TypeOK' /\ SlotsHoldActiveGoals' /\ PreemptMeansPending'
    BY <1>1 DEF SendGoal, Inv, TypeOK, SlotsHoldActiveGoals, PreemptMeansPending
  <2> QED
    BY <2>1, <2>2 DEF Inv
<1>2. ASSUME NEW g \in Goals, TakeResult(g) \/ HandleCancel(g)
      PROVE  Inv'
  <2>1. QueueHoldsRequests'
    BY <1>2, SameQueue DEF TakeResult, HandleCancel, Inv, TypeOK
  <2>2. TypeOK' /\ SlotsHoldActiveGoals' /\ PreemptMeansPending'
    BY <1>2
    DEF TakeResult, HandleCancel, Inv, TypeOK, SlotsHoldActiveGoals, PreemptMeansPending
  <2> QED
    BY <2>1, <2>2 DEF Inv
<1>3. CASE HandleGoalReject \/ HandleGoalAccept
  <2>1. QueueHoldsRequests' /\ queue' \in Seq(Goals) /\ Head(queue) \in Goals
        /\ status[Head(queue)] = "requested"
    BY <1>3, ShorterQueue DEF HandleGoalReject, HandleGoalAccept, Inv, TypeOK
  <2>2. UNCHANGED <<current, pending, preempt, serverActive, stop, deactivating, worker>>
    BY <1>3 DEF HandleGoalReject, HandleGoalAccept
  <2>3. /\ accepted' \in Goals \union {None}
        /\ status' \in [Goals -> {"free", "requested"} \union Active \union Ended]
    BY <1>3, <2>1 DEF HandleGoalReject, HandleGoalAccept, Inv, TypeOK
  <2>4. TypeOK' /\ PreemptMeansPending'
    BY <2>1, <2>2, <2>3 DEF Inv, TypeOK, PreemptMeansPending
  <2>5. SlotsHoldActiveGoals'
    BY <1>3, <2>1 DEF HandleGoalReject, HandleGoalAccept, Inv, TypeOK, SlotsHoldActiveGoals
  <2> QED
    BY <2>1, <2>4, <2>5 DEF Inv
<1>4. CASE HandleAcceptedAsPending \/ HandleAcceptedAsCurrent
  <2>1. QueueHoldsRequests'
    BY <1>4, SameQueue
    DEF HandleAcceptedAsPending, HandleAcceptedAsCurrent, Terminated, Inv, TypeOK,
        SlotsHoldActiveGoals
  <2>2. TypeOK'
    <3>1. preempt' \in BOOLEAN
      BY <1>4 DEF HandleAcceptedAsPending, HandleAcceptedAsCurrent, Inv, TypeOK
    <3>2. status' \in [Goals -> {"free", "requested"} \union Active \union Ended]
      BY <1>4 DEF HandleAcceptedAsPending, HandleAcceptedAsCurrent, Terminated, Inv, TypeOK
    <3>3. /\ accepted' \in Goals \union {None}
          /\ current' \in Goals \union {None}
          /\ pending' \in Goals \union {None}
          /\ worker' \in WorkerStates
      BY <1>4
      DEF HandleAcceptedAsPending, HandleAcceptedAsCurrent, Inv, TypeOK, WorkerStates
    <3>4. /\ queue' \in Seq(Goals) /\ serverActive' \in BOOLEAN
          /\ stop' \in BOOLEAN /\ deactivating' \in BOOLEAN
      BY <1>4 DEF HandleAcceptedAsPending, HandleAcceptedAsCurrent, Inv, TypeOK
    <3>5. (deactivating' => stop') /\ (stop' => ~serverActive')
      <4>1. deactivating' = deactivating /\ stop' = stop /\ serverActive' = serverActive
        BY <1>4 DEF HandleAcceptedAsPending, HandleAcceptedAsCurrent
      <4>2. (deactivating => stop) /\ (stop => ~serverActive)
        BY DEF Inv, TypeOK
      <4> QED
        BY <4>1, <4>2
    <3> QED
      BY <3>1, <3>2, <3>3, <3>4, <3>5 DEF TypeOK
  <2>3. SlotsHoldActiveGoals'
    <3> USE DEF Inv, TypeOK, SlotsHoldActiveGoals
    <3>1. \A g \in Goals : status'[g] \in Active <=> status[g] \in Active /\ g # pending
      BY <1>4 DEF HandleAcceptedAsPending, HandleAcceptedAsCurrent, Terminated
    <3>2. CASE HandleAcceptedAsPending
      BY <3>1, <3>2 DEF HandleAcceptedAsPending
    <3>3. CASE HandleAcceptedAsCurrent
      BY <3>1, <3>3 DEF HandleAcceptedAsCurrent
    <3> QED
      BY <1>4, <3>2, <3>3
  <2>4. PreemptMeansPending'
    BY <1>4
    DEF HandleAcceptedAsPending, HandleAcceptedAsCurrent, Inv, PreemptMeansPending
  <2> QED
    BY <2>1, <2>2, <2>3, <2>4 DEF Inv
<1>5. CASE UNCHANGED <<queue, accepted, slotVars, flagVars>> /\ worker' \in WorkerStates
  BY <1>5, SameQueue
  DEF slotVars, Inv, TypeOK, SlotsHoldActiveGoals, PreemptMeansPending
<1>6. CASE WorkLoop \/ WorkExit \/ LeaveCallback
  BY <1>5, <1>6 DEF WorkLoop, WorkExit, LeaveCallback, WorkerStates
<1>7. CASE WorkStop \/ WorkThrew \/ MissedDeadline \/ UseSlots
  BY <1>7, SlotSteps
  DEF WorkStop, WorkThrew, MissedDeadline, UseSlots, WorkerStates, Inv, TypeOK
<1>8. CASE WorkNext
  BY <1>5, <1>8, SlotSteps DEF WorkNext, WorkerStates
<1>9. CASE WorkUnfinished
  <2>1. CASE TerminateCurrent /\ worker' = "exit"
    BY <1>9, <2>1, SlotSteps DEF WorkUnfinished, WorkerStates
  <2>2. CASE /\ pending # None
             /\ status' = Terminated({current})
             /\ current' = pending
             /\ pending' = None
             /\ preempt' = FALSE
             /\ worker' = "loop"
    <3>1. QueueHoldsRequests'
      BY <1>9, <2>2, SameQueue
      DEF WorkUnfinished, Terminated, Inv, TypeOK, SlotsHoldActiveGoals
    <3>2. TypeOK' /\ SlotsHoldActiveGoals'
      BY <1>9, <2>2
      DEF WorkUnfinished, Terminated, Inv, TypeOK, SlotsHoldActiveGoals, WorkerStates
    <3>3. PreemptMeansPending'
      BY <2>2 DEF PreemptMeansPending
    <3> QED
      BY <3>1, <3>2, <3>3 DEF Inv
  <2> QED
    BY <1>9, <2>1, <2>2 DEF WorkUnfinished
<1>10. CASE Activate \/ Deactivate \/ Deactivated
  <2>1. UNCHANGED <<queue, accepted, slotVars, worker>>
    BY <1>10 DEF Activate, Deactivate, Deactivated
  <2>2. serverActive' \in BOOLEAN /\ stop' \in BOOLEAN /\ deactivating' \in BOOLEAN
    BY <1>10 DEF Activate, Deactivate, Deactivated, IsRunning, Inv, TypeOK
  <2>3. (deactivating' => stop') /\ (stop' => ~serverActive')
    BY <1>10 DEF Activate, Deactivate, Deactivated, Inv, TypeOK
  <2> QED
    BY <2>1, <2>2, <2>3, SameQueue
    DEF slotVars, Inv, TypeOK, SlotsHoldActiveGoals, PreemptMeansPending
<1>11. CASE UNCHANGED serverVars
  BY <1>5, <1>11 DEF serverVars, Inv, TypeOK
<1> QED
  BY <1>1, <1>2, <1>3, <1>4, <1>6, <1>7, <1>8, <1>9, <1>10, <1>11
  DEF Next, Server, Executor, Work, LifecycleThread

LEMMA InvHolds == Spec => []Inv
BY InitInv, StepInv, PTL DEF Spec

(* Whatever order the three threads run in, an accepted goal is in exactly one
   slot (or about to be put there) until it ends, and nothing else is active. *)
THEOREM ServerGoalsStayInSlots == Spec => []SlotsHoldActiveGoals
<1>1. Inv => SlotsHoldActiveGoals
  BY DEF Inv
<1> QED
  BY <1>1, InvHolds, PTL

(* A callback that sees is_preempt_requested() has a goal to accept, and one
   that does not see it keeps no goal waiting. *)
THEOREM PreemptFlagIsExact == Spec => []PreemptMeansPending
<1>1. Inv => PreemptMeansPending
  BY DEF Inv
<1> QED
  BY <1>1, InvHolds, PTL
=============================================================================
