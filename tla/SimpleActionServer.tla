------------------------- MODULE SimpleActionServer -------------------------
(***************************************************************************)
(* nav2_util::SimpleActionServer: one goal is executed by a worker thread,  *)
(* at most one more waits to preempt it.  Three threads meet here:          *)
(*   - the executor takes requests and cancellations (handle_goal, then     *)
(*     handle_accepted, with update_mutex_ released in between);            *)
(*   - the worker runs work(), whose loop condition reads without the lock; *)
(*   - a lifecycle thread activates and deactivates.                        *)
(* A step is what a thread does under one hold of update_mutex_, or one     *)
(* unlocked read.  The execute callback is any code that uses the server's  *)
(* interface; ControllerServer puts computeControl in its place.            *)
(***************************************************************************)
EXTENDS Sequences, Naturals

CONSTANTS Goals,         \* goal handles; one whose result was taken is reused
          None,          \* no goal
          HasCompletion  \* whether a completion_callback was given

ASSUME NoneNotGoal == None \notin Goals
ASSUME HasCompletionIsBool == HasCompletion \in BOOLEAN

VARIABLES queue,         \* requests on their way
          status,        \* state of every goal handle
          accepted,      \* let through by handle_goal(), not yet handled
          current,       \* current_handle_
          pending,       \* pending_handle_
          preempt,       \* preempt_requested_
          serverActive,  \* server_active_
          stop,          \* stop_execution_
          worker,        \* where work() is; "none": execution_future_ is ready
          deactivating   \* the lifecycle thread waits in deactivate()

slotVars == <<status, current, pending, preempt>>
flagVars == <<serverActive, stop, deactivating>>
serverVars == <<queue, accepted, slotVars, flagVars, worker>>

Ended == {"succeeded", "aborted", "canceled"}
Active == {"executing", "canceling"}
WorkerStates == {"none", "loop", "run", "returned", "threw", "exit"}

ServerInit ==
  /\ queue = <<>>
  /\ status = [g \in Goals |-> "free"]
  /\ accepted = None
  /\ current = None
  /\ pending = None
  /\ preempt = FALSE
  /\ serverActive = FALSE
  /\ stop = FALSE
  /\ worker = "none"
  /\ deactivating = FALSE

IsRunning == worker # "none"

-----------------------------------------------------------------------------
(* The interface of the slots: what its methods do, with the lock held      *)

(* terminate() on every handle of S *)
Terminated(S) ==
  [g \in Goals |-> IF g \notin S THEN status[g]
                   ELSE IF status[g] = "canceling" THEN "canceled" ELSE "aborted"]

TerminateCurrent ==
  /\ status' = Terminated({current})
  /\ current' = None
  /\ UNCHANGED <<pending, preempt>>

TerminateAll ==
  /\ status' = Terminated({current, pending})
  /\ current' = None
  /\ pending' = None
  /\ preempt' = FALSE

(* faulty: the flag stays up when the pending goal has been taken *)
AcceptPendingKeepsFlag ==
  /\ pending # None
  /\ status' = [g \in Goals |-> IF g = current THEN "aborted" ELSE status[g]]
  /\ current' = pending
  /\ pending' = None
  /\ UNCHANGED preempt

AcceptPendingGoal ==
  /\ pending # None
  /\ status' = [g \in Goals |-> IF g = current THEN "aborted" ELSE status[g]]
  /\ current' = pending
  /\ pending' = None
  /\ preempt' = FALSE

SucceededCurrent ==
  /\ status' = [g \in Goals |-> IF g = current THEN "succeeded" ELSE status[g]]
  /\ current' = None
  /\ UNCHANGED <<pending, preempt>>

(* is_cancel_requested(): a pending goal hides a cancelled current one *)
IsCancelRequested ==
  /\ current # None
  /\ IF pending # None THEN status[pending] = "canceling"
                       ELSE status[current] = "canceling"

-----------------------------------------------------------------------------
(* Clients                                                                  *)

SendGoal(g) ==
  /\ status[g] = "free"
  /\ status' = [status EXCEPT ![g] = "requested"]
  /\ queue' = Append(queue, g)
  /\ UNCHANGED <<accepted, current, pending, preempt, flagVars, worker>>

TakeResult(g) ==
  /\ status[g] \in Ended
  /\ status' = [status EXCEPT ![g] = "free"]
  /\ UNCHANGED <<queue, accepted, current, pending, preempt, flagVars, worker>>

-----------------------------------------------------------------------------
(* The executor thread: one request at a time                               *)

HandleGoalReject ==
  /\ queue # <<>>
  /\ accepted = None
  /\ ~serverActive
  /\ queue' = Tail(queue)
  /\ status' = [status EXCEPT ![Head(queue)] = "free"]
  /\ UNCHANGED <<accepted, current, pending, preempt, flagVars, worker>>

HandleGoalAccept ==
  /\ queue # <<>>
  /\ accepted = None
  /\ serverActive
  /\ queue' = Tail(queue)
  /\ accepted' = Head(queue)
  /\ status' = [status EXCEPT ![Head(queue)] = "executing"]
  /\ UNCHANGED <<current, pending, preempt, flagVars, worker>>

(* handle_cancel(): not between handle_goal() and handle_accepted() *)
HandleCancel(g) ==
  /\ accepted = None
  /\ status[g] = "executing"
  /\ status' = [status EXCEPT ![g] = "canceling"]
  /\ UNCHANGED <<queue, accepted, current, pending, preempt, flagVars, worker>>

(* faulty: the goal that was waiting is overwritten, not terminated *)
OverwritePending ==
  /\ accepted # None
  /\ current # None \/ IsRunning
  /\ pending' = accepted
  /\ preempt' = TRUE
  /\ accepted' = None
  /\ UNCHANGED <<status, queue, current, flagVars, worker>>

HandleAcceptedAsPending ==
  /\ accepted # None
  /\ current # None \/ IsRunning
  /\ status' = Terminated({pending})
  /\ pending' = accepted
  /\ preempt' = TRUE
  /\ accepted' = None
  /\ UNCHANGED <<queue, current, flagVars, worker>>

(* A goal left pending without a worker ("Forgot to handle a preemption"): its
   handle was reset, so it neither waits nor runs. *)
HandleAcceptedAsCurrent ==
  /\ accepted # None
  /\ current = None
  /\ ~IsRunning
  /\ status' = Terminated({pending})
  /\ pending' = None
  /\ preempt' = IF pending # None THEN FALSE ELSE preempt
  /\ current' = accepted
  /\ accepted' = None
  /\ worker' = "loop"
  /\ UNCHANGED <<queue, flagVars>>

Executor == \/ HandleGoalReject \/ HandleGoalAccept
            \/ HandleAcceptedAsPending \/ HandleAcceptedAsCurrent

-----------------------------------------------------------------------------
(* The worker thread                                                        *)

(* the while condition, read without the lock *)
WorkLoop ==
  /\ worker = "loop"
  /\ worker' = IF stop \/ current = None THEN "exit" ELSE "run"
  /\ UNCHANGED <<queue, accepted, slotVars, flagVars>>

(* faulty: the callback is called once more where the loop should be left *)
WorkOnceMore ==
  /\ worker = "returned"
  /\ stop
  /\ TerminateAll
  /\ worker' = "run"
  /\ UNCHANGED <<queue, accepted, flagVars>>

WorkStop ==
  /\ worker = "returned"
  /\ stop
  /\ TerminateAll
  /\ worker' = "exit"
  /\ UNCHANGED <<queue, accepted, flagVars>>

(* The callback left its goal active.  Without a completion callback, calling
   it throws, which ends the thread before a pending goal is looked at. *)
WorkUnfinished ==
  /\ worker = "returned"
  /\ ~stop
  /\ current # None
  /\ \/ HasCompletion /\ pending # None
        /\ status' = Terminated({current})
        /\ current' = pending
        /\ pending' = None
        /\ preempt' = FALSE
        /\ worker' = "loop"
     \/ /\ ~HasCompletion \/ pending = None
        /\ TerminateCurrent
        /\ worker' = "exit"
  /\ UNCHANGED <<queue, accepted, flagVars>>

WorkNext ==
  /\ worker = "returned"
  /\ ~stop
  /\ current = None
  /\ \/ pending # None /\ AcceptPendingGoal /\ worker' = "loop"
     \/ pending = None /\ UNCHANGED slotVars /\ worker' = "exit"
  /\ UNCHANGED <<queue, accepted, flagVars>>

WorkThrew ==
  /\ worker = "threw"
  /\ TerminateAll
  /\ worker' = "exit"
  /\ UNCHANGED <<queue, accepted, flagVars>>

(* Until the thread is gone, is_running() still holds. *)
WorkExit ==
  /\ worker = "exit"
  /\ worker' = "none"
  /\ UNCHANGED <<queue, accepted, slotVars, flagVars>>

Work == \/ WorkLoop \/ WorkStop \/ WorkUnfinished \/ WorkNext
        \/ WorkThrew \/ WorkExit

-----------------------------------------------------------------------------
(* The lifecycle thread                                                     *)

Activate ==
  /\ ~serverActive
  /\ ~deactivating
  /\ serverActive' = TRUE
  /\ stop' = FALSE
  /\ UNCHANGED <<queue, accepted, slotVars, worker, deactivating>>

Deactivate ==
  /\ serverActive
  /\ serverActive' = FALSE
  /\ stop' = TRUE
  /\ deactivating' = IsRunning
  /\ UNCHANGED <<queue, accepted, slotVars, worker>>

(* every 100 ms once server_timeout_ (500 ms) has passed *)
MissedDeadline ==
  /\ deactivating
  /\ IsRunning
  /\ TerminateAll
  /\ UNCHANGED <<queue, accepted, flagVars, worker>>

Deactivated ==
  /\ deactivating
  /\ ~IsRunning
  /\ deactivating' = FALSE
  /\ UNCHANGED <<queue, accepted, slotVars, serverActive, stop, worker>>

LifecycleThread == Activate \/ Deactivate \/ MissedDeadline \/ Deactivated

-----------------------------------------------------------------------------
(* Any execute callback: it uses the slots, and it returns or throws.       *)

UseSlots ==
  /\ worker = "run"
  /\ \/ AcceptPendingGoal \/ TerminateCurrent \/ TerminateAll \/ SucceededCurrent
  /\ UNCHANGED <<queue, accepted, flagVars, worker>>

LeaveCallback ==
  /\ worker = "run"
  /\ worker' \in {"returned", "threw"}
  /\ UNCHANGED <<queue, accepted, slotVars, flagVars>>

Server ==
  \/ \E g \in Goals : SendGoal(g) \/ TakeResult(g) \/ HandleCancel(g)
  \/ Executor
  \/ Work
  \/ LifecycleThread

Next == Server \/ UseSlots \/ LeaveCallback

Spec == ServerInit /\ [][Next]_serverVars

(* The threads run; a callback ends. *)
FairSpec ==
  /\ Spec
  /\ WF_serverVars(Executor)
  /\ WF_serverVars(Work)
  /\ WF_serverVars(LeaveCallback)
  /\ WF_serverVars(MissedDeadline)
  /\ WF_serverVars(Deactivated)

-----------------------------------------------------------------------------
TypeOK ==
  /\ queue \in Seq(Goals)
  /\ status \in [Goals -> {"free", "requested"} \union Active \union Ended]
  /\ accepted \in Goals \union {None}
  /\ current \in Goals \union {None}
  /\ pending \in Goals \union {None}
  /\ preempt \in BOOLEAN
  /\ serverActive \in BOOLEAN
  /\ stop \in BOOLEAN
  /\ worker \in WorkerStates
  /\ deactivating \in BOOLEAN
  /\ deactivating => stop
  /\ stop => ~serverActive

(* No accepted goal is lost or held twice: the active goals are those in the
   slots and the one the executor is about to put there. *)
SlotsHoldActiveGoals ==
  /\ {g \in Goals : status[g] \in Active} = {accepted, current, pending} \ {None}
  /\ current # None => current # pending
  /\ accepted # None => accepted \notin {current, pending}

(* preempt_requested_, read by the execute callback to decide whether to call
   accept_pending_goal(), says exactly whether there is a goal to accept. *)
PreemptMeansPending == preempt <=> pending # None

(* "Deactivating...", "Deactivation completed.": the wait for the worker ends. *)
DeactivationEnds == deactivating ~> ~deactivating
=============================================================================
