-------------------------- MODULE FollowPathAction --------------------------
(***************************************************************************)
(* What a client of the follow_path action may rely on: the goals it sends *)
(* are taken in order, one goal drives the robot (current), at most one    *)
(* more waits to preempt it (pending), and every goal the server took ends *)
(* in one result.  This is the abstract specification of the controller    *)
(* server; nav2_util::SimpleActionServer is the code behind it.            *)
(***************************************************************************)
EXTENDS Sequences, Naturals

CONSTANTS Goals,   \* identities of goal handles; a delivered one is reused
          Places,  \* where a path may end
          None     \* no goal, no destination

ASSUME NoneIsNoGoal == None \notin Goals /\ None \notin Places

VARIABLES life,     \* lifecycle state of the controller server node
          queue,    \* goal requests on their way to the server, in order
          status,   \* state of every goal handle
          dest,     \* the place where a goal's path ends
          current,  \* the goal being executed (current_handle_)
          pending   \* the goal that will preempt it (pending_handle_)

actionVars == <<life, queue, status, dest, current, pending>>

Ended == {"succeeded", "aborted", "canceled"}
Active == {"executing", "canceling"}
Status == {"free", "requested"} \union Active \union Ended

ActionInit ==
  /\ life \in {"unconfigured", "active"}
  /\ queue = <<>>
  /\ status = [g \in Goals |-> "free"]
  /\ dest = [g \in Goals |-> None]
  /\ current = None
  /\ pending = None

-----------------------------------------------------------------------------
(* terminate(): a goal the client is cancelling ends canceled, else aborted *)
TerminatedAs(g) == IF status[g] = "canceling" THEN "canceled" ELSE "aborted"

Terminate(S) ==
  status' = [g \in Goals |-> IF g \in S THEN TerminatedAs(g) ELSE status[g]]

(* terminate_all() *)
TerminateAll ==
  /\ Terminate({current, pending})
  /\ current' = None
  /\ pending' = None

(* The client's async_send_goal: the request is on its way. *)
Send(g, p) ==
  /\ status[g] = "free"
  /\ status' = [status EXCEPT ![g] = "requested"]
  /\ dest' = [dest EXCEPT ![g] = p]
  /\ queue' = Append(queue, g)
  /\ UNCHANGED <<life, current, pending>>

(* handle_goal() while the server is inactive: no result will ever come.   *)
Reject ==
  /\ life = "inactive"
  /\ queue # <<>>
  /\ queue' = Tail(queue)
  /\ status' = [status EXCEPT ![Head(queue)] = "free"]
  /\ dest' = [dest EXCEPT ![Head(queue)] = None]
  /\ UNCHANGED <<life, current, pending>>

(* handle_accepted() with no goal under way: a pending one, forgotten when
   the worker wound down, is terminated.  A request that handle_goal() let
   through just before a deactivation is still accepted. *)
AcceptAsCurrent ==
  /\ life # "unconfigured"
  /\ queue # <<>>
  /\ current = None
  /\ current' = Head(queue)
  /\ pending' = None
  /\ status' = [g \in Goals |-> CASE g = Head(queue) -> "executing"
                                  [] g = pending -> TerminatedAs(g)
                                  [] OTHER -> status[g]]
  /\ queue' = Tail(queue)
  /\ UNCHANGED <<life, dest>>

(* faulty: the goal that was waiting is forgotten, not terminated *)
AcceptOverPending ==
  /\ life # "unconfigured"
  /\ queue # <<>>
  /\ pending' = Head(queue)
  /\ status' = [status EXCEPT ![Head(queue)] = "executing"]
  /\ queue' = Tail(queue)
  /\ UNCHANGED <<life, dest, current>>

(* handle_accepted() with a goal under way, or a worker still winding down:
   the goal waits in the pending slot and replaces the one that was there. *)
AcceptAsPending ==
  /\ life # "unconfigured"
  /\ queue # <<>>
  /\ pending' = Head(queue)
  /\ status' = [g \in Goals |-> CASE g = Head(queue) -> "executing"
                                  [] g = pending -> TerminatedAs(g)
                                  [] OTHER -> status[g]]
  /\ queue' = Tail(queue)
  /\ UNCHANGED <<life, dest, current>>

(* accept_pending_goal(): the goal it preempts is aborted *)
Preempt ==
  /\ pending # None
  /\ status' = [g \in Goals |-> IF g = current THEN "aborted" ELSE status[g]]
  /\ current' = pending
  /\ pending' = None
  /\ UNCHANGED <<life, queue, dest>>

(* succeeded_current(), with the robot at place p *)
Succeed(p) ==
  /\ current # None
  /\ dest[current] = p
  /\ status' = [status EXCEPT ![current] = "succeeded"]
  /\ current' = None
  /\ UNCHANGED <<life, queue, dest, pending>>

(* terminate_current(): no progress, no pose, patience exceeded *)
Fail ==
  /\ current # None
  /\ Terminate({current})
  /\ current' = None
  /\ UNCHANGED <<life, queue, dest, pending>>

(* handle_cancel() accepts the request of any client *)
Cancel(g) ==
  /\ status[g] = "executing"
  /\ status' = [status EXCEPT ![g] = "canceling"]
  /\ UNCHANGED <<life, queue, dest, current, pending>>

(* Everything ends at once: a cancellation was seen, perhaps of a goal replaced
   since, or the server is being deactivated. *)
EndAll ==
  /\ current # None \/ pending # None
  /\ TerminateAll
  /\ UNCHANGED <<life, queue, dest>>

(* The result reaches the client, which forgets the handle. *)
Deliver(g) ==
  /\ status[g] \in Ended
  /\ status' = [status EXCEPT ![g] = "free"]
  /\ dest' = [dest EXCEPT ![g] = None]
  /\ UNCHANGED <<life, queue, current, pending>>

Configure ==
  /\ life = "unconfigured"
  /\ life' = "inactive"
  /\ UNCHANGED <<queue, status, dest, current, pending>>

Activate ==
  /\ life = "inactive"
  /\ life' = "active"
  /\ UNCHANGED <<queue, status, dest, current, pending>>

(* on_deactivate() tells the server to stop; the worker still may end the goal
   under way in its own manner before it is stopped. *)
Deactivate ==
  /\ life = "active"
  /\ life' = "inactive"
  /\ UNCHANGED <<queue, status, dest, current, pending>>

(* on_cleanup() destroys the action server: requests it has not taken and
   goals it has not ended are lost without a result. *)
Cleanup ==
  /\ life = "inactive"
  /\ life' = "unconfigured"
  /\ queue' = <<>>
  /\ current' = None
  /\ pending' = None
  /\ LET lost(g) == status[g] \in Active \union {"requested"}
     IN /\ status' = [g \in Goals |-> IF lost(g) THEN "free" ELSE status[g]]
        /\ dest' = [g \in Goals |-> IF lost(g) THEN None ELSE dest[g]]

Lifecycle == Configure \/ Activate \/ Deactivate \/ Cleanup

(* What an active server does on its own with the robot at place p. *)
ServerStep(p) ==
  \/ Reject \/ AcceptAsCurrent \/ AcceptAsPending
  \/ Preempt \/ Succeed(p) \/ Fail

ActionNext ==
  \/ Lifecycle
  \/ EndAll
  \/ \E p \in Places : ServerStep(p)
  \/ \E g \in Goals : Cancel(g) \/ Deliver(g) \/ \E p \in Places : Send(g, p)

ActionSpec == ActionInit /\ [][ActionNext]_actionVars

-----------------------------------------------------------------------------
ActionTypeOK ==
  /\ life \in {"unconfigured", "inactive", "active"}
  /\ queue \in Seq(Goals)
  /\ status \in [Goals -> Status]
  /\ dest \in [Goals -> Places \union {None}]
  /\ current \in Goals \union {None}
  /\ pending \in Goals \union {None}

(* No goal is lost between the two slots and none is in both: the goals in
   an active state are exactly the two the server holds. *)
SlotsHoldActiveGoals ==
  /\ {g \in Goals : status[g] \in Active} = {current, pending} \ {None}
  /\ current # None => current # pending
=============================================================================
