-------------------------- MODULE LifecycleManager --------------------------
(***************************************************************************)
(* nav2_lifecycle_manager: brings the managed nodes up and down in the      *)
(* order of node_names_, watches the active ones through bonds, brings all  *)
(* down when one is lost and starts up again when it has come back.         *)
(* One mutually exclusive callback group serves commands and timers, so one *)
(* command runs at a time; but it makes a series of service calls, and the  *)
(* nodes, processes of their own, fail and return between any two of them.  *)
(* A node is named by its place in node_names_.                             *)
(***************************************************************************)
EXTENDS Naturals, Sequences

CONSTANTS N,           \* number of managed nodes
          Commands,    \* what clients of manage_nodes may ask for
          Troubled,    \* TRUE: transitions may fail, bonds may fail to form or
                       \* break by themselves, the respawn wait may time out
          Respawn,     \* attempt_respawn_reconnection_
          MaxCrashes   \* bound on the crashes of nodes

ASSUME NIsCount == N \in Nat \ {0}
ASSUME OptionsAreBools == Troubled \in BOOLEAN /\ Respawn \in BOOLEAN
ASSUME MaxCrashesIsNat == MaxCrashes \in Nat
ASSUME CommandsAreCommands ==
  Commands \subseteq {"startup", "reset", "shutdown", "pause", "resume"}

VARIABLES state,         \* lifecycle state of every node; "dead": no process
          bond,          \* bond_map_; "none": no entry
          clients,       \* node_map_ holds service clients, not null
          sysActive,     \* system_active_
          bondTimer,     \* bond_timer_ runs
          respawnTimer,  \* bond_respawn_timer_ runs
          cmd,           \* the command under way, or "idle", or "crashed"
          passes,        \* transitions it still makes; <<>>: none, or failed
          at,            \* the node its first pass has come to
          call,          \* the service call to that node
          crashes        \* how many crashes there were

nodeVars == <<state, crashes>>
jobVars == <<cmd, passes, at, call>>
watchVars == <<clients, sysActive, bondTimer, respawnTimer>>
vars == <<nodeVars, bond, watchVars, jobVars>>

Nodes == 1 .. N
LifecycleStates == {"dead", "unconfigured", "inactive", "active", "finalized"}
BondStates == {"none", "formed", "unformed", "dangling", "broken"}
Jobs == {"startup", "reset", "hard", "shutdown", "pause", "resume"}
Calls == {"none", "sent", "answered", "lost"}

UpwardButActivate == {"configure"}  \* faulty: activated in reverse order

Upward == {"configure", "activate"}

Transitions == {"configure", "activate", "deactivate", "cleanup", "finalize"}

(* transition_state_map_, and the state each transition starts from *)
Target == [configure |-> "inactive", activate |-> "active",
           deactivate |-> "inactive", cleanup |-> "unconfigured",
           finalize |-> "finalized"]
Source == [configure |-> "unconfigured", activate |-> "inactive",
           deactivate |-> "active", cleanup |-> "inactive",
           finalize |-> "unconfigured"]

(* the calls of changeStateForAllNodes() each command makes *)
Passes == [startup |-> <<"configure", "activate">>,
           reset |-> <<"deactivate", "cleanup">>,
           hard |-> <<"deactivate", "cleanup">>,
           shutdown |-> <<"deactivate", "cleanup", "finalize">>,
           pause |-> <<"deactivate">>,
           resume |-> <<"activate">>]

Init ==
  /\ state = [n \in Nodes |-> "unconfigured"]
  /\ bond = [n \in Nodes |-> "none"]
  /\ clients = TRUE
  /\ sysActive = FALSE
  /\ bondTimer = FALSE
  /\ respawnTimer = FALSE
  /\ cmd \in {"idle", "startup"}  \* autostart_
  /\ passes = IF cmd = "idle" THEN <<>> ELSE Passes[cmd]
  /\ at = IF cmd = "idle" THEN 0 ELSE 1
  /\ call = "none"
  /\ crashes = 0

-----------------------------------------------------------------------------
(* The managed nodes                                                        *)

(* A bond whose other end has gone is still to find that out. *)
BondsWithout(n) == [bond EXCEPT ![n] = IF @ = "formed" THEN "dangling" ELSE @]

(* A request that dies with the node is never answered: change_state() waits
   for its answer without a bound. *)
Crash(n) ==
  /\ crashes < MaxCrashes
  /\ state[n] # "dead"
  /\ crashes' = crashes + 1
  /\ state' = [state EXCEPT ![n] = "dead"]
  /\ bond' = BondsWithout(n)
  /\ call' = IF n = at /\ call = "sent" THEN "lost" ELSE call
  /\ UNCHANGED <<watchVars, cmd, passes, at>>

ComeBack(n) ==
  /\ state[n] = "dead"
  /\ state' = [state EXCEPT ![n] = "unconfigured"]
  /\ UNCHANGED <<crashes, bond, watchVars, jobVars>>

LosesHeartbeat(n) ==
  /\ bond[n] \in {"unformed", "dangling"} \/ (Troubled /\ bond[n] = "formed")
  /\ bond' = [bond EXCEPT ![n] = "broken"]
  /\ UNCHANGED <<nodeVars, watchVars, jobVars>>

(* A transition that does not start from the node's state is refused; one that
   does may fail, or end in the error state. *)
Outcomes(s, t) ==
  IF s # Source[t] THEN {s}
  ELSE {Target[t]} \union (IF Troubled THEN {s, "unconfigured", "finalized"} ELSE {})

ServeTransition ==
  /\ call = "sent"
  /\ \E s \in Outcomes(state[at], Head(passes)) :
       /\ state' = [state EXCEPT ![at] = s]
       /\ bond' = IF state[at] = "active" /\ s # "active" THEN BondsWithout(at)
                                                         ELSE bond
  /\ call' = "answered"
  /\ UNCHANGED <<crashes, watchVars, cmd, passes, at>>

-----------------------------------------------------------------------------
(* changeStateForAllNodes() and changeStateForNode()                        *)

FirstNode(t) == IF t \in Upward THEN 1 ELSE N

Launch(c) ==
  /\ cmd' = c
  /\ passes' = Passes[c]
  /\ at' = FirstNode(Passes[c][1])
  /\ UNCHANGED call

NodeDone ==
  /\ at' = IF Head(passes) \in Upward THEN at + 1 ELSE at - 1
  /\ UNCHANGED <<cmd, passes>>

(* faulty: the node is tried again *)
NodeRetried == UNCHANGED <<cmd, passes, at>>

(* The pass ends with false; shutdownAllNodes() goes on with the next. *)
PassFails ==
  /\ at' = 0
  /\ passes' = IF cmd = "shutdown" THEN passes ELSE <<>>
  /\ UNCHANGED cmd

NextPass ==
  /\ cmd \in Jobs
  /\ Len(passes) > 1
  /\ at \notin Nodes
  /\ passes' = Tail(passes)
  /\ at' = FirstNode(passes[2])
  /\ UNCHANGED <<nodeVars, bond, watchVars, cmd, call>>

AtNode == cmd \in Jobs /\ passes # <<>> /\ at \in Nodes

CallNode ==
  /\ AtNode
  /\ call = "none"
  /\ state[at] # "dead"
  /\ call' = "sent"
  /\ UNCHANGED <<nodeVars, bond, watchVars, cmd, passes, at>>

(* faulty: the call counts as answered for the next node *)
UnavailableKeepsCall ==
  /\ AtNode
  /\ call \in {"none", "answered"}
  /\ state[at] = "dead"
  /\ PassFails
  /\ UNCHANGED <<nodeVars, bond, watchVars, call>>

(* An exception ends the pass, also in a hard change: change_state() throws
   when it finds no service, get_state() when it gets no answer. *)
NodeUnavailable ==
  /\ AtNode
  /\ call \in {"none", "answered"}
  /\ state[at] = "dead"
  /\ call' = "none"
  /\ PassFails
  /\ UNCHANGED <<nodeVars, bond, watchVars>>

(* What was answered is not looked at, only the state that get_state() tells. *)
NodeRefused ==
  /\ AtNode
  /\ call = "answered"
  /\ state[at] \notin {"dead", Target[Head(passes)]}
  /\ call' = "none"
  /\ IF cmd = "hard" THEN NodeDone ELSE PassFails
  /\ UNCHANGED <<nodeVars, bond, watchVars>>

(* createBondConnection(): an entry that exists is kept, whatever it is. *)
NodeActivated ==
  /\ AtNode
  /\ call = "answered"
  /\ Head(passes) = "activate"
  /\ state[at] = "active"
  /\ call' = "none"
  /\ \/ bond[at] # "none" /\ UNCHANGED bond /\ NodeDone
     \/ bond[at] = "none" /\ bond' = [bond EXCEPT ![at] = "formed"] /\ NodeDone
     \/ /\ Troubled /\ bond[at] = "none"
        /\ bond' = [bond EXCEPT ![at] = "unformed"]
        /\ PassFails
  /\ UNCHANGED <<nodeVars, watchVars>>

NodeChanged ==
  /\ AtNode
  /\ call = "answered"
  /\ Head(passes) # "activate"
  /\ state[at] = Target[Head(passes)]
  /\ call' = "none"
  /\ bond' = IF Head(passes) = "deactivate" THEN [bond EXCEPT ![at] = "none"] ELSE bond
  /\ NodeDone
  /\ UNCHANGED <<nodeVars, watchVars>>

ChangeState == \/ NextPass \/ CallNode \/ NodeUnavailable
               \/ NodeRefused \/ NodeActivated \/ NodeChanged

-----------------------------------------------------------------------------
(* How the commands begin and end                                           *)

(* faulty: a pause leaves system_active_ set *)
PausesActive(c) ==
  /\ cmd = "idle"
  /\ IF clients THEN Launch(c)
                ELSE cmd' = "crashed" /\ UNCHANGED <<passes, at, call>>
  /\ IF c \in {"startup", "resume", "pause"}
     THEN UNCHANGED <<sysActive, bondTimer>>
     ELSE sysActive' = FALSE /\ bondTimer' = FALSE
  /\ UNCHANGED <<nodeVars, bond, clients>>

(* Everything but startup() and resume() first takes back "active" and stops
   the watch.  After shutdown() the clients are null and are dereferenced. *)
Begin(c) ==
  /\ cmd = "idle"
  /\ IF clients THEN Launch(c)
                ELSE cmd' = "crashed" /\ UNCHANGED <<passes, at, call>>
  /\ IF c \in {"startup", "resume"}
     THEN UNCHANGED <<sysActive, bondTimer>>
     ELSE sysActive' = FALSE /\ bondTimer' = FALSE
  /\ UNCHANGED <<nodeVars, bond, clients>>

ManagerCallback(c) == Begin(c) /\ UNCHANGED respawnTimer

PassesDone == cmd \in Jobs /\ Len(passes) = 1 /\ at \notin Nodes
GaveUp == cmd \in Jobs /\ passes = <<>>

Return ==
  /\ cmd' = "idle"
  /\ passes' = <<>>
  /\ at' = 0
  /\ UNCHANGED <<nodeVars, call>>

BroughtUp ==
  /\ PassesDone
  /\ cmd \in {"startup", "resume"}
  /\ sysActive' = TRUE
  /\ bondTimer' = TRUE
  /\ Return
  /\ UNCHANGED <<bond, clients, respawnTimer>>

BroughtDown ==
  /\ PassesDone
  /\ cmd \in {"reset", "pause"}
  /\ Return
  /\ UNCHANGED <<bond, watchVars>>

ShutDown ==
  /\ PassesDone
  /\ cmd = "shutdown"
  /\ clients' = FALSE
  /\ Return
  /\ UNCHANGED <<bond, sysActive, bondTimer, respawnTimer>>

Aborted ==
  /\ GaveUp
  /\ cmd # "hard"
  /\ Return
  /\ UNCHANGED <<bond, watchVars>>

(* checkBondConnections(), after reset(true) has returned *)
ForgetBonds ==
  /\ PassesDone \/ GaveUp
  /\ cmd = "hard"
  /\ bond' = [n \in Nodes |-> "none"]
  /\ respawnTimer' = (respawnTimer \/ Respawn)
  /\ Return
  /\ UNCHANGED <<clients, sysActive, bondTimer>>

EndCommand == \/ BroughtUp \/ BroughtDown \/ ShutDown \/ Aborted \/ ForgetBonds

-----------------------------------------------------------------------------
(* The timers                                                               *)

(* faulty: only the first bond is looked at *)
CheckFirstBond ==
  /\ bondTimer
  /\ sysActive
  /\ bond[1] = "broken"
  /\ Begin("hard")
  /\ UNCHANGED respawnTimer

CheckBondConnections ==
  /\ bondTimer
  /\ sysActive
  /\ \E n \in Nodes : bond[n] = "broken"
  /\ Begin("hard")
  /\ UNCHANGED respawnTimer

(* checkBondRespawnConnection(): stop if active again; start up if every node
   answers; else wait for the next turn or give up. *)
RespawnNotNeeded ==
  /\ respawnTimer
  /\ cmd = "idle"
  /\ sysActive
  /\ respawnTimer' = FALSE
  /\ UNCHANGED <<nodeVars, bond, clients, sysActive, bondTimer, jobVars>>

RespawnStartup ==
  /\ respawnTimer
  /\ ~sysActive
  /\ clients => \A n \in Nodes : state[n] # "dead"
  /\ respawnTimer' = ~clients
  /\ Begin("startup")

RespawnTimeout ==
  /\ Troubled
  /\ respawnTimer
  /\ cmd = "idle"
  /\ ~sysActive
  /\ clients
  /\ \E n \in Nodes : state[n] = "dead"
  /\ respawnTimer' = FALSE
  /\ UNCHANGED <<nodeVars, bond, clients, sysActive, bondTimer, jobVars>>

CheckBondRespawnConnection == RespawnNotNeeded \/ RespawnStartup \/ RespawnTimeout

Manager == \/ \E c \in Commands : ManagerCallback(c)
           \/ ChangeState \/ EndCommand
           \/ CheckBondConnections \/ CheckBondRespawnConnection

Next == \/ Manager
        \/ ServeTransition
        \/ \E n \in Nodes : Crash(n) \/ ComeBack(n) \/ LosesHeartbeat(n)

Spec == Init /\ [][Next]_vars

(* A command under way goes on; a node that lives answers; a bond without its
   other end breaks within bond_timeout_; the executor serves a timer that is
   due before long, however many commands come. *)
FairSpec ==
  /\ Spec
  /\ WF_vars(ChangeState \/ EndCommand)
  /\ WF_vars(ServeTransition)
  /\ \A n \in Nodes : WF_vars(bond[n] # "formed" /\ LosesHeartbeat(n))
  /\ SF_vars(CheckBondConnections)

-----------------------------------------------------------------------------
TypeOK ==
  /\ state \in [Nodes -> LifecycleStates]
  /\ bond \in [Nodes -> BondStates]
  /\ clients \in BOOLEAN
  /\ sysActive \in BOOLEAN
  /\ bondTimer \in BOOLEAN
  /\ respawnTimer \in BOOLEAN
  /\ cmd \in Jobs \union {"idle", "crashed"}
  /\ passes \in Seq(Transitions)
  /\ at \in 0 .. N + 1
  /\ call \in Calls
  /\ call # "none" => AtNode
  /\ crashes \in Nat

(* The manager answers is_active with true only while every node is active or
   a bond is about to tell that one is not: each node has a bond, the timer
   that looks at the bonds runs, and none is taken for formed with a node that
   has left the active state. checkBondConnections() dereferences the bond of
   every node, so it relies on this too. *)
ActiveIsWatched ==
  sysActive =>
    /\ bondTimer
    /\ \A n \in Nodes : bond[n] # "none" /\ (bond[n] = "formed" => state[n] = "active")

(* "ordered groups for bringup transitions, and reverse ordered groups for
   shutdown transitions": a node is activated only when all before it have
   been and are watched, and deactivated only when none after it is active,
   whatever fails in between; a hard reset alone passes over a refusal. *)
InOrder ==
  [][\A n \in Nodes :
       /\ state[n] # "active" /\ state'[n] = "active" =>
            \A m \in 1 .. n - 1 : bond[m] # "none"
       /\ state[n] = "active" /\ state'[n] = "inactive" /\ cmd # "hard" =>
            \A m \in n + 1 .. N : state[m] # "active"]_vars

(* A node lost while the system counts as active does not stay unnoticed,
   unless the manager waits for an answer that died with a node. *)
FailureNoticed ==
  \A n \in Nodes : sysActive /\ state[n] # "active" ~>
                     ~sysActive \/ state[n] = "active" \/ call = "lost"

(* Every command ends, unless a node dies while it serves a transition. *)
CommandEnds == cmd \in Jobs ~> cmd \notin Jobs \/ call = "lost"
=============================================================================
