----------------------- MODULE LifecycleManagerProofs -----------------------
(***************************************************************************)
(* Proofs about LifecycleManager: for any number of managed nodes, whatever *)
(* fails, crashes and returns, "active" is said only of a system in which   *)
(* every node is watched by a bond.                                         *)
(***************************************************************************)
EXTENDS LifecycleManager, TLAPS

(* A formed bond has an active node at its other end. *)
FormedMeansActive == \A n \in Nodes : bond[n] = "formed" => state[n] = "active"

(* A command that brings the system up has come to a node only when all nodes
   before it have their bonds; one that takes it down has withdrawn "active". *)
BringingUp ==
  cmd \in {"startup", "resume"} =>
    /\ passes \in {<<>>, <<"activate">>, <<"configure", "activate">>}
    /\ passes # <<>> => at \in 1 .. N + 1
    /\ passes = <<"activate">> => \A n \in 1 .. at - 1 : bond[n] # "none"

BringingDown == cmd \in {"reset", "hard", "shutdown", "pause"} => ~sysActive

IInv == TypeOK /\ FormedMeansActive /\ BringingUp /\ BringingDown /\ ActiveIsWatched

-----------------------------------------------------------------------------
(* What the commands consist of *)

LEMMA UpPasses ==
  /\ Passes["startup"] = <<"configure", "activate">>
  /\ Passes["resume"] = <<"activate">>
  BY DEF Passes

LEMMA UpSequences ==
  /\ <<"activate">> # <<>> /\ <<"configure", "activate">> # <<>>
  /\ <<"configure", "activate">> # <<"activate">>
  /\ Len(<<"activate">>) = 1 /\ Len(<<"configure", "activate">>) = 2
  /\ Head(<<"activate">>) = "activate"
  /\ Head(<<"configure", "activate">>) = "configure"
  /\ Tail(<<"configure", "activate">>) = <<"activate">>
  <1>1. Len(<<"activate">>) = 1 /\ Len(<<"configure", "activate">>) = 2  OBVIOUS
  <1>2. Tail(<<"configure", "activate">>) = <<"activate">>  OBVIOUS
  <1>3. <<"activate">> # <<>> /\ <<"configure", "activate">> # <<>>  OBVIOUS
  <1>4. /\ Head(<<"activate">>) = "activate"
        /\ Head(<<"configure", "activate">>) = "configure"
    OBVIOUS
  <1> QED  BY <1>1, <1>2, <1>3, <1>4

LEMMA PassesTyped ==
  ASSUME NEW c \in Jobs
  PROVE  /\ Passes[c] \in Seq(Transitions) /\ Passes[c] # <<>>
         /\ FirstNode(Passes[c][1]) \in 0 .. N + 1
  <1>1. /\ Passes["startup"] = <<"configure", "activate">>
        /\ Passes["reset"] = <<"deactivate", "cleanup">>
        /\ Passes["hard"] = <<"deactivate", "cleanup">>
        /\ Passes["shutdown"] = <<"deactivate", "cleanup", "finalize">>
        /\ Passes["pause"] = <<"deactivate">>
        /\ Passes["resume"] = <<"activate">>
    BY DEF Passes
  <1>2. /\ <<"configure", "activate">> \in Seq(Transitions)
        /\ <<"deactivate", "cleanup">> \in Seq(Transitions)
        /\ <<"deactivate", "cleanup", "finalize">> \in Seq(Transitions)
        /\ <<"deactivate">> \in Seq(Transitions)
        /\ <<"activate">> \in Seq(Transitions)
    BY DEF Transitions
  <1>3. Passes[c] \in Seq(Transitions)  BY <1>1, <1>2 DEF Jobs
  <1>4. Passes[c] # <<>>  BY <1>1 DEF Jobs
  <1>5. \A t : FirstNode(t) \in 0 .. N + 1  BY NIsCount DEF FirstNode
  <1> QED  BY <1>3, <1>4, <1>5

LEMMA HeadTyped ==
  ASSUME NEW s \in Seq(Transitions), s # <<>>
  PROVE  Head(s) \in Transitions /\ Tail(s) \in Seq(Transitions)
  OBVIOUS

LEMMA InitIInv == Init => IInv
  <1> SUFFICES ASSUME Init PROVE IInv  OBVIOUS
  <1>1. cmd \in Jobs \union {"idle", "crashed"}  BY DEF Init, Jobs
  <1>2. passes \in Seq(Transitions) /\ at \in 0 .. N + 1
    BY PassesTyped, NIsCount DEF Init, Jobs
  <1>3. BringingUp
    <2>1. CASE cmd = "idle"  BY <2>1 DEF BringingUp
    <2>2. CASE cmd = "startup"
      <3>1. passes = <<"configure", "activate">> /\ at = 1
        BY <2>2, UpPasses DEF Init
      <3> QED  BY <3>1, UpSequences, NIsCount DEF BringingUp
    <2> QED  BY <2>1, <2>2 DEF Init
  <1> QED  BY <1>1, <1>2, <1>3
    DEF Init, IInv, TypeOK, FormedMeansActive, BringingDown, ActiveIsWatched,
        LifecycleStates, BondStates, Calls

-----------------------------------------------------------------------------
(* The nodes: they end bonds, and they form none *)

LEMMA NodeSide ==
  ASSUME IInv,
         state' \in [Nodes -> LifecycleStates],
         bond' \in [Nodes -> BondStates],
         call' \in Calls, call' # "none" => call # "none",
         crashes' \in Nat,
         \A n \in Nodes : bond'[n] = "none" <=> bond[n] = "none",
         \A n \in Nodes : bond'[n] = "formed" => state'[n] = "active",
         UNCHANGED <<watchVars, cmd, passes, at>>
  PROVE  IInv'
  <1>1. UNCHANGED <<clients, sysActive, bondTimer, respawnTimer, cmd, passes, at>>
    BY DEF watchVars
  <1>2. AtNode => AtNode'  BY <1>1 DEF AtNode
  <1>3. TypeOK'  BY <1>1, <1>2 DEF IInv, TypeOK
  <1>4. FormedMeansActive' /\ BringingDown' /\ ActiveIsWatched'
    BY <1>1 DEF IInv, FormedMeansActive, BringingDown, ActiveIsWatched
  <1>5. \A n \in 1 .. at - 1 : n \in Nodes  BY NIsCount DEF IInv, TypeOK, Nodes
  <1>6. BringingUp'  BY <1>1, <1>5 DEF IInv, BringingUp
  <1> QED  BY <1>3, <1>4, <1>6 DEF IInv

LEMMA WithoutBond ==
  ASSUME bond \in [Nodes -> BondStates], NEW n \in Nodes
  PROVE  /\ BondsWithout(n) \in [Nodes -> BondStates]
         /\ BondsWithout(n)[n] # "formed"
         /\ \A m \in Nodes : BondsWithout(n)[m] = "none" <=> bond[m] = "none"
         /\ \A m \in Nodes \ {n} : BondsWithout(n)[m] = bond[m]
  BY DEF BondsWithout, BondStates

LEMMA CrashIInv ==
  ASSUME IInv, NEW n \in Nodes, Crash(n)
  PROVE  IInv'
  <1>1. state' \in [Nodes -> LifecycleStates]
    BY DEF IInv, TypeOK, Crash, LifecycleStates
  <1>2. \A m \in Nodes : bond'[m] = "formed" => state'[m] = "active"
    BY WithoutBond DEF IInv, TypeOK, FormedMeansActive, Crash
  <1>3. call' \in Calls /\ (call' # "none" => call # "none")
    BY DEF IInv, TypeOK, Crash, Calls
  <1>4. crashes' \in Nat /\ UNCHANGED <<watchVars, cmd, passes, at>>
    BY DEF IInv, TypeOK, Crash
  <1> QED  BY <1>1, <1>2, <1>3, <1>4, WithoutBond, NodeSide DEF IInv, TypeOK, Crash

LEMMA ComeBackIInv ==
  ASSUME IInv, NEW n \in Nodes, ComeBack(n)
  PROVE  IInv'
  <1>1. /\ state' \in [Nodes -> LifecycleStates]
        /\ UNCHANGED <<bond, call, crashes, watchVars, cmd, passes, at>>
    BY DEF IInv, TypeOK, ComeBack, LifecycleStates, jobVars
  <1>2. \A m \in Nodes : bond'[m] = "formed" => state'[m] = "active"
    BY DEF IInv, TypeOK, FormedMeansActive, ComeBack
  <1> QED  BY <1>1, <1>2, NodeSide DEF IInv, TypeOK

LEMMA LosesHeartbeatIInv ==
  ASSUME IInv, NEW n \in Nodes, LosesHeartbeat(n)
  PROVE  IInv'
  <1>1. /\ bond' \in [Nodes -> BondStates]
        /\ UNCHANGED <<state, call, crashes, watchVars, cmd, passes, at>>
    BY DEF IInv, TypeOK, LosesHeartbeat, BondStates, nodeVars, jobVars
  <1>2. \A m \in Nodes : bond'[m] = "none" <=> bond[m] = "none"
    BY DEF IInv, TypeOK, LosesHeartbeat
  <1>3. \A m \in Nodes : bond'[m] = "formed" => state'[m] = "active"
    BY <1>1 DEF IInv, TypeOK, FormedMeansActive, LosesHeartbeat
  <1> QED  BY <1>1, <1>2, <1>3, NodeSide DEF IInv, TypeOK

LEMMA ServeTransitionIInv ==
  ASSUME IInv, ServeTransition
  PROVE  IInv'
  <1>1. at \in Nodes /\ Head(passes) \in Transitions
    BY HeadTyped DEF AtNode, ServeTransition, IInv, TypeOK
  <1>2. PICK s \in Outcomes(state[at], Head(passes)) :
          /\ state' = [state EXCEPT ![at] = s]
          /\ bond' = IF state[at] = "active" /\ s # "active" THEN BondsWithout(at)
                                                            ELSE bond
    BY DEF ServeTransition
  <1>3. Target[Head(passes)] \in LifecycleStates
    BY <1>1 DEF Target, Transitions, LifecycleStates
  <1>4. state[at] \in LifecycleStates  BY <1>1 DEF IInv, TypeOK
  <1>5. s \in LifecycleStates
    BY <1>2, <1>3, <1>4 DEF Outcomes, LifecycleStates
  <1>6. state' \in [Nodes -> LifecycleStates]
    BY <1>1, <1>2, <1>5 DEF IInv, TypeOK
  <1>7. /\ bond' \in [Nodes -> BondStates]
        /\ \A m \in Nodes : bond'[m] = "none" <=> bond[m] = "none"
    BY <1>1, <1>2, WithoutBond DEF IInv, TypeOK
  <1>8. ASSUME NEW m \in Nodes, bond'[m] = "formed"
        PROVE  state'[m] = "active"
    <2>1. CASE m # at
      BY <1>1, <1>2, <1>8, <2>1, WithoutBond DEF IInv, TypeOK, FormedMeansActive
    <2>2. CASE m = at /\ s = "active"
      BY <1>1, <1>2, <2>2 DEF IInv, TypeOK
    <2>3. CASE m = at /\ s # "active"
      BY <1>1, <1>2, <1>8, <2>3, WithoutBond DEF IInv, TypeOK, FormedMeansActive
    <2> QED  BY <2>1, <2>2, <2>3
  <1>9. /\ call' \in Calls /\ call # "none" /\ crashes' \in Nat
        /\ UNCHANGED <<watchVars, cmd, passes, at>>
    BY DEF IInv, TypeOK, ServeTransition, Calls
  <1> QED  BY <1>6, <1>7, <1>8, <1>9, NodeSide

-----------------------------------------------------------------------------
(* The manager at a node *)

LEMMA UpCommand ==
  ASSUME IInv, passes # <<>>, cmd \in {"startup", "resume"}
  PROVE  /\ passes \in {<<"activate">>, <<"configure", "activate">>}
         /\ Head(passes) \in Upward
         /\ Head(passes) = "activate" <=> passes = <<"activate">>
         /\ at \in 1 .. N + 1
  BY UpSequences DEF IInv, BringingUp, Upward

LEMMA DownCommand ==
  ASSUME IInv, AtNode, Head(passes) = "deactivate"
  PROVE  cmd \in {"reset", "hard", "shutdown", "pause"} /\ ~sysActive
  <1>1. cmd \notin {"startup", "resume"}
    BY UpCommand DEF AtNode, Upward
  <1> QED  BY <1>1 DEF IInv, BringingDown, AtNode, Jobs

LEMMA AfterFailure ==
  ASSUME IInv, AtNode, PassFails
  PROVE  /\ passes' \in Seq(Transitions) /\ at' \in 0 .. N + 1 /\ cmd' = cmd
         /\ BringingUp'
  <1>1. passes' = passes \/ passes' = <<>>  BY DEF PassFails
  <1>2. passes' \in Seq(Transitions)
    <2>1. <<>> \in Seq(Transitions)  OBVIOUS
    <2>2. passes \in Seq(Transitions)  BY DEF IInv, TypeOK
    <2> QED  BY <1>1, <2>1, <2>2
  <1>3. at' = 0 /\ cmd' = cmd  BY DEF PassFails
  <1>4. cmd \in {"startup", "resume"} => passes' = <<>>  BY DEF PassFails
  <1>5. BringingUp'  BY <1>3, <1>4, UpSequences DEF BringingUp
  <1> QED  BY <1>2, <1>3, <1>5, NIsCount

LEMMA AfterNode ==
  ASSUME IInv, AtNode, NodeDone,
         Head(passes) = "activate" => bond'[at] # "none",
         cmd \in {"startup", "resume"} =>
           \A n \in Nodes : bond[n] # "none" => bond'[n] # "none"
  PROVE  /\ passes' \in Seq(Transitions) /\ at' \in 0 .. N + 1 /\ cmd' = cmd
         /\ BringingUp'
  <1>1. passes' = passes /\ cmd' = cmd  BY DEF NodeDone
  <1>2. passes' \in Seq(Transitions)  BY <1>1 DEF IInv, TypeOK
  <1>3. at \in 1 .. N  BY DEF AtNode, Nodes
  <1>4. at' = at + 1 \/ at' = at - 1  BY DEF NodeDone
  <1>5. at' \in 0 .. N + 1  BY <1>3, <1>4, NIsCount
  <1>6. ASSUME cmd \in {"startup", "resume"}
        PROVE  BringingUp'
    <2>1. /\ passes \in {<<"activate">>, <<"configure", "activate">>}
          /\ Head(passes) \in Upward
          /\ Head(passes) = "activate" <=> passes = <<"activate">>
      BY <1>6, UpCommand DEF AtNode
    <2>2. at' = at + 1  BY <2>1 DEF NodeDone
    <2>3. at' \in 1 .. N + 1  BY <2>2, <1>3, NIsCount
    <2>4. ASSUME passes = <<"activate">>, NEW n \in 1 .. at' - 1
          PROVE  bond'[n] # "none"
      <3>1. n \in Nodes /\ (n = at \/ n \in 1 .. at - 1)
        BY <2>2, <1>3, NIsCount DEF Nodes
      <3>2. CASE n = at  BY <3>2, <2>1, <2>4
      <3>3. CASE n \in 1 .. at - 1
        <4>1. bond[n] # "none"  BY <3>3, <2>4, <1>6 DEF IInv, BringingUp
        <4> QED  BY <4>1, <3>1, <1>6
      <3> QED  BY <3>1, <3>2, <3>3
    <2> QED  BY <2>1, <2>3, <2>4, <1>1 DEF BringingUp
  <1>7. CASE cmd \notin {"startup", "resume"}
    BY <1>7, <1>1, <1>2, <1>5 DEF BringingUp
  <1> QED  BY <1>1, <1>2, <1>5, <1>6, <1>7

(* What a step at a node leaves alone *)
LEMMA RestOfStep ==
  ASSUME IInv, UNCHANGED <<nodeVars, watchVars>>, call' = "none", cmd' = cmd,
         passes' \in Seq(Transitions), at' \in 0 .. N + 1, BringingUp',
         bond' \in [Nodes -> BondStates],
         \A n \in Nodes : bond'[n] = "formed" => state[n] = "active",
         sysActive => \A n \in Nodes : bond[n] # "none" => bond'[n] # "none"
  PROVE  IInv'
  <1>1. UNCHANGED <<state, crashes, clients, sysActive, bondTimer, respawnTimer>>
    BY DEF nodeVars, watchVars
  <1>2. TypeOK'  BY <1>1 DEF IInv, TypeOK, Calls
  <1>3. FormedMeansActive'  BY <1>1 DEF FormedMeansActive
  <1>4. BringingDown'  BY <1>1 DEF IInv, BringingDown
  <1>5. ActiveIsWatched'  BY <1>1 DEF IInv, ActiveIsWatched
  <1> QED  BY <1>2, <1>3, <1>4, <1>5 DEF IInv

LEMMA NextPassIInv ==
  ASSUME IInv, NextPass
  PROVE  IInv'
  <1>1. /\ passes # <<>> /\ Tail(passes) \in Seq(Transitions)
        /\ UNCHANGED <<nodeVars, bond, watchVars, cmd, call>>
    BY HeadTyped DEF IInv, TypeOK, NextPass
  <1>2. call = "none"  BY DEF IInv, TypeOK, AtNode, NextPass
  <1>3. passes' \in Seq(Transitions)  BY <1>1 DEF NextPass
  <1>4. at' \in 0 .. N + 1  BY NIsCount DEF NextPass, FirstNode
  <1>5. BringingUp'
    <2>1. CASE cmd \in {"startup", "resume"}
      <3>1. passes = <<"configure", "activate">>
        BY <1>1, <2>1, UpCommand, UpSequences DEF NextPass
      <3>2. passes' = <<"activate">>  BY <3>1, UpSequences DEF NextPass
      <3>3. at' = 1  BY <3>1 DEF NextPass, FirstNode, Upward
      <3> QED  BY <3>2, <3>3, NIsCount DEF BringingUp
    <2>2. CASE cmd \notin {"startup", "resume"}  BY <1>1, <2>2 DEF BringingUp
    <2> QED  BY <2>1, <2>2
  <1>6. call' = "none" /\ cmd' = cmd /\ bond' = bond  BY <1>1, <1>2
  <1> QED  BY <1>1, <1>3, <1>4, <1>5, <1>6, RestOfStep
         DEF IInv, TypeOK, FormedMeansActive
LEMMA CallNodeIInv ==
  ASSUME IInv, CallNode
  PROVE  IInv'
  <1>1. /\ UNCHANGED <<nodeVars, bond, watchVars, cmd, passes, at>>
        /\ AtNode /\ call' = "sent"
    BY DEF CallNode
  <1>2. UNCHANGED <<state, crashes, clients, sysActive, bondTimer, respawnTimer>>
    BY <1>1 DEF nodeVars, watchVars
  <1>3. TypeOK'  BY <1>1, <1>2 DEF IInv, TypeOK, AtNode, Calls
  <1>4. /\ FormedMeansActive' /\ BringingUp' /\ BringingDown'
        /\ ActiveIsWatched'
    BY <1>1, <1>2
    DEF IInv, FormedMeansActive, BringingUp, BringingDown, ActiveIsWatched
  <1> QED  BY <1>3, <1>4 DEF IInv

(* A step at a node that leaves the bonds alone *)
LEMMA SameBonds ==
  ASSUME IInv, UNCHANGED <<nodeVars, watchVars, bond>>, call' = "none",
         cmd' = cmd, passes' \in Seq(Transitions), at' \in 0 .. N + 1,
         BringingUp'
  PROVE  IInv'
  BY RestOfStep DEF IInv, TypeOK, FormedMeansActive

LEMMA NodeUnavailableIInv ==
  ASSUME IInv, NodeUnavailable
  PROVE  IInv'
  BY AfterFailure, SameBonds DEF NodeUnavailable

LEMMA NodeRefusedIInv ==
  ASSUME IInv, NodeRefused
  PROVE  IInv'
  <1>1. CASE cmd = "hard"
    <2>1. NodeDone  BY <1>1 DEF NodeRefused
    <2>2. BringingUp'  BY <1>1, <2>1 DEF NodeDone, BringingUp
    <2>3. passes' = passes /\ cmd' = cmd /\ at' \in {at - 1, at + 1}
      BY <2>1 DEF NodeDone
    <2>4. at' \in 0 .. N + 1
      BY <2>3, NIsCount DEF NodeRefused, AtNode, Nodes
    <2> QED  BY <2>2, <2>3, <2>4, SameBonds DEF NodeRefused, IInv, TypeOK
  <1>2. CASE cmd # "hard"
    BY <1>2, AfterFailure, SameBonds DEF NodeRefused
  <1> QED  BY <1>1, <1>2

LEMMA NodeActivatedIInv ==
  ASSUME IInv, NodeActivated
  PROVE  IInv'
  <1>1. /\ AtNode /\ at \in Nodes /\ state[at] = "active"
        /\ Head(passes) = "activate" /\ call' = "none"
        /\ UNCHANGED <<nodeVars, watchVars>>
    BY DEF NodeActivated, AtNode
  <1>2. bond \in [Nodes -> BondStates]  BY DEF IInv, TypeOK
  <1>3. CASE bond[at] # "none" /\ UNCHANGED bond /\ NodeDone
    BY <1>1, <1>3, AfterNode, SameBonds
  <1>4. CASE bond[at] = "none" /\ bond' = [bond EXCEPT ![at] = "formed"] /\ NodeDone
    <2>1. /\ bond' \in [Nodes -> BondStates] /\ bond'[at] = "formed"
          /\ \A n \in Nodes \ {at} : bond'[n] = bond[n]
      BY <1>1, <1>2, <1>4 DEF BondStates
    <2>2. \A n \in Nodes : bond[n] # "none" => bond'[n] # "none"  BY <2>1
    <2>3. \A n \in Nodes : bond'[n] = "formed" => state[n] = "active"
      BY <1>1, <2>1 DEF IInv, FormedMeansActive
    <2>4. /\ passes' \in Seq(Transitions) /\ at' \in 0 .. N + 1 /\ cmd' = cmd
          /\ BringingUp'
      BY <1>1, <1>4, <2>1, <2>2, AfterNode
    <2> QED  BY <1>1, <2>1, <2>2, <2>3, <2>4, RestOfStep
  <1>5. CASE bond[at] = "none" /\ bond' = [bond EXCEPT ![at] = "unformed"] /\ PassFails
    <2>1. /\ bond' \in [Nodes -> BondStates] /\ bond'[at] = "unformed"
          /\ \A n \in Nodes \ {at} : bond'[n] = bond[n]
      BY <1>1, <1>2, <1>5 DEF BondStates
    <2>2. \A n \in Nodes : bond[n] # "none" => bond'[n] # "none"  BY <2>1
    <2>3. \A n \in Nodes : bond'[n] = "formed" => state[n] = "active"
      BY <2>1 DEF IInv, FormedMeansActive
    <2> QED  BY <1>1, <1>5, <2>1, <2>2, <2>3, AfterFailure, RestOfStep
  <1> QED  BY <1>3, <1>4, <1>5 DEF NodeActivated

LEMMA NodeChangedIInv ==
  ASSUME IInv, NodeChanged
  PROVE  IInv'
  <1>1. /\ AtNode /\ at \in Nodes /\ Head(passes) # "activate"
        /\ NodeDone /\ call' = "none" /\ UNCHANGED <<nodeVars, watchVars>>
    BY DEF NodeChanged, AtNode
  <1>2. bond \in [Nodes -> BondStates]  BY DEF IInv, TypeOK
  <1>3. CASE Head(passes) = "deactivate"
    <2>1. cmd \in {"reset", "hard", "shutdown", "pause"} /\ ~sysActive
      BY <1>1, <1>3, DownCommand
    <2>2. bond' = [bond EXCEPT ![at] = "none"]  BY <1>3 DEF NodeChanged
    <2>3. /\ bond' \in [Nodes -> BondStates] /\ bond'[at] = "none"
          /\ \A n \in Nodes \ {at} : bond'[n] = bond[n]
      BY <1>1, <1>2, <2>2 DEF BondStates
    <2>4. \A n \in Nodes : bond'[n] = "formed" => state[n] = "active"
      BY <2>3 DEF IInv, FormedMeansActive
    <2>5. cmd \notin {"startup", "resume"}  BY <2>1
    <2>6. /\ passes' \in Seq(Transitions) /\ at' \in 0 .. N + 1 /\ cmd' = cmd
          /\ BringingUp'
      BY <1>1, <2>5, AfterNode
    <2> QED  BY <1>1, <2>1, <2>3, <2>4, <2>6, RestOfStep
  <1>4. CASE Head(passes) # "deactivate"
    <2>1. bond' = bond  BY <1>4 DEF NodeChanged
    <2> QED  BY <1>1, <2>1, AfterNode, SameBonds
  <1> QED  BY <1>3, <1>4
LEMMA ChangeStateIInv ==
  ASSUME IInv, ChangeState
  PROVE  IInv'
  BY NextPassIInv, CallNodeIInv, NodeUnavailableIInv, NodeRefusedIInv,
     NodeActivatedIInv, NodeChangedIInv DEF ChangeState

-----------------------------------------------------------------------------
(* The beginning and the end of a command *)

LEMMA BeginIInv ==
  ASSUME IInv, NEW c \in Jobs, Begin(c), respawnTimer' \in BOOLEAN
  PROVE  IInv'
  <1>1. UNCHANGED <<state, crashes, bond, clients>>  BY DEF Begin, nodeVars
  <1>2. sysActive' \in BOOLEAN /\ bondTimer' \in BOOLEAN
    BY DEF Begin, IInv, TypeOK
  <1>3. sysActive' => sysActive /\ bondTimer' = bondTimer /\ c \in {"startup", "resume"}
    BY DEF Begin
  <1>4. FormedMeansActive' /\ ActiveIsWatched'
    BY <1>1, <1>3 DEF IInv, FormedMeansActive, ActiveIsWatched
  <1>5. call = "none"  BY DEF Begin, IInv, TypeOK, AtNode, Jobs
  <1>6. CASE clients
    <2>1. Launch(c)  BY <1>6 DEF Begin
    <2>2. cmd' = c /\ passes' = Passes[c] /\ call' = "none"
      BY <1>5, <2>1 DEF Launch
    <2>3. passes' \in Seq(Transitions) /\ at' \in 0 .. N + 1
      BY <2>1, PassesTyped DEF Launch
    <2>4. TypeOK'  BY <1>1, <1>2, <2>2, <2>3 DEF IInv, TypeOK, Calls
    <2>5. BringingDown'  BY <1>3, <2>2, <1>2 DEF BringingDown
    <2>6. BringingUp'
      <3>1. CASE c \in {"startup", "resume"}
        <4>1. at' = 1
          BY <2>1, <3>1, UpPasses DEF Launch, FirstNode, Upward
        <4>2. passes' \in {<<"activate">>, <<"configure", "activate">>}
          BY <2>2, <3>1, UpPasses
        <4> QED  BY <4>1, <4>2, NIsCount DEF BringingUp
      <3>2. CASE c \notin {"startup", "resume"}  BY <3>2, <2>2 DEF BringingUp
      <3> QED  BY <3>1, <3>2
    <2> QED  BY <1>4, <2>4, <2>5, <2>6 DEF IInv
  <1>7. CASE ~clients
    <2>1. cmd' = "crashed" /\ UNCHANGED <<passes, at, call>>
      BY <1>7 DEF Begin
    <2>2. TypeOK'  BY <1>1, <1>2, <1>5, <2>1 DEF IInv, TypeOK
    <2>3. BringingUp' /\ BringingDown'  BY <2>1 DEF BringingUp, BringingDown
    <2> QED  BY <1>4, <2>2, <2>3 DEF IInv
  <1> QED  BY <1>6, <1>7

(* A command that has come to its end *)
LEMMA ReturnIInv ==
  ASSUME IInv, Return, call = "none",
         clients' \in BOOLEAN, respawnTimer' \in BOOLEAN,
         sysActive' \in BOOLEAN, bondTimer' \in BOOLEAN,
         bond' \in [Nodes -> BondStates],
         \A n \in Nodes : bond'[n] = "formed" => state[n] = "active",
         sysActive' => bondTimer' /\ \A n \in Nodes : bond'[n] # "none"
  PROVE  IInv'
  <1>1. /\ UNCHANGED <<state, crashes, call>> /\ cmd' = "idle"
        /\ passes' = <<>> /\ at' = 0
    BY DEF Return, nodeVars
  <1>2. passes' \in Seq(Transitions)
    <2>1. <<>> \in Seq(Transitions)  OBVIOUS
    <2> QED  BY <1>1, <2>1
  <1>3. TypeOK'  BY <1>1, <1>2, NIsCount DEF IInv, TypeOK
  <1>4. BringingUp' /\ BringingDown'  BY <1>1 DEF BringingUp, BringingDown
  <1>5. FormedMeansActive' /\ ActiveIsWatched'
    BY <1>1 DEF FormedMeansActive, ActiveIsWatched
  <1> QED  BY <1>3, <1>4, <1>5 DEF IInv

LEMMA EndCommandIInv ==
  ASSUME IInv, EndCommand
  PROVE  IInv'
  <1>1. PassesDone \/ GaveUp
    BY DEF EndCommand, BroughtUp, BroughtDown, ShutDown, Aborted, ForgetBonds
  <1>2. call = "none"
    <2>1. passes = <<>> \/ at \notin Nodes  BY <1>1 DEF PassesDone, GaveUp
    <2> QED  BY <2>1 DEF IInv, TypeOK, AtNode
  <1>3. BroughtUp => IInv'
    <2> SUFFICES ASSUME BroughtUp PROVE IInv'  OBVIOUS
    <2>1. cmd \in {"startup", "resume"} /\ Len(passes) = 1 /\ at \notin Nodes
      BY DEF BroughtUp, PassesDone
    <2>2. passes # <<>>  BY <2>1
    <2>3. passes = <<"activate">> /\ at \in 1 .. N + 1
      BY <2>1, <2>2, UpCommand, UpSequences
    <2>4. at = N + 1  BY <2>1, <2>3, NIsCount DEF Nodes
    <2>5. \A n \in Nodes : n \in 1 .. at - 1  BY <2>4, NIsCount DEF Nodes
    <2>6. \A n \in Nodes : bond[n] # "none"
      BY <2>1, <2>3, <2>5 DEF IInv, BringingUp
    <2>7. Return /\ UNCHANGED <<bond, clients, respawnTimer>>
      BY DEF BroughtUp
    <2>8. sysActive' = TRUE /\ bondTimer' = TRUE  BY DEF BroughtUp
    <2> QED  BY <1>2, <2>6, <2>7, <2>8, ReturnIInv
           DEF IInv, TypeOK, FormedMeansActive
  <1>4. BroughtDown \/ Aborted => IInv'
    <2> SUFFICES ASSUME BroughtDown \/ Aborted PROVE IInv'  OBVIOUS
    <2>1. Return /\ UNCHANGED <<bond, clients, sysActive, bondTimer, respawnTimer>>
      BY DEF BroughtDown, Aborted, watchVars
    <2> QED  BY <1>2, <2>1, ReturnIInv
           DEF IInv, TypeOK, FormedMeansActive, ActiveIsWatched
  <1>5. ShutDown => IInv'
    <2> SUFFICES ASSUME ShutDown PROVE IInv'  OBVIOUS
    <2>1. Return /\ clients' = FALSE
      BY DEF ShutDown
    <2>2. UNCHANGED <<bond, sysActive, bondTimer, respawnTimer>>
      BY DEF ShutDown
    <2> QED  BY <1>2, <2>1, <2>2, ReturnIInv
           DEF IInv, TypeOK, FormedMeansActive, ActiveIsWatched
  <1>6. ForgetBonds => IInv'
    <2> SUFFICES ASSUME ForgetBonds PROVE IInv'  OBVIOUS
    <2>1. /\ Return /\ bond' = [n \in Nodes |-> "none"]
          /\ UNCHANGED <<clients, sysActive, bondTimer>>
      BY DEF ForgetBonds
    <2>2. ~sysActive  BY DEF ForgetBonds, IInv, BringingDown
    <2>3. respawnTimer' \in BOOLEAN
      BY OptionsAreBools DEF ForgetBonds, IInv, TypeOK
    <2>4. bond' \in [Nodes -> BondStates]  BY <2>1 DEF BondStates
    <2>5. \A n \in Nodes : bond'[n] # "formed"  BY <2>1
    <2>6. clients' \in BOOLEAN /\ sysActive' \in BOOLEAN /\ bondTimer' \in BOOLEAN
      BY <2>1 DEF IInv, TypeOK
    <2>7. ~sysActive'  BY <2>1, <2>2
    <2> QED  BY <1>2, <2>1, <2>3, <2>4, <2>5, <2>6, <2>7, ReturnIInv
  <1> QED  BY <1>3, <1>4, <1>5, <1>6 DEF EndCommand

LEMMA TimerIInv ==
  ASSUME IInv, CheckBondConnections \/ CheckBondRespawnConnection
  PROVE  IInv'
  <1>1. "hard" \in Jobs /\ "startup" \in Jobs  BY DEF Jobs
  <1>2. CASE CheckBondConnections
    BY <1>1, <1>2, BeginIInv DEF CheckBondConnections, IInv, TypeOK
  <1>3. CASE RespawnStartup
    <2>1. respawnTimer' \in BOOLEAN  BY <1>3 DEF RespawnStartup, IInv, TypeOK
    <2> QED  BY <1>1, <1>3, <2>1, BeginIInv DEF RespawnStartup
  <1>4. CASE RespawnNotNeeded \/ RespawnTimeout
    <2>1. /\ respawnTimer' = FALSE
          /\ UNCHANGED <<state, crashes, bond, clients, sysActive, bondTimer,
                         cmd, passes, at, call>>
      BY <1>4 DEF RespawnNotNeeded, RespawnTimeout, nodeVars, jobVars
    <2>2. TypeOK'  BY <2>1 DEF IInv, TypeOK, AtNode
    <2>3. /\ FormedMeansActive' /\ BringingUp' /\ BringingDown'
          /\ ActiveIsWatched'
      BY <2>1
      DEF IInv, FormedMeansActive, BringingUp, BringingDown, ActiveIsWatched
    <2> QED  BY <2>2, <2>3 DEF IInv
  <1> QED  BY <1>2, <1>3, <1>4 DEF CheckBondRespawnConnection

LEMMA NextIInv == IInv /\ [Next]_vars => IInv'
  <1> SUFFICES ASSUME IInv, [Next]_vars PROVE IInv'  OBVIOUS
  <1>1. ASSUME NEW c \in Commands, ManagerCallback(c) PROVE IInv'
    <2>1. c \in Jobs  BY CommandsAreCommands DEF Jobs
    <2>2. Begin(c) /\ respawnTimer' \in BOOLEAN
      BY <1>1 DEF ManagerCallback, IInv, TypeOK
    <2> QED  BY <2>1, <2>2, BeginIInv
  <1>2. Manager => IInv'
    BY <1>1, ChangeStateIInv, EndCommandIInv, TimerIInv DEF Manager
  <1>3. UNCHANGED vars => IInv'
    <2> SUFFICES ASSUME UNCHANGED vars PROVE IInv'  OBVIOUS
    <2>1. UNCHANGED <<state, crashes, bond, clients, sysActive, bondTimer,
                      respawnTimer, cmd, passes, at, call>>
      BY DEF vars, nodeVars, watchVars, jobVars
    <2>2. TypeOK'  BY <2>1 DEF IInv, TypeOK, AtNode
    <2>3. /\ FormedMeansActive' /\ BringingUp' /\ BringingDown'
          /\ ActiveIsWatched'
      BY <2>1
      DEF IInv, FormedMeansActive, BringingUp, BringingDown, ActiveIsWatched
    <2> QED  BY <2>2, <2>3 DEF IInv
  <1> QED
    BY <1>2, <1>3, ServeTransitionIInv, CrashIInv, ComeBackIInv,
       LosesHeartbeatIInv DEF Next

-----------------------------------------------------------------------------
(* Type correctness of the lifecycle manager, for any number of nodes. *)
THEOREM ManagerTypes == Spec => []TypeOK
  <1>1. IInv => TypeOK  BY DEF IInv
  <1> QED  BY InitIInv, NextIInv, <1>1, PTL DEF Spec

(* For any number of nodes, crashes and commands: is_active is answered with
   true only while the bond timer runs over a bond of every node, and a bond
   counts as formed only with an active node. *)
THEOREM ActiveMeansWatched == Spec => []ActiveIsWatched
  <1>1. IInv => ActiveIsWatched  BY DEF IInv
  <1> QED  BY InitIInv, NextIInv, <1>1, PTL DEF Spec

-----------------------------------------------------------------------------
(* The order of the nodes                                                   *)

(* The commands that take the system down never activate a node. *)
DownOnly ==
  cmd \in {"reset", "hard", "shutdown", "pause"} =>
    passes \in Seq({"deactivate", "cleanup", "finalize"})

(* A deactivating pass that goes on has left no active node behind; only the *)
(* hard reset passes over a node that refused.                               *)
NoneBehind ==
  AtNode /\ cmd # "hard" /\ Head(passes) = "deactivate" =>
    \A m \in at + 1 .. N : state[m] # "active"

OrderInv == IInv /\ DownOnly /\ NoneBehind

LEMMA DownSequences ==
  /\ <<>> \in Seq({"deactivate", "cleanup", "finalize"})
  /\ <<"deactivate">> \in Seq({"deactivate", "cleanup", "finalize"})
  /\ <<"deactivate", "cleanup">> \in Seq({"deactivate", "cleanup", "finalize"})
  /\ <<"deactivate", "cleanup", "finalize">> \in Seq({"deactivate", "cleanup", "finalize"})
  OBVIOUS

LEMMA DownTail ==
  ASSUME NEW s \in Seq({"deactivate", "cleanup", "finalize"}), s # <<>>
  PROVE  /\ Tail(s) \in Seq({"deactivate", "cleanup", "finalize"})
         /\ Head(s) # "activate"
  OBVIOUS

(* A node changes its own state only, by a transition that starts from it.   *)
LEMMA ServedState ==
  ASSUME IInv, ServeTransition
  PROVE  /\ AtNode
         /\ \A n \in Nodes \ {at} : state'[n] = state[n]
         /\ state[at] # "active" /\ state'[at] = "active" => Head(passes) = "activate"
         /\ state[at] = "active" /\ state'[at] = "inactive" => Head(passes) = "deactivate"
<1>1. AtNode /\ at \in Nodes /\ passes # <<>> /\ passes \in Seq(Transitions)
  BY DEF IInv, TypeOK, ServeTransition, AtNode
<1>2. Head(passes) \in Transitions
  BY <1>1, HeadTyped
<1>3. PICK s \in Outcomes(state[at], Head(passes)) : state' = [state EXCEPT ![at] = s]
  BY DEF ServeTransition
<1>4. state'[at] = s /\ \A n \in Nodes \ {at} : state'[n] = state[n]
  BY <1>1, <1>3 DEF IInv, TypeOK
<1>5. s # state[at] => state[at] = Source[Head(passes)]
                        /\ s \in {Target[Head(passes)], "unconfigured", "finalized"}
  BY DEF Outcomes
<1>6. state[at] # "active" /\ s = "active" => Head(passes) = "activate"
  BY <1>2, <1>5 DEF Target, Transitions
<1>7. state[at] = "active" /\ s = "inactive" => Head(passes) = "deactivate"
  BY <1>2, <1>5 DEF Source, Transitions
<1>. QED
  BY <1>1, <1>4, <1>6, <1>7

LEMMA LaunchKeepsOrder ==
  ASSUME IInv, NEW c \in Jobs, Begin(c)
  PROVE  DownOnly' /\ NoneBehind'
<1>1. CASE Launch(c)
  <2>1. cmd' = c /\ passes' = Passes[c] /\ at' = FirstNode(Passes[c][1])
    BY <1>1 DEF Launch
  <2>2. /\ c = "reset" => Passes[c] = <<"deactivate", "cleanup">>
        /\ c = "hard" => Passes[c] = <<"deactivate", "cleanup">>
        /\ c = "shutdown" => Passes[c] = <<"deactivate", "cleanup", "finalize">>
        /\ c = "pause" => Passes[c] = <<"deactivate">>
    BY DEF Passes
  <2>2a. DownOnly'
    BY <2>1, <2>2, DownSequences DEF DownOnly
  <2>3. Passes[c] # <<>> /\ Passes[c] \in Seq(Transitions)
    BY PassesTyped
  <2>4. Head(Passes[c]) = Passes[c][1]
    BY <2>3
  <2>5. Head(passes') = "deactivate" => at' = N
    BY <2>1, <2>4 DEF FirstNode, Upward
  <2>6. NoneBehind'
    BY <2>5, NIsCount DEF NoneBehind
  <2>. QED
    BY <2>2a, <2>6
<1>2. CASE cmd' = "crashed"
  BY <1>2 DEF DownOnly, NoneBehind, AtNode, Jobs
<1>. QED
  BY <1>1, <1>2 DEF Begin

LEMMA ChangeKeepsOrder ==
  ASSUME OrderInv, ChangeState
  PROVE  DownOnly' /\ NoneBehind'
<1>0. /\ passes \in Seq(Transitions) /\ at \in 0 .. N + 1 /\ N \in Nat
      /\ DownOnly /\ NoneBehind
  BY NIsCount DEF OrderInv, IInv, TypeOK
<1>1. ASSUME PassFails PROVE DownOnly' /\ NoneBehind'
  <2>1. at' = 0 /\ cmd' = cmd /\ (passes' = passes \/ passes' = <<>>)
    BY <1>1 DEF PassFails
  <2>2. 0 \notin Nodes
    BY <1>0 DEF Nodes
  <2>. QED
    BY <1>0, <2>1, <2>2, DownSequences DEF DownOnly, NoneBehind, AtNode
<1>2. CASE NextPass
  <2>1. passes # <<>> /\ passes' = Tail(passes) /\ at' = FirstNode(passes[2]) /\ cmd' = cmd
    BY <1>0, <1>2 DEF NextPass
  <2>2. passes' # <<>> => Head(passes') = passes[2]
    BY <1>0, <2>1
  <2>3. DownOnly'
    BY <1>0, <2>1, DownTail DEF DownOnly
  <2>4. AtNode' /\ Head(passes') = "deactivate" => at' = N
    BY <2>1, <2>2 DEF AtNode, FirstNode, Upward
  <2>5. NoneBehind'
    BY <1>0, <2>4 DEF NoneBehind
  <2>. QED
    BY <2>3, <2>5
<1>3. CASE CallNode
  BY <1>0, <1>3 DEF CallNode, DownOnly, NoneBehind, AtNode, nodeVars
<1>4. CASE NodeUnavailable
  BY <1>1, <1>4 DEF NodeUnavailable
<1>5. CASE NodeRefused
  <2>1. CASE cmd = "hard" /\ NodeDone
    BY <1>0, <2>1 DEF NodeDone, DownOnly, NoneBehind
  <2>. QED
    BY <1>1, <1>5, <2>1 DEF NodeRefused
<1>6. CASE NodeActivated
  <2>1. CASE NodeDone
    BY <1>0, <1>6, <2>1 DEF NodeActivated, NodeDone, DownOnly, NoneBehind
  <2>. QED
    BY <1>1, <1>6, <2>1 DEF NodeActivated
<1>7. CASE NodeChanged
  <2>1. cmd' = cmd /\ passes' = passes /\ state' = state /\ AtNode
    BY <1>7 DEF NodeChanged, NodeDone, nodeVars
  <2>2. Head(passes) = "deactivate" => at' = at - 1 /\ state[at] = "inactive"
    BY <1>7 DEF NodeChanged, NodeDone, Upward, Target
  <2>3. ASSUME NEW m \in at .. N, cmd # "hard", Head(passes) = "deactivate"
        PROVE  state[m] # "active"
    <3>1. m = at \/ m \in at + 1 .. N
      BY <1>0
    <3>. QED
      BY <1>0, <2>1, <2>2, <2>3, <3>1 DEF NoneBehind
  <2>4. Head(passes) = "deactivate" => at' + 1 = at
    BY <1>0, <2>2
  <2>5. NoneBehind'
    BY <2>1, <2>3, <2>4 DEF NoneBehind
  <2>. QED
    BY <1>0, <2>1, <2>5 DEF DownOnly
<1>. QED
  BY <1>2, <1>3, <1>4, <1>5, <1>6, <1>7 DEF ChangeState

LEMMA StepKeepsOrder == OrderInv /\ [Next]_vars => OrderInv'
<1> SUFFICES ASSUME OrderInv, [Next]_vars PROVE DownOnly' /\ NoneBehind'
  BY NextIInv DEF OrderInv
<1>0. IInv /\ DownOnly /\ NoneBehind /\ at \in 0 .. N + 1 /\ N \in Nat /\ state \in [Nodes -> LifecycleStates]
  BY NIsCount DEF OrderInv, IInv, TypeOK
<1>1. ASSUME UNCHANGED <<cmd, passes, at>>,
             \A m \in Nodes : state'[m] = "active" => state[m] = "active" \/ Head(passes) = "activate"
      PROVE  DownOnly' /\ NoneBehind'
  <2>1. \A m \in at + 1 .. N : m \in Nodes
    BY <1>0 DEF Nodes
  <2>. QED
    BY <1>0, <1>1, <2>1 DEF DownOnly, NoneBehind, AtNode
<1>2. ASSUME NEW c \in Commands, ManagerCallback(c) PROVE DownOnly' /\ NoneBehind'
  <2>1. c \in Jobs
    BY CommandsAreCommands DEF Jobs
  <2>. QED
    BY <1>0, <1>2, <2>1, LaunchKeepsOrder DEF ManagerCallback
<1>3. CASE CheckBondConnections
  BY <1>0, <1>3, LaunchKeepsOrder DEF CheckBondConnections, Jobs
<1>4. CASE CheckBondRespawnConnection
  <2>1. CASE RespawnStartup
    BY <1>0, <2>1, LaunchKeepsOrder DEF RespawnStartup, Jobs
  <2>2. CASE RespawnNotNeeded \/ RespawnTimeout
    BY <1>1, <2>2 DEF RespawnNotNeeded, RespawnTimeout, nodeVars, jobVars
  <2>. QED
    BY <1>4, <2>1, <2>2 DEF CheckBondRespawnConnection
<1>5. CASE ChangeState
  BY <1>5, ChangeKeepsOrder
<1>6. CASE EndCommand
  <2>1. cmd' = "idle"
    BY <1>6 DEF EndCommand, BroughtUp, BroughtDown, ShutDown, Aborted, ForgetBonds, Return
  <2>. QED
    BY <2>1 DEF DownOnly, NoneBehind, AtNode, Jobs
<1>7. CASE ServeTransition
  <2>1. UNCHANGED <<cmd, passes, at>>
    BY <1>7 DEF ServeTransition
  <2>2. \A m \in Nodes : state'[m] = "active" => state[m] = "active" \/ Head(passes) = "activate"
    BY <1>0, <1>7, ServedState
  <2>. QED
    BY <1>1, <2>1, <2>2
<1>8. ASSUME NEW n \in Nodes, Crash(n) \/ ComeBack(n) \/ LosesHeartbeat(n)
      PROVE  DownOnly' /\ NoneBehind'
  <2>1. UNCHANGED <<cmd, passes, at>>
    BY <1>8 DEF Crash, ComeBack, LosesHeartbeat, jobVars
  <2>2. \A m \in Nodes : state'[m] = "active" => state[m] = "active"
    BY <1>0, <1>8 DEF Crash, ComeBack, LosesHeartbeat, nodeVars
  <2>. QED
    BY <1>1, <2>1, <2>2
<1>9. CASE UNCHANGED vars
  BY <1>1, <1>9 DEF vars, nodeVars, jobVars
<1>. QED
  BY <1>2, <1>3, <1>4, <1>5, <1>6, <1>7, <1>8, <1>9 DEF Next, Manager

(* A step that starts or stops a node is the node's answer to the pass that  *)
(* has come to it.                                                           *)
LEMMA OnlyServed ==
  ASSUME IInv, [Next]_vars, NEW n \in Nodes,
         \/ state[n] # "active" /\ state'[n] = "active"
         \/ state[n] = "active" /\ state'[n] = "inactive"
  PROVE  ServeTransition /\ n = at
<1>0. state \in [Nodes -> LifecycleStates]
  BY DEF IInv, TypeOK
<1>1. ASSUME NEW m \in Nodes, Crash(m) \/ ComeBack(m) \/ LosesHeartbeat(m) PROVE FALSE
  BY <1>0, <1>1 DEF Crash, ComeBack, LosesHeartbeat, nodeVars
<1>2. ASSUME Manager PROVE state' = state
  BY <1>2 DEF Manager, ManagerCallback, Begin, ChangeState, NextPass, CallNode, NodeUnavailable,
     NodeRefused, NodeActivated, NodeChanged, EndCommand, BroughtUp, BroughtDown, ShutDown, Aborted,
     ForgetBonds, Return, CheckBondConnections, CheckBondRespawnConnection, RespawnNotNeeded,
     RespawnStartup, RespawnTimeout, nodeVars
<1>3. CASE UNCHANGED vars
  BY <1>3 DEF vars, nodeVars
<1>4. ServeTransition
  BY <1>1, <1>2, <1>3 DEF Next
<1>. QED
  BY <1>4, ServedState

(* "ordered groups for bringup transitions, and reverse ordered groups for    *)
(* shutdown transitions" (README.md of the manager), for any number of nodes  *)
(* and whatever fails in between.                                             *)
THEOREM NodesChangeInOrder == Spec => InOrder
<1> DEFINE Ordered ==
      \A n \in Nodes :
        /\ state[n] # "active" /\ state'[n] = "active" =>
             \A m \in 1 .. n - 1 : bond[m] # "none"
        /\ state[n] = "active" /\ state'[n] = "inactive" /\ cmd # "hard" =>
             \A m \in n + 1 .. N : state[m] # "active"
<1>1. Init => OrderInv
  <2> SUFFICES ASSUME Init PROVE DownOnly /\ NoneBehind
    BY InitIInv DEF OrderInv
  <2>1. cmd \in {"idle", "startup"} /\ state = [n \in Nodes |-> "unconfigured"]
    BY DEF Init
  <2>2. \A m \in at + 1 .. N : cmd \in Jobs /\ at \in Nodes => m \in Nodes
    BY NIsCount DEF Nodes
  <2>. QED
    BY <2>1, <2>2 DEF DownOnly, NoneBehind, AtNode
<1>2. OrderInv /\ [Next]_vars => [Ordered]_vars
  <2> SUFFICES ASSUME OrderInv, [Next]_vars, NEW n \in Nodes
               PROVE  /\ state[n] # "active" /\ state'[n] = "active" =>
                           \A m \in 1 .. n - 1 : bond[m] # "none"
                      /\ state[n] = "active" /\ state'[n] = "inactive" /\ cmd # "hard" =>
                           \A m \in n + 1 .. N : state[m] # "active"
    OBVIOUS
  <2>0. IInv /\ DownOnly /\ NoneBehind /\ BringingUp /\ cmd \in Jobs \union {"idle", "crashed"}
    BY DEF OrderInv, IInv, TypeOK
  <2>1. ASSUME state[n] # "active", state'[n] = "active"
        PROVE  \A m \in 1 .. n - 1 : bond[m] # "none"
    <3>1. ServeTransition /\ n = at
      BY <2>0, <2>1, OnlyServed
    <3>2. AtNode /\ Head(passes) = "activate"
      BY <2>0, <2>1, <3>1, ServedState
    <3>3. cmd \in {"startup", "resume"}
      BY <2>0, <3>2, DownTail DEF DownOnly, AtNode, Jobs
    <3>4. passes = <<"activate">>
      BY <2>0, <3>2, <3>3, UpSequences DEF BringingUp, AtNode
    <3>. QED
      BY <2>0, <3>1, <3>3, <3>4 DEF BringingUp
  <2>2. ASSUME state[n] = "active", state'[n] = "inactive", cmd # "hard"
        PROVE  \A m \in n + 1 .. N : state[m] # "active"
    <3>1. ServeTransition /\ n = at
      BY <2>0, <2>2, OnlyServed
    <3>2. AtNode /\ Head(passes) = "deactivate"
      BY <2>0, <2>2, <3>1, ServedState
    <3>. QED
      BY <2>0, <2>2, <3>1, <3>2 DEF NoneBehind
  <2>. QED
    BY <2>1, <2>2
<1>. QED
  BY <1>1, <1>2, StepKeepsOrder, PTL DEF Spec, InOrder
=============================================================================
