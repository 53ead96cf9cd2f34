-------------------------- MODULE ServicesProofs ---------------------------
(***************************************************************************)
(* Proofs about the costmap's node of Services, for every set of layers:   *)
(* the map update thread lives within an activation only, and never        *)
(* updates while the parameter callback resizes the map.                   *)
(***************************************************************************)
EXTENDS Services, TLAPS

Holding == {"check", "updating", "marking", "publish"}

(* Who holds _dynamic_parameter_mutex is where it is held. *)
LockHeld ==
  /\ ut \in Holding <=> paramLock = "updater"
  /\ nt # "idle" <=> paramLock = "node"

(* There is a layered costmap from on_configure() to on_cleanup(). *)
LayeredWhenConfigured == lc \notin {"unconfigured", "cleaning"} => layered

IInv == C!TypeOK /\ C!UpdaterWithinActivation /\ LayeredWhenConfigured /\ LockHeld

USE DEF Holding

(* At the start there is no thread, and the mutex is free. *)
LEMMA InitOK == C!Init => IInv
  BY DEF C!Init, IInv, C!TypeOK, C!UpdaterWithinActivation, LayeredWhenConfigured, LockHeld, C!LcPlaces, C!UtPlaces, C!NtPlaces

(* The transitions keep the update thread within on_activate() and          *)
(* on_deactivate(), which waits for its end.                                *)
LEMMA LifecycleOK == IInv /\ C!Lifecycle => IInv'
<1> SUFFICES ASSUME IInv, C!Lifecycle PROVE IInv'
  OBVIOUS
<1> USE DEF IInv, C!TypeOK, C!UpdaterWithinActivation, LayeredWhenConfigured, LockHeld, C!LcPlaces, C!UtPlaces, C!NtPlaces, C!flags, C!world
<1>1. CASE C!Configure
  BY <1>1 DEF C!Configure
<1>2. CASE C!Activate
  BY <1>2 DEF C!Activate
<1>3. CASE C!SpawnUpdater
  <2>1. ut' \in {"top", "ended"} /\ lc' = "subscribing" /\ lc = "transform"
    BY <1>3 DEF C!SpawnUpdater
  <2>2. layered /\ layered' = layered /\ paramLock' = paramLock /\ nt' = nt
    BY <1>3 DEF C!SpawnUpdater
  <2>3. ut = "none"
    BY <2>1
  <2>4. C!TypeOK'
    BY <1>3, <2>1 DEF C!SpawnUpdater
  <2>. QED
    BY <2>1, <2>2, <2>3, <2>4
<1>4. CASE C!Start
  BY <1>4 DEF C!Start
<1>5. CASE C!Started
  BY <1>5 DEF C!Started
<1>6. CASE C!Deactivate
  BY <1>6 DEF C!Deactivate
<1>7. CASE C!Stop
  BY <1>7 DEF C!Stop
<1>8. CASE C!TellUpdater
  BY <1>8 DEF C!TellUpdater
<1>9. CASE C!JoinUpdater
  BY <1>9 DEF C!JoinUpdater
<1>10. CASE C!Cleanup
  BY <1>10 DEF C!Cleanup
<1>11. CASE C!CleanedUp
  BY <1>11 DEF C!CleanedUp
<1>12. ASSUME NEW l \in C_Layers, C!SubscribeLayer(l) PROVE IInv'
  BY <1>12 DEF C!SubscribeLayer
<1>13. ASSUME NEW l \in C_Layers, C!UnsubscribeLayer(l) PROVE IInv'
  BY <1>13 DEF C!UnsubscribeLayer
<1>. QED
  BY <1>1, <1>2, <1>3, <1>4, <1>5, <1>6, <1>7, <1>8, <1>9, <1>10, <1>11, <1>12, <1>13 DEF C!Lifecycle

(* The update thread holds the mutex from its check to its publication. *)
LEMMA UpdaterOK == IInv /\ C!MapUpdateLoop => IInv'
<1> SUFFICES ASSUME IInv, C!MapUpdateLoop PROVE IInv'
  OBVIOUS
<1> USE DEF IInv, C!TypeOK, C!UpdaterWithinActivation, LayeredWhenConfigured, LockHeld, C!LcPlaces, C!UtPlaces, C!NtPlaces, C!flags, C!world, C!lcVars
<1>1. CASE C!LoopTop
  BY <1>1 DEF C!LoopTop
<1>2. CASE C!LockParameters
  BY <1>2 DEF C!LockParameters
<1>3. CASE C!CheckStop
  BY <1>3 DEF C!CheckStop
<1>4. CASE C!UpdateMap
  BY <1>4 DEF C!UpdateMap, C!UpdateLayers, C!AfterUpdate
<1>5. CASE C!MarkInitialized
  BY <1>5 DEF C!MarkInitialized
<1>6. CASE C!PublishCostmap
  BY <1>6 DEF C!PublishCostmap
<1>. QED
  BY <1>1, <1>2, <1>3, <1>4, <1>5, <1>6 DEF C!MapUpdateLoop

(* The parameter callback holds it from its beginning to its end. *)
LEMMA CallbacksOK == IInv /\ C!NodeCallbacks => IInv'
<1> SUFFICES ASSUME IInv, C!NodeCallbacks PROVE IInv'
  OBVIOUS
<1> USE DEF IInv, C!TypeOK, C!UpdaterWithinActivation, LayeredWhenConfigured, LockHeld, C!LcPlaces, C!UtPlaces, C!NtPlaces, C!flags, C!world, C!lcVars
<1>1. CASE C!ClearEntirely
  BY <1>1 DEF C!ClearEntirely
<1>2. CASE C!FootprintReceived
  BY <1>2 DEF C!FootprintReceived
<1>3. CASE C!ParametersSet
  BY <1>3 DEF C!ParametersSet
<1>4. CASE C!ParametersApplied
  BY <1>4 DEF C!ParametersApplied
<1>5. CASE C!ResizeMap
  BY <1>5 DEF C!ResizeMap
<1>6. CASE C!ResizedUpdate
  BY <1>6 DEF C!ResizedUpdate, C!UpdateLayers, C!AfterUpdate
<1>7. CASE C!ResizedMark
  BY <1>7 DEF C!ResizedMark
<1>. QED
  BY <1>1, <1>2, <1>3, <1>4, <1>5, <1>6, <1>7 DEF C!NodeCallbacks

(* Every step keeps the invariant; poses and sensors disturb nothing. *)
LEMMA CostmapOK == IInv /\ (C!Next \/ UNCHANGED C!vars) => IInv'
<1> SUFFICES ASSUME IInv, (C!Next \/ UNCHANGED C!vars) PROVE IInv'
  OBVIOUS
<1> USE DEF IInv, C!TypeOK, C!UpdaterWithinActivation, LayeredWhenConfigured, LockHeld, C!LcPlaces, C!UtPlaces, C!NtPlaces, C!flags, C!world, C!lcVars
<1>1. CASE C!PoseChanges
  BY <1>1 DEF C!PoseChanges
<1>2. ASSUME NEW l \in C_Sensing, C!SensorChanges(l) PROVE IInv'
  BY <1>2 DEF C!SensorChanges
<1>3. CASE UNCHANGED C!vars
  BY <1>3 DEF C!vars
<1>. QED
  BY <1>1, <1>2, <1>3, LifecycleOK, UpdaterOK, CallbacksOK DEF C!Next

(* The other machines are not the costmap's node, and never become it.      *)
LEMMA Invariance == Spec => [](which = "costmap" => IInv)
<1>1. Init => (which = "costmap" => IInv)
  BY InitOK DEF Init, FiltersInit, StraightInit, GazeboInit, FusionInit, CostmapInit
<1>2. (which = "costmap" => IInv) /\ [Next]_all => (which = "costmap" => IInv)'
  <2> SUFFICES ASSUME which = "costmap" => IInv, [Next]_all, which' = "costmap" PROVE IInv'
    OBVIOUS
  <2>1. CASE CostmapStep
    BY <2>1, CostmapOK DEF CostmapStep
  <2>2. CASE UNCHANGED all
    <3>1. which' = which /\ UNCHANGED C!vars
      BY <2>2 DEF all, costmapOnly, shared, C!vars, C!lcVars, C!flags, C!world
    <3>. QED
      BY <3>1, CostmapOK
  <2>3. CASE FiltersStep \/ StraightStep \/ GazeboStep \/ FusionStep
    BY <2>3 DEF FiltersStep, StraightStep, GazeboStep, FusionStep
  <2>. QED
    BY <2>1, <2>2, <2>3 DEF Next
<1>. QED
  BY <1>1, <1>2, PTL DEF Spec

(* The thread on_activate() starts is there only while there is a costmap   *)
(* for it: on_deactivate() takes it back before on_cleanup() can run; and   *)
(* the update thread and the parameter callback exclude each other          *)
(* (costmap_2d_ros.cpp:294, 328, 475, 666).                                 *)
THEOREM OneUpdaterHolds == Spec => []OneUpdater
<1>1. IInv => C!UpdaterWithinActivation /\ C!OneUpdateAtATime
  BY DEF IInv, LockHeld, C!OneUpdateAtATime
<1>2. (which = "costmap" => IInv) => OneUpdater
  BY <1>1 DEF OneUpdater
<1>. QED
  BY <1>2, Invariance, PTL
=============================================================================
