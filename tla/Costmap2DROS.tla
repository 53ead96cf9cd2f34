---------------------------- MODULE Costmap2DROS ----------------------------
(***************************************************************************)
(* nav2_costmap_2d::Costmap2DROS, the node that keeps the local costmap.   *)
(* Three threads use it: the one that runs the lifecycle transitions (the  *)
(* controller server's), the map update thread, and the one that serves    *)
(* the node's topics, services and parameters.  What they share are the    *)
(* four flags stopped_, stop_updates_, initialized_ and                    *)
(* map_update_thread_shutdown_, the layers, and _dynamic_parameter_mutex.  *)
(* The mutex of the master grid is held within single actions only.  The   *)
(* data of the grids are in LayeredCostmap.                                *)
(***************************************************************************)
EXTENDS Naturals, FiniteSets

CONSTANTS Layers,      \* plugins and filters of the layered costmap
          Sensing,     \* those that are current while their sensors report
          FirstStale,  \* those that are not current when they are new
          Periodic     \* update_frequency is not 0

VARIABLES lc,           \* where the lifecycle thread is
          subscribed,   \* the layers that are activated
          layered,      \* layered_costmap_ is set
          service,      \* clear_costmap_service_ and footprint_sub_ are set
          stopped,      \* stopped_
          stopUpdates,  \* stop_updates_
          initialized,  \* initialized_
          quit,         \* map_update_thread_shutdown_
          ut,           \* where the map update thread is
          mapReady,     \* LayeredCostmap::initialized_
          nt,           \* where the node's callback thread is
          paramLock,    \* the holder of _dynamic_parameter_mutex
          current,      \* the layers that say they are current
          known,        \* tf knows the pose of the robot
          fresh,        \* the sensing layers that receive data
          crashed       \* a null layered_costmap_ was used

flags == <<stopped, stopUpdates, initialized, quit>>
lcVars == <<lc, subscribed, layered, service>>
world == <<known, fresh>>
vars == <<lcVars, flags, ut, mapReady, nt, paramLock, current, world, crashed>>

LcPlaces == {"unconfigured", "inactive", "transform", "subscribing", "awaiting",
             "active", "unsubscribing", "stopping", "joining", "cleaning"}
UtPlaces == {"none", "top", "locking", "check", "updating", "marking", "publish", "ended"}
NtPlaces == {"idle", "params", "resizing", "pose", "marking"}

Init ==
  /\ lc = "unconfigured" /\ ut = "none" /\ nt = "idle"
  /\ subscribed = {} /\ current = {}
  /\ layered = FALSE /\ service = FALSE
  /\ stopped = TRUE /\ stopUpdates = FALSE /\ initialized = FALSE /\ quit = FALSE
  /\ mapReady = FALSE /\ paramLock = "free"
  /\ known \in BOOLEAN /\ fresh \in SUBSET Sensing
  /\ crashed = FALSE

-----------------------------------------------------------------------------
(* What happens around the node: poses and sensor data come and go. *)

PoseChanges ==
  /\ known' = ~known
  /\ UNCHANGED <<lcVars, flags, ut, mapReady, nt, paramLock, current, fresh, crashed>>

SensorChanges(l) ==
  /\ fresh' = IF l \in fresh THEN fresh \ {l} ELSE fresh \cup {l}
  /\ UNCHANGED <<lcVars, flags, ut, mapReady, nt, paramLock, current, known, crashed>>

-----------------------------------------------------------------------------
(* One update of the layers: LayeredCostmap::updateMap(). *)

AfterUpdate == Layers \ (Sensing \ fresh)

UpdateLayers ==
  /\ current' = AfterUpdate
  /\ mapReady' = TRUE

(* LayeredCostmap::isCurrent() *)
IsCurrent == current = Layers

-----------------------------------------------------------------------------
(* The lifecycle thread. *)

Configure ==
  /\ lc = "unconfigured"
  /\ lc' = "inactive"
  /\ layered' = TRUE /\ service' = TRUE /\ mapReady' = FALSE
  /\ current' = Layers \ FirstStale
  /\ UNCHANGED <<subscribed, flags, ut, nt, paramLock, world, crashed>>

Activate ==
  /\ lc = "inactive"
  /\ lc' = "transform"
  /\ UNCHANGED <<subscribed, layered, service, flags, ut, mapReady, nt, paramLock,
                 current, world, crashed>>

SpawnUpdater ==
  /\ lc = "transform" /\ known
  /\ stopped' = TRUE /\ stopUpdates' = FALSE /\ quit' = FALSE
  /\ ut' = IF Periodic THEN "top" ELSE "ended"
  /\ lc' = "subscribing"
  /\ UNCHANGED <<subscribed, layered, service, initialized, mapReady, nt, paramLock,
                 current, world, crashed>>

SubscribeLayer(l) ==
  /\ lc = "subscribing" /\ l \notin subscribed
  /\ subscribed' = subscribed \cup {l}
  /\ UNCHANGED <<lc, layered, service, flags, ut, mapReady, nt, paramLock, current,
                 world, crashed>>

Start ==
  /\ lc = "subscribing" /\ subscribed = Layers
  /\ stopped' = FALSE /\ stopUpdates' = FALSE
  /\ lc' = "awaiting"
  /\ UNCHANGED <<subscribed, layered, service, initialized, quit, ut, mapReady, nt,
                 paramLock, current, world, crashed>>

Started ==
  /\ lc = "awaiting" /\ initialized
  /\ lc' = "active"
  /\ UNCHANGED <<subscribed, layered, service, flags, ut, mapReady, nt, paramLock,
                 current, world, crashed>>

Deactivate ==
  /\ lc = "active"
  /\ stopUpdates' = TRUE
  /\ lc' = "unsubscribing"
  /\ UNCHANGED <<subscribed, layered, service, stopped, initialized, quit, ut, mapReady,
                 nt, paramLock, current, world, crashed>>

UnsubscribeLayer(l) ==
  /\ lc = "unsubscribing" /\ l \in subscribed
  /\ subscribed' = subscribed \ {l}
  /\ UNCHANGED <<lc, layered, service, flags, ut, mapReady, nt, paramLock, current,
                 world, crashed>>

Stop ==
  /\ lc = "unsubscribing" /\ subscribed = {}
  /\ initialized' = FALSE
  /\ lc' = "stopping"
  /\ UNCHANGED <<subscribed, layered, service, stopped, stopUpdates, quit, ut, mapReady,
                 nt, paramLock, current, world, crashed>>

TellUpdater ==
  /\ lc = "stopping"
  /\ stopped' = TRUE /\ quit' = TRUE
  /\ lc' = "joining"
  /\ UNCHANGED <<subscribed, layered, service, stopUpdates, initialized, ut, mapReady,
                 nt, paramLock, current, world, crashed>>

UnjoinedUpdater ==  \* faulty: the thread is told to end, not waited for
  /\ lc = "joining"
  /\ lc' = "inactive"
  /\ UNCHANGED <<subscribed, layered, service, flags, ut, mapReady, nt, paramLock,
                 current, world, crashed>>

JoinUpdater ==
  /\ lc = "joining" /\ ut = "ended"
  /\ ut' = "none"
  /\ lc' = "inactive"
  /\ UNCHANGED <<subscribed, layered, service, flags, mapReady, nt, paramLock, current,
                 world, crashed>>

Cleanup ==
  /\ lc = "inactive"
  /\ layered' = FALSE
  /\ lc' = "cleaning"
  /\ UNCHANGED <<subscribed, service, flags, ut, mapReady, nt, paramLock, current, world,
                 crashed>>

CleanedUp ==
  /\ lc = "cleaning"
  /\ service' = FALSE
  /\ lc' = "unconfigured"
  /\ UNCHANGED <<subscribed, layered, flags, ut, mapReady, nt, paramLock, current, world,
                 crashed>>

Lifecycle ==
  \/ Configure \/ Activate \/ SpawnUpdater \/ Start \/ Started
  \/ Deactivate \/ Stop \/ TellUpdater \/ JoinUpdater \/ Cleanup \/ CleanedUp
  \/ \E l \in Layers : SubscribeLayer(l) \/ UnsubscribeLayer(l)

-----------------------------------------------------------------------------
(* The map update thread: mapUpdateLoop() and updateMap(). *)

LoopWaits ==  \* faulty: a stopped loop does not look whether it shall end
  /\ ut = "top" /\ ~stopped
  /\ ut' = IF quit THEN "ended" ELSE "locking"
  /\ UNCHANGED <<lcVars, flags, mapReady, nt, paramLock, current, world, crashed>>

LoopTop ==
  /\ ut = "top" /\ (quit \/ ~stopped)
  /\ ut' = IF quit THEN "ended" ELSE "locking"
  /\ UNCHANGED <<lcVars, flags, mapReady, nt, paramLock, current, world, crashed>>

LockParameters ==
  /\ ut = "locking" /\ paramLock = "free"
  /\ paramLock' = "updater"
  /\ ut' = "check"
  /\ UNCHANGED <<lcVars, flags, mapReady, nt, current, world, crashed>>

CheckStop ==
  /\ ut = "check"
  /\ ut' = IF ~stopUpdates /\ known THEN "updating" ELSE "publish"
  /\ UNCHANGED <<lcVars, flags, mapReady, nt, paramLock, current, world, crashed>>

UpdateMap ==
  /\ ut = "updating"
  /\ UpdateLayers
  /\ ut' = "marking"
  /\ UNCHANGED <<lcVars, flags, nt, paramLock, world, crashed>>

MarkInitialized ==
  /\ ut = "marking"
  /\ initialized' = TRUE
  /\ ut' = "publish"
  /\ UNCHANGED <<lcVars, stopped, stopUpdates, quit, mapReady, nt, paramLock, current,
                 world, crashed>>

PublishCostmap ==
  /\ ut = "publish"
  /\ paramLock' = "free"
  /\ ut' = "top"
  /\ UNCHANGED <<lcVars, flags, mapReady, nt, current, world, crashed>>

MapUpdateLoop ==
  LoopTop \/ LockParameters \/ CheckStop \/ UpdateMap \/ MarkInitialized \/ PublishCostmap

-----------------------------------------------------------------------------
(* The thread of the node's callbacks. *)

(* ClearCostmapService::clearEntirely(), resetLayers() *)
ClearEntirely ==
  /\ nt = "idle" /\ service
  /\ crashed' = ~layered
  /\ current' = IF layered THEN {} ELSE current
  /\ UNCHANGED <<lcVars, flags, ut, mapReady, nt, paramLock, world>>

(* setRobotFootprintPolygon(): no lock, and the layers compute new caches *)
FootprintReceived ==
  /\ nt = "idle" /\ service
  /\ crashed' = ~layered
  /\ UNCHANGED <<lcVars, flags, ut, mapReady, nt, paramLock, current, world>>

(* dynamicParametersCallback(), registered when on_activate() has returned *)
ParametersSet ==
  /\ nt = "idle" /\ lc = "active" /\ paramLock = "free"
  /\ paramLock' = "node"
  /\ nt' = "params"
  /\ UNCHANGED <<lcVars, flags, ut, mapReady, current, world, crashed>>

ParametersApplied ==
  /\ nt = "params"
  /\ \/ nt' = "idle" /\ paramLock' = "free"   \* no resize, or a value is refused
     \/ nt' = "resizing" /\ UNCHANGED paramLock
  /\ UNCHANGED <<lcVars, flags, ut, mapReady, current, world, crashed>>

(* resizeMap() drops the data of all layers; then updateMap(), as in the loop *)
ResizeMap ==
  /\ nt = "resizing"
  /\ crashed' = ~layered
  /\ nt' = "pose"
  /\ UNCHANGED <<lcVars, flags, ut, mapReady, paramLock, current, world>>

ResizedUpdate ==
  /\ nt = "pose"
  /\ \/ /\ ~stopUpdates /\ known /\ layered
        /\ UpdateLayers
        /\ nt' = "marking"
        /\ UNCHANGED <<paramLock, crashed>>
     \/ /\ ~stopUpdates /\ known /\ ~layered
        /\ crashed' = TRUE
        /\ UNCHANGED <<nt, paramLock, current, mapReady>>
     \/ /\ stopUpdates \/ ~known
        /\ nt' = "idle" /\ paramLock' = "free"
        /\ UNCHANGED <<current, mapReady, crashed>>
  /\ UNCHANGED <<lcVars, flags, ut, world>>

ResizedMark ==
  /\ nt = "marking"
  /\ initialized' = TRUE
  /\ nt' = "idle" /\ paramLock' = "free"
  /\ UNCHANGED <<lcVars, stopped, stopUpdates, quit, ut, mapReady, current, world,
                 crashed>>

NodeCallbacks ==
  \/ ClearEntirely \/ FootprintReceived
  \/ ParametersSet \/ ParametersApplied \/ ResizeMap \/ ResizedUpdate \/ ResizedMark

Next ==
  /\ ~crashed
  /\ \/ Lifecycle \/ MapUpdateLoop \/ NodeCallbacks
     \/ PoseChanges
     \/ \E l \in Sensing : SensorChanges(l)

Spec == Init /\ [][Next]_vars

(* The threads are scheduled: what one can do for ever, it does.  Parameters *)
(* are set now and then, so the update thread gets their mutex at some time, *)
(* although others may take it in between.                                   *)
Fairness ==
  /\ \A l \in Layers : WF_vars(SubscribeLayer(l)) /\ WF_vars(UnsubscribeLayer(l))
  /\ WF_vars(SpawnUpdater) /\ WF_vars(Start) /\ WF_vars(Started)
  /\ WF_vars(Stop) /\ WF_vars(TellUpdater) /\ WF_vars(JoinUpdater)
  /\ WF_vars(LoopTop) /\ SF_vars(LockParameters) /\ WF_vars(CheckStop)
  /\ WF_vars(UpdateMap) /\ WF_vars(MarkInitialized) /\ WF_vars(PublishCostmap)
  /\ WF_vars(ParametersApplied) /\ WF_vars(ResizeMap)
  /\ WF_vars(ResizedUpdate) /\ WF_vars(ResizedMark)

FairSpec == Spec /\ Fairness

-----------------------------------------------------------------------------
(* Every variable stays in its set. *)
TypeOK ==
  /\ lc \in LcPlaces /\ ut \in UtPlaces /\ nt \in NtPlaces
  /\ subscribed \subseteq Layers /\ current \subseteq Layers /\ fresh \subseteq Sensing
  /\ paramLock \in {"free", "updater", "node"}
  /\ {layered, service, stopped, stopUpdates, initialized, quit, mapReady, known,
      crashed} \subseteq BOOLEAN

(* The update thread lives only between on_activate() and the end of        *)
(* on_deactivate(): whatever the order of its checks and the lifecycle      *)
(* thread's flags, it never meets a costmap that on_cleanup() has dropped.  *)
UpdaterWithinActivation ==
  ut # "none" => layered /\ lc \in LcPlaces \ {"unconfigured", "inactive", "transform", "cleaning"}

(* While the parameter callback resizes the map and updates it, the update  *)
(* thread is not between its check and its publication.                     *)
OneUpdateAtATime ==
  ~ (nt # "idle" /\ ut \in {"check", "updating", "marking", "publish"})

(* deactivate() ends, whatever the callbacks and the updates under way do. *)
Deactivating == lc = "unsubscribing"
Deactivated == lc = "inactive" \/ crashed

(* activate() ends if the pose of the robot is known from some time on. *)
Activating == lc = "transform"
Activated == lc = "active" \/ crashed
PoseKnown == known

(* A costmap that was cleared, or whose sensors were silent, is current     *)
(* again when pose and sensors are back: what computeControl() waits for.   *)
SensorsBack == known /\ fresh = Sensing
NotCurrent == lc = "active" /\ ~IsCurrent /\ ~crashed
=============================================================================
