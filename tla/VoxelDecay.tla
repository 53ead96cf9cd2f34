----------------------------- MODULE VoxelDecay -----------------------------
(***************************************************************************)
(* The spatio-temporal voxel layer.  Clouds mark voxels with the time they *)
(* were seen; voxels decay with time, and faster inside the frustum of a   *)
(* sensor that clears.  The map update thread reads the buffers, sweeps    *)
(* the grid, marks what was read, takes the swept grid over into its       *)
(* costmap and that into the master, between the bounds it touched.        *)
(***************************************************************************)
EXTENDS SensorBuffer, FiniteSets

CONSTANTS Sources,       \* the observation sources
          Conf,          \* source -> its parameters
          Shapes,        \* source -> what it can see: a set of sets of voxels
          Cells,         \* the cells of the costmap, a row
          Decay,         \* voxel_decay_, the linear model
          Acceleration,  \* a sixth of decay_acceleration
          MarkThresholds, \* what the operator sets mark_threshold to
          MaxTime,       \* bound on the clock
          MaxBuffered,   \* bound on the readings of a buffer
          MaxEvents      \* bound on what the operator does

VARIABLES now, enabled,   \* source -> _enabled of its buffer
          layerEnabled,   \* enabled_, which no update looks at
          markThreshold,
          subscribed,     \* source -> its subscription is on
          buffer,         \* source -> its buffer
          phase,          \* "idle", "read", "reset", "swept", "bounded"
          readings,       \* what the update has read
          grid,           \* voxel -> the time of its mark; a voxel is <<cell, height>>
          counts,         \* _cost_map: cell -> number of its voxels
          cleared,        \* cells a voxel of which was cleared
          costs,          \* the lethal cells of the layer's own costmap
          touched,        \* the cells the bounds of the update span
          master,         \* the lethal cells the master has from this layer
          current, wasReset,
          resetting,      \* the master has been reset and the layer has not
          extra,          \* has_extra_bounds_, those of the whole layer
          events,
          \* history
          seen,           \* cell -> when a point in it was last marked
          sweptAt,        \* the time of the last sweep
          forgotten,      \* cells whose voxels went without a trace
          alive           \* source -> when it was last enabled, activated or reset, or,
                          \* if it marks, heard

vars == <<now, enabled, layerEnabled, markThreshold, subscribed, buffer, phase, readings, grid, counts, cleared, costs,
          touched, master, current, wasReset, resetting, extra, events, seen, sweptAt, forgotten, alive>>
sensors == <<enabled, layerEnabled, markThreshold, subscribed, buffer, alive>>
local == <<readings, counts, cleared, touched>>
flags == <<current, wasReset, resetting, extra, events>>

CellsOf(vs) == {v[1] : v \in vs}
NoVoxels == [v \in {} |-> 0]

Buffers(t) == [s \in Sources |-> NewBuffer(t)]

Init ==
  /\ now = 0
  /\ enabled = [s \in Sources |-> TRUE] /\ layerEnabled = TRUE /\ markThreshold \in MarkThresholds
  /\ subscribed = [s \in Sources |-> TRUE]
  /\ buffer = Buffers(0) /\ alive = [s \in Sources |-> 0]
  /\ phase = "idle" /\ readings = {} /\ grid = NoVoxels
  /\ counts = [c \in Cells |-> 0] /\ cleared = {} /\ costs = {} /\ touched = {} /\ master = {}
  /\ current = TRUE /\ wasReset = FALSE /\ resetting = FALSE /\ extra = FALSE /\ events = 0
  /\ seen = [c \in Cells |-> NeverStamped] /\ sweptAt = 0 /\ forgotten = {}

Tick ==
  /\ now < MaxTime /\ now' = now + 1
  /\ UNCHANGED <<sensors, phase, local, grid, costs, master, flags, seen, sweptAt, forgotten>>

\* history: no cloud of such a source is noted as an update
OnlyClears(s) == Conf[s].clearing /\ ~Conf[s].marking

\* PointCloud2Callback() and the others
Callback(s, shape, tfOk) ==
  LET cloud == [source |-> s, stamp |-> now, voxels |-> shape]
  IN /\ subscribed[s] /\ enabled[s] 
     /\ Len(buffer[s].list) < MaxBuffered
     /\ \A i \in DOMAIN buffer[s].list : buffer[s].list[i].stamp < now
     /\ buffer' = [buffer EXCEPT ![s] = BufferROSCloud(@, cloud, Conf[s], now, tfOk)]
     /\ alive' = IF tfOk /\ ~OnlyClears(s) THEN [alive EXCEPT ![s] = now] ELSE alive
     /\ UNCHANGED <<now, enabled, layerEnabled, markThreshold, subscribed, phase, local, grid, costs, master,
                    flags, seen, sweptAt, forgotten>>

Event == events < MaxEvents /\ events' = events + 1

Swept == {c \in Cells : counts[c] > 0 /\ counts[c] >= markThreshold}

\* ResetGrid() leaves the costmap and the bounds alone.
ResetGrid ==
  /\ grid' = NoVoxels
  /\ forgotten' = forgotten \union CellsOf(DOMAIN grid) \union costs \union Swept

BufferEnabler(s) ==
  /\ Event
  /\ enabled' = [enabled EXCEPT ![s] = ~@]
  /\ subscribed' = [subscribed EXCEPT ![s] = ~enabled[s]]
  /\ IF enabled[s] THEN ResetGrid /\ UNCHANGED <<buffer, alive>>
     ELSE /\ buffer' = [buffer EXCEPT ![s] = ResetLastUpdated(@, now)]
          /\ alive' = [alive EXCEPT ![s] = now]
          /\ UNCHANGED <<grid, forgotten>>
  /\ UNCHANGED <<now, layerEnabled, markThreshold, phase, local, costs, master, current, wasReset,
                 resetting, extra, seen, sweptAt>>

\* activate()
Resubscribe ==
  /\ subscribed' = [s \in Sources |-> TRUE]
  /\ buffer' = [s \in Sources |-> ResetLastUpdated(buffer[s], now)]
  /\ alive' = [s \in Sources |-> now]

\* deactivate()
Unsubscribe == subscribed' = [s \in Sources |-> FALSE] /\ UNCHANGED <<buffer, alive>>

rest == <<now, enabled, phase, local, grid, costs, master, current, wasReset, resetting, extra,
          seen, sweptAt, forgotten>>

Activate == Event /\ Resubscribe /\ UNCHANGED <<rest, layerEnabled, markThreshold>>

Deactivate == Event /\ Unsubscribe /\ UNCHANGED <<rest, layerEnabled, markThreshold>>

\* The parameter "enabled": the subscriptions follow it, the updates do not.
SetEnabled ==
  /\ Event
  /\ layerEnabled' = ~layerEnabled
  /\ IF layerEnabled THEN Unsubscribe ELSE Resubscribe
  /\ UNCHANGED <<rest, markThreshold>>

FewerThan(n) == {c \in costs : Cardinality({v \in DOMAIN grid : v[1] = c}) < n}

\* The parameter "mark_threshold": obstacles that become too thin leave the
\* costmap with the next update, and no bounds are touched for them.
SetMarkThreshold(n) ==
  /\ Event
  /\ n # markThreshold /\ markThreshold' = n
  /\ forgotten' = forgotten \union FewerThan(n)
  /\ UNCHANGED <<now, enabled, layerEnabled, subscribed, buffer, alive, phase, local, grid, costs,
                 master, current, wasReset, resetting, extra, seen, sweptAt>>

\* The costmap node clears the master, then the layers: an update may come
\* in between.
ResetMaster ==
  /\ Event /\ phase = "idle" /\ ~resetting /\ resetting' = TRUE
  /\ master' = {}
  /\ UNCHANGED <<now, sensors, phase, local, grid, costs, current, wasReset, extra,
                 seen, sweptAt, forgotten>>

\* clearArea(), by the service that clears a region or all but a region; the
\* next update gets the bounds of the whole layer.
ResetGridArea(kept) == grid' = [v \in {w \in DOMAIN grid : w[1] \in kept} |-> grid[v]]

ClearArea(kept) ==
  /\ Event
  /\ phase \in {"idle", "bounded"}
  /\ ResetGridArea(kept)
  /\ costs' = costs \intersect kept
  /\ current' = FALSE /\ extra' = TRUE
  /\ UNCHANGED <<now, sensors, phase, local, master, wasReset, resetting, seen, sweptAt, forgotten>>

Reset ==
  /\ resetting /\ resetting' = FALSE
  /\ phase \in {"idle", "bounded"}
  /\ costs' = {}
  /\ ResetGrid
  /\ current' = FALSE /\ wasReset' = TRUE
  /\ buffer' = [s \in Sources |-> ResetLastUpdated(buffer[s], now)]
  /\ alive' = [s \in Sources |-> now]
  /\ UNCHANGED <<now, enabled, layerEnabled, markThreshold, subscribed, phase, local, master, extra,
                 events, seen, sweptAt>>

-----------------------------------------------------------------------------
(* One update of the map. *)

ReadBuffers ==
  /\ phase = "idle" /\ phase' = "read"
  /\ buffer' = [s \in Sources |-> GetReadings(buffer[s], Conf[s], now)]
  /\ readings' = UNION {{buffer'[s].list[i] : i \in DOMAIN buffer'[s].list} : s \in Sources}
  /\ current' = \A s \in Sources : UpdatedAtExpectedRate(buffer'[s], Conf[s], now)
  /\ touched' = (IF extra THEN Cells ELSE {}) /\ extra' = FALSE
  /\ UNCHANGED <<now, enabled, layerEnabled, markThreshold, subscribed, alive, counts, cleared,
                 grid, costs, master, wasReset, resetting, events, seen, sweptAt, forgotten>>

\* A cloud that came in since it was read is dropped unread.
ObservationsResetAfterReading ==
  /\ phase = "read" /\ phase' = "reset"
  /\ buffer' = [s \in Sources |->
       IF Conf[s].clearAfter THEN ResetAllMeasurements(buffer[s]) ELSE buffer[s]]
  /\ UNCHANGED <<now, enabled, layerEnabled, markThreshold, subscribed, alive, local, grid, costs,
                 master, flags, seen, sweptAt, forgotten>>

DurationTooLong(age) == Decay - age + 1  \* faulty: off by one

GetTemporalClearingDuration(age) == Decay - age

GetFrustumAcceleration(age) == Acceleration * age * age * age

Inside(v) == \E r \in readings : Conf[r.source].clearing /\ v \in r.voxels

Accelerated(v) == IF Inside(v) THEN GetFrustumAcceleration(now - grid[v]) ELSE 0

Expired(v) == GetTemporalClearingDuration(now - grid[v]) - Accelerated(v) < 0

FlattenedCostmap(vs) == [c \in Cells |-> Cardinality({v \in vs : v[1] = c})]

ClearFrustums ==
  LET gone == {v \in DOMAIN grid : Expired(v)}
      left == DOMAIN grid \ gone
  IN /\ phase = "reset" /\ phase' = "swept"
     /\ grid' = [v \in left |-> grid[v] - Accelerated(v)]
     /\ counts' = FlattenedCostmap(left)
     /\ cleared' = CellsOf(gone)
     /\ sweptAt' = now
     /\ UNCHANGED <<now, sensors, readings, touched, costs, master, flags, seen, forgotten>>

Span(cs) == {c \in Cells : \E lo, hi \in cs : lo <= c /\ c <= hi}

BoundsOf(lethal, cs) == Span(lethal \union cs)

MarkVoxels(vs) == [v \in DOMAIN grid \union vs |-> IF v \in vs THEN now ELSE grid[v]]

MarkedPoints == UNION {r.voxels : r \in {x \in readings : Conf[x.source].marking}}

\* The costmap is the grid as it was swept,
\* before this update marked anything.
UpdateROSCostmap ==
  LET marked == MarkedPoints
  IN /\ phase = "swept" /\ phase' = "bounded"
     /\ grid' = MarkVoxels(marked)
     /\ seen' = [c \in Cells |-> IF c \in CellsOf(marked) THEN now ELSE seen[c]]
     /\ costs' = Swept
     /\ touched' = Span(touched \union BoundsOf(Swept, cleared))
     /\ readings' = {} /\ cleared' = {}
     /\ UNCHANGED <<now, sensors, counts, master, flags, sweptAt, forgotten>>

UpdateCosts ==
  /\ phase = "bounded" /\ phase' = "idle"
  /\ current' = (current \/ wasReset) /\ wasReset' = (wasReset /\ current)
  /\ master' = (master \ touched) \union (costs \intersect touched)
  /\ forgotten' = forgotten \ (touched \ costs)
  /\ touched' = {}
  /\ UNCHANGED <<now, sensors, readings, counts, cleared, grid, costs, resetting, extra, events, seen,
                 sweptAt>>

Next ==
  \/ Tick \/ Activate \/ Deactivate \/ SetEnabled \/ ResetMaster \/ Reset
  \/ \E kept \in SUBSET Cells : ClearArea(kept)
  \/ \E n \in MarkThresholds : SetMarkThreshold(n)
  \/ \E s \in Sources : BufferEnabler(s)
  \/ \E s \in Sources : \E shape \in Shapes[s], tfOk \in BOOLEAN : Callback(s, shape, tfOk)
  \/ ReadBuffers \/ ObservationsResetAfterReading \/ ClearFrustums \/ UpdateROSCostmap \/ UpdateCosts

Spec == Init /\ [][Next]_vars

-----------------------------------------------------------------------------
(* What the layer says is lethal was marked less than the decay before the  *)
(* last sweep: no obstacle outlives what was seen of it, whatever the       *)
(* frustums did to the marks (spatio_temporal_voxel_grid.cpp:141).          *)
LethalIsRecent ==
  phase = "idle" => \A c \in costs : sweptAt - seen[c] <= Decay

(* The bounds of the updates cover all that changes: no obstacle stays in   *)
(* the master when the layer has none, but those of voxels that were reset  *)
(* and not cleared by a sweep (a source that is disabled; a reset after an  *)
(* update that came in between), or that became too few when the threshold  *)
(* was raised, which nothing touches any more.                              *)
NoGhosts == phase = "idle" /\ ~extra => master \ costs \subseteq forgotten

(* Every obstacle of the layer's costmap is in the master.                  *)
MasterHasLethal == phase = "idle" /\ ~resetting => costs \subseteq master

(* The layer is out of date only when it is being reset or cleared, or a    *)
(* source that marks was not heard for longer than its expected rate, or    *)
(* one that only clears, heard or not, was enabled, activated or reset      *)
(* longer ago than that (a disabled source is silent for ever).             *)
SilenceHasCauseStep ==
  current /\ ~current' => \/ resetting \/ extra'
       \/ \E s \in Sources : Conf[s].rate > 0 /\ now - alive[s] > Conf[s].rate
=============================================================================
