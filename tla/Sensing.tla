---------------------------- MODULE Sensing ---------------------------------
(***************************************************************************)
(* The layers of the costmaps and their sensors: the obstacle layer's      *)
(* sources, the voxel decay layer, the range sensor, the voxel layer, and  *)
(* the composition of the layers in the master grid.  They share no state: *)
(* the initial state picks the machine that runs, and the variables of the *)
(* others are off.                                                         *)
(***************************************************************************)
EXTENDS Integers, Sequences, FiniteSets

CONSTANTS
  \* of ObstacleSources
  O_Sources, O_Confs, O_MaxTime, O_MaxInFlight,
  \* of VoxelDecay
  D_Sources, D_Conf, D_Shapes, D_Cells, D_Decay, D_Acceleration, D_MarkThresholds, D_MaxTime,
  D_MaxBuffered, D_MaxEvents,
  \* of RangeSensor
  R_Cells, R_Certainty, R_ClearOnMax, R_Timeout, R_MaxTime, R_MaxReadings,
  \* of VoxelLayer
  V_Length, V_Bits, V_Heights, V_Unknowns, V_Marks, V_MaxSettings,
  \* of LayeredCostmap
  L_W, L_Radius, L_RayRange, L_Configs, L_Robots, L_Scans, L_Updates, L_StaticMaps

\* durations are not negative
ASSUME ObstacleAssumption ==
  O_Confs \subseteq [type : {"scan", "inf", "cloud"}, keep : Nat, rate : Nat,
                     marking : BOOLEAN, clearing : BOOLEAN]

\* ... and a sensor sees finitely many voxels, above the cells of the costmap
ASSUME DecayAssumption ==
  /\ D_Conf \in [D_Sources -> [keep : Nat, rate : Nat, marking : BOOLEAN, clearing : BOOLEAN,
                               clearAfter : BOOLEAN]]
  /\ D_Decay \in Int /\ D_Acceleration \in Nat /\ D_MarkThresholds \subseteq Int
  /\ D_Cells \subseteq Int
  /\ IsFiniteSet(UNION {UNION D_Shapes[s] : s \in D_Sources})
  /\ \A s \in D_Sources : \A shape \in D_Shapes[s] : shape \subseteq D_Cells \X Int

\* the sensor reaches some cells, and is never quite sure: a tanh is less than 1
ASSUME RangeAssumption ==
  R_Certainty \in 0..99 /\ R_ClearOnMax \in BOOLEAN /\ \E n \in R_Cells : R_Cells = 1..n

\* what is declared unsigned is not negative, and a column has at least one height
ASSUME VoxelAssumption ==
  V_Length \in Nat /\ V_Bits \in Nat /\ V_Heights \subseteq 1..V_Bits
    /\ V_Unknowns \subseteq Nat /\ V_Marks \subseteq Nat

\* the grid has some cells, the robot and the window stay nearer than what
\* stands for infinity (Far), and a scan hits cells
ASSUME LayersAssumption ==
  /\ L_W \in 2..500 /\ L_Radius \in Nat /\ L_RayRange \in Nat
  /\ L_Robots \subseteq -1000..1000 /\ L_Scans \subseteq SUBSET Int
  /\ L_Configs \subseteq [rolling : BOOLEAN, filtered : BOOLEAN, overwrite : BOOLEAN,
                          toggles : SUBSET {"static", "obstacle", "inflation"}]

VARIABLES
  which,  \* the machine that runs
  \* of several machines
  now, subscribed, buffer, current, wasReset, enabled, markThreshold, readings, costs, touched,
  master, bounded,
  \* of ObstacleSources
  conf, inFlight, sent, reading, allCurrent, marks, clears, born, late,
  \* of VoxelDecay
  layerEnabled, phase, grid, counts, cleared, resetting, extra, events, seen, sweptAt,
  forgotten, alive,
  \* of RangeSensor
  rangeMsgs, belief, buffered, lastReading, applied,
  \* of VoxelLayer
  columns, sizeZ, unknownThreshold, settings, asked, stale, wiped,
  \* of LayeredCostmap
  cfg, origin, primary, static, obstacle, inflation, masked, inWindow, synced, fresh

obstacleOnly == <<conf, inFlight, sent, reading, allCurrent, marks, clears, born, late>>

decayOnly == <<layerEnabled, phase, grid, counts, cleared, resetting, extra, events, seen,
              sweptAt, forgotten, alive>>

rangeOnly == <<rangeMsgs, belief, buffered, lastReading, applied>>

voxelOnly == <<columns, sizeZ, unknownThreshold, settings, asked, stale, wiped>>

layersOnly == <<cfg, origin, primary, static, obstacle, inflation, masked, inWindow, synced,
               fresh>>

shared == <<now, subscribed, buffer, current, wasReset, enabled, markThreshold, readings, costs,
            touched, master, bounded>>

all == <<which, shared, obstacleOnly, decayOnly, rangeOnly, voxelOnly, layersOnly>>

Off == "off"

ObstacleOff ==
  /\ conf = Off /\ inFlight = Off /\ sent = Off /\ reading = Off /\ allCurrent = Off
  /\ marks = Off /\ clears = Off /\ born = Off /\ late = Off

DecayOff ==
  /\ layerEnabled = Off /\ phase = Off /\ grid = Off /\ counts = Off /\ cleared = Off
  /\ resetting = Off /\ extra = Off /\ events = Off /\ seen = Off /\ sweptAt = Off
  /\ forgotten = Off /\ alive = Off

RangeOff ==
  /\ rangeMsgs = Off /\ belief = Off /\ buffered = Off /\ lastReading = Off /\ applied = Off

VoxelOff ==
  /\ columns = Off /\ sizeZ = Off /\ unknownThreshold = Off /\ settings = Off /\ asked = Off
  /\ stale = Off /\ wiped = Off

LayersOff ==
  /\ cfg = Off /\ origin = Off /\ primary = Off /\ static = Off /\ obstacle = Off
  /\ inflation = Off /\ masked = Off /\ inWindow = Off /\ synced = Off /\ fresh = Off

O == INSTANCE ObstacleSources WITH
       Sources <- O_Sources, Confs <- O_Confs, MaxTime <- O_MaxTime,
       MaxInFlight <- O_MaxInFlight

D == INSTANCE VoxelDecay WITH
       Sources <- D_Sources, Conf <- D_Conf, Shapes <- D_Shapes, Cells <- D_Cells,
       Decay <- D_Decay, Acceleration <- D_Acceleration, MarkThresholds <- D_MarkThresholds,
       MaxTime <- D_MaxTime, MaxBuffered <- D_MaxBuffered, MaxEvents <- D_MaxEvents

R == INSTANCE RangeSensor WITH
       Cells <- R_Cells, Certainty <- R_Certainty, ClearOnMax <- R_ClearOnMax,
       Timeout <- R_Timeout, MaxTime <- R_MaxTime, MaxReadings <- R_MaxReadings

V == INSTANCE VoxelLayer WITH
       Length <- V_Length, Bits <- V_Bits, Heights <- V_Heights, Unknowns <- V_Unknowns,
       Marks <- V_Marks, MaxSettings <- V_MaxSettings

L == INSTANCE LayeredCostmap WITH
       W <- L_W, Radius <- L_Radius, RayRange <- L_RayRange, Configs <- L_Configs,
       Robots <- L_Robots, Scans <- L_Scans, Updates <- L_Updates, StaticMaps <- L_StaticMaps

-----------------------------------------------------------------------------
ObstacleInit ==
  /\ which = "obstacle" /\ O!Init
  /\ DecayOff /\ RangeOff /\ VoxelOff /\ LayersOff /\ enabled = Off /\ markThreshold = Off
  /\ readings = Off /\ costs = Off /\ touched = Off /\ master = Off /\ bounded = Off

DecayInit ==
  /\ which = "decay" /\ D!Init
  /\ ObstacleOff /\ RangeOff /\ VoxelOff /\ LayersOff /\ bounded = Off

RangeInit ==
  /\ which = "range" /\ R!Init
  /\ ObstacleOff /\ DecayOff /\ VoxelOff /\ LayersOff /\ subscribed = Off /\ buffer = Off
  /\ enabled = Off /\ markThreshold = Off /\ costs = Off

VoxelInit ==
  /\ which = "voxel" /\ V!Init
  /\ ObstacleOff /\ DecayOff /\ RangeOff /\ LayersOff /\ now = Off /\ subscribed = Off
  /\ buffer = Off /\ current = Off /\ wasReset = Off /\ readings = Off /\ touched = Off
  /\ master = Off

LayersInit ==
  /\ which = "layers" /\ L!Init
  /\ ObstacleOff /\ DecayOff /\ RangeOff /\ VoxelOff /\ now = Off /\ subscribed = Off
  /\ buffer = Off /\ current = Off /\ wasReset = Off /\ enabled = Off /\ markThreshold = Off
  /\ readings = Off /\ costs = Off /\ touched = Off /\ bounded = Off

Init == ObstacleInit \/ DecayInit \/ RangeInit \/ VoxelInit \/ LayersInit

ObstacleStep ==
  /\ which = "obstacle" /\ O!Next
  /\ UNCHANGED <<which, decayOnly, rangeOnly, voxelOnly, layersOnly, enabled, markThreshold,
                 readings, costs, touched, master, bounded>>

DecayStep ==
  /\ which = "decay" /\ D!Next
  /\ UNCHANGED <<which, obstacleOnly, rangeOnly, voxelOnly, layersOnly, bounded>>

RangeStep ==
  /\ which = "range" /\ R!Next
  /\ UNCHANGED <<which, obstacleOnly, decayOnly, voxelOnly, layersOnly, subscribed, buffer,
                 enabled, markThreshold, costs>>

VoxelStep ==
  /\ which = "voxel" /\ V!Next
  /\ UNCHANGED <<which, obstacleOnly, decayOnly, rangeOnly, layersOnly, now, subscribed, buffer,
                 current, wasReset, readings, touched, master>>

LayersStep ==
  /\ which = "layers" /\ L!Next
  /\ UNCHANGED <<which, obstacleOnly, decayOnly, rangeOnly, voxelOnly, now, subscribed, buffer,
                 current, wasReset, enabled, markThreshold, readings, costs, touched, bounded>>

Next == ObstacleStep \/ DecayStep \/ RangeStep \/ VoxelStep \/ LayersStep

Spec == Init /\ [][Next]_all

-----------------------------------------------------------------------------
(* The sensor layers hear their sources: what an update of the obstacle     *)
(* layer reads is fresh, no fresh reading is dropped while the clouds come  *)
(* in order, and neither the obstacle layer nor the voxel decay layer is    *)
(* out of date but for a silence (observation_buffer.cpp:187,               *)
(* obstacle_layer.cpp:836, spatio_temporal_voxel_layer.cpp:556).            *)
SensorsAreHeard ==
  [][/\ which = "obstacle" => /\ O!OnlyFreshReadStep /\ O!FreshKeptStep
                              /\ O!SilenceHasCauseStep
     /\ which = "decay" => D!SilenceHasCauseStep]_all

(* The voxel decay layer and the master grid agree: no obstacle outlives    *)
(* the decay of its marks, the bounds of the updates leave none behind, and *)
(* every one is there (spatio_temporal_voxel_grid.cpp:141).                 *)
ObstaclesDecay ==
  which = "decay" => D!LethalIsRecent /\ D!NoGhosts /\ D!MasterHasLethal

(* The costs are what the readings say.  The range sensor is never certain  *)
(* and marks its last object (range_sensor_layer.cpp:416); a voxel column   *)
(* and its cost say the same, and free is free, unless the cost was cleared *)
(* since the last point in it (voxel_layer.cpp:248, costmap_layer.cpp:64).  *)
CostsFollowReadings ==
  /\ which = "range" => R!NeverCertain /\ R!LastObjectMarked
  /\ which = "voxel" => V!CostFollowsColumn /\ V!KnownFreeIsFree

(* The bounds of the layers miss nothing: updating only what they say gives *)
(* the master grid that updating all would; a rolling window keeps the      *)
(* robot inside, and obstacles neither move nor get lost on their way       *)
(* (layered_costmap.cpp:129, costmap_layer.cpp:96, costmap_2d.cpp:336).     *)
ObstaclesReachMaster ==
  which = "layers" => /\ L!MasterIsComposed /\ L!RobotInWindow
                      /\ L!LethalKept /\ L!LethalWhereSeen
=============================================================================
