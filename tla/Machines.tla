---------------------------- MODULE Machines --------------------------------
(***************************************************************************)
(* The machines that stand alone: inflation, what is carried between       *)
(* grids, publishing and reading costmaps, denoising, lines, the planner's *)
(* search, the path tracking, the collision checkers, the display and the  *)
(* bridge to the drone.  They share no state: the initial state picks the  *)
(* machine that runs, and the variables of the others are off.             *)
(***************************************************************************)
EXTENDS Integers, Sequences, FiniteSets

CONSTANTS
  \* of Brushfire
  B_Grids, B_Windows, B_Radii, B_Footprints, B_MaxChanges,
  \* of GridWindows
  W_Masters, W_Masks, W_Shifts, W_Regions,
  \* of CostmapPublisher
  P_Costs, P_Origins, P_Width, P_Always, P_MaxUpdates,
  \* of Denoise
  N_Images, N_Connectivities, N_GroupSizes,
  \* of Raster
  Q_Square, Q_Corner,
  \* of ThetaStar
  T_Grids, T_Queries,
  \* of PathTracking
  K_Plans, K_HalfCostmap, K_Checkers, K_Headings, K_Limits, K_Allowance, K_Patience,
  K_MaxCycles, K_MaxEvents,
  \* of CollisionChecker
  X_Grids, X_Footprint, X_Starts, X_Asked, X_Ahead, X_Carrots, X_MaxChanges,
  \* of MissionDisplay
  Y_Positions, Y_Missions, Y_Tolerance, Y_MaxMissions, Y_MaxMoves,
  \* of Global2Local
  G_Places, G_Heights, G_Ground, G_Home, G_Default, G_Goals, G_Tasks, G_MaxMoves, G_MaxOrigins

\* cells have a size, and costs are bytes
ASSUME WindowsAssumption ==
  /\ W_Masters \cup W_Masks \subseteq [origin : Int, res : Nat \ {0}, cells : Seq(0..255)]
  /\ W_Shifts \subseteq Int /\ W_Regions \subseteq Int \X Int

\* a grid of some cells, at a place that is a number
ASSUME PublisherAssumption == P_Width \in Nat /\ P_Origins \subseteq Int

\* the local costmap is a rectangle of cells, and costs are bytes
ASSUME SearchAssumption ==
  \A g \in T_Grids : \E far \in DOMAIN g :
    far \in Nat \X Nat /\ g \in [(0..far[1]) \X (0..far[2]) -> 0..255]

\* the robots of the missions stand at known positions
ASSUME DisplayAssumption == Y_Positions \subseteq Int /\ Y_Missions \subseteq Seq(Y_Positions)

\* positions are numbers, and areas have the five types of the operator's messages
ASSUME BridgeAssumption ==
  /\ G_Places \subseteq Int /\ G_Heights \subseteq Int /\ G_Ground \in Int
  /\ {G_Home, G_Default} \subseteq [x : Int, z : Int] /\ G_Goals \subseteq [x : Int, z : Int]
  /\ G_Tasks \subseteq [areas : Seq([type : 0..4, data : Seq(Int)]), path : Seq(Int)]

VARIABLES
  which,  \* the machine that runs
  \* of several machines
  phase, master, level, changes, result, origin, grid, heard, published, current, path, pose,
  moves,
  \* of Brushfire
  radius, inscribed, flags, cached, before, window, bins, source,
  \* of GridWindows
  job,
  \* of CostmapPublisher
  full, saved, x0, xn, update, raw, here, view, rawHere, message, copy, complete, wandered,
  missed, updates,
  \* of Denoise
  image, connectivity, minimalGroupSize, unknownIsObstacle, scanned, labels, parent, overflow,
  \* of Raster
  shape,
  \* of ThetaStar
  src, dst, nodes, queue, disturbed, outcome, strayed,
  \* of PathTracking
  plan, x, heading, speed, spin, goalKind, checkXY, progressKind, baseline, still, base,
  desired, asked, clearance, rounding, failing, mode, status, cycles, events,
  \* of CollisionChecker
  tracksUnknown, mapHeard, checkerMap, own, verdict,
  \* of MissionDisplay
  waypoints, index, executing, completed, shown, line, replaced, drawn, longest, visited,
  missions,
  \* of Global2Local
  drone, fromUi, uavState, armed, pending, fix, world, local, dif, said, aligned, origins

fireOnly == <<radius, inscribed, flags, cached, before, window, bins, source>>

windowsOnly == <<job>>

publisherOnly == <<full, saved, x0, xn, update, raw, here, view, rawHere, message, copy,
                  complete, wandered, missed, updates>>

denoiseOnly == <<image, connectivity, minimalGroupSize, unknownIsObstacle, scanned, labels,
                parent, overflow>>

rasterOnly == <<shape>>

thetaOnly == <<src, dst, nodes, queue, disturbed, outcome, strayed>>

trackingOnly == <<plan, x, heading, speed, spin, goalKind, checkXY, progressKind, baseline,
                 still, base, desired, asked, clearance, rounding, failing, mode, status,
                 cycles, events>>

collisionOnly == <<tracksUnknown, mapHeard, checkerMap, own, verdict>>

displayOnly == <<waypoints, index, executing, completed, shown, line, replaced, drawn, longest,
                visited, missions>>

bridgeOnly == <<drone, fromUi, uavState, armed, pending, fix, world, local, dif, said, aligned,
               origins>>

shared == <<phase, master, level, changes, result, origin, grid, heard, published, current,
            path, pose, moves>>

all == <<which, shared, fireOnly, windowsOnly, publisherOnly, denoiseOnly, rasterOnly,
         thetaOnly, trackingOnly, collisionOnly, displayOnly, bridgeOnly>>

Off == "off"

FireOff ==
  /\ radius = Off /\ inscribed = Off /\ flags = Off /\ cached = Off /\ before = Off
  /\ window = Off /\ bins = Off /\ source = Off

WindowsOff ==
  /\ job = Off

PublisherOff ==
  /\ full = Off /\ saved = Off /\ x0 = Off /\ xn = Off /\ update = Off /\ raw = Off
  /\ here = Off /\ view = Off /\ rawHere = Off /\ message = Off /\ copy = Off
  /\ complete = Off /\ wandered = Off /\ missed = Off /\ updates = Off

DenoiseOff ==
  /\ image = Off /\ connectivity = Off /\ minimalGroupSize = Off /\ unknownIsObstacle = Off
  /\ scanned = Off /\ labels = Off /\ parent = Off /\ overflow = Off

RasterOff ==
  /\ shape = Off

ThetaOff ==
  /\ src = Off /\ dst = Off /\ nodes = Off /\ queue = Off /\ disturbed = Off /\ outcome = Off
  /\ strayed = Off

TrackingOff ==
  /\ plan = Off /\ x = Off /\ heading = Off /\ speed = Off /\ spin = Off /\ goalKind = Off
  /\ checkXY = Off /\ progressKind = Off /\ baseline = Off /\ still = Off /\ base = Off
  /\ desired = Off /\ asked = Off /\ clearance = Off /\ rounding = Off /\ failing = Off
  /\ mode = Off /\ status = Off /\ cycles = Off /\ events = Off

CollisionOff ==
  /\ tracksUnknown = Off /\ mapHeard = Off /\ checkerMap = Off /\ own = Off /\ verdict = Off

DisplayOff ==
  /\ waypoints = Off /\ index = Off /\ executing = Off /\ completed = Off /\ shown = Off
  /\ line = Off /\ replaced = Off /\ drawn = Off /\ longest = Off /\ visited = Off
  /\ missions = Off

BridgeOff ==
  /\ drone = Off /\ fromUi = Off /\ uavState = Off /\ armed = Off /\ pending = Off
  /\ fix = Off /\ world = Off /\ local = Off /\ dif = Off /\ said = Off /\ aligned = Off
  /\ origins = Off

\* a constant that is computed is given a name, so that TLC computes it once
FireGrids == B_Grids

B == INSTANCE Brushfire WITH
       Grids <- FireGrids, Windows <- B_Windows, Radii <- B_Radii, Footprints <- B_Footprints,
       MaxChanges <- B_MaxChanges

W == INSTANCE GridWindows WITH
       Masters <- W_Masters, Masks <- W_Masks, Shifts <- W_Shifts, Regions <- W_Regions

P == INSTANCE CostmapPublisher WITH
       Costs <- P_Costs, Origins <- P_Origins, Width <- P_Width, Always <- P_Always,
       MaxUpdates <- P_MaxUpdates

N == INSTANCE Denoise WITH
       Images <- N_Images, Connectivities <- N_Connectivities, GroupSizes <- N_GroupSizes

Q == INSTANCE Raster

T == INSTANCE ThetaStar WITH
       Grids <- T_Grids, Queries <- T_Queries

K == INSTANCE PathTracking WITH
       Plans <- K_Plans, HalfCostmap <- K_HalfCostmap, Checkers <- K_Checkers,
       Headings <- K_Headings, Limits <- K_Limits, Allowance <- K_Allowance,
       Patience <- K_Patience, MaxCycles <- K_MaxCycles, MaxEvents <- K_MaxEvents

X == INSTANCE CollisionChecker WITH
       Grids <- X_Grids, Footprint <- X_Footprint, Starts <- X_Starts, Asked <- X_Asked,
       Ahead <- X_Ahead, Carrots <- X_Carrots, MaxChanges <- X_MaxChanges

Y == INSTANCE MissionDisplay WITH
       Positions <- Y_Positions, Missions <- Y_Missions, Tolerance <- Y_Tolerance,
       MaxMissions <- Y_MaxMissions, MaxMoves <- Y_MaxMoves

G == INSTANCE Global2Local WITH
       Places <- G_Places, Heights <- G_Heights, Ground <- G_Ground, Home <- G_Home,
       Default <- G_Default, Goals <- G_Goals, Tasks <- G_Tasks, MaxMoves <- G_MaxMoves,
       MaxOrigins <- G_MaxOrigins

-----------------------------------------------------------------------------
FireInit ==
  /\ which = "fire" /\ B!Init
  /\ WindowsOff /\ PublisherOff /\ DenoiseOff /\ RasterOff /\ ThetaOff /\ TrackingOff
  /\ CollisionOff /\ DisplayOff /\ BridgeOff /\ result = Off /\ origin = Off /\ grid = Off
  /\ heard = Off /\ published = Off /\ current = Off /\ path = Off /\ pose = Off
  /\ moves = Off

WindowsInit ==
  /\ which = "windows" /\ W!Init
  /\ FireOff /\ PublisherOff /\ DenoiseOff /\ RasterOff /\ ThetaOff /\ TrackingOff
  /\ CollisionOff /\ DisplayOff /\ BridgeOff /\ phase = Off /\ master = Off /\ level = Off
  /\ changes = Off /\ origin = Off /\ grid = Off /\ heard = Off /\ published = Off
  /\ current = Off /\ path = Off /\ pose = Off /\ moves = Off

PublisherInit ==
  /\ which = "publisher" /\ P!Init
  /\ FireOff /\ WindowsOff /\ DenoiseOff /\ RasterOff /\ ThetaOff /\ TrackingOff
  /\ CollisionOff /\ DisplayOff /\ BridgeOff /\ phase = Off /\ level = Off /\ changes = Off
  /\ result = Off /\ current = Off /\ path = Off /\ pose = Off /\ moves = Off

DenoiseInit ==
  /\ which = "denoise" /\ N!Init
  /\ FireOff /\ WindowsOff /\ PublisherOff /\ RasterOff /\ ThetaOff /\ TrackingOff
  /\ CollisionOff /\ DisplayOff /\ BridgeOff /\ master = Off /\ level = Off /\ changes = Off
  /\ origin = Off /\ grid = Off /\ heard = Off /\ published = Off /\ current = Off
  /\ path = Off /\ pose = Off /\ moves = Off

RasterInit ==
  /\ which = "raster" /\ shape \in [1..2 -> Q_Square] \cup [1..3 -> Q_Corner]
  /\ FireOff /\ WindowsOff /\ PublisherOff /\ DenoiseOff /\ ThetaOff /\ TrackingOff
  /\ CollisionOff /\ DisplayOff /\ BridgeOff /\ phase = Off /\ master = Off /\ level = Off
  /\ changes = Off /\ result = Off /\ origin = Off /\ grid = Off /\ heard = Off
  /\ published = Off /\ current = Off /\ path = Off /\ pose = Off /\ moves = Off

ThetaInit ==
  /\ which = "theta" /\ T!Init
  /\ FireOff /\ WindowsOff /\ PublisherOff /\ DenoiseOff /\ RasterOff /\ TrackingOff
  /\ CollisionOff /\ DisplayOff /\ BridgeOff /\ phase = Off /\ master = Off /\ level = Off
  /\ changes = Off /\ result = Off /\ origin = Off /\ heard = Off /\ published = Off
  /\ pose = Off /\ moves = Off

TrackingInit ==
  /\ which = "tracking" /\ K!Init
  /\ FireOff /\ WindowsOff /\ PublisherOff /\ DenoiseOff /\ RasterOff /\ ThetaOff
  /\ CollisionOff /\ DisplayOff /\ BridgeOff /\ phase = Off /\ master = Off /\ level = Off
  /\ changes = Off /\ result = Off /\ origin = Off /\ grid = Off /\ heard = Off
  /\ published = Off /\ current = Off /\ path = Off /\ pose = Off /\ moves = Off

CollisionInit ==
  /\ which = "collision" /\ X!Init
  /\ FireOff /\ WindowsOff /\ PublisherOff /\ DenoiseOff /\ RasterOff /\ ThetaOff
  /\ TrackingOff /\ DisplayOff /\ BridgeOff /\ phase = Off /\ master = Off /\ level = Off
  /\ result = Off /\ origin = Off /\ published = Off /\ current = Off /\ path = Off
  /\ moves = Off

DisplayInit ==
  /\ which = "display" /\ Y!Init
  /\ FireOff /\ WindowsOff /\ PublisherOff /\ DenoiseOff /\ RasterOff /\ ThetaOff
  /\ TrackingOff /\ CollisionOff /\ BridgeOff /\ phase = Off /\ master = Off /\ level = Off
  /\ changes = Off /\ result = Off /\ origin = Off /\ grid = Off /\ heard = Off
  /\ current = Off

BridgeInit ==
  /\ which = "bridge" /\ G!Init
  /\ FireOff /\ WindowsOff /\ PublisherOff /\ DenoiseOff /\ RasterOff /\ ThetaOff
  /\ TrackingOff /\ CollisionOff /\ DisplayOff /\ phase = Off /\ master = Off
  /\ changes = Off /\ result = Off /\ grid = Off /\ published = Off /\ path = Off

Init ==
  \/ FireInit \/ WindowsInit \/ PublisherInit \/ DenoiseInit \/ RasterInit
  \/ ThetaInit \/ TrackingInit \/ CollisionInit \/ DisplayInit \/ BridgeInit

FireStep ==
  /\ which = "fire" /\ B!Next
  /\ UNCHANGED <<which, windowsOnly, publisherOnly, denoiseOnly, rasterOnly, thetaOnly,
                 trackingOnly, collisionOnly, displayOnly, bridgeOnly, result, origin, grid,
                 heard, published, current, path, pose, moves>>

WindowsStep ==
  /\ which = "windows" /\ W!Next
  /\ UNCHANGED <<which, fireOnly, publisherOnly, denoiseOnly, rasterOnly, thetaOnly,
                 trackingOnly, collisionOnly, displayOnly, bridgeOnly, phase, master, level,
                 changes, origin, grid, heard, published, current, path, pose, moves>>

PublisherStep ==
  /\ which = "publisher" /\ P!Next
  /\ UNCHANGED <<which, fireOnly, windowsOnly, denoiseOnly, rasterOnly, thetaOnly, trackingOnly,
                 collisionOnly, displayOnly, bridgeOnly, phase, level, changes, result, current,
                 path, pose, moves>>

DenoiseStep ==
  /\ which = "denoise" /\ N!Next
  /\ UNCHANGED <<which, fireOnly, windowsOnly, publisherOnly, rasterOnly, thetaOnly,
                 trackingOnly, collisionOnly, displayOnly, bridgeOnly, master, level, changes,
                 origin, grid, heard, published, current, path, pose, moves>>

ThetaStep ==
  /\ which = "theta" /\ T!Next
  /\ UNCHANGED <<which, fireOnly, windowsOnly, publisherOnly, denoiseOnly, rasterOnly,
                 trackingOnly, collisionOnly, displayOnly, bridgeOnly, phase, master, level,
                 changes, result, origin, heard, published, pose, moves>>

TrackingStep ==
  /\ which = "tracking" /\ K!Next
  /\ UNCHANGED <<which, fireOnly, windowsOnly, publisherOnly, denoiseOnly, rasterOnly,
                 thetaOnly, collisionOnly, displayOnly, bridgeOnly, phase, master, level,
                 changes, result, origin, grid, heard, published, current, path, pose, moves>>

CollisionStep ==
  /\ which = "collision" /\ X!Next
  /\ UNCHANGED <<which, fireOnly, windowsOnly, publisherOnly, denoiseOnly, rasterOnly,
                 thetaOnly, trackingOnly, displayOnly, bridgeOnly, phase, master, level, result,
                 origin, published, current, path, moves>>

DisplayStep ==
  /\ which = "display" /\ Y!Next
  /\ UNCHANGED <<which, fireOnly, windowsOnly, publisherOnly, denoiseOnly, rasterOnly,
                 thetaOnly, trackingOnly, collisionOnly, bridgeOnly, phase, master, level,
                 changes, result, origin, grid, heard, current>>

BridgeStep ==
  /\ which = "bridge" /\ G!Next
  /\ UNCHANGED <<which, fireOnly, windowsOnly, publisherOnly, denoiseOnly, rasterOnly,
                 thetaOnly, trackingOnly, collisionOnly, displayOnly, phase, master, changes,
                 result, grid, published, path>>

Next ==
  \/ FireStep \/ WindowsStep \/ PublisherStep \/ DenoiseStep \/ ThetaStep
  \/ TrackingStep \/ CollisionStep \/ DisplayStep \/ BridgeStep

Spec == Init /\ [][Next]_all

-----------------------------------------------------------------------------
(* The brushfire puts no cell behind the list it visits, inflates a cell    *)
(* from its nearest obstacle or one of the next level, and covers the       *)
(* circle around the footprint whatever changed before                      *)
(* (inflation_layer.cpp:258, inflation_layer.hpp:63).                       *)
InflationCovers ==
  which = "fire" => B!NothingBehind /\ B!NearestWithinOneLevel /\ B!FootprintIsCovered

(* What is carried between grids keeps its place: the keepout mask holds,   *)
(* a window has the costs of its place, and a costmap that is published and *)
(* read keeps what is lethal, unknown and free (keepout_filter.cpp:192,     *)
(* costmap_2d.cpp:145, costmap_2d_publisher.cpp:87).                        *)
PlacesKeepCosts ==
  which = "windows" => W!KeepoutHolds /\ W!WindowKeepsPlace /\ W!ExchangeKeepsClasses

(* Who gets the full grid and every update sees what was published, but for *)
(* the cells that a reset of the whole costmap cleared and nothing changed  *)
(* since, and the copy of a costmap subscriber is a costmap that was        *)
(* published (costmap_2d_publisher.cpp:202, costmap_subscriber.cpp:56).     *)
ReadersSeePublished ==
  [][which = "publisher" => P!IncrementsSuffice' /\ P!CopyIsPublishedStep]_all

(* The labels suffice for every image of more than one row and column,      *)
(* their trees are the connected groups, and exactly the groups that are    *)
(* too small are removed (image_processing.hpp:480).                        *)
SmallGroupsRemoved ==
  which = "denoise" => N!LabelsSuffice /\ N!TreesAreGroups /\ N!SmallGroupsRemoved

(* The costmap clears the ray that the line iterator of the collision       *)
(* checkers walks (costmap_2d.hpp:417, line_iterator.hpp:48), and fills a   *)
(* triangle in each column from the lowest to the highest cell of its three *)
(* sides, and nowhere else (costmap_2d.cpp:432).  And what a collision      *)
(* checker, which walks the sides of the robot's footprint, calls free is   *)
(* free there, wherever the robot was when its footprint was published      *)
(* (footprint_collision_checker.cpp:45, footprint_subscriber.cpp:78).       *)
LinesAgree ==
  /\ which = "collision" => X!FreeIsFree
  /\ which = "raster" =>
    LET Line(p, q) == Q!LineCells(p[1], p[2], q[1], q[2])
        CellsOf(p, q) == {Line(p, q)[i] : i \in DOMAIN Line(p, q)}
    IN IF Len(shape) = 2
       THEN Q!RaytraceLine(shape[1], shape[2], Q!Unlimited, 0) = Line(shape[1], shape[2])
       ELSE LET sides == CellsOf(shape[1], shape[2]) \cup CellsOf(shape[2], shape[3])
                           \cup CellsOf(shape[3], shape[1])
            IN Q!ConvexFillCells(shape) =
                 {c \in Q_Square : \E l, h \in sides : /\ l[1] = c[1] /\ h[1] = c[1]
                                                     /\ l[2] <= c[2] /\ c[2] <= h[2]}

(* The search follows ever cheaper parents, misses a goal in reach only for *)
(* the last cell of its queue, and looks outside the costmap only at its    *)
(* edge (theta_star.cpp:73, 160).                                           *)
SearchIsSound ==
  which = "theta" => T!ParentsCheaper /\ T!MissesOnlyLastCell /\ T!StraysOnlyAtEdge

(* Every plan is reached or given up in time, the robot does not turn past  *)
(* where it shall look, no command is faster than the speed limit, and none *)
(* takes it onto an obstacle that its collision detection can see           *)
(* (regulated_pure_pursuit_controller.cpp:385, 420, 482).                   *)
TrackingIsBounded ==
  [][/\ which = "tracking" => K!EndsInTime' /\ K!HeadingKeptStep /\ K!LimitObeyedStep
     /\ which = "collision" => X!DriveIsClearStep]_all

(* The waypoint markers left over are those of a longer mission that was    *)
(* replaced, the line and the arrows stay those of the last mission, and    *)
(* after a reset nothing of the old path is published again                 *)
(* (nav_waypoint_node.cpp:289, nav_core.cpp:397).                           *)
DisplayFollows ==
  [][which = "display" => Y!OnlyLongerLeftStep /\ Y!LineStays' /\ Y!PathIsGoneStep]_all

(* A setpoint leads to the goal from wherever the drone has moved, the      *)
(* odometry is at the last global position, and the areas and the path of a *)
(* task stay at their places (global2local.cpp).                            *)
BridgeKeepsPlaces ==
  which = "bridge" => G!SetpointReachesGoal /\ G!OdomIsLastFix /\ G!TasksKeepPlaces
=============================================================================
