# Verification of the NavRobot navigation stack

This directory holds TLA+ models of the navigation stack of the robot dog
(`src/robotdog_nav`), the TLC configurations that check them, and proofs
of their main invariants that TLAPS checks. Source paths below are relative to the
repository root.

## 1. The system

A mission is a list of waypoints on the topic `/multi_goal_points`. The node
**waypoint_nav** drives the robot through it, in one of two modes: with its own
pure pursuit law, which writes `/cmd_vel` itself, or (the default) by sending one
`follow_path` action goal per waypoint to the **controller server**. The
controller server follows a path with the regulated pure pursuit plugin on a local
costmap and writes `/cmd_vel` as well. **gps_imu_fusion** supplies odometry, the
**lifecycle manager** brings the managed nodes up and down and watches them.

| Component | State it keeps | Operations | Hard parts |
|---|---|---|---|
| `waypoint_nav` (`nav_core.cpp`, `nav_waypoint_node.cpp`, `nav_fsm.cpp`) | state machine, waypoints, index, pose, `path_sent_to_controller_`, `last_goal_index_sent_`, mode; markers and path shown | 100 ms tick, mission, odometry and parameter callbacks, action results, publications | results of old goals, missions replaced under way, two writers of `/cmd_vel` |
| `SimpleActionServer` (`nav2_util/simple_action_server.hpp`) | current and pending goal handle, `preempt_requested_`, `server_active_`, `stop_execution_`, worker future | accept, cancel, preempt, terminate, activate, deactivate, `work()` | three threads, checks outside the lock, timeouts |
| `ControllerServer` (`nav2_controller/controller_server.cpp`) | controller and goal checker in use, path, end pose, last velocity | `computeControl()`, lifecycle callbacks, dynamic parameters, speed limit | goal changes between two looks, exits that leave the robot driving, waits without a way out |
| progress and goal checkers, regulated pure pursuit, Theta* | baseline pose and time; xy reached; plan, speed limit; open list and parents of the search | `check`, `isGoalReached`, `reset`, `setPlan`, `computeVelocityCommands`, `generatePath` | three judges of one arrival, stateful tolerance, the end of the queue |
| `nav2_lifecycle_manager` | service clients, bonds, timers, `system_active_` | startup, reset, shutdown, pause, resume, bond check, respawn | crashes, late answers, timers that outlive a command |
| `nav2_costmap_2d` node (`costmap_2d_ros.cpp`) | thread flags, `initialized_`, plugins, parameters | lifecycle transitions, map update loop, start and stop (called by the first two and by the parameter callback), clear; pause and resume, which nobody calls | update thread against lifecycle and parameters, waits for a first update |
| its layers (obstacle, voxel, inflation, static, range, denoise, keepout) | grids of their own, bounds touched, observation buffers, `current_` | `updateBounds`, `updateCosts`, `reset`, `matchSize`, `clearArea`, message callbacks | cells outside the bounds of an update, moving windows, late data, two representations of one fact |
| filters and publishers | info, mask, publisher; saved geometry and bounds of the last message | info and mask callbacks, `process`, `publishCostmap`, subscriber callbacks | latched topics in any order, increments without a base |
| `spatio_temporal_voxel_layer` | voxels with times, buffers, column counts | clouds, decay, frustum acceleration, marking, clearing | time, bounds of what has vanished, callbacks between read and reset |
| `gps_imu_fusion`, `gazebo_pose_to_ros2.py` | last position, last heading, stamps; child process, partial message, filter | sensor callbacks and publication; start, parse, watch, restart | combining data of different age, restarts in the middle of a message |
| `nav2_straight_planner` | goal, waiting flag, goal handle | goal pose, planning timer, action callbacks | a second client of the same server, answers in any order |
| `global2local` | origin, `dif_pose_`, flags of what was heard | conversions of odometry, goals and tasks | a frame tied down at a moment |
| `nav_2d_*`, messages, `champ`, robots and scenes | - | conversions, gait, simulation | - |

How they interact: `waypoint_nav` to the controller server by the action protocol
(requests, results, cancellations: asynchronous messages, one executor thread in
each process); the controller server to its worker by the slots of the action
server under `update_mutex_`; the costmap to the worker by shared memory
(`isCurrent()`, the costmap mutex); the lifecycle manager to all by services and
bonds; everything that drives to the robot by `/cmd_vel`; the robot back by odometry.

What makes each correct: no waypoint is passed over and every mission ends
(waypoint_nav); no accepted goal is lost, held twice or left without a thread
(action server); the path driven is the one of the goal reported on, the robot stands
still without a goal, and stop requests are served (controller server); "active"
means that every node is active and watched (lifecycle manager); no update outside a
lock or after a stop, and a current costmap comes back (costmap node); the master grid is what the
layers say although only the cells between the bounds are recomputed, obstacles are there while they are seen
and gone when they are not (layers); readers see what was published (publisher); a path that exists is found, a
plan is reached or given up in time (controller plugin); odometry mixes nothing and keeps coming (fusion and bridge).

## 2. The modules

| Module | Models | Depends on |
|---|---|---|
| `FollowPathAction` | what a client of `follow_path` may rely on: the abstract specification of the controller server | - |
| `WaypointNav` | the waypoint node, with the action as its environment | `FollowPathAction` |
| `SimpleActionServer` | the action server class, three threads, any execute callback | - |
| `ControllerServer` | `computeControl()` and the lifecycle callbacks on top of it | `SimpleActionServer`; instantiates `FollowPathAction` |
| `LifecycleManager` | the lifecycle manager, its bonds and timers, with nodes that crash and return | - |
| `Costmap2DROS` | the costmap node: lifecycle thread, map update thread, node thread | - |
| `LayeredCostmap` | the data: static, obstacle, inflation layer and keepout filter, updated between bounds | - |
| `SensorBuffer` | the observation and measurement buffers (operators on a buffer) | - |
| `ObstacleSources` | sources, callbacks and reads of the obstacle and voxel layers | `SensorBuffer` |
| `VoxelDecay` | the spatio-temporal voxel layer | `SensorBuffer` |
| `VoxelLayer` | voxel columns and the costs beside them | - |
| `RangeSensor` | the range sensor layer | - |
| `Brushfire` | the inflation of costs on the plane, list by list | - |
| `Raster` | Bresenham's lines in three versions, polygon outline and fill (operators) | - |
| `GridWindows` | mask to grid, window to costmap, costmap to message and back | - |
| `CostmapPublisher` | full grids and updates, raw costmaps, and their readers | - |
| `Denoise` | the denoise layer: dilation, connected components with union-find, removal | - |
| `CostmapFilters` | keepout, speed and binary filter: info, mask, limit | - |
| `ThetaStar` | the planner's search, one expansion a step | - |
| `PathTracking` | regulated pure pursuit with the goal and progress checkers, on a line | - |
| `StraightPlanner` | the straight planner against an action server that answers in any order | - |
| `GazeboPose` | the bridge from the simulator: process, parser, filter, watchdog | - |
| `GpsImuFusion` | the fusion of GPS and IMU | - |
| `Global2Local` | the node between flight controller and planners | - |
| `CollisionChecker` | the collision checks of the pure pursuit controller, and the topic collision checker with its subscribers | `Raster` |
| `MissionDisplay` | what the waypoint node shows of a mission | - |
| `Sensing`, `Machines`, `Services` | the sum of five, ten and five of these modules, with their constants open | INSTANCE of the modules |
| `FollowPathActionProofs`, `WaypointNavProofs`, `SimpleActionServerProofs`, `ControllerServerProofs`, `LifecycleManagerProofs`, `SensingProofs`, `MachinesProofs`, `ServicesProofs` | theorems | the module they are named after |
| `MCWaypointNav`, `MCSimpleActionServer`, `MCControllerServer`, `MCLifecycleManager`, `MCSensing`, `MCMachines`, `MCServices` | constants of the instances TLC checks | the module they are named after |

`ControllerServer` implements `FollowPathAction` (run `control`, theorem `ServerImplementsAction`), and
`WaypointNav` is checked against `FollowPathAction`: the two halves meet in the
abstract specification instead of in one large composition. In the mapping a goal that
`handle_goal()` has let through but `handle_accepted()` has not yet placed is still a
request, and the node is active from `activate()` to the beginning of `deactivate()`.

In the costmap the parts meet at narrow places, each of which is a variable of the module above it: that some sensor
is silent (`fresh` in `Costmap2DROS`, the subject of `ObstacleSources` and `VoxelDecay`), that the costmap
is current (`costmap` in `ControllerServer`, the subject of `Costmap2DROS`), what an obstacle layer has marked (`Scans` in
`LayeredCostmap`, the subject of `ObstacleSources`, `VoxelLayer` and `Raster`), what inflation makes of a cell (one
row in `LayeredCostmap`, the plane in `Brushfire`).

*Sums of machines.* Modules that share no state are put together in one module (`Sensing`, `Machines`, `Services`), which
declares the variables of all of them under their own names (one that two modules have is declared once and serves whichever runs), gives
each its own constants (the letter of the instance in front: `D_Sources` is `Sources` of `D == INSTANCE VoxelDecay`), and has a variable
`which`: the initial state picks the machine, the variables of the others are `"off"`. The state space is the sum of theirs, not the product, and each
property speaks of one machine (`which = "denoise" => ...`). What the theorems need of constants is assumed there, by name.

### Correspondence with the code

*FollowPathAction.* `current` and `pending` are the two handles of the server, `status`
the state of each goal handle, `dest` the place where its path ends, `queue`
the requests on their way. `Fail`, `Succeed`, `Preempt`, `EndAll` are the four ways the
server changes the slots, `Lifecycle` is what the manager does to it. Sending to an
unconfigured server is not excluded here: the client looks before it sends.

*WaypointNav.* One action per callback of the node: the tick is split by the state the
machine is in (`WaitingTick` ... `CompletedTick`), each with the velocity command
that follows the handler; `GoalCallback`, `OdomCallback`, `ParamCallback` and
`ResultCallback`. `rclcpp::spin` serves one callback at a time, so a callback is one
step. A *place* stands for all poses within `goal_tolerance` of it. `nav_state_`
is left out: only the colour of the line on display is taken from it (`nav_core.cpp:415`), and it is never EXECUTING, so the line is
always gray (`MissionDisplay` keeps the colour); IDLE, FAILED and GOAL_REACHED are left out, as no callback
finds the machine in them. `visited`, `missions` and `robot` are not in the code: the
first remembers where the odometry has shown the robot since the mission arrived,
the second bounds the missions, the third is the robot.

*SimpleActionServer.* A step is what one thread does under one hold of `update_mutex_`,
or one unlocked read (`WorkLoop`). `accepted` is the goal between `handle_goal()` and
`handle_accepted()`; `worker` is the place of `work()` in its loop, `"none"` when the
future is ready, so that a worker that has left its loop but not ended still
counts as running, as in `is_running()`. The execute callback is arbitrary: it uses the slots
(`UseSlots`) and returns or throws (`LeaveCallback`). The deadline of
`deactivate()` may pass at any time.

*ControllerServer.* `control` is the next step of `computeControl()`; every place where it
takes the lock, publishes, or waits is a step of its own, so the executor and the lifecycle
thread come in between. A velocity is abstracted to the place it leads to. The helper calls
(`setPlannerPath`, `computeAndPublishVelocity`, `isGoalReached`) are nondeterministic in what
depends on geometry: a controller may fail in any turn; the goal checker may see the arrival
only at the end of the path. Dereferencing the null that `get_current_goal()` and
`accept_pending_goal()` return is the state `"crashed"`.

*LifecycleManager.* A node is its place in `node_names_`. A command is the list of passes
(calls of `changeStateForAllNodes()`) it still has to make and the node its pass has come to;
`changeStateForNode()` is three steps: the request goes out (`CallNode`), the node serves it
(`ServeTransition`), the manager looks at the state of the node (`NodeActivated`,
`NodeChanged`, `NodeRefused`, `NodeUnavailable`). In between the nodes crash and return. `"hard"` is
the `reset(true)` of the bond check, which ends by clearing `bond_map_` and starting the respawn
timer (`ForgetBonds`). A bond is `"dangling"` when its other end is gone and the heartbeat
timeout has not passed; `finalize` is the transition `UNCONFIGURED_SHUTDOWN`. A request that
dies with its node leaves the manager waiting (`call = "lost"`): `change_state()` has no timeout.

*Costmap2DROS.* `lc`, `ut` and `nt` are the program counters of the thread that runs the lifecycle callbacks, of
`mapUpdateLoop()` and of the thread that serves topics, services and parameters; a step is what lies between two
accesses to something shared (the four flags, the layers' `current_`, `_dynamic_parameter_mutex`). Joining
the update thread is a step that waits (`JoinUpdater`). A null costmap that is dereferenced sets `crashed`. `start()` and `stop()` are steps of activation,
deactivation and the parameter callback that resizes the map; calls of `start()`, `stop()`, `pause()` and `resume()` from elsewhere are not modelled, as nothing in the repository makes them.

*LayeredCostmap.* `UpdateMap` is `LayeredCostmap::updateMap()` as one step: rolling, `updateBounds()` of each layer, the
reset of the window, `updateCosts()` of each plugin, then the filters. The other actions change what an update will see:
scans, static maps and their updates, `enabled` and footprint, `clearArea`, `resetLayers`. `ShouldBe` composes all cells
from the layers anew; the run asks that the grid updated between bounds is the same. The map is a row of cells.

*SensorBuffer, ObstacleSources, VoxelDecay.* A reading is its stamp (and its cells). Clouds wait in `inFlight`
and are delivered in any order; each access to a buffer is a step under its lock. In `VoxelDecay` the
phases of `updateBounds()` are steps (`phase`), so that clouds, the clearing service and the parameter
callback, which also changes `mark_threshold` (`SetMarkThreshold`), come in between. `alive` is a history of its own, not a copy of the buffer's stamp: it is set when a source is
enabled, activated or reset, and when a cloud of a source that marks is heard and can be transformed. A source that only clears returns from `bufferROSCloud()` before its stamp is renewed
(`measurement_buffer.cpp:135`), so hearing it is no sign of life. `forgotten` are the cells whose voxels went away without a touch of the bounds.

*VoxelLayer, RangeSensor.* One column, or one cell, per place of a row; the bits of a column are two sets of heights (`hi` and
`lo`), as the two halves of the word in `VoxelGrid`; reconfiguration changes `z_voxels` and the thresholds, the robot moves the
origin; a ray clears its voxels in one step (`RayAtOnce` says why this is the same). `ClearArea` is the clear-region service, for any region: it
makes costs unknown and leaves the columns as they are, and `wiped` remembers where, until the next point in the cell. The range sensor's `belief` is the cost 0 .. 254 that stands for the probability, by the arithmetic of `to_prob` and `to_cost`.

*Brushfire, Denoise, ThetaStar.* A step visits one cell (or one pixel, or expands one vertex): the run checks the
algorithm's state on the way, not the result only. `Denoise` has one size of label: that the code tries labels of 16 bits first and starts anew with 32 bits when
they run out is collapsed into its result, `overflow` if the labels do not suffice. Costs by distance are exact in squared integers; the costs of Theta* are
in hundredths, rounded down as an `int` conversion of the sums would.

*PathTracking.* One action for the cycle of the controller server (plan, carrot, rotation or speed, clamp, checkers), in
integers: 12.5 mm, 1/50 rad, 0.1 s. A `clearance` of half or all of the full speed is chosen at the start: it stands for the costs around the
robot, which slow it down and do not shorten the local plan. A speed limit, a new plan and another desired speed come at any cycle; the controller fails where it finds no local plan.

*CollisionChecker.* A pose is a cell and a number of quarter turns; the poses that `isCollisionImminent()` simulates are one cell or
one turn apart, for commands that drive straight or turn on the spot. `IsCollisionFree` is `isCollisionFree()` down to
`scorePose()` with all it leaves behind when it gives up half way: the checker's costmap is replaced before the pose is looked at,
its footprint before the pose of the robot at that time is known. Who asks without fetching was told that the pose before was free.

*CostmapFilters, CostmapPublisher, StraightPlanner, GazeboPose, GpsImuFusion, Global2Local, MissionDisplay.* One action per
callback, timer or thread step; topics are variables that hold the last message (latched) or queues in
order, as their QoS says. In `CostmapFilters` an info is its mask, its type, base and multiplier; the speed filter keeps number and unit
(`limit`, `percentage`), takes a number out of bounds for no limit, and publishes when the number is another than the last one; `known` remembers
the number that was published when the last info came. In `CostmapPublisher`, `ResetMaster` clears the whole master without a word to the publisher, as
`resetLayers()` does, and `missed` are the cells it has cleared that no bounds have covered since. `MissionDisplay` keeps markers, line and arrows as a viewer
holds them: an id that is not published again stays. The drawn mission (`drawn`) and the longest one (`longest`) are histories. In `GazeboPose` the simulator may reset its clock, the robot's pose or
both, like any fault before and after others; `fooled` remembers that a velocity was taken across a reset that the clock did not show.

*GridWindows.* `Process` is the keepout filter when it runs, with mask and grid in one frame or in two. Its early returns, without a mask and when the transform between
the two frames fails (`keepout_filter.cpp:158`, `:185`), leave the master as it is and are not actions: in such an update the zones are not in the grid.

## 3. What is checked

Runs that pass:

| Run | Shows |
|---|---|
| `nav_pursuit` | driving by pure pursuit, whatever mission replaces another at whatever moment: no waypoint is passed over (`NothingSkipped`), a mission under way ends (`MissionEnds`) |
| `nav_server` | both modes and all disturbances: types, `IndexInRange`, `SlotsHoldActiveGoals` |
| `nav_live` | one mission of three waypoints through the server: the node is never left waiting for a result that cannot come (`NeverStranded`), the mission ends |
| `server` | three threads, any execute callback: no goal lost between the slots, the preemption flag exact; `deactivate()` returns if the callback does |
| `control` | the path driven is the path of the goal reported on; success means arrival; between goals the robot is stopped; null is dereferenced only when `deactivate()` has taken the goals away; the server with its threads implements `FollowPathAction` |
| `control_live` | cancellations are served and deactivation ends while the costmap keeps coming |
| `lifecycle` | all sequences of commands, failing transitions, breaking bonds, two crashes: "active" is said only of a watched system (`ActiveIsWatched`), nodes go up and down in order (`InOrder`), a lost node is noticed, commands end |
| `sensing` | clouds late and out of order: only fresh ones are read, none is dropped, a layer is out of date only after a silence, or for a source that only clears (`SensorsAreHeard`); no mark outlives its decay and the bounds leave no ghost but what a reset or a new threshold took out of their sight (`ObstaclesDecay`); beliefs and voxel columns agree with the costs, where these were not cleared alone (`CostsFollowReadings`); the master grid is the composition of its layers, wherever the window moves (`ObstaclesReachMaster`) |
| `machines` | ten algorithms and small nodes against what they are for: `InflationCovers`, `PlacesKeepCosts`, `ReadersSeePublished`, `SmallGroupsRemoved`, `LinesAgree` (with `FreeIsFree`: what the topic collision checker calls free is), `SearchIsSound`, `TrackingIsBounded` (with `DriveIsClearStep`: the robot drives onto no obstacle it could see), `DisplayFollows`, `BridgeKeepsPlaces` |
| `services` | under fair threads and timers: one updater at a time (`OneUpdater`), the costmap starts, stops and becomes current again (`CostmapComesBack`), odometry comes back after crashes, pauses and resets in any order (`OdometryFlows`), the limit of the last info and mask is published (`LimitSettles`), the straight planner is done with its goal (`GoalsSettle`) |

Some of these hold only in a form weaker than one would wish, and the property says so: a search misses a goal
only when the last cell of its queue was the one it needed (`MissesOnlyLastCell`), a cell is inflated from an obstacle
at most one list farther than the nearest (`NearestWithinOneLevel`), a marker is left only of a longer mission that was
replaced (`OnlyLongerLeftStep`) while line and arrows stay for ever (`LineStays`), who reads increments misses what a reset of the whole costmap
cleared (`IncrementsSuffice`), a voxel column that is marked is lethal unless its cost was cleared (`CostFollowsColumn`), ghosts are left by resets and
by a higher mark threshold (`NoGhosts`), a limit has the unit of the last info unless its number was the right one before
(`Settled`), a velocity is credible unless the simulator was reset behind the clock's back (`VelocityBounded`). The list of observations below has the reasons.

Runs that end in a counterexample, each a disagreement of the code with what
its comments, messages or README say (details in `PROJECT.json`, "findings"):

| Run | Counterexample |
|---|---|
| `nav_skip` | the tick sees the arrival, moves on, and then the result of the same goal moves the index once more: a waypoint is passed over |
| `control_zombie` | after refusing a preempting goal the loop drives on without any goal |

### Observations

Made while modelling, most of them with a counterexample of TLC to a stronger property; no run is kept for them.

Waypoint node, action server, controller server, lifecycle manager:

- With the controller server the node is left waiting for a result that cannot come when a mission names a place twice in a row
  (`<<a, b, a, a>>`), in a second mission, because `resetNavigator()` keeps `path_sent_to_controller_`, and when a last command of
  the pursuit is still on `/cmd_vel`: the hypotheses of `NeverLeftWaiting`.
- A mission that replaces another while waypoint 0 of the old one is under way is never sent
  (`nav_core.cpp:184`, `:213`); one published in the 100 ms between the tick that enters COMPLETED and the one that handles it is
  wiped with the old one (`nav_waypoint_node.cpp:207`).
- After COMPLETED the controller server goes on driving to its own tolerance: "Stop robot"
  (`nav_waypoint_node.cpp:195`) publishes one zero velocity and cancels nothing. Switching `use_controller_server` does not
  cancel the goal either (`nav_core.cpp:264`).
- A goal that was preempted by the next waypoint's ends as ABORTED, which the node takes for a failure and answers by
  sending the path already under way once more (`nav_core.cpp:717`); there is no `goal_response_callback` (`:691`).
- `poses.size() - 2` wraps for a path of one pose (`nav_core.cpp:658`); the pose is uninitialised until the first odometry (`:13`).
- A goal accepted while the worker winds down waits in the pending slot with nobody to take it
  (`simple_action_server.hpp:182`); one that `handle_goal()` let through before a deactivation becomes current after it
  (`:201`); a pending goal hides the cancellation of the current one (`:436`); `execution_future_` is read without the lock (`:205`);
  the completion callback is called although none is given (`:223`).
- A costmap that is never current again makes cancel and `deactivate()` wait for ever (`controller_server.cpp:402`). The
  progress checker is not reset when a goal preempts another (`:376`); a controller is switched before the goal checker
  is known to exist (`:544`).
- A node that is gone makes `changeStateForNode()` throw and ends a hard reset, so the system is not brought back
  (`lifecycle_manager.cpp:262`). After `shutdown()` any command, and the respawn timer if it is still there, dereferences a null client
  (`:302`, `:442`).

Costmap:

- `update_frequency` 0 makes `on_activate()` block for ever (no thread sets `initialized_`); `on_activate()` may return before the
  first update ran (`costmap_2d_ros.cpp:594` against `:565`); `on_cleanup()` resets the layered costmap before the
  subscriptions and services that use it, while their thread spins; the footprint callback writes without the mutex; a failing
  parameter in a set ends the callback early.
- Clearing all layers clears the combined grid only (`costmap_2d_ros.cpp:620`); `clearArea` is exclusive at both ends; an
  obstacle layer that is switched off leaves its cells outside the bounds (`obstacle_layer.cpp:308`); its `updateBounds()` asks
  the second buffer only if the first was current (`:511`). A keepout mask that arrives at run time does not widen the bounds.
  A static map update that comes while a map is buffered is lost (`static_layer.cpp:353`). An inflation layer with radius 0
  is never current after a reset.
- A cloud stamped late in front of the list purges every newer one behind it (`observation_buffer.cpp:187`).
- Voxel decay: the reset of the enabling callback touches no bounds, so its obstacles stay, and so do those that a higher `mark_threshold` takes
  out of the layer's costmap (`spatio_temporal_voxel_layer.cpp:713`, `:943`); a disabled source with an expected rate keeps the
  layer out of date, and so does a source that only clears, however often it is heard (`measurement_buffer.cpp:135` returns before the stamp is renewed at `:188`); a cloud between `GetReadings` and the reset of the observations is lost; marks reach the master one
  update late; the shift in z has the sign of y's; with `voxel_decay` -1 the persistent model clears at once.
- Range sensor: after a timeout the layer is out of date for ever (`range_sensor_layer.cpp:471`). Voxel layer: clearing a region makes the costs unknown
  and leaves the voxels (`voxel_layer.hpp:128`: it is clearable and has no `clearArea` of its own), so an obstacle that is still marked is not in the costmap until
  a point is seen in its column again; a change of `z_voxels`
  does not adjust `unknown_threshold_` (`voxel_layer.cpp:108`).
- The brushfire is not exact: a cell may be inflated from an obstacle farther than its nearest, for (3,0) with obstacles at
  (0,0), (1,2), (3,3) from squared distance 9 instead of 8, where `CellData` says "closest obstacle cell". `inscribed_radius_` is set from the
  circumscribed radius when the footprint changes; `inflate_around_unknown` turns unknown cells lethal.
- Denoise: isolated unknown cells become free when unknown counts as an obstacle; too many labels leave the image as it was.
- Windows: a mask coarser than the grid leaves up to half a mask cell unapplied at the lower edges (`keepout_filter.cpp:214`), and one finer than the
  grid leaves out the last cells of the grid that end more than half a mask cell behind the mask (`:229`);
  `copyCostmapWindow` deletes the map before it checks the bounds, and refuses a window that ends at the map's edge; `updateWithAddition`
  lowers lethal to 252; a published 253 is read back as 251.
- Publisher: who subscribes late gets the latched full grid and only the last update. Clearing the whole costmap does not widen the publisher's bounds
  (`costmap_2d_ros.cpp:620`), so readers of updates keep the old costs until an update of the layers covers the cells or a full grid comes.
  Speed filter: an info that changes the unit and not the number is not published (`speed_filter.cpp:243`); after a reset
  `percentage_` is false until the next info, and the old mask is read as metres per second. Binary filter: a publisher that is not there
  yet is used when the filter is not active (`binary_filter.cpp:229`); a speed limit stays after its filter is disabled.

Controller plugin, bridges:

- `shouldRotateToGoalHeading` tests the carrot, not the goal: with the carrot within and the goal just outside the tolerance the robot
  turns for ever (`regulated_pure_pursuit_controller.cpp:385`). A change of `desired_linear_vel` forgets the speed limit. The local plan breaks at
  the first pose outside the rolling costmap.
- Collision checks: the sides of the footprint are looked at until the highest cost is lethal, and unknown (255) is higher, so an
  unknown cell under an earlier side hides an obstacle under a later one (`footprint_collision_checker.cpp:73`); where unknown space is tracked, `inCollision()`
  then lets the robot drive onto it (`regulated_pure_pursuit_controller.cpp:577`). `getFootprintInRobotFrame()` writes the raw footprint into
  its result before it knows the pose (`footprint_subscriber.cpp:82`); a check that never fetched has no costmap. A line from a to b may take other
  cells than one from b to a. The configured robot has `use_collision_detection` false (`params.yaml:133`).
- Theta* gives up when it has taken the last cell from its queue (`theta_star.cpp:73`); an index at y = -1 wraps to the row before;
  a diagonal is in sight if one of its two side cells is free (`theta_star.hpp:168` says otherwise).
- Straight planner: a goal near the robot while an older path is driven is dropped after the robot has driven off; the result of a
  cancelled goal drops the handle of the newer one.
- Fusion: the stamp may go back once when the IMU is first heard after the GPS; it freezes when the IMU falls silent. Gazebo bridge: a
  program that starts slower than the idle timeout is restarted for ever; the watchdog sleeps in the executor.
- `global2local`: `returntaskCallback` converts the mission of `multitask_local`; yaws in [0, pi] mirror targets; `dif_pose_` is
  stale after a new origin.
- Gazebo bridge: a velocity is taken across a reset of the robot's pose, or of a clock that has come as far again before a message arrives
  (`gazebo_pose_to_ros2.py:254` looks at the time only).
- Display: markers of a longer mission that was replaced remain; the line and the arrows of a completed mission stay for ever, as an empty mission publishes
  none (`nav_core.cpp:397`) and nothing deletes them; `path_mutex_` and `mutex_` are taken in both orders.

### Bounds, and why they are enough

- Two or three goal handles (`Goals`); a handle whose result was taken is reused, so
  histories are unbounded. Two fill both slots; the third is one that is on its way
  or whose result is, which is what the index races need.
- Three places: a home without a waypoint and two waypoints. Missions of up to three waypoints
  with repetition; `<<>>` is the empty mission. `MaxMissions` bounds the missions
  published to 1, 2 or 3: two to have one replaced, three to have one
  replaced while the one that replaced another is under way.
- In `ControllerServer` two places to tell the path of one goal from that of the other
  (`control`), one where only the slots matter. `Wants` adds a goal that names an unknown plugin
  and one with an empty path.
- `LifecycleManager`: two nodes, so that one can fail before or behind the other in the
  order; two crashes in `lifecycle`: one to be noticed and one in the middle of what follows.
- `sensing`: grids of two to four cells, enough for a cell inside, at and outside the bounds; windows that move in quarters of
  a cell in both directions and farther than their width; two scans, one static map, one switch at a time (`toggles`); two mark thresholds, so that one voxel is enough or is not; clouds with
  stamps up to 3 and two in flight, so that one overtakes another and expires; two sensors, one that marks and one that clears.
- `machines`: all fires of three obstacles that include one corner on 4 x 4 cells (smaller sets cannot shadow each other); all
  binary images of 3 x 3, 2 x 4 and 1 x 5 pixels (the smallest with a U that joins two labels, with one row, and with a chain of unions)
  and 2 x 2 ones with four values; all segments on 5 x 5 cells and all triangles on 3 x 4; all fields of 3 x 3 with up to three
  obstacles and of 4 x 2 with up to four; plans forward and backward with the robot turned away, for 170 cycles, longer than
  the way and the `Allowance` without progress together; three local costmaps of 5 x 4 cells, two of them with an obstacle,
  two with unknown cells, a triangle as footprint, two starts, three moves or changes; masks at every offset from five halves before to six halves behind the grid, coarser than it and finer.
- `services`: two layers of which one senses; two goals and three places; two program faults, the time up to 3 with
  idle timeout and backoff of 2; filter infos for two masks: five for the speed filter (in percent, in metres per second, out of bounds, unsupported), four for the binary one, two for keepout.
- `TwoGoalSymmetry` is used in `nav_server`, which checks invariants only; liveness runs have
  no symmetry.
- `CHECK_DEADLOCK FALSE` in the `control*`, `lifecycle` and summed runs: a process that dereferenced
  null stops, and so does a manager whose answer died with a node; an algorithm ends.

`Disturbed = FALSE` (runs `nav_pursuit`, `nav_live` and `nav_skip`) restricts
the environment: the server stays active, nobody else cancels, the odometry has come and is
seen before the robot moves on. It makes the counterexample stronger (it needs none of
those disturbances) and the liveness results weaker (they need their absence).

### Fairness

- `WaypointNav`: weak fairness of the tick (a timer), of the odometry and of the result callbacks (a
  spinning executor serves each in turn), and of the acceptance and preemption
  steps of the server; strong fairness of `Arrive`: a robot that is driven to a place
  again and again, though with interruptions, gets there. `PassBy` and failures have none.
- `SimpleActionServer`, `ControllerServer`: weak fairness of each thread that is runnable. The
  execute callback is assumed to return (`LeaveCallback`) only where it is arbitrary code; for
  `computeControl()` this is what `control_live` shows, from the assumption that the
  costmap becomes current again after every gap and stays so for long enough to be seen
  (`SensorSpec`).
- `LifecycleManager`: a command under way goes on; a node that lives answers; a bond without
  its other end breaks within its timeout; a timer that is due is served, however many
  commands come (strong fairness: the executor takes timers first); nothing is assumed of a crashed node coming back.
- `Costmap2DROS`: weak fairness of each step of the three threads, strong fairness of the one that waits for
  `_dynamic_parameter_mutex` (it is released in between, and no other thread takes it for ever). That pose and sensors
  come back is the premise of `CostmapComesBack`, not fairness.
- `CostmapFilters`: callbacks and the update of the map. `StraightPlanner`: the timer, the action's responses, results and ends; the robot drives
  (strong). `GazeboPose`: the program prints, a stopped one is resumed, watchdog and reader run. `GpsImuFusion`: timer and IMU.
- No fairness for clients: requests, cancellations, parameters and lifecycle commands may or may not come.

## 4. What is proved

| Theorem | Statement |
|---|---|
| `GoalsStayInSlots` | `ActionSpec => []SlotsHoldActiveGoals` |
| `NavTypes`, `IndexStaysInRange`, `NavGoalsStayInSlots` | `Spec => []TypeOK`, `[]IndexInRange`, `[]SlotsHoldActiveGoals` for `WaypointNav` |
| `PursuitSkipsNothing` | `Modes = {FALSE}` implies `Spec => []NothingSkipped` |
| `NeverLeftWaiting` | `PlainMissions` implies `Spec => [](missions <= 1 => NeverStranded)` |
| `ServerGoalsStayInSlots`, `PreemptFlagIsExact` | `Spec => []SlotsHoldActiveGoals`, `[]PreemptMeansPending` for `SimpleActionServer` |
| `LoopFollowsCurrentGoal`, `NullIsForced` | `ControllerSpec => []FollowsCurrentGoal`, `[]CrashesOnlyIfForced` |
| `IdleRobotIsStopped` | `ZeroOnSuccess` implies `ControllerSpec => []IdleMeansStopped` |
| `SuccessAtDestination` | `ControllerSpec => SucceedsAtDestination` (an action property) |
| `ServerImplementsAction` | `ControllerSpec => ImplementsAction`: the refinement of `FollowPathAction` |
| `ManagerTypes`, `ActiveMeansWatched`, `NodesChangeInOrder` | `Spec => []TypeOK`, `[]ActiveIsWatched`, `InOrder` (an action property) for `LifecycleManager` |
| `OneUpdaterHolds` | `Spec => []OneUpdater` for `Services`: `UpdaterWithinActivation` and `OneUpdateAtATime` of `Costmap2DROS` |
| `ObstaclesDecayHolds` | `Spec => []ObstaclesDecay` for `Sensing`: `LethalIsRecent`, `NoGhosts` and `MasterHasLethal` of `VoxelDecay`, for any thresholds set at run time |
| `SensorsAreHeardHolds` | `Spec => SensorsAreHeard` for `Sensing`: what both sensor layers read, drop and call silent (an action property) |
| `CostsFollowReadingsHolds` | `Spec => []CostsFollowReadings` for `Sensing`: `NeverCertain` and `LastObjectMarked` of `RangeSensor`, `CostFollowsColumn` and `KnownFreeIsFree` of `VoxelLayer` |
| `ObstaclesReachMasterHolds` | `Spec => []ObstaclesReachMaster` for `Sensing`: `MasterIsComposed`, `RobotInWindow`, `LethalKept` and `LethalWhereSeen` of `LayeredCostmap` |
| `ReadersSeePublishedHolds` | `Spec => ReadersSeePublished` for `Machines`: `IncrementsSuffice` and `CopyIsPublishedStep` of `CostmapPublisher` |
| `DisplayFollowsHolds` | `Spec => DisplayFollows` for `Machines`: markers, line, arrows and path of `MissionDisplay` (an action property) |
| `BridgeKeepsPlacesHolds` | `Spec => []BridgeKeepsPlaces` for `Machines`: setpoints, odometry and tasks of `Global2Local` |
| `PlacesKeepCostsHolds` | `Spec => []PlacesKeepCosts` for `Machines`: `KeepoutHolds`, `WindowKeepsPlace` and `ExchangeKeepsClasses` of `GridWindows` |
| `SearchIsSoundHolds` | `Spec => []SearchIsSound` for `Machines`: `ParentsCheaper`, `MissesOnlyLastCell` and `StraysOnlyAtEdge` of `ThetaStar` |

They hold for every set of goals, places and missions, every number of missions, of nodes and of crashes, every set of layers, sensors and
cells, and every shape, decay, rate and threshold. The assumptions are the named ASSUMEs of the modules, which TLC evaluates in
every run: `None` is no goal, missions are sequences of places; ages and rates are natural numbers (`ObstacleAssumption`,
`DecayAssumption`: the code clamps or declares them so; a sensor sees finitely many voxels, each above a cell); windows and positions are
integers (`PublisherAssumption`, `DisplayAssumption`, `BridgeAssumption`: the last also names the five types of areas the bridge converts);
resolutions are positive and costs are bytes (`WindowsAssumption`); the range sensor reaches at least one cell and is certain to less than 100 %, as a
tanh is (`RangeAssumption`); thresholds and heights are unsigned, and a column has between one and all of its heights (`VoxelAssumption`);
the costmap searched is a rectangle of bytes (`SearchAssumption`). `LayersAssumption` is the one that limits a size: the row of cells has 2 .. 500 of
them and the robot stays within 1000 quarter cells, so that the window stays nearer than `Far`, the 1000 that stands for the bounds of no
cell and of all cells; in the code these are a million metres (`costmap_layer.cpp:102`) and the largest double (`layered_costmap.cpp:157`).

The arguments:

- *Slots.* `SlotsHoldActiveGoals` is not inductive alone: a request taken from the queue must be
  a goal that is in no slot. The invariant adds `QueueHoldsRequests`: the queue lists
  goals in state "requested", each once. The lemmas about `Append` and `Tail` (`LongerQueue`,
  `ShorterQueue`, `SameQueue`) carry it through each action. For the action server,
  `accepted` counts as a third slot and `PreemptMeansPending` is part of the invariant.
- *Index.* Every place that increments the index tests it against the mission of
  the moment; a new mission resets it; the tick that runs past the end enters COMPLETED.
  The invariant needs the state machine: a mission is non-empty in INITIALIZING and EXECUTING or the
  index is zero.
- *Nothing skipped.* Without the controller server no goal is ever sent, so no result can
  come: the invariant says that every handle is free and the queue is empty. The index then only moves in
  `NextGoalTick`, whose guard is that the pose is at the waypoint, and the pose is
  always one the odometry has shown: `At(waypoints, pose) \subseteq visited`.
- *Never left waiting.* The flags say which waypoint was sent, not which goal is still alive, so the invariant has to name it:
  `SentIsOnItsWay` says that the goal the server will end last (`Newest`: the end of the queue, else pending, else current) leads to
  that waypoint, or it was aborted and its result is still to be heard, or no goal is left and the robot stands at the waypoint. A later
  goal preempts every earlier one, and a result, unless it clears the flag, belongs to another goal than the newest. `FirstLeg` and `StartUp` cover the
  beginning, when one goal is under way before the machine executes. The hypotheses are needed: with a place twice in a row
  (`<<a, b, a, a>>`), in a second mission (`resetNavigator()` keeps the path flags), or with a leftover pursuit command on `/cmd_vel`, TLC finds the
  property violated (the observations in section 3).
- *Control loop.* `LoopInv` is the invariant of the action server and what the loop adds to it. `LoopIsWorker`: `computeControl()`
  runs within `work()` only. `GoalsWant`: a handle in use asks for something. `LifeFollowsServer` ties the lifecycle state to the flags:
  after a deactivation a worker that starts late finds `stop` set and leaves before the callback. `NullOnlyIfForced`: what will be
  dereferenced is there, as only the worker itself empties the slots, but for a `deactivate()` past its deadline. `StoppedOutside` and
  `StaysAtPath`: on the ways out the last velocity is zero, and from the arrival on the robot does not leave the end of the path.
  With these, `FollowsCurrentGoal` is inductive: the two places that change the current goal under the loop also change its path, or leave the loop.
- *Refinement.* Each step of a thread is mapped on its own, under `LoopInv` and `OnItsWay`: the goal between `handle_goal()` and
  `handle_accepted()` is executing, in neither slot, and there is none in an unconfigured server. The steps on the slots map by four
  lemmas (`TerminateCurrentMaps`, `TerminateAllMaps`, `AcceptPendingMaps`, `SucceededMaps`), whoever takes them; `HandleGoalAccept` is
  a stutter, because `<<Head(queue)>> \o Tail(queue) = queue`; everything else leaves what a client sees alone.
- *Watched.* `ActiveIsWatched` needs to know what a command has done so far. `BringingUp` says that
  `startup()` or `resume()`, once it activates, has left a bond behind at every node it has passed, so
  at the end of the pass all have one; `BringingDown` says that the commands that erase bonds have
  taken back `system_active_` before; `FormedMeansActive` ties the two ends of a bond together.
- *In order.* `DownOnly`: the commands that take the system down never activate. `NoneBehind`: a deactivating pass that goes on has
  left no active node behind it, unless it is the hard reset, which passes over a node that refused. An activation needs
  `BringingUp` again: the nodes passed have bonds.
- *One updater.* `LockHeld` says which places of the two threads hold `_dynamic_parameter_mutex`, `LayeredWhenConfigured` that there is a costmap
  at every place of the lifecycle thread between configuration and cleanup; the join in `on_deactivate()` does the rest.

- *Sums.* Each machine of a sum has its own invariant (`which = "decay" => DInv`): only the steps of the machine that runs can disturb it,
  because `which` never changes and every other machine's step needs another value of it.
- *Sensors are heard.* A buffer holds clouds of its own source, the newest first until one has arrived late (`OBuffers`), so cutting the list at the first old
  cloud cuts old ones only (`PurgeScans`). That a layer calls a sensor silent only after a silence needs, in both layers, that the stamp of a buffer is the time of
  the last sign of life (`OBuffers`, `Heard`), a history that callbacks and the operator's actions write on their own.
- *Obstacles decay.* `Backed`: what is lethal in the layer has enough voxels in the grid, unless the grid was reset behind the layer's back; while a sweep
  is on its way, what it counted is still there. `Recent`: those voxels were seen, and counted only before they decayed. `Bounded` and `Taken` do the master
  grid, which lags behind the layer by one update: where the two differ, the cell is in the bounds of the next one. A reset from outside and a higher
  threshold break this, so `forgotten` and `resetting`, which the property has as well, are part of it. `VoxelsCount` is the lemma that a count of voxels is positive if and only if there is one.
- *Costs follow readings.* For the range sensor: Bayes' rule takes a cost of 0 .. 253 and a certainty below 100 % to a cost of 0 .. 253 (`BayesBounds`), so no
  cell is ever certain and nothing divides by zero; marking first raises the cell of the object to 233, from where one reading cannot
  bring it to 203, the threshold of the master. `ObjectBelieved` carries that from the bounds to the costs of the update; `RecursionExists` and
  `StepByStep` do the loop over the messages. For the voxel layer, `Agrees` says cell by cell what the property does (a marked column is lethal or was `wiped`), and
  `Within` that no bit above the height is marked; marking and clearing keep both (`MarkAgrees`, `ClearAgrees`, by the monotony of `BitsBelowThreshold`), and a
  free column has at most `Bits - sizeZ` unknown bits (`KnownFreeBelow`). `RayAtOnce` shows that a ray that clears voxel by voxel, as in the code, leaves what
  the model's one step leaves.
- *Readers see what was published.* `ChangesAreBounded`: outside `x0 .. xn - 1` the grid last published is what the master holds, unless the origin has wandered or the cell is `missed`; an
  update therefore completes it. `ReaderHeard` says the same of the reader's copy, and that the raw message on the topic is the one the translated grid was made from.
- *Display.* `MarkersOnTop`: what is shown begins with the markers of the mission that was shown last, and the rest is the tail of what was there; the line and its arrows (`LineOnTop`) likewise, from the last mission drawn. Poses of the
  path lie more than a step apart and are ones the robot has been at since the path was cleared (`PathGrows`).
- *Bridge.* `Vectors` says what `home`, `dif_pose_` and the two positions are once they have been heard, as differences of points; a setpoint or task is then the
  sum of two differences, in which the frame cancels out (`PointsAdd`, `TaskInWorld`).
- *Places.* A cell is a quotient of a place, and the lemmas about quotients (`QuotientBounds` and after) carry over from one grid to the other: a cell whose
  middle is well inside the mask is between the first and the last cell that `process()` visits (`WellInsideVisited`), a visited cell gets the mask's cost
  or keeps a higher one (`MaskedAtLeast`), a window's cells are the map's, shifted (`WindowKept`). Costs go through the two conversions one class at a time (`CostsExchanged`).
- *Search.* `SearchInv`: known cells form a tree whose costs are sums (`TreeOK`) and rise from parent to child by the way between them (`Cheaper`); a known cell
  is in the queue, or was taken last, or has all its neighbors known (`Expanded`). When the queue is empty only the cell taken last is not expanded, so what can
  be reached around it is known, and the goal is not: a known goal is still to be taken. The line of sight looks at cells along a line, whose sum
  is a recursive function of its length; `RecursionExists` and `StepByStep` bound it (a range of numbers, so no induction theorem is needed). That two
  ways of computing a cost agree needs the root of a number, cut off, to be a number.
- *Master grid.* `MatchInv`: without rolling, the master is what an update of all cells would give (`Whole`), or the next update is one of all cells (`Pending`).
  The step is `PartIsWhole`: within the bounds the cells are recomputed; outside them the costs without inflation are the same as before, and so are the
  obstacles within the radius, as `InflationLayer::updateBounds()` widens the bounds by it. Inflation raises costs but neither makes nor removes lethal
  cells. `ObservedAt` says that the obstacle layer changes within the bounds it touches only, and that it marks hits only; `WindowFollows` that
  rolling carries grid and obstacles along and keeps the robot inside; `StaticLoads` that a static map that was received leaves nothing behind in its buffer and all cells due. `KeptInv` and `SeenInv`
  do the rolling grid: after the update a lethal cell of the layer is one of the master, and a lethal cell of the master was seen by a scan, or
  is one of the static map or of the mask. Actions that change flags only go through `Untouched`.

Only model-checked, and why:

- everything about liveness and fairness, which the prover cannot do: `MissionEnds`, `CancelIsServed`, `StopReacts`, `DeactivationEnds`,
  `FailureNoticed`, `CommandEnds`, and in `services` `CostmapComesBack`, `OdometryFlows`, `LimitSettles`, `GoalsSettle`, which also have safety
  parts;
- `InflationCovers`, `SmallGroupsRemoved`, `LinesAgree`: the brushfire, the connected groups and the line walks are recursions over queues, lists and pairs of
  rows, compared with a definition by distance, by group or by geometry; that they agree for every input needs an induction over that data, which
  the library's theorems state for an operator the provers cannot instantiate;
- `TrackingIsBounded` speaks of the end of a run of cycles as well, and of products of scaled integers that the SMT solver does not settle.

## 5. What is not modelled, and why

Geometry and control laws in the plane (pure pursuit, curvature, arcs on the way to a collision, padding and parsing of footprints, frustums,
projections, gait, kinematics): floating-point functions without state that TLC could explore; where a behaviour depends on them the model
chooses, or works on a line. Yaw estimation from successive positions. Dynamic parameters of the controller
server. Logging, diagnostics, visualisation of voxels, saving and loading of maps. Launch files and simulation
plugins. The OpenVDB grid, tf2 and the ROS middleware are external: they are modelled by what the code relies on. The data races on
`execution_future_`, in `publish_feedback()`, in `setSpeedLimit()` and of the footprint callback: a torn object is not a state of the
model. Components listed as `not_modelled` in `PROJECT.json` are left out for the reason given there.
