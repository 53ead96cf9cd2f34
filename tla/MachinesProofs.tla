-------------------------- MODULE MachinesProofs ---------------------------
(***************************************************************************)
(* Proofs about five of the machines that stand alone, for every value of  *)
(* their constants: the bridge to the drone keeps the places it converts,  *)
(* readers of a published costmap have what was published, the display     *)
(* follows the mission, masks, windows and published costs keep their      *)
(* places, and the planner's search is sound.                              *)
(***************************************************************************)
EXTENDS Machines, SequenceTheorems, FiniteSetTheorems, WellFoundedInduction, TLAPS

Point == [x : Int, z : Int]

(* The subtraction and addition of points. *)
LEMMA PointsAdd ==
  /\ \A a, b \in Point : G!Minus(a, b) \in Point /\ G!Plus(a, b) \in Point
  /\ \A a, b \in Point : G!Plus(G!Minus(a, b), b) = a
  /\ \A a, b, c \in Point : G!Minus(G!Minus(a, b), G!Minus(a, c)) = G!Minus(c, b)
  /\ \A a, b, c \in Point : G!Plus(G!Minus(a, G!Minus(b, c)), b) = G!Plus(a, c)
<1>1. \A a, b \in Point : G!Minus(a, b) \in Point /\ G!Plus(a, b) \in Point
  BY DEF Point, G!Minus, G!Plus
<1>2. \A a, b \in Point : G!Plus(G!Minus(a, b), b) = a
  BY DEF Point, G!Minus, G!Plus
<1>3. \A a, b, c \in Point : G!Minus(G!Minus(a, b), G!Minus(a, c)) = G!Minus(c, b)
  BY DEF Point, G!Minus
<1>4. \A a, b, c \in Point : G!Plus(G!Minus(a, G!Minus(b, c)), b) = G!Plus(a, c)
  BY DEF Point, G!Minus, G!Plus
<1>. QED
  BY <1>1, <1>2, <1>3, <1>4

-----------------------------------------------------------------------------
(* The bridge.  What its vectors hold once they are set: the last position  *)
(* of the odometry, relative to the home, the shift between the frames, and *)
(* the last fix, relative to the origin.                                    *)
BridgeType ==
  /\ drone \in [x : Int, z : Int, facing : Int] /\ origin \in Point
  /\ fix = <<>> \/ \E p \in Point : fix = <<p>>
  /\ heard = <<>> \/ \E p \in Point : heard = <<p>>
  /\ world \in Point /\ local \in Point /\ dif \in Point

Vectors ==
  /\ \A p \in Point : heard = <<p>> => local = G!Minus(p, G_Home)
  /\ aligned => dif = G!Minus(G_Home, origin)
  /\ current => \E p \in Point : fix = <<p>> /\ world = G!Minus(p, origin)

Places == G!SetpointReachesGoal /\ G!OdomIsLastFix /\ G!TasksKeepPlaces

BInv == BridgeType /\ Vectors /\ Places

(* Messages on other topics say nothing of setpoints, odometry and tasks.   *)
LEMMA OtherTopic ==
  said.topic \notin {"setpoint", "odom", "multitask", "path"} => Places
BY DEF Places, G!SetpointReachesGoal, G!OdomIsLastFix, G!TasksKeepPlaces

LEMMA BridgeInitOK == G!Init => BInv
<1> SUFFICES ASSUME G!Init PROVE BInv
  OBVIOUS
<1>1. BridgeType
  BY BridgeAssumption DEF G!Init, BridgeType, Point, G!Rubbish, G!Zero
<1>2. Vectors
  BY DEF G!Init, Vectors
<1>3. Places
  BY OtherTopic DEF G!Init, G!Nothing
<1>. QED
  BY <1>1, <1>2, <1>3 DEF BInv

(* The steps that say nothing of the places.                                *)
LEMMA FlightOK ==
  ASSUME BInv,
         \/ G!Move \/ G!TofInfo \/ G!GlobalPosition
         \/ \E a \in G_Places : G!OriginGps(a)
         \/ \E s \in {0, 2} : G!UsmState(s)
  PROVE  BInv'
<1> USE DEF BInv
<1>1. Places'
  <2>1. said' = G!Nothing
    BY DEF G!Move, G!TofInfo, G!GlobalPosition, G!OriginGps, G!UsmState
  <2>2. said'.topic \notin {"setpoint", "odom", "multitask", "path"}
    BY <2>1 DEF G!Nothing
  <2>. QED
    BY <2>2 DEF Places, G!SetpointReachesGoal, G!OdomIsLastFix, G!TasksKeepPlaces
<1>2. CASE G!Move
  <2>1. UNCHANGED <<origin, fix, heard, world, local, dif, aligned, current>>
    BY <1>2 DEF G!Move, G!frame
  <2>2. drone' \in [x : Int, z : Int, facing : Int]
    <3>1. PICK a \in G_Places, z \in G_Heights, f \in {1, -1} : drone' = [x |-> a, z |-> z, facing |-> f]
      BY <1>2 DEF G!Move
    <3>2. G_Places \subseteq Int /\ G_Heights \subseteq Int
      BY BridgeAssumption
    <3>3. a \in Int /\ z \in Int /\ f \in Int
      BY <3>2
    <3>. QED
      BY <3>1, <3>3
  <2>. QED
    BY <1>1, <2>1, <2>2 DEF BridgeType, Vectors
<1>3. CASE G!TofInfo
  <2>1. origin' \in Point
    <3> DEFINE h == IF fix = <<>> THEN -1 ELSE fix[1].z
           z == h - (drone.z - G_Ground)
    <3>1. h \in Int
      <4>1. CASE fix = <<>>
        BY <4>1
      <4>2. ASSUME NEW p \in Point, fix = <<p>> PROVE h \in Int
        BY <4>2 DEF Point
      <4>. QED
        BY <4>1, <4>2 DEF BridgeType
    <3>2. drone.z \in Int /\ G_Ground \in Int
      BY BridgeAssumption DEF BridgeType
    <3>3. z \in Int
      <4>. HIDE DEF h
      <4>. QED
        BY <3>1, <3>2 DEF h
    <3>4. origin' \in {[origin EXCEPT !.z = z], origin}
      BY <1>3 DEF G!TofInfo
    <3>. HIDE DEF z
    <3>. QED
      BY <3>3, <3>4 DEF BridgeType, Point
  <2>2. UNCHANGED <<drone, fix, heard, world, local, dif>>
    BY <1>3 DEF G!TofInfo, G!hidden
  <2>3. /\ aligned' => aligned /\ origin' = origin
        /\ current' => current /\ origin' = origin
    BY <1>3 DEF G!TofInfo
  <2>. QED
    BY <1>1, <2>1, <2>2, <2>3 DEF BridgeType, Vectors
<1>4. CASE G!GlobalPosition
  <2>1. G!Where \in Point
    BY DEF G!Where, BridgeType, Point
  <2>2. fix' = <<G!Where>> /\ world' = G!Minus(G!Where, origin) /\ world' \in Point
    BY <1>4, <2>1, PointsAdd DEF G!GlobalPosition, G!LocalCoordinates, BridgeType
  <2>3. UNCHANGED <<drone, origin, heard, local>>
    BY <1>4 DEF G!GlobalPosition, G!hidden
  <2>4. \/ dif' = G!Minus(world', local) /\ aligned' = (heard = <<G!Where>>)
        \/ UNCHANGED <<dif, aligned>>
    BY <1>4 DEF G!GlobalPosition
  <2>5. dif' \in Point
    <3>1. world' \in Point /\ local \in Point /\ dif \in Point
      BY <2>2 DEF BridgeType
    <3>2. G!Minus(world', local) \in Point
      BY <3>1, PointsAdd
    <3>. QED
      BY <3>1, <3>2, <2>4
  <2>6. BridgeType'
    BY <2>1, <2>2, <2>3, <2>5 DEF BridgeType
  <2>7. ASSUME heard = <<G!Where>>, dif' = G!Minus(world', local)
        PROVE  dif' = G!Minus(G_Home, origin)
    <3>1. local = G!Minus(G!Where, G_Home)
      BY <2>1, <2>7 DEF Vectors
    <3>2. G_Home \in Point /\ origin \in Point
      BY BridgeAssumption DEF Point, BridgeType
    <3>. QED
      BY <2>1, <2>2, <2>7, <3>1, <3>2, PointsAdd
  <2>8. Vectors'
    <3>1. \A p \in Point : heard' = <<p>> => local' = G!Minus(p, G_Home)
      BY <2>3 DEF Vectors
    <3>2. aligned' => dif' = G!Minus(G_Home, origin')
      BY <2>3, <2>4, <2>7 DEF Vectors
    <3>3. fix' = <<G!Where>> /\ world' = G!Minus(G!Where, origin')
      BY <2>2, <2>3
    <3>. QED
      BY <2>1, <3>1, <3>2, <3>3 DEF Vectors
  <2>. QED
    BY <1>1, <2>6, <2>8
<1>5. ASSUME NEW a \in G_Places, G!OriginGps(a) PROVE BInv'
  <2>1. origin' = [origin EXCEPT !.x = a] /\ origin' \in Point
    BY <1>5, BridgeAssumption DEF G!OriginGps, BridgeType, Point
  <2>2. UNCHANGED <<drone, fix, heard, world, local, dif>>
    BY <1>5 DEF G!OriginGps
  <2>3. a = origin.x => origin' = origin
    BY <2>1 DEF BridgeType, Point
  <2>4. /\ aligned' => aligned /\ origin' = origin
        /\ current' => current /\ origin' = origin
    BY <1>5, <2>3 DEF G!OriginGps
  <2>. QED
    BY <1>1, <2>1, <2>2, <2>4 DEF BridgeType, Vectors
<1>6. ASSUME NEW s \in {0, 2}, G!UsmState(s) PROVE BInv'
  <2>1. UNCHANGED <<drone, origin, fix, heard, world, local, dif, aligned, current>>
    BY <1>6 DEF G!UsmState, G!hidden
  <2>. QED
    BY <1>1, <2>1 DEF BridgeType, Vectors
<1>. QED
  BY <1>2, <1>3, <1>4, <1>5, <1>6

(* Arming takes the altitude of the drone for that of the origin.           *)
LEMMA ArmOK == ASSUME BInv, G!Arm PROVE BInv'
<1> USE DEF BInv
<1>1. origin' \in Point
  BY DEF G!Arm, BridgeType, Point
<1>2. UNCHANGED <<drone, fix, heard, world, local, dif>>
  BY DEF G!Arm, G!hidden
<1>3. /\ aligned' => aligned /\ origin' = origin
      /\ current' => current /\ origin' = origin
  BY DEF G!Arm
<1>4. Places'
  <2>1. said'.topic \notin {"setpoint", "odom", "multitask", "path"}
    BY DEF G!Arm, G!Nothing
  <2>. QED
    BY <2>1 DEF Places, G!SetpointReachesGoal, G!OdomIsLastFix, G!TasksKeepPlaces
<1>. QED
  BY <1>1, <1>2, <1>3, <1>4 DEF BridgeType, Vectors

(* The odometry is the last fix, relative to the origin.                    *)
LEMMA OdomOK == ASSUME BInv, G!Odom PROVE BInv'
<1> USE DEF BInv
<1>1. UNCHANGED <<drone, origin, fix, world, dif, aligned, current>>
  BY DEF G!Odom, G!hidden
<1>2. G!Where \in Point /\ G_Home \in Point
  BY BridgeAssumption DEF G!Where, BridgeType, Point
<1>3. CASE ~fromUi
  <2>1. UNCHANGED <<local, heard>> /\ said' = G!Nothing
    BY <1>3 DEF G!Odom, G!OdomMessage
  <2>2. said'.topic \notin {"setpoint", "odom", "multitask", "path"}
    BY <2>1 DEF G!Nothing
  <2>. QED
    BY <1>1, <2>1, <2>2
    DEF BridgeType, Vectors, Places, G!SetpointReachesGoal, G!OdomIsLastFix, G!TasksKeepPlaces
<1>4. CASE fromUi
  <2>1. /\ local' = G!Minus(G!Where, G_Home) /\ heard' = <<G!Where>>
        /\ said' = [topic |-> "odom", at |-> world]
    BY <1>4 DEF G!Odom, G!OdomMessage
  <2>2. local' \in Point
    BY <1>2, <2>1, PointsAdd
  <2>3. BridgeType'
    BY <1>1, <1>2, <2>1, <2>2 DEF BridgeType
  <2>4. Vectors'
    BY <1>1, <2>1 DEF Vectors
  <2>5. said'.topic = "odom" /\ said'.at = world
    BY <2>1
  <2>6. current => G!Plus(world, origin) = fix[1]
    <3> SUFFICES ASSUME current PROVE G!Plus(world, origin) = fix[1]
      OBVIOUS
    <3>1. PICK p \in Point : fix = <<p>> /\ world = G!Minus(p, origin)
      BY DEF Vectors
    <3>. QED
      BY <3>1, PointsAdd DEF BridgeType
  <2>7. Places'
    BY <1>1, <2>5, <2>6
    DEF Places, G!SetpointReachesGoal, G!OdomIsLastFix, G!TasksKeepPlaces, G!LocalToGlobal
  <2>. QED
    BY <2>3, <2>4, <2>7
<1>. QED
  BY <1>3, <1>4

(* What a task says in the world: the first number of a point, circle or    *)
(* line, all of a polygon, and all of a path are shifted by the origin.     *)
LEMMA TaskInWorld ==
  ASSUME origin \in Point, NEW task \in G_Tasks,
         NEW i \in DOMAIN task.areas, NEW k \in DOMAIN task.areas[i].data
  PROVE  G!InWorld(task).areas[i].data[k] =
           IF task.areas[i].type = 2 \/ k = 1 THEN task.areas[i].data[k] - origin.x
           ELSE task.areas[i].data[k]
<1> DEFINE area == task.areas[i]
<1>1. G!InWorld(task).areas[i] = G!SetAreaSample(area)
  BY DEF G!InWorld
<1>2. area \in [type : 0..4, data : Seq(Int)]
  <2>1. task \in [areas : Seq([type : 0..4, data : Seq(Int)]), path : Seq(Int)]
    BY BridgeAssumption
  <2>2. task.areas \in Seq([type : 0..4, data : Seq(Int)])
    BY <2>1
  <2> DEFINE Areas == [type : 0..4, data : Seq(Int)]
  <2>3. task.areas \in Seq(Areas)
    BY <2>2
  <2>. HIDE DEF Areas
  <2>4. area \in Areas
    BY <2>3
  <2>. QED
    BY <2>4 DEF Areas
<1>3. \A p : G!SetPoint(p) = p - origin.x
  BY DEF G!SetPoint, G!LocalCoordinates, G!Minus
<1>. HIDE DEF area
<1>4. area.data \in Seq(Int) /\ area.type \in 0..4 /\ k \in DOMAIN area.data
  BY <1>2 DEF area
<1>5. area.data # <<>>
  BY <1>4
<1>6. CASE area.type = 2
  <2>1. G!SetAreaSample(area) = [area EXCEPT !.data = [n \in DOMAIN @ |-> G!SetPoint(@[n])]]
    BY <1>6 DEF G!SetAreaSample
  <2>2. G!SetAreaSample(area).data = [n \in DOMAIN area.data |-> G!SetPoint(area.data[n])]
    BY <1>2, <2>1
  <2>. QED
    BY <1>1, <1>3, <1>4, <1>6, <2>2 DEF area
<1>7. CASE area.type # 2
  <2> DEFINE first == [area.data EXCEPT ![1] = G!SetPoint(area.data[1])]
  <2>1. G!SetAreaSample(area) = [area EXCEPT !.data = first]
    <3>1. area.type \in {0, 1, 3, 4} /\ area.data # <<>>
      BY <1>4, <1>5, <1>7
    <3>2. G!SetAreaSample(area) = [area EXCEPT !.data[1] = G!SetPoint(@)]
      BY <3>1 DEF G!SetAreaSample
    <3>. QED
      BY <3>2
  <2>2. G!SetAreaSample(area).data = first
    <3>. HIDE DEF first
    <3>. QED
      BY <1>2, <2>1
  <2>. QED
    BY <1>1, <1>3, <1>4, <1>7, <2>2 DEF area
<1>. QED
  BY <1>6, <1>7

(* The messages are made from what the bridge holds.                        *)
LEMMA MessagesOK ==
  ASSUME BInv,
         \/ \E goal \in G_Goals : G!Setpoint(goal)
         \/ \E task \in G_Tasks : G!Multitask(task) \/ G!PathTask(task) \/ G!Returntask(task)
         \/ \E d \in {1} : G!Targetpose(d)
  PROVE  BInv'
<1> USE DEF BInv
<1>1. UNCHANGED <<drone, origin, fix, world, local, dif, heard, aligned, current>>
  BY DEF G!Setpoint, G!Multitask, G!PathTask, G!Returntask, G!Targetpose, G!Says, G!frame
<1>2. BridgeType' /\ Vectors'
  BY <1>1 DEF BridgeType, Vectors
<1>3. ASSUME NEW goal \in G_Goals, G!Setpoint(goal) PROVE Places'
  <2>1. said' = [topic |-> "setpoint", at |-> G!Minus(goal, dif), goal |-> goal]
    BY <1>3 DEF G!Setpoint
  <2>2. /\ said'.topic = "setpoint" /\ said'.at = G!Minus(goal, dif) /\ said'.goal = goal
    BY <2>1
  <2>3. goal \in Point /\ G_Home \in Point /\ origin \in Point
    BY BridgeAssumption DEF Point, BridgeType
  <2>4. aligned => G!Plus(goal, origin) = G!Plus(G!Minus(goal, dif), G_Home)
    <3> SUFFICES ASSUME aligned
                 PROVE  G!Plus(goal, origin) = G!Plus(G!Minus(goal, G!Minus(G_Home, origin)), G_Home)
      BY DEF Vectors
    <3>. QED
      BY <2>3, PointsAdd
  <2>. QED
    BY <1>1, <2>2, <2>4
    DEF Places, G!SetpointReachesGoal, G!OdomIsLastFix, G!TasksKeepPlaces, G!LocalToGlobal
<1>4. ASSUME NEW task \in G_Tasks, G!Multitask(task) PROVE Places'
  <2>1. said' = [topic |-> "multitask", task |-> G!InWorld(task), from |-> task]
    BY <1>4 DEF G!Multitask, G!Says
  <2>2. said'.topic = "multitask" /\ said'.task = G!InWorld(task) /\ said'.from = task
    BY <2>1
  <2>3. origin \in Point
    BY DEF BridgeType
  <2>4. G!TasksKeepPlaces'
    <3> SUFFICES ASSUME NEW i \in DOMAIN task.areas, NEW k \in DOMAIN task.areas[i].data
                 PROVE  G!InWorld(task).areas[i].data[k] =
                          IF task.areas[i].type = 2 \/ k = 1
                          THEN task.areas[i].data[k] - origin.x ELSE task.areas[i].data[k]
      BY <1>1, <2>2 DEF G!TasksKeepPlaces
    <3>. QED
      BY <2>3, TaskInWorld
  <2>. QED
    BY <2>2, <2>4 DEF Places, G!SetpointReachesGoal, G!OdomIsLastFix
<1>5. ASSUME NEW task \in G_Tasks, G!PathTask(task) PROVE Places'
  <2>1. said' = [topic |-> "path", path |-> G!SetWaypointList(task.path), from |-> task.path]
    BY <1>5 DEF G!PathTask, G!Says
  <2>2. said'.topic = "path" /\ said'.path = G!SetWaypointList(task.path) /\ said'.from = task.path
    BY <2>1
  <2>3. task.path \in Seq(Int) /\ origin.x \in Int
    BY BridgeAssumption DEF BridgeType, Point
  <2>4. \A i \in DOMAIN task.path : G!SetWaypointList(task.path)[i] = task.path[i] - origin.x
    BY DEF G!SetWaypointList, G!SetPoint, G!LocalCoordinates, G!Minus
  <2>5. \A i \in DOMAIN task.path : task.path[i] - origin.x + origin.x = task.path[i]
    BY <2>3
  <2>. QED
    BY <1>1, <2>2, <2>4, <2>5 DEF Places, G!SetpointReachesGoal, G!OdomIsLastFix, G!TasksKeepPlaces
<1>6. ASSUME NEW task \in G_Tasks, G!Returntask(task) PROVE Places'
  <2>1. said'.topic \notin {"setpoint", "odom", "multitask", "path"}
    BY <1>6 DEF G!Returntask, G!Says
  <2>. QED
    BY <2>1 DEF Places, G!SetpointReachesGoal, G!OdomIsLastFix, G!TasksKeepPlaces
<1>7. ASSUME NEW d \in {1}, G!Targetpose(d) PROVE Places'
  <2>1. said'.topic \notin {"setpoint", "odom", "multitask", "path"}
    BY <1>7 DEF G!Targetpose, G!Says
  <2>. QED
    BY <2>1 DEF Places, G!SetpointReachesGoal, G!OdomIsLastFix, G!TasksKeepPlaces
<1>. QED
  BY <1>2, <1>3, <1>4, <1>5, <1>6, <1>7

(* Every step of the bridge keeps the invariant.                            *)
LEMMA BridgeOK == BInv /\ (G!Next \/ UNCHANGED G!vars) => BInv'
<1> SUFFICES ASSUME BInv, G!Next \/ UNCHANGED G!vars PROVE BInv'
  OBVIOUS
<1>1. CASE UNCHANGED G!vars
  BY <1>1
  DEF G!vars, BInv, BridgeType, Vectors, Places, G!SetpointReachesGoal, G!OdomIsLastFix,
      G!TasksKeepPlaces, G!LocalToGlobal
<1>2. CASE G!Next
  BY <1>2, FlightOK, ArmOK, OdomOK, MessagesOK DEF G!Next
<1>. QED
  BY <1>1, <1>2

(* The other machines never become the bridge.                              *)
LEMMA BridgeRuns ==
  /\ Init => (which = "bridge" => BInv)
  /\ (which = "bridge" => BInv) /\ [Next]_all => (which = "bridge" => BInv)'
<1>1. Init => (which = "bridge" => BInv)
  BY BridgeInitOK
  DEF Init, FireInit, WindowsInit, PublisherInit, DenoiseInit, RasterInit, ThetaInit, TrackingInit, CollisionInit,
      DisplayInit, BridgeInit
<1>2. ASSUME which = "bridge" => BInv, [Next]_all, which' = "bridge" PROVE BInv'
  <2>1. CASE UNCHANGED all
    <3>1. which' = which /\ UNCHANGED G!vars
      BY <2>1 DEF all, bridgeOnly, shared, G!vars
    <3>. QED
      BY <1>2, <3>1, BridgeOK
  <2>2. CASE Next
    <3>1. which = "bridge" /\ BridgeStep
      BY <1>2, <2>2
      DEF Next, FireStep, WindowsStep, PublisherStep, DenoiseStep, ThetaStep, TrackingStep, CollisionStep,
          DisplayStep, BridgeStep
    <3>. QED
      BY <1>2, <3>1, BridgeOK DEF BridgeStep
  <2>. QED
    BY <1>2, <2>1, <2>2
<1>. QED
  BY <1>1, <1>2

(* A setpoint leads to the goal from wherever the drone has moved, the      *)
(* odometry is at the last global position, and the areas and the path of a *)
(* task stay at their places (global2local.cpp:344).                        *)
THEOREM BridgeKeepsPlacesHolds == Spec => []BridgeKeepsPlaces
<1>1. (which = "bridge" => BInv) => BridgeKeepsPlaces
  BY DEF BInv, Places, BridgeKeepsPlaces
<1>. QED
  BY <1>1, BridgeRuns, PTL DEF Spec

-----------------------------------------------------------------------------
(* The publisher.  What was published is a grid of the place and cells of   *)
(* then; outside the part that changed since, and the cells that were reset *)
(* behind the publisher's back, it is what the master holds.                *)
Whole(g) == g = <<[origin |-> g[1].origin, cells |-> [c \in P!Cells |-> g[1].cells[c]]]>>

ChangesAreBounded ==
  published # <<>> =>
    /\ Whole(published)
    /\ ~wandered =>
         /\ published[1].origin = origin
         /\ \A c \in P!Cells : c \notin x0..xn - 1 /\ c \notin missed =>
              published[1].cells[c] = P!CostTranslation(master[c])

(* What a connected reader holds is what was published, before it is        *)
(* translated.                                                              *)
ReaderHeard ==
  heard =>
    /\ rawHere
    /\ published # <<>> /\ message # <<>>
    /\ published[1].origin = message[1].origin
    /\ \A c \in P!Cells : P!CostTranslation(message[1].cells[c]) = published[1].cells[c]

PInv ==
  /\ x0 \in Int /\ xn \in Int /\ origin \in Int /\ heard \in BOOLEAN /\ complete \in BOOLEAN /\ wandered \in BOOLEAN
  /\ rawHere \in BOOLEAN /\ here \in BOOLEAN
  /\ P!IncrementsSuffice /\ (complete => Whole(view))
  /\ ChangesAreBounded /\ ReaderHeard

LEMMA PublisherInitOK == P!Init => PInv
<1> SUFFICES ASSUME P!Init PROVE PInv
  OBVIOUS
<1>1. x0 \in Int /\ xn \in Int /\ origin \in Int
  BY PublisherAssumption DEF P!Init
<1>2. ~heard /\ ~complete /\ published = <<>>
  BY DEF P!Init
<1>. QED
  BY <1>1, <1>2 DEF P!Init, PInv, P!IncrementsSuffice, ChangesAreBounded, ReaderHeard

(* An update of the master grid widens the part that changed.               *)
LEMMA UpdateMapOK ==
  ASSUME PInv, NEW lo \in Int, NEW hi \in Int, NEW cost, NEW to \in Int,
         P!UpdateMap(lo, hi, cost, to)
  PROVE  PInv'
<1> USE DEF PInv
<1>1. UNCHANGED <<here, rawHere, message, heard, published, view, complete, missed>>
  BY DEF P!UpdateMap, P!reader
<1>2. x0' \in Int /\ xn' \in Int /\ origin' \in Int /\ wandered' \in BOOLEAN
  BY DEF P!UpdateMap, P!UpdateBounds, P!Least, P!Greatest
<1>3. ChangesAreBounded'
  <2>1. CASE to # origin
    BY <1>1, <2>1 DEF P!UpdateMap, ChangesAreBounded, Whole
  <2>2. CASE to = origin
    <3>1. origin' = origin /\ wandered' = wandered
      BY <2>2 DEF P!UpdateMap
    <3>2. \A c \in P!Cells : c \notin x0'..xn' - 1 => c \notin x0..xn - 1 /\ c \notin lo..hi - 1
      BY DEF P!UpdateMap, P!UpdateBounds, P!Least, P!Greatest, P!Cells
    <3>3. \A c \in P!Cells : c \notin lo..hi - 1 => master'[c] = master[c]
      <4>1. \A c \in P!Cells : c + to - origin = c
        BY <2>2 DEF P!Cells
      <4>. QED
        BY <4>1 DEF P!UpdateMap
    <3>. QED
      BY <1>1, <3>1, <3>2, <3>3 DEF ChangesAreBounded, Whole
  <2>. QED
    BY <2>1, <2>2
<1>. QED
  BY <1>1, <1>2, <1>3 DEF P!IncrementsSuffice, ReaderHeard, Whole

(* A reset of the master goes missing wherever no part is to be published.  *)
LEMMA ResetMasterOK == ASSUME PInv, P!ResetMaster PROVE PInv'
<1> USE DEF PInv
<1>1. /\ missed' = missed \cup (P!Cells \ x0..xn - 1)
      /\ UNCHANGED <<origin, x0, xn, here, rawHere, message, heard, published, view, complete, wandered>>
  BY DEF P!ResetMaster, P!reader
<1>2. ChangesAreBounded'
  BY <1>1 DEF ChangesAreBounded, Whole
<1>3. P!IncrementsSuffice'
  BY <1>1 DEF P!IncrementsSuffice
<1>. QED
  BY <1>1, <1>2, <1>3 DEF ReaderHeard, Whole

(* A publication: a whole grid makes the view what is published; and so     *)
(* does the part that changed, when nothing else did.                       *)
LEMMA PublishOK == ASSUME PInv, P!PublishCostmap PROVE PInv'
<1> USE DEF PInv
<1> DEFINE now == <<[origin |-> origin, cells |-> P!Translated]>>
<1>1. /\ published' = now /\ wandered' = FALSE /\ x0' = P_Width /\ xn' = 0 /\ heard' = rawHere
      /\ UNCHANGED <<master, origin, here, rawHere, copy>>
  BY DEF P!PublishCostmap
<1>2. /\ x0' \in Int /\ xn' \in Int /\ origin' \in Int /\ heard' \in BOOLEAN /\ wandered' \in BOOLEAN
      /\ rawHere' \in BOOLEAN /\ here' \in BOOLEAN /\ complete' \in BOOLEAN
  <2>1. complete' \in BOOLEAN
    BY Zenon DEF P!PublishCostmap
  <2>2. x0' \in Int /\ xn' \in Int /\ origin' \in Int
    BY <1>1, PublisherAssumption
  <2>3. heard' \in BOOLEAN /\ wandered' \in BOOLEAN /\ rawHere' \in BOOLEAN /\ here' \in BOOLEAN
    <3>1. rawHere \in BOOLEAN /\ here \in BOOLEAN
      OBVIOUS
    <3>. QED
      BY <1>1, <3>1, Zenon
  <2>. QED
    BY <2>1, <2>2, <2>3
<1>3. now # <<>> /\ now[1].origin = origin /\ now[1].cells = P!Translated
  OBVIOUS
<1>4. \A c \in P!Cells : P!Translated[c] = P!CostTranslation(master[c])
  BY DEF P!Translated
<1>5. ChangesAreBounded'
  <2>1. P!Translated = [c \in P!Cells |-> P!Translated[c]]
    BY DEF P!Translated
  <2>2. Whole(now)
    BY <1>3, <2>1 DEF Whole
  <2>. HIDE DEF now
  <2>. QED
    BY <1>1, <1>3, <1>4, <2>2 DEF ChangesAreBounded
<1>6. ReaderHeard'
  <2> SUFFICES ASSUME rawHere PROVE ReaderHeard'
    BY <1>1 DEF ReaderHeard
  <2>1. message' = <<[origin |-> origin, cells |-> master]>>
    BY DEF P!PublishCostmap, P!PublishRaw, P!PrepareCostmap
  <2>2. message' # <<>> /\ message'[1].origin = origin /\ message'[1].cells = master
    BY <2>1
  <2>. HIDE DEF now
  <2>. QED
    BY <1>1, <1>3, <1>4, <2>2 DEF ReaderHeard
<1>7. complete' => /\ view' = <<[origin |-> origin, cells |-> [c \in P!Cells |-> view'[1].cells[c]]]>>
                   /\ \A c \in P!Cells \ missed' : view'[1].cells[c] = P!Translated[c]
  <2> SUFFICES ASSUME complete'
               PROVE  /\ view' = <<[origin |-> origin, cells |-> [c \in P!Cells |-> view'[1].cells[c]]]>>
                      /\ \A c \in P!Cells \ missed' : view'[1].cells[c] = P!Translated[c]
    OBVIOUS
  <2>1. here /\ (P!PlaceIsNew \/ (complete /\ ~wandered))
    BY DEF P!PublishCostmap, P!PlaceIsNew
  <2>2. CASE P!PlaceIsNew
    <3>1. view' = now
      BY <2>1, <2>2 DEF P!PublishCostmap, P!PublishGrid
    <3>2. P!Translated = [c \in P!Cells |-> P!Translated[c]] /\ view'[1].cells = P!Translated
      BY <3>1 DEF P!Translated
    <3>. QED
      BY <3>1, <3>2
  <2>3. CASE ~P!PlaceIsNew
    <3>1. complete /\ ~wandered
      BY <2>1, <2>3
    <3>2. /\ view # <<>> /\ published # <<>> /\ view[1].origin = published[1].origin
          /\ \A c \in P!Cells \ missed : view[1].cells[c] = published[1].cells[c]
      BY <3>1 DEF P!IncrementsSuffice
    <3>3. /\ Whole(view) /\ view[1].origin = origin
          /\ \A c \in P!Cells : c \notin x0..xn - 1 /\ c \notin missed => view[1].cells[c] = P!Translated[c]
      BY <1>4, <3>1, <3>2 DEF ChangesAreBounded
    <3>4. missed' = missed \ x0..xn - 1
      BY <2>1, <2>3 DEF P!PublishCostmap
    <3> DEFINE old == view[1].cells
    <3>5. view = <<[origin |-> origin, cells |-> [c \in P!Cells |-> old[c]]]>>
      BY <3>3 DEF Whole
    <3>6. CASE x0 < xn
      <4>1. update' = <<[x0 |-> x0, cells |-> [c \in x0..xn - 1 |-> P!Translated[c]]]>> /\ view' = P!Applied(view, update')
        BY <2>1, <2>3, <3>6 DEF P!PublishCostmap, P!PublishUpdate
      <4> DEFINE new == [c \in x0..xn - 1 |-> P!Translated[c]]
                 after == [c \in P!Cells |-> IF c \in DOMAIN new THEN new[c] ELSE old[c]]
      <4>2. update' # <<>> /\ update'[1].cells = new
        BY <4>1
      <4>3. view' = <<[view[1] EXCEPT !.cells = after]>>
        BY <3>2, <4>1, <4>2 DEF P!Applied
      <4>4. \A c \in P!Cells \ missed' : after[c] = P!Translated[c]
        BY <3>3, <3>4
      <4>5. after = [c \in P!Cells |-> after[c]]
        OBVIOUS
      <4>. HIDE DEF new, after
      <4>6. view[1] = [origin |-> origin, cells |-> old]
        BY <3>5
      <4>. HIDE DEF old
      <4>7. view' = <<[origin |-> origin, cells |-> after]>>
        BY <4>3, <4>6
      <4>8. view'[1].cells = after
        BY <4>7
      <4>. QED
        BY <4>4, <4>5, <4>7, <4>8
    <3>7. CASE x0 >= xn
      <4>1. view' = view
        BY <2>3, <3>7 DEF P!PublishCostmap
      <4>2. \A c \in P!Cells \ missed' : old[c] = P!Translated[c]
        BY <3>3, <3>4, <3>7
      <4>. QED
        BY <3>5, <4>1, <4>2
    <3>. QED
      BY <3>6, <3>7
  <2>. QED
    BY <2>2, <2>3
<1>. HIDE DEF now
<1>8. complete' => view' # <<>> /\ view'[1].origin = origin
  <2> SUFFICES ASSUME complete' PROVE view' # <<>> /\ view'[1].origin = origin
    OBVIOUS
  <2> DEFINE cells == [c \in P!Cells |-> view'[1].cells[c]]
  <2>1. view' = <<[origin |-> origin, cells |-> cells]>>
    BY <1>7
  <2>. HIDE DEF cells
  <2>. QED
    BY <2>1
<1>9. complete' => Whole(view')
  BY <1>7, <1>8, Zenon DEF Whole
<1>10. P!IncrementsSuffice'
  BY <1>1, <1>3, <1>7, <1>8 DEF P!IncrementsSuffice
<1>. QED
  BY <1>2, <1>5, <1>6, <1>9, <1>10 DEF Whole

(* Who comes or goes, and who reads, publishes nothing.                     *)
LEMMA ReadersOK ==
  ASSUME PInv, P!Come \/ P!Leave \/ P!CostmapCallback \/ P!GetCostmap
  PROVE  PInv'
<1> USE DEF PInv
<1>1. UNCHANGED <<master, origin, x0, xn, published, wandered, heard, missed>>
  BY DEF P!Come, P!Leave, P!CostmapCallback, P!GetCostmap, P!reader
<1>2. ChangesAreBounded'
  BY <1>1 DEF ChangesAreBounded, Whole
<1>3. CASE P!Come
  <2>1. complete' = (view' # <<>> /\ view' = published) /\ here' = TRUE /\ UNCHANGED <<rawHere, message>>
    BY <1>3 DEF P!Come, P!reader
  <2>2. complete' => Whole(view')
    BY <2>1 DEF ChangesAreBounded
  <2>3. P!IncrementsSuffice'
    BY <1>1, <2>1 DEF P!IncrementsSuffice
  <2>4. Whole(view)' <=> Whole(view')
    BY DEF Whole
  <2>. QED
    BY <1>1, <1>2, <2>1, <2>2, <2>3, <2>4 DEF ReaderHeard
<1>4. CASE P!Leave
  <2>1. complete' = FALSE /\ here' = FALSE /\ UNCHANGED <<rawHere, message>>
    BY <1>4 DEF P!Leave, P!reader
  <2>. QED
    BY <1>1, <1>2, <2>1 DEF P!IncrementsSuffice, ReaderHeard, Whole
<1>5. CASE P!CostmapCallback
  <2>1. ~rawHere /\ rawHere' = TRUE /\ UNCHANGED <<complete, view, here>>
    BY <1>5 DEF P!CostmapCallback
  <2>. QED
    BY <1>1, <1>2, <2>1 DEF P!IncrementsSuffice, ReaderHeard, Whole
<1>6. CASE P!GetCostmap
  <2>1. UNCHANGED <<complete, view, here, rawHere, message>>
    BY <1>6 DEF P!GetCostmap
  <2>. QED
    BY <1>1, <1>2, <2>1 DEF P!IncrementsSuffice, ReaderHeard, Whole
<1>. QED
  BY <1>3, <1>4, <1>5, <1>6

(* Every step keeps the invariant, and what a reader hands out is what was  *)
(* published when it last heard.                                            *)
LEMMA PublisherOK ==
  PInv /\ (P!Next \/ UNCHANGED P!vars) => PInv' /\ P!CopyIsPublishedStep
<1> SUFFICES ASSUME PInv, P!Next \/ UNCHANGED P!vars PROVE PInv' /\ P!CopyIsPublishedStep
  OBVIOUS
<1>1. CASE UNCHANGED P!vars
  BY <1>1
  DEF P!vars, P!topics, P!reader, PInv, P!IncrementsSuffice, ChangesAreBounded, Whole, ReaderHeard,
      P!CopyIsPublishedStep
<1>2. CASE P!Next
  <2>1. PInv'
    <3>1. ASSUME NEW lo \in 0..P_Width, NEW hi \in 0..P_Width, NEW cost \in P_Costs,
                 NEW to \in P_Origins, P!UpdateMap(lo, hi, cost, to)
          PROVE  PInv'
      BY <3>1, UpdateMapOK, PublisherAssumption
    <3>. QED
      BY <1>2, <3>1, ResetMasterOK, PublishOK, ReadersOK DEF P!Next
  <2>2. CASE P!GetCostmap
    BY <2>1, <2>2 DEF PInv, P!GetCostmap, P!ToCostmap2D, ReaderHeard, P!CopyIsPublishedStep
  <2>3. CASE copy' = copy
    BY <2>1, <2>3 DEF P!CopyIsPublishedStep
  <2>4. P!GetCostmap \/ copy' = copy
    BY <1>2 DEF P!Next, P!UpdateMap, P!ResetMaster, P!PublishCostmap, P!Come, P!Leave, P!CostmapCallback, P!reader
  <2>. QED
    BY <2>1, <2>2, <2>3, <2>4
<1>. QED
  BY <1>1, <1>2

(* The other machines never become the publisher.                           *)
LEMMA PublisherRuns ==
  /\ Init => (which = "publisher" => PInv)
  /\ (which = "publisher" => PInv) /\ [Next]_all =>
       (which = "publisher" => PInv)' /\ (which = "publisher" => P!IncrementsSuffice' /\ P!CopyIsPublishedStep)
<1>1. Init => (which = "publisher" => PInv)
  BY PublisherInitOK
  DEF Init, FireInit, WindowsInit, PublisherInit, DenoiseInit, RasterInit, ThetaInit, TrackingInit, CollisionInit,
      DisplayInit, BridgeInit
<1>2. [Next]_all => which' = which
  BY DEF Next, FireStep, WindowsStep, PublisherStep, DenoiseStep, ThetaStep, TrackingStep, CollisionStep,
         DisplayStep, BridgeStep, all
<1>3. ASSUME PInv, [Next]_all, which = "publisher" PROVE PInv' /\ P!CopyIsPublishedStep
  <2>1. CASE UNCHANGED all
    <3>1. UNCHANGED P!vars
      BY <2>1 DEF all, publisherOnly, shared, P!vars, P!topics, P!reader
    <3>. QED
      BY <1>3, <3>1, PublisherOK
  <2>2. CASE Next
    <3>1. P!Next
      BY <1>3, <2>2
      DEF Next, FireStep, WindowsStep, PublisherStep, DenoiseStep, ThetaStep, TrackingStep, CollisionStep,
          DisplayStep, BridgeStep
    <3>. QED
      BY <1>3, <3>1, PublisherOK
  <2>. QED
    BY <1>3, <2>1, <2>2
<1>4. PInv' => P!IncrementsSuffice'
  BY DEF PInv
<1>. QED
  BY <1>1, <1>2, <1>3, <1>4

(* Who got a whole grid goes on seeing what was published, except in cells  *)
(* that were cleared with the whole costmap and not published since, and    *)
(* the copy of a costmap subscriber is the costmap that was published last  *)
(* (costmap_2d_publisher.cpp:202, costmap_2d_ros.cpp:620,                   *)
(* costmap_subscriber.cpp:56).                                              *)
THEOREM ReadersSeePublishedHolds == Spec => ReadersSeePublished
  BY PublisherRuns, PTL DEF Spec, ReadersSeePublished

-----------------------------------------------------------------------------
(* The display.                                                             *)
Marker == [at : Y_Positions, color : {"green", "blue"}]

Arrow == Y_Positions \X Y_Positions

Spaced(p) == \A k \in 2..Len(p) : Y!Dist(p[k], p[k - 1]) > 1

DInv ==
  /\ waypoints \in Seq(Y_Positions) /\ pose \in Y_Positions /\ path \in Seq(Y_Positions)
  /\ shown \in Seq(Marker) /\ replaced \in Nat /\ Len(shown) <= replaced
  /\ pose \in visited /\ (\A k \in DOMAIN path : path[k] \in visited) /\ Spaced(path)
  /\ drawn \in Seq(Y_Positions) /\ longest \in Nat
  /\ drawn # <<>> => line.arrows \in Seq(Arrow)
  /\ Y!LineStays

(* What replaces the first of a sequence leaves the rest of it.             *)
LEMMA OnTopOK ==
  ASSUME NEW S, NEW new \in Seq(S), NEW old \in Seq(S)
  PROVE  /\ Y!OnTop(new, old) \in Seq(S)
         /\ SubSeq(Y!OnTop(new, old), 1, Len(new)) = new
         /\ Len(Y!OnTop(new, old)) = IF Len(new) > Len(old) THEN Len(new) ELSE Len(old)
<1> DEFINE rest == SubSeq(old, Len(new) + 1, Len(old))
           top == new \o rest
<1>1. Y!OnTop(new, old) = top
  BY DEF Y!OnTop
<1>2. /\ rest \in Seq(S)
      /\ Len(rest) = IF Len(new) + 1 <= Len(old) THEN Len(old) - Len(new) ELSE 0
  BY SubSeqProperties
<1>. HIDE DEF rest
<1>3. top \in Seq(S) /\ Len(top) = Len(new) + Len(rest)
  BY <1>2, ConcatProperties
<1>4. SubSeq(top, 1, Len(new)) = new
  BY <1>2, SubSeqOfConcat1, SubSeqFull
<1>5. Len(top) = IF Len(new) > Len(old) THEN Len(new) ELSE Len(old)
  BY <1>2, <1>3
<1>. HIDE DEF top
<1>. QED
  BY <1>1, <1>3, <1>4, <1>5, Zenon

(* The markers of a mission are on top of what is left of longer ones.      *)
LEMMA MarkersOnTop ==
  ASSUME NEW ws \in Seq(Y_Positions), NEW i, NEW old \in Seq(Marker)
  PROVE  /\ Y!PublishWaypointMarkers(ws, i, old) \in Seq(Marker)
         /\ SubSeq(Y!PublishWaypointMarkers(ws, i, old), 1, Len(ws)) = Y!WaypointMarkers(ws, i)
         /\ Len(Y!PublishWaypointMarkers(ws, i, old)) =
              IF ws = <<>> THEN 0 ELSE IF Len(ws) > Len(old) THEN Len(ws) ELSE Len(old)
<1> DEFINE mark == Y!WaypointMarkers(ws, i)
           top == Y!PublishWaypointMarkers(ws, i, old)
<1>1. mark = [k \in 1..Len(ws) |-> [at |-> ws[k], color |-> IF k = i + 1 THEN "green" ELSE "blue"]]
  BY DEF Y!WaypointMarkers
<1>2. \A k \in 1..Len(ws) : [at |-> ws[k], color |-> IF k = i + 1 THEN "green" ELSE "blue"] \in Marker
  BY DEF Marker
<1>3. mark \in Seq(Marker) /\ Len(mark) = Len(ws)
  <2>. HIDE DEF mark
  <2>. QED
    BY <1>1, <1>2
<1>4. CASE ws = <<>>
  <2>1. top = <<>>
    BY <1>4 DEF Y!PublishWaypointMarkers
  <2>2. mark = <<>>
    BY <1>3, <1>4
  <2>3. SubSeq(<<>>, 1, Len(<<>>)) = <<>> /\ Len(<<>>) = 0 /\ <<>> \in Seq(Marker)
    <3>1. <<>> \in Seq(Marker)
      BY EmptySeq
    <3>. QED
      BY <3>1, EmptySeq, SubSeqFull
  <2>. HIDE DEF mark, top
  <2>4. SubSeq(top, 1, Len(ws)) = mark
    BY <1>4, <2>1, <2>2, <2>3
  <2>. QED
    BY <1>4, <2>1, <2>3, <2>4 DEF mark, top
<1>5. CASE ws # <<>>
  <2>1. top = Y!OnTop(mark, old)
    BY <1>5 DEF Y!PublishWaypointMarkers
  <2>. HIDE DEF mark, top
  <2>2. /\ top \in Seq(Marker) /\ SubSeq(top, 1, Len(mark)) = mark
        /\ Len(top) = IF Len(mark) > Len(old) THEN Len(mark) ELSE Len(old)
    BY <1>3, <2>1, OnTopOK
  <2>. QED
    BY <1>3, <1>5, <2>2 DEF top, mark
<1>. QED
  BY <1>4, <1>5

(* The line and the arrows of a mission that has waypoints.                 *)
LEMMA LineOnTop ==
  ASSUME NEW ws \in Seq(Y_Positions), ws # <<>>, NEW under,
         under = <<>> \/ under.arrows \in Seq(Arrow)
  PROVE  LET after == Y!PublishPathMarkers(ws, FALSE, under)
         IN /\ after.points = ws /\ after.color = "gray" /\ after.arrows \in Seq(Arrow)
            /\ SubSeq(after.arrows, 1, Len(ws) - 1) = Y!Arrows(ws)
            /\ \/ Len(after.arrows) = Len(ws) - 1
               \/ under # <<>> /\ Len(after.arrows) = Len(under.arrows)
<1> DEFINE after == Y!PublishPathMarkers(ws, FALSE, under)
           arrows == Y!Arrows(ws)
           old == IF under = <<>> THEN <<>> ELSE under.arrows
           top == Y!OnTop(arrows, old)
<1>1. Len(ws) \in Nat \ {0}
  BY EmptySeq
<1>2. arrows = [k \in 1..Len(ws) - 1 |-> <<ws[k], ws[k + 1]>>]
  BY DEF Y!Arrows
<1>3. \A k \in 1..Len(ws) - 1 : <<ws[k], ws[k + 1]>> \in Arrow
  BY <1>1, ElementOfSeq DEF Arrow
<1>4. arrows \in Seq(Arrow) /\ Len(arrows) = Len(ws) - 1
  <2>. HIDE DEF arrows
  <2>. QED
    BY <1>1, <1>2, <1>3
<1>5. old \in Seq(Arrow) /\ (under = <<>> => Len(old) = 0)
  BY EmptySeq
<1>6. after = [points |-> ws, color |-> "gray", arrows |-> top]
  BY DEF Y!PublishPathMarkers
<1>. HIDE DEF arrows, old, top, after
<1>7. /\ top \in Seq(Arrow) /\ SubSeq(top, 1, Len(arrows)) = arrows
      /\ Len(top) = IF Len(arrows) > Len(old) THEN Len(arrows) ELSE Len(old)
  BY <1>4, <1>5, OnTopOK DEF top
<1>8. after.points = ws /\ after.color = "gray" /\ after.arrows = top
  BY <1>6
<1>9. \/ Len(top) = Len(ws) - 1
      \/ under # <<>> /\ Len(top) = Len(old) /\ old = under.arrows
  BY <1>1, <1>4, <1>5, <1>7 DEF old
<1>. QED
  BY <1>4, <1>7, <1>8, <1>9 DEF after, arrows

(* The path grows by where the robot is, when that is far enough.           *)
LEMMA PathGrows ==
  ASSUME Y_Positions \subseteq Int, NEW p \in Y_Positions, NEW old \in Seq(Y_Positions), Spaced(old)
  PROVE  LET after == Y!PublishActualPath(p, old)
         IN /\ after \in Seq(Y_Positions) /\ Spaced(after)
            /\ \A k \in DOMAIN after : after[k] = p \/ (k \in DOMAIN old /\ after[k] = old[k])
            /\ Y!Dist(after[Len(after)], p) <= 1
<1> DEFINE after == Y!PublishActualPath(p, old)
<1>1. CASE old = <<>> \/ Y!Dist(p, old[Len(old)]) > 1
  <2>1. after = Append(old, p)
    BY <1>1 DEF Y!PublishActualPath
  <2>2. /\ after \in Seq(Y_Positions) /\ Len(after) = Len(old) + 1
        /\ \A k \in 1..Len(old) : after[k] = old[k]
        /\ after[Len(old) + 1] = p
    BY <2>1, AppendProperties
  <2>. HIDE DEF after
  <2>3. Spaced(after)
    <3> SUFFICES ASSUME NEW k \in 2..Len(old) + 1 PROVE Y!Dist(after[k], after[k - 1]) > 1
      BY <2>2 DEF Spaced
    <3>1. CASE k \in 2..Len(old)
      <4>1. after[k] = old[k] /\ after[k - 1] = old[k - 1]
        BY <2>2, <3>1
      <4>. QED
        BY <3>1, <4>1 DEF Spaced
    <3>2. CASE k = Len(old) + 1
      <4>1. Len(old) \in 1..Len(old) /\ old # <<>>
        BY <3>2
      <4>2. after[k] = p /\ after[k - 1] = old[Len(old)]
        BY <2>2, <3>2, <4>1
      <4>. QED
        BY <1>1, <4>1, <4>2
    <3>. QED
      BY <3>1, <3>2
  <2>4. Y!Dist(after[Len(after)], p) <= 1
    BY <2>2 DEF Y!Dist
  <2>5. \A k \in DOMAIN after : after[k] = p \/ (k \in DOMAIN old /\ after[k] = old[k])
    BY <2>2
  <2>. QED
    BY <2>2, <2>3, <2>4, <2>5 DEF after
<1>2. CASE ~(old = <<>> \/ Y!Dist(p, old[Len(old)]) > 1)
  <2>1. after = old
    BY <1>2 DEF Y!PublishActualPath
  <2>2. old[Len(old)] \in Int
    <3>1. Len(old) \in 1..Len(old)
      BY <1>2
    <3>2. old[Len(old)] \in Y_Positions
      BY <3>1, ElementOfSeq
    <3>. QED
      BY <3>2
  <2>3. Y!Dist(old[Len(old)], p) <= 1
    BY <1>2, <2>2 DEF Y!Dist
  <2>. QED
    BY <2>1, <2>3
<1>. QED
  BY <1>1, <1>2

LEMMA DisplayInitOK == Y!Init => DInv
<1> SUFFICES ASSUME Y!Init PROVE DInv
  OBVIOUS
<1>1. waypoints = <<>> /\ path = <<>> /\ shown = <<>> /\ pose \in Y_Positions /\ replaced = 0 /\ visited = {pose}
  BY DEF Y!Init
<1>2. waypoints \in Seq(Y_Positions) /\ path \in Seq(Y_Positions) /\ shown \in Seq(Marker) /\ Len(<<>>) = 0
  BY <1>1, EmptySeq
<1>3. drawn = <<>> /\ drawn \in Seq(Y_Positions) /\ longest = 0 /\ line = <<>>
  BY EmptySeq DEF Y!Init
<1>. QED
  BY <1>1, <1>2, <1>3 DEF DInv, Spaced, Y!LineStays

(* A new mission and the odometry show nothing.                             *)
LEMMA InputsOK ==
  ASSUME DInv, (\E m \in Y_Missions : Y!GoalCallback(m)) \/ (\E p \in Y_Positions : Y!OdomCallback(p))
  PROVE  DInv' /\ UNCHANGED <<shown, published>>
<1>1. ASSUME NEW m \in Y_Missions, Y!GoalCallback(m) PROVE DInv' /\ UNCHANGED <<shown, published>>
  <2>1. waypoints' \in Seq(Y_Positions) /\ UNCHANGED <<pose, path, shown, replaced, visited, published, line, drawn, longest>>
    BY <1>1, DisplayAssumption DEF Y!GoalCallback, Y!lines
  <2>. QED
    BY <2>1 DEF DInv, Spaced, Y!LineStays
<1>2. ASSUME NEW p \in Y_Positions, Y!OdomCallback(p) PROVE DInv' /\ UNCHANGED <<shown, published>>
  <2>1. /\ pose' = p /\ visited' = visited \cup {p}
        /\ UNCHANGED <<waypoints, path, shown, replaced, published, line, drawn, longest>>
    BY <1>2 DEF Y!OdomCallback, Y!lines
  <2>. QED
    BY <2>1 DEF DInv, Spaced, Y!LineStays
<1>. QED
  BY <1>1, <1>2

(* A turn of the control loop shows the mission and the path.               *)
LEMMA TickOK ==
  ASSUME DInv, Y!Tick
  PROVE  DInv' /\ Y!OnlyLongerLeftStep /\ Y!PathIsGoneStep
<1> USE DEF DInv
<1>1. pose' = pose
  BY DEF Y!Tick
<1>2. waypoints' = waypoints \/ waypoints' = <<>>
  BY DEF Y!Tick, Y!ResetNavigator
<1>3. waypoints' \in Seq(Y_Positions)
  BY <1>2, EmptySeq
<1>4. /\ shown' = Y!PublishWaypointMarkers(waypoints', index', shown) /\ published' = path'
      /\ replaced' = IF waypoints' = <<>> THEN 0 ELSE IF Len(waypoints') > replaced THEN Len(waypoints') ELSE replaced
      /\ line' = Y!PublishPathMarkers(waypoints', FALSE, line)
      /\ drawn' = IF waypoints' = <<>> THEN drawn ELSE waypoints'
      /\ longest' = IF Len(waypoints') > longest THEN Len(waypoints') ELSE longest
  BY DEF Y!Tick, Y!Publish, Y!Longer
<1>5. /\ shown' \in Seq(Marker) /\ SubSeq(shown', 1, Len(waypoints')) = Y!WaypointMarkers(waypoints', index')
      /\ Len(shown') = IF waypoints' = <<>> THEN 0 ELSE IF Len(waypoints') > Len(shown) THEN Len(waypoints') ELSE Len(shown)
  <2>1. PICK ws \in Seq(Y_Positions) : ws = waypoints'
    BY <1>3
  <2>2. PICK i : i = index'
    OBVIOUS
  <2>. QED
    BY <1>4, <2>1, <2>2, MarkersOnTop
<1>6. replaced' \in Nat /\ Len(shown') <= replaced'
  BY <1>3, <1>4, <1>5
<1>7. PICK old \in Seq(Y_Positions) :
        /\ path' = Y!PublishActualPath(pose, old) /\ Spaced(old)
        /\ \A k \in DOMAIN old : old[k] \in visited'
        /\ pose \in visited'
  <2>1. CASE completed
    <3>1. path' = Y!PublishActualPath(pose, <<>>) /\ visited' = {pose}
      BY <2>1 DEF Y!Tick, Y!ResetNavigator
    <3>2. <<>> \in Seq(Y_Positions) /\ Spaced(<<>>) /\ DOMAIN <<>> = {}
      BY EmptySeq DEF Spaced
    <3>. QED
      BY <3>1, <3>2
  <2>2. CASE ~completed
    <3>1. path' = Y!PublishActualPath(pose, path) /\ visited' = visited
      BY <2>2 DEF Y!Tick
    <3>. QED
      BY <3>1
  <2>. QED
    BY <2>1, <2>2
<1>8. /\ path' \in Seq(Y_Positions) /\ Spaced(path')
      /\ \A k \in DOMAIN path' : path'[k] = pose \/ (k \in DOMAIN old /\ path'[k] = old[k])
      /\ Y!Dist(path'[Len(path')], pose) <= 1
  BY <1>7, PathGrows, DisplayAssumption
<1>9. \A k \in DOMAIN path' : path'[k] \in visited'
  BY <1>7, <1>8
<1>10. /\ drawn' \in Seq(Y_Positions) /\ longest' \in Nat
       /\ (drawn' # <<>> => line'.arrows \in Seq(Arrow)) /\ Y!LineStays'
  <2>1. drawn' \in Seq(Y_Positions) /\ longest' \in Nat /\ longest' >= longest /\ longest' >= Len(waypoints')
    BY <1>3, <1>4
  <2>2. CASE waypoints' = <<>>
    <3>1. drawn' = drawn /\ line' = line
      BY <1>4, <2>2 DEF Y!PublishPathMarkers
    <3>2. drawn # <<>> => Len(line.arrows) \in Int
      OBVIOUS
    <3>. QED
      BY <2>1, <3>1, <3>2 DEF Y!LineStays
  <2>3. CASE waypoints' # <<>>
    <3>1. line = <<>> \/ line.arrows \in Seq(Arrow)
      BY DEF Y!LineStays
    <3>2. line # <<>> => line.arrows \in Seq(Arrow) /\ Len(line.arrows) < longest
      BY DEF Y!LineStays
    <3>3. PICK ws \in Seq(Y_Positions) : ws = waypoints' /\ ws # <<>>
      BY <1>3, <2>3
    <3>4. drawn' = ws /\ line' = Y!PublishPathMarkers(ws, FALSE, line)
      BY <1>4, <2>3, <3>3
    <3>5. /\ line'.points = ws /\ line'.color = "gray" /\ line'.arrows \in Seq(Arrow)
          /\ SubSeq(line'.arrows, 1, Len(ws) - 1) = Y!Arrows(ws)
          /\ \/ Len(line'.arrows) = Len(ws) - 1
             \/ line # <<>> /\ Len(line'.arrows) = Len(line.arrows)
      <4> DEFINE under == line
                 new == Y!PublishPathMarkers(ws, FALSE, under)
      <4>1. under = <<>> \/ under.arrows \in Seq(Arrow)
        BY <3>1
      <4>. HIDE DEF under
      <4>2. /\ new.points = ws /\ new.color = "gray" /\ new.arrows \in Seq(Arrow)
            /\ SubSeq(new.arrows, 1, Len(ws) - 1) = Y!Arrows(ws)
            /\ \/ Len(new.arrows) = Len(ws) - 1
               \/ under # <<>> /\ Len(new.arrows) = Len(under.arrows)
        BY <3>3, <4>1, LineOnTop
      <4>. HIDE DEF new
      <4>3. line' = new /\ under = line
        BY <3>4 DEF new, under
      <4>. QED
        BY <4>2, <4>3
    <3>6. Len(line'.arrows) < longest'
      <4>1. Len(ws) \in Nat /\ Len(ws) <= longest' /\ longest <= longest' /\ longest' \in Nat /\ longest \in Nat
        BY <2>1, <3>3
      <4>2. CASE Len(line'.arrows) = Len(ws) - 1
        BY <4>1, <4>2
      <4>3. CASE line # <<>> /\ Len(line'.arrows) = Len(line.arrows)
        <5>1. Len(line.arrows) \in Nat /\ Len(line.arrows) < longest
          BY <3>2, <4>3
        <5>. QED
          BY <4>1, <4>3, <5>1
      <4>. QED
        BY <3>5, <4>2, <4>3, Zenon
    <3>7. Y!LineStays'
      BY <3>3, <3>4, <3>5, <3>6 DEF Y!LineStays, Y!Arrows
    <3>. QED
      BY <2>1, <3>3, <3>4, <3>5, <3>7
  <2>. QED
    BY <2>1, <2>2, <2>3
<1>13. DInv'
  BY <1>1, <1>3, <1>5, <1>6, <1>7, <1>8, <1>9, <1>10 DEF Spaced
<1>11. Y!OnlyLongerLeftStep
  BY <1>5, <1>6 DEF Y!OnlyLongerLeftStep
<1>12. Y!PathIsGoneStep
  BY <1>1, <1>4, <1>8, <1>9 DEF Y!PathIsGoneStep, Spaced
<1>. QED
  BY <1>11, <1>12, <1>13

(* Every step keeps the invariant and shows what the properties say.        *)
LEMMA DisplayOK ==
  DInv /\ (Y!Next \/ UNCHANGED Y!vars) => DInv' /\ Y!OnlyLongerLeftStep /\ Y!PathIsGoneStep
<1> SUFFICES ASSUME DInv, Y!Next \/ UNCHANGED Y!vars
             PROVE  DInv' /\ Y!OnlyLongerLeftStep /\ Y!PathIsGoneStep
  OBVIOUS
<1>1. UNCHANGED <<shown, published>> => Y!OnlyLongerLeftStep /\ Y!PathIsGoneStep
  BY DEF Y!OnlyLongerLeftStep, Y!PathIsGoneStep
<1>2. CASE UNCHANGED Y!vars
  BY <1>1, <1>2 DEF Y!vars, Y!lines, Y!bounds, DInv, Spaced, Y!LineStays
<1>3. CASE Y!Tick
  BY <1>3, TickOK
<1>4. CASE (\E m \in Y_Missions : Y!GoalCallback(m)) \/ (\E p \in Y_Positions : Y!OdomCallback(p))
  BY <1>1, <1>4, InputsOK
<1>. QED
  BY <1>2, <1>3, <1>4 DEF Y!Next

(* The other machines never become the display.                             *)
LEMMA DisplayRuns ==
  /\ Init => (which = "display" => DInv)
  /\ (which = "display" => DInv) /\ [Next]_all =>
       /\ (which = "display" => DInv)'
       /\ which = "display" => Y!OnlyLongerLeftStep /\ Y!LineStays' /\ Y!PathIsGoneStep
<1>1. Init => (which = "display" => DInv)
  BY DisplayInitOK
  DEF Init, FireInit, WindowsInit, PublisherInit, DenoiseInit, RasterInit, ThetaInit, TrackingInit, CollisionInit,
      DisplayInit, BridgeInit
<1>2. [Next]_all => which' = which
  BY DEF Next, FireStep, WindowsStep, PublisherStep, DenoiseStep, ThetaStep, TrackingStep, CollisionStep,
         DisplayStep, BridgeStep, all
<1>3. ASSUME DInv, [Next]_all, which = "display"
      PROVE  DInv' /\ Y!OnlyLongerLeftStep /\ Y!PathIsGoneStep
  <2>1. CASE UNCHANGED all
    <3>1. UNCHANGED Y!vars
      BY <2>1 DEF all, displayOnly, shared, Y!vars, Y!lines, Y!bounds
    <3>. QED
      BY <1>3, <3>1, DisplayOK
  <2>2. CASE Next
    <3>1. Y!Next
      BY <1>3, <2>2
      DEF Next, FireStep, WindowsStep, PublisherStep, DenoiseStep, ThetaStep, TrackingStep, CollisionStep,
          DisplayStep, BridgeStep
    <3>. QED
      BY <1>3, <3>1, DisplayOK
  <2>. QED
    BY <1>3, <2>1, <2>2
<1>4. DInv' => Y!LineStays'
  BY DEF DInv
<1>. QED
  BY <1>1, <1>2, <1>3, <1>4

(* The markers left over from a mission are those of a longer one that was  *)
(* replaced; the line and the arrows go on showing the last mission, those  *)
(* of a completed one too, and arrows of longer ones before it; and the     *)
(* path that is shown is one the robot has gone since the last mission was  *)
(* completed (nav_waypoint_node.cpp:289, nav_core.cpp:397).                 *)
THEOREM DisplayFollowsHolds == Spec => DisplayFollows
  BY DisplayRuns, PTL DEF Spec, DisplayFollows

-----------------------------------------------------------------------------
(* The windows.  A position is in the cell that its quotient names.         *)
Grid == [origin : Int, res : Nat \ {0}, cells : Seq(0..255)]

LEMMA DivisionBounds ==
  ASSUME NEW a \in Int, NEW b \in Nat \ {0}
  PROVE  a \div b \in Int /\ b * (a \div b) <= a /\ a < b * (a \div b) + b
  OBVIOUS

(* A product of a positive number bounds its other factor.                  *)
LEMMA FactorBounds ==
  ASSUME NEW b \in Nat \ {0}, NEW i \in Int, NEW j \in Int
  PROVE  /\ b * i < b * j => i < j
         /\ i <= j => b * i <= b * j
         /\ b * (j + 1) = b * j + b
  OBVIOUS

LEMMA Products ==
  ASSUME NEW i \in Int, NEW j \in Int
  PROVE  i * j \in Int /\ i * j = j * i
  OBVIOUS

LEMMA Distributes ==
  ASSUME NEW i \in Int, NEW j \in Int, NEW d \in Int
  PROVE  (i + j) * d = d * i + d * j
  OBVIOUS

LEMMA QuotientBounds ==
  ASSUME NEW a \in Int, NEW b \in Nat \ {0}
  PROVE  /\ W!Quotient(a, b) \in Int
         /\ a >= 0 => /\ b * W!Quotient(a, b) <= a /\ a < b * W!Quotient(a, b) + b
                      /\ W!Quotient(a, b) >= 0
         /\ a < 0 => W!Quotient(a, b) <= 0
<1>1. CASE a >= 0
  <2>1. W!Quotient(a, b) = a \div b
    BY <1>1 DEF W!Quotient
  <2>2. a < b * ((a \div b) + 1) /\ b * 0 <= a
    BY <1>1, DivisionBounds, FactorBounds
  <2>3. a \div b >= 0
    <3>1. b * 0 < b * ((a \div b) + 1)
      BY <2>2, DivisionBounds
    <3>. QED
      BY <3>1, DivisionBounds, FactorBounds
  <2>. QED
    BY <1>1, <2>1, <2>3, DivisionBounds
<1>2. CASE a < 0
  <2>1. W!Quotient(a, b) = -((-a) \div b)
    BY <1>2 DEF W!Quotient
  <2>2. (-a) \div b \in Int /\ -a < b * (((-a) \div b) + 1)
    BY DivisionBounds, FactorBounds
  <2>3. b * 0 < b * (((-a) \div b) + 1)
    BY <1>2, <2>2
  <2>4. 0 < ((-a) \div b) + 1
    BY <2>2, <2>3, FactorBounds
  <2>. QED
    BY <1>2, <2>1, <2>2, <2>4
<1>. QED
  BY <1>1, <1>2

(* A position of a map is in one of its cells.                              *)
LEMMA CellOfPlace ==
  ASSUME NEW m \in Grid, NEW w \in Int, W!InMap(m, w)
  PROVE  LET i == W!WorldToMapNoBounds(m, w)
         IN /\ i \in 0..Len(m.cells) - 1
            /\ m.origin + m.res * i <= w /\ w < m.origin + m.res * i + m.res
            /\ W!CostOf(m, i) \in 0..255
<1> DEFINE i == W!WorldToMapNoBounds(m, w)
<1>1. m.origin \in Int /\ m.res \in Nat \ {0} /\ m.cells \in Seq(0..255)
  BY DEF Grid
<1>2. w - m.origin \in Int /\ w - m.origin >= 0 /\ i = W!Quotient(w - m.origin, m.res) /\ i < Len(m.cells)
  BY <1>1 DEF W!InMap, W!WorldToMapNoBounds, W!Size
<1>3. i \in Int /\ i >= 0 /\ m.res * i <= w - m.origin /\ w - m.origin < m.res * i + m.res
  BY <1>1, <1>2, QuotientBounds
<1> HIDE DEF i
<1>4. i \in 0..Len(m.cells) - 1 /\ i + 1 \in 1..Len(m.cells)
  BY <1>1, <1>2, <1>3
<1>5. m.cells[i + 1] \in 0..255
  BY <1>1, <1>4, ElementOfSeq
<1>6. m.res * i \in Int
  BY <1>1, <1>3
<1>7. m.origin + m.res * i <= w /\ w < m.origin + m.res * i + m.res
  BY <1>1, <1>3, <1>6
<1>. QED
  BY <1>4, <1>5, <1>7 DEF i, W!CostOf

(* What lies before the end of a cell is not in a later cell, and what lies *)
(* at its end or behind is.                                                 *)
LEMMA QuotientBelow ==
  ASSUME NEW a \in Int, NEW b \in Nat \ {0}, NEW i \in Nat, a < b * i + b
  PROVE  W!Quotient(a, b) \in Int /\ W!Quotient(a, b) <= i
<1> DEFINE n == W!Quotient(a, b)
<1>1. n \in Int
  BY QuotientBounds
<1>2. CASE a < 0
  <2>1. n <= 0
    BY <1>2, QuotientBounds
  <2> HIDE DEF n
  <2>2. n <= i
    BY <1>1, <2>1
  <2>. QED
    BY <1>1, <2>2 DEF n
<1>3. CASE a >= 0
  <2>1. b * n <= a
    BY <1>3, QuotientBounds
  <2> HIDE DEF n
  <2>2. b * n \in Int /\ b * i \in Int /\ b * (i + 1) = b * i + b
    BY <1>1
  <2>3. b * n < b * (i + 1)
    BY <2>1, <2>2
  <2>4. n < i + 1
    BY <1>1, <2>3, FactorBounds
  <2>5. n <= i
    BY <1>1, <2>4
  <2>. QED
    BY <1>1, <2>5 DEF n
<1>. QED
  BY <1>2, <1>3

LEMMA QuotientAbove ==
  ASSUME NEW a \in Int, NEW b \in Nat \ {0}, NEW i \in Nat, b * i + b <= a
  PROVE  W!Quotient(a, b) \in Int /\ i < W!Quotient(a, b)
<1> DEFINE n == W!Quotient(a, b)
<1>1. b * i \in Int /\ b * i >= 0
  OBVIOUS
<1>2. a >= 0
  BY <1>1
<1>3. n \in Int /\ a < b * n + b
  BY <1>2, QuotientBounds
<1> HIDE DEF n
<1>4. b * n \in Int /\ b * (i + 1) = b * i + b /\ b * (n + 1) = b * n + b
  BY <1>3
<1>5. b * (i + 1) < b * (n + 1)
  BY <1>1, <1>3, <1>4
<1>6. i + 1 < n + 1
  BY <1>3, <1>5, FactorBounds
<1>7. i < n
  BY <1>3, <1>6
<1>. QED
  BY <1>3, <1>7 DEF n

(* A cell well inside the mask is in the overlap that is visited.           *)
LEMMA WellInsideVisited ==
  ASSUME NEW m \in Grid, NEW k \in Grid, NEW lo \in Nat, NEW hi \in Int, NEW i \in lo..hi - 1,
         W!WellInside(m, k, i)
  PROVE  i \in W!Overlap(m, k, lo, hi)
<1> DEFINE o == m.origin
           r == m.res
           h == m.res \div 2
           a == k.origin + k.res \div 2
           b == k.origin + W!Size(k) * k.res + k.res \div 2
           from == W!WorldToMapNoBounds(m, a)
           to == W!WorldToMapNoBounds(m, b)
<1>1. o \in Int /\ r \in Nat \ {0} /\ k.origin \in Int /\ k.res \in Nat \ {0} /\ W!Size(k) \in Nat
  BY DEF Grid, W!Size
<1>2. h \in Int /\ h < r
  BY <1>1
<1>3. a \in Int /\ b \in Int
  <2>1. \A n \in Nat, d \in Nat : n * d \in Int /\ d \div 2 \in Int
    OBVIOUS
  <2>2. W!Size(k) * k.res \in Int /\ k.res \div 2 \in Int
    BY <1>1, <2>1
  <2>. QED
    BY <1>1, <2>2
<1>4. o + i * r + h >= a /\ o + (i + 1) * r <= b
  BY DEF W!WellInside, W!MapToWorld
<1>5. from = W!Quotient(a - o, r) /\ to = W!Quotient(b - o, r)
  BY DEF W!WorldToMapNoBounds
<1>6. W!Overlap(m, k, lo, hi) =
        IF from >= hi \/ to <= lo THEN {} ELSE W!Greatest(lo, from)..W!Least(hi, to) - 1
  BY DEF W!Overlap
<1> HIDE DEF o, r, h, a, b, from, to
<1>7. i \in Nat /\ r * i \in Int /\ i * r = r * i /\ (i + 1) * r = r * i + r
  BY <1>1
<1>8. a - o \in Int /\ b - o \in Int /\ a - o < r * i + r /\ r * i + r <= b - o
  BY <1>1, <1>2, <1>3, <1>4, <1>7
<1>9. from \in Int /\ from <= i /\ to \in Int /\ i < to
  BY <1>1, <1>5, <1>7, <1>8, QuotientBelow, QuotientAbove
<1>. QED
  BY <1>6, <1>9 DEF W!Greatest, W!Least

(* The filter raises a cost, and knows what was unknown.                    *)
LEMMA MaskedAtLeast ==
  ASSUME NEW old \in 0..255, NEW cost \in 0..255, cost # 255
  PROVE  W!Masked(old, cost) # 255 /\ W!Masked(old, cost) >= cost
  BY DEF W!Masked, W!NoInformation

(* The middle of a cell is a position.                                      *)
LEMMA MiddleIsPlace ==
  ASSUME NEW m \in Grid, NEW i \in Int
  PROVE  W!MapToWorld(m, i) \in Int
<1>1. m.origin \in Int /\ m.res \in Nat
  BY DEF Grid
<1>2. \A o \in Int, d \in Nat : o + i * d + d \div 2 \in Int
  OBVIOUS
<1>. QED
  BY <1>1, <1>2 DEF W!MapToWorld

(* What the mask says, the master costs after the filter.                   *)
LEMMA KeepoutKept ==
  ASSUME NEW m \in Grid, NEW k \in Grid, NEW shift \in Int, NEW sameFrame \in BOOLEAN,
         NEW lo \in Nat, NEW hi \in Int, hi <= W!Size(m), NEW i \in lo..hi - 1,
         W!InMap(k, W!MapToWorld(m, i) + shift), sameFrame => W!WellInside(m, k, i),
         W!CostOf(k, W!WorldToMapNoBounds(k, W!MapToWorld(m, i) + shift)) # W!NoInformation
  PROVE  LET after == W!CostOf(W!Keepout(m, k, shift, sameFrame, lo, hi), i)
         IN /\ after # W!NoInformation
            /\ after >= W!CostOf(k, W!WorldToMapNoBounds(k, W!MapToWorld(m, i) + shift))
<1> DEFINE w == W!MapToWorld(m, i) + shift
           data == W!CostOf(k, W!WorldToMapNoBounds(k, w))
           within == IF sameFrame THEN W!Overlap(m, k, lo, hi) ELSE lo..hi - 1
<1>1. m.origin \in Int /\ m.res \in Nat \ {0} /\ m.cells \in Seq(0..255)
  BY DEF Grid
<1>2. w \in Int
  BY MiddleIsPlace
<1>3. data \in 0..255
  BY <1>2, CellOfPlace
<1>4. i \in within
  BY WellInsideVisited
<1>5. i + 1 \in 1..Len(m.cells) /\ (i + 1) - 1 = i
  BY <1>1 DEF W!Size
<1>6. m.cells[i + 1] \in 0..255
  BY <1>1, <1>5, ElementOfSeq
<1>7. W!CostOf(W!Keepout(m, k, shift, sameFrame, lo, hi), i) = W!Masked(m.cells[i + 1], data)
  <2>1. DOMAIN m.cells = 1..Len(m.cells)
    BY <1>1
  <2> DEFINE cells == [n \in DOMAIN m.cells |->
                         IF n - 1 \in within /\ W!InMap(k, W!MapToWorld(m, n - 1) + shift)
                         THEN W!Masked(m.cells[n], W!CostOf(k, W!WorldToMapNoBounds(k, W!MapToWorld(m, n - 1) + shift)))
                         ELSE m.cells[n]]
  <2>2. W!Keepout(m, k, shift, sameFrame, lo, hi) = [m EXCEPT !.cells = cells]
    BY DEF W!Keepout
  <2>3. [m EXCEPT !.cells = cells].cells = cells
    BY DEF Grid
  <2>4. cells[i + 1] = W!Masked(m.cells[i + 1], data)
    BY <1>4, <1>5, <2>1
  <2>. QED
    BY <2>2, <2>3, <2>4 DEF W!CostOf
<1> HIDE DEF data
<1>8. W!Masked(m.cells[i + 1], data) # 255 /\ W!Masked(m.cells[i + 1], data) >= data
  <2>1. data # 255
    BY DEF data, W!NoInformation
  <2>. QED
    BY <1>3, <1>6, <2>1, MaskedAtLeast
<1>. QED
  BY <1>7, <1>8 DEF data, W!NoInformation

(* A cell of the window is the cell of the map a corner's quotient ahead.   *)
LEMMA WindowKept ==
  ASSUME NEW m \in Grid, NEW from \in Int, NEW to \in Int,
         NEW i \in 0..W!Size(W!CopyCostmapWindow(m, from, to)) - 1
  PROVE  LET r == W!CopyCostmapWindow(m, from, to)
         IN \E j \in 0..W!Size(m) - 1 :
              /\ W!MapToWorld(m, j) <= W!MapToWorld(r, i)
              /\ W!MapToWorld(r, i) < W!MapToWorld(m, j) + m.res
              /\ W!CostOf(m, j) = W!CostOf(r, i)
<1> DEFINE r == W!CopyCostmapWindow(m, from, to)
           first == W!WorldToMapNoBounds(m, from)
           end == W!WorldToMapNoBounds(m, to)
           part == SubSeq(m.cells, first + 1, end)
<1>1. m.origin \in Int /\ m.res \in Nat \ {0} /\ m.cells \in Seq(0..255)
  BY DEF Grid
<1>2. W!InMap(m, from) /\ W!InMap(m, to)
  <2>1. SUFFICES ASSUME ~(W!InMap(m, from) /\ W!InMap(m, to)) PROVE FALSE
    OBVIOUS
  <2>2. r = [m EXCEPT !.cells = <<>>]
    BY <2>1 DEF W!CopyCostmapWindow
  <2>3. [m EXCEPT !.cells = <<>>].cells = <<>>
    BY DEF Grid
  <2>. QED
    BY <2>2, <2>3 DEF W!Size
<1>3. r = [origin |-> from, res |-> m.res, cells |-> part]
  BY <1>2 DEF W!CopyCostmapWindow
<1>4. /\ first \in 0..Len(m.cells) - 1 /\ end \in 0..Len(m.cells) - 1
      /\ m.origin + m.res * first <= from /\ from < m.origin + m.res * first + m.res
  BY <1>2, CellOfPlace
<1> HIDE DEF first, end
<1>5. part \in Seq(0..255) /\ Len(part) = (IF first + 1 <= end THEN end - first ELSE 0)
      /\ \A n \in 1..Len(part) : part[n] = m.cells[first + n]
  <2>1. first \in Int /\ end \in Int /\ first + 1 \in Int /\ (first + 1) + 0 >= 1 /\ end <= Len(m.cells)
    BY <1>1, <1>4
  <2>2. \A n \in first + 1..end : m.cells[n] \in 0..255
    <3>1. \A n \in first + 1..end : n \in 1..Len(m.cells)
      BY <1>1, <2>1
    <3>. QED
      BY <1>1, <3>1, ElementOfSeq
  <2>3. /\ part \in Seq(0..255) /\ Len(part) = IF first + 1 <= end THEN end - (first + 1) + 1 ELSE 0
        /\ \A n \in 1..end - (first + 1) + 1 : part[n] = m.cells[(first + 1) + n - 1]
    BY <2>1, <2>2, SubSeqProperties
  <2> HIDE DEF part
  <2>4. Len(part) = (IF first + 1 <= end THEN end - first ELSE 0)
    BY <2>1, <2>3
  <2>5. \A n \in 1..Len(part) : n \in 1..end - (first + 1) + 1 /\ (first + 1) + n - 1 = first + n
    BY <2>1, <2>4
  <2>. QED
    BY <2>3, <2>4, <2>5
<1> HIDE DEF part
<1>6. i \in Nat /\ i < Len(part) /\ i + 1 \in 1..Len(part) /\ first + i \in 0..Len(m.cells) - 1
  BY <1>1, <1>3, <1>4, <1>5 DEF W!Size
<1>7. W!CostOf(m, first + i) = W!CostOf(r, i)
  <2>1. r.cells[i + 1] = part[i + 1]
    BY <1>3
  <2>2. first + (i + 1) = (first + i) + 1
    BY <1>4, <1>6
  <2>. QED
    BY <1>5, <1>6, <2>1, <2>2 DEF W!CostOf
<1>8. /\ W!MapToWorld(m, first + i) = m.origin + (m.res * first + m.res * i) + m.res \div 2
      /\ W!MapToWorld(r, i) = from + m.res * i + m.res \div 2
  <2>1. (first + i) * m.res = m.res * first + m.res * i /\ i * m.res = m.res * i
    <3>1. first \in Int /\ i \in Int /\ m.res \in Int
      BY <1>1, <1>4, <1>6
    <3>. QED
      BY <3>1, Products, Distributes
  <2>2. r.origin = from /\ r.res = m.res
    BY <1>3
  <2>. QED
    BY <2>1, <2>2 DEF W!MapToWorld
<1>9. m.res * first \in Int /\ m.res * i \in Int /\ m.res \div 2 \in Int
  <2>1. first \in Int /\ i \in Int /\ m.res \in Int
    BY <1>1, <1>4, <1>6
  <2>2. m.res \div 2 \in Int
    BY <2>1
  <2>. QED
    BY <2>1, <2>2, Products
<1>10. /\ W!MapToWorld(m, first + i) <= W!MapToWorld(r, i)
       /\ W!MapToWorld(r, i) < W!MapToWorld(m, first + i) + m.res
  <2> DEFINE o == m.origin
             s == m.res * first
             t == m.res * i
             h == m.res \div 2
             d == m.res
  <2>1. o \in Int /\ s \in Int /\ t \in Int /\ h \in Int /\ d \in Int
    BY <1>1, <1>9
  <2>2. o + s <= from /\ from < o + s + d
    BY <1>4
  <2>3. W!MapToWorld(m, first + i) = o + (s + t) + h /\ W!MapToWorld(r, i) = from + t + h
    BY <1>8
  <2> HIDE DEF o, s, t, h, d, r
  <2>4. o + (s + t) + h <= from + t + h /\ from + t + h < o + (s + t) + h + d
    BY <2>1, <2>2
  <2>. QED
    BY <2>3, <2>4 DEF d, r
<1>. QED
  BY <1>6, <1>7, <1>10 DEF W!Size

(* Costs on their way out and back.                                         *)
LEMMA CostsExchanged ==
  ASSUME NEW c \in 0..254
  PROVE  LET there == W!FromOccupancy(W!CostTranslation(c))
             next == W!FromOccupancy(W!CostTranslation(c + 1))
         IN /\ (c = 0) <=> (there = 0)
            /\ (c = W!Lethal) <=> (there = W!Lethal)
            /\ (c + 1 = W!NoInformation) <=> (next = W!NoInformation)
            /\ there <= next
<1> DEFINE Value(n) == W!CostTranslation(n)
           Cost(v) == W!FromOccupancy(v)
<1>1. /\ Value(0) = 0 /\ Value(253) = 99 /\ Value(254) = 100 /\ Value(255) = -1
      /\ \A n \in 1..252 : Value(n) = 1 + (97 * (n - 1)) \div 251
  BY DEF W!CostTranslation, W!Lethal, W!NoInformation, W!OccGridUnknown
<1>2. /\ \A n \in 1..252 : Value(n) \in 1..98
      /\ \A n \in 1..251 : Value(n) <= Value(n + 1)
  <2>1. \A n \in 0..251 : (97 * n) \div 251 \in 0..97
    OBVIOUS
  <2>2. \A n \in 0..250 : (97 * n) \div 251 <= (97 * (n + 1)) \div 251
    OBVIOUS
  <2>. QED
    BY <1>1, <2>1, <2>2
<1>3. /\ Cost(-1) = 255 /\ Cost(0) = 0 /\ Cost(100) = 254
      /\ \A v \in 1..99 : Cost(v) \in 1..253
      /\ \A v, u \in 0..100 : v <= u => Cost(v) <= Cost(u)
  <2>1. \A v \in 0..100 : Cost(v) = (508 * v + 100) \div 200
    BY DEF W!FromOccupancy, W!OccGridUnknown, W!Lethal
  <2>2. Cost(-1) = 255
    BY DEF W!FromOccupancy, W!OccGridUnknown, W!NoInformation
  <2>3. \A v, u \in 0..100 : v <= u => (508 * v + 100) \div 200 <= (508 * u + 100) \div 200
    OBVIOUS
  <2>4. \A v \in 1..99 : (508 * v + 100) \div 200 \in 1..253
    OBVIOUS
  <2>. QED
    BY <2>1, <2>2, <2>3, <2>4
<1> HIDE DEF Value, Cost
<1>4. CASE c = 0
  <2>1. Value(1) \in 1..98
    BY <1>2
  <2>. QED
    BY <1>1, <1>3, <1>4, <2>1 DEF Value, Cost, W!Lethal, W!NoInformation
<1>5. CASE c \in 1..251
  <2>1. c + 1 \in 1..252 /\ c \in 1..252 /\ c + 1 # 255 /\ c # 254 /\ c # 0
    BY <1>5
  <2>2. Value(c) \in 1..98 /\ Value(c + 1) \in 1..98 /\ Value(c) <= Value(c + 1)
    BY <1>2, <1>5, <2>1
  <2>3. Value(c) \in 1..99 /\ Value(c + 1) \in 1..99 /\ Value(c) \in 0..100 /\ Value(c + 1) \in 0..100
    BY <2>2
  <2>4. /\ Cost(Value(c)) \in 1..253 /\ Cost(Value(c + 1)) \in 1..253
        /\ Cost(Value(c)) <= Cost(Value(c + 1))
    <3>1. \A v \in 1..99 : Cost(v) \in 1..253
      BY <1>3
    <3>2. \A v, u \in 0..100 : v <= u => Cost(v) <= Cost(u)
      BY <1>3
    <3>3. Cost(Value(c)) \in 1..253 /\ Cost(Value(c + 1)) \in 1..253
      BY <2>3, <3>1
    <3>. QED
      BY <2>2, <2>3, <3>2, <3>3
  <2>5. /\ Cost(Value(c)) # 0 /\ Cost(Value(c)) # 254 /\ Cost(Value(c + 1)) # 255
    BY <2>4
  <2>. QED
    BY <2>1, <2>4, <2>5 DEF Value, Cost, W!Lethal, W!NoInformation
<1>6. CASE c = 252
  <2>1. Value(252) \in 1..98 /\ Value(252 + 1) = 99
    BY <1>1, <1>2
  <2>2. Value(252) \in 1..99 /\ Value(252) <= 99 /\ Value(252) \in 0..100
    BY <2>1
  <2>3. Cost(Value(252)) \in 1..253 /\ Cost(99) \in 1..253 /\ Cost(Value(252)) <= Cost(99)
    <3>1. \A v \in 1..99 : Cost(v) \in 1..253
      BY <1>3
    <3>2. \A v, u \in 0..100 : v <= u => Cost(v) <= Cost(u)
      BY <1>3
    <3>3. Cost(Value(252)) \in 1..253 /\ Cost(99) \in 1..253 /\ 99 \in 0..100
      BY <2>2, <3>1
    <3>. QED
      BY <2>2, <3>2, <3>3
  <2>4. Cost(Value(252)) # 0 /\ Cost(Value(252)) # 254 /\ Cost(Value(252 + 1)) # 255
    BY <2>1, <2>3
  <2>. QED
    BY <1>6, <2>1, <2>3, <2>4 DEF Value, Cost, W!Lethal, W!NoInformation
<1>7. CASE c = 253
  <2>1. Value(253) = 99 /\ Value(253 + 1) = 100
    BY <1>1
  <2>2. Cost(99) \in 1..253 /\ Cost(100) = 254
    BY <1>3
  <2>3. Cost(99) # 0 /\ Cost(99) # 254 /\ Cost(100) # 255 /\ Cost(99) <= Cost(100)
    BY <2>2
  <2>. QED
    BY <1>7, <2>1, <2>3 DEF Value, Cost, W!Lethal, W!NoInformation
<1>8. CASE c = 254
  <2>1. Value(254) = 100 /\ Value(254 + 1) = -1
    BY <1>1
  <2>2. Cost(100) = 254 /\ Cost(-1) = 255
    BY <1>3
  <2>. QED
    BY <1>8, <2>1, <2>2 DEF Value, Cost, W!Lethal, W!NoInformation
<1>. QED
  BY <1>4, <1>5, <1>6, <1>7, <1>8

(* What is asked for is a job of its kind, with maps, places and costs.     *)
Jobs == W!KeepoutJobs \cup W!WindowJobs \cup W!CostJobs

WInv == job \in Jobs /\ W!KeepoutHolds /\ W!WindowKeepsPlace /\ W!ExchangeKeepsClasses

LEMMA KeepoutJob ==
  ASSUME job \in Jobs, job.kind = "keepout"
  PROVE  /\ job.master \in Grid /\ job.mask \in Grid /\ job.shift \in Int /\ job.sameFrame \in BOOLEAN
         /\ job.lo \in Nat /\ job.hi \in Int /\ job.hi <= W!Size(job.master)
<1>1. job \in W!KeepoutJobs
  <2>1. job \notin W!WindowJobs
    BY DEF W!WindowJobs
  <2>2. job \notin W!CostJobs
    BY DEF W!CostJobs
  <2>. QED
    BY <2>1, <2>2 DEF Jobs
<1>2. PICK m \in W_Masters :
        job \in [kind : {"keepout"}, master : {m}, mask : W_Masks, shift : W_Shifts, sameFrame : BOOLEAN,
                 lo : 0..W!Size(m), hi : 0..W!Size(m)]
  BY <1>1 DEF W!KeepoutJobs
<1>3. job.master = m /\ job.mask \in W_Masks /\ job.shift \in W_Shifts /\ job.sameFrame \in BOOLEAN
      /\ job.lo \in 0..W!Size(m) /\ job.hi \in 0..W!Size(m)
  BY <1>2
<1>4. m \in Grid /\ job.mask \in Grid /\ job.shift \in Int
  BY <1>3, WindowsAssumption DEF Grid
<1>5. W!Size(m) \in Nat
  BY <1>4 DEF Grid, W!Size
<1>. QED
  BY <1>3, <1>4, <1>5

LEMMA WindowJob ==
  ASSUME job \in Jobs, job.kind = "window"
  PROVE  job.map \in Grid /\ job.from \in Int /\ job.to \in Int
<1>1. job \in W!WindowJobs
  <2>1. job \notin W!KeepoutJobs
    BY DEF W!KeepoutJobs
  <2>2. job \notin W!CostJobs
    BY DEF W!CostJobs
  <2>. QED
    BY <2>1, <2>2 DEF Jobs
<1>2. PICK m \in W_Masters, r \in W_Regions : job = [kind |-> "window", map |-> m, from |-> r[1], to |-> r[2]]
  BY <1>1 DEF W!WindowJobs
<1>3. m \in Grid /\ r \in Int \X Int
  BY WindowsAssumption DEF Grid
<1>. QED
  BY <1>2, <1>3

LEMMA CostJob ==
  ASSUME job \in Jobs, job.kind = "cost"
  PROVE  job.cost \in 0..254 /\ job.next = job.cost + 1
<1>1. job \in W!CostJobs
  <2>1. job \notin W!KeepoutJobs
    BY DEF W!KeepoutJobs
  <2>2. job \notin W!WindowJobs
    BY DEF W!WindowJobs
  <2>. QED
    BY <2>1, <2>2 DEF Jobs
<1>. QED
  BY <1>1 DEF W!CostJobs

LEMMA WindowsOK == WInv /\ (W!Next \/ UNCHANGED W!vars) => WInv'
<1> SUFFICES ASSUME WInv, W!Next \/ UNCHANGED W!vars PROVE WInv'
  OBVIOUS
<1> USE DEF W!KeepoutHolds, W!WindowKeepsPlace, W!ExchangeKeepsClasses
<1>1. CASE UNCHANGED W!vars
  BY <1>1 DEF W!vars, WInv
<1>2. CASE W!Process
  <2>1. /\ job' = job /\ job \in Jobs /\ job.kind = "keepout"
        /\ result' = <<W!Keepout(job.master, job.mask, job.shift, job.sameFrame, job.lo, job.hi)>>
    BY <1>2 DEF W!Process, WInv
  <2>2. W!KeepoutHolds'
    <3>1. result'[1] = W!Keepout(job.master, job.mask, job.shift, job.sameFrame, job.lo, job.hi)
      BY <2>1
    <3>2. SUFFICES ASSUME NEW i \in job.lo..job.hi - 1,
                          W!InMap(job.mask, W!MapToWorld(job.master, i) + job.shift),
                          job.sameFrame => W!WellInside(job.master, job.mask, i),
                          W!CostOf(job.mask, W!WorldToMapNoBounds(job.mask, W!MapToWorld(job.master, i) + job.shift))
                            # W!NoInformation
                   PROVE  /\ W!CostOf(result'[1], i) # W!NoInformation
                          /\ W!CostOf(result'[1], i) >=
                               W!CostOf(job.mask, W!WorldToMapNoBounds(job.mask, W!MapToWorld(job.master, i) + job.shift))
      BY <2>1
    <3>. QED
      BY <2>1, <3>1, <3>2, KeepoutJob, KeepoutKept
  <2>. QED
    BY <2>1, <2>2 DEF WInv
<1>3. CASE W!Window
  <2>1. /\ job' = job /\ job \in Jobs /\ job.kind = "window"
        /\ result' = <<W!CopyCostmapWindow(job.map, job.from, job.to)>>
    BY <1>3 DEF W!Window, WInv
  <2>2. W!WindowKeepsPlace'
    <3>1. result'[1] = W!CopyCostmapWindow(job.map, job.from, job.to)
      BY <2>1
    <3>2. job.map \in Grid /\ job.from \in Int /\ job.to \in Int
      BY <2>1, WindowJob
    <3>3. \A i \in 0..W!Size(result'[1]) - 1 :
            \E j \in 0..W!Size(job.map) - 1 :
              /\ W!MapToWorld(job.map, j) <= W!MapToWorld(result'[1], i)
              /\ W!MapToWorld(result'[1], i) < W!MapToWorld(job.map, j) + job.map.res
              /\ W!CostOf(job.map, j) = W!CostOf(result'[1], i)
      BY <3>1, <3>2, WindowKept
    <3>. QED
      BY <2>1, <3>3
  <2>. QED
    BY <2>1, <2>2 DEF WInv
<1>4. CASE W!Exchange
  <2>1. /\ job' = job /\ job \in Jobs /\ job.kind = "cost"
        /\ result' = <<W!FromOccupancy(W!CostTranslation(job.cost)), W!FromOccupancy(W!CostTranslation(job.next))>>
    BY <1>4 DEF W!Exchange, WInv
  <2>2. W!ExchangeKeepsClasses'
    <3>1. job.cost \in 0..254 /\ job.next = job.cost + 1
      BY <2>1, CostJob
    <3>2. /\ result'[1] = W!FromOccupancy(W!CostTranslation(job.cost))
          /\ result'[2] = W!FromOccupancy(W!CostTranslation(job.cost + 1))
      BY <2>1, <3>1
    <3>. QED
      BY <2>1, <3>1, <3>2, CostsExchanged
  <2>. QED
    BY <2>1, <2>2 DEF WInv
<1>. QED
  BY <1>1, <1>2, <1>3, <1>4 DEF W!Next

(* The other machines never become the windows.                             *)
LEMMA WindowsRuns ==
  /\ Init => (which = "windows" => WInv)
  /\ (which = "windows" => WInv) /\ [Next]_all => (which = "windows" => WInv)'
<1>1. Init => (which = "windows" => WInv)
  <2>1. W!Init => WInv
    BY DEF W!Init, WInv, Jobs, W!KeepoutHolds, W!WindowKeepsPlace, W!ExchangeKeepsClasses
  <2>. QED
    BY <2>1
    DEF Init, FireInit, WindowsInit, PublisherInit, DenoiseInit, RasterInit, ThetaInit, TrackingInit, CollisionInit,
        DisplayInit, BridgeInit
<1>2. ASSUME which = "windows" => WInv, [Next]_all, which' = "windows" PROVE WInv'
  <2>1. CASE UNCHANGED all
    <3>1. which' = which /\ UNCHANGED W!vars
      BY <2>1 DEF all, windowsOnly, shared, W!vars
    <3>. QED
      BY <1>2, <3>1, WindowsOK
  <2>2. CASE Next
    <3>1. which = "windows" /\ WindowsStep
      BY <1>2, <2>2
      DEF Next, FireStep, WindowsStep, PublisherStep, DenoiseStep, ThetaStep, TrackingStep, CollisionStep,
          DisplayStep, BridgeStep
    <3>. QED
      BY <1>2, <3>1, WindowsOK DEF WindowsStep
  <2>. QED
    BY <1>2, <2>1, <2>2
<1>. QED
  BY <1>1, <1>2

(* What is carried from one grid to another keeps its place and its class:  *)
(* the keepout mask, windows of a costmap, and costs that are published and *)
(* read, for grids of any sizes and resolutions (keepout_filter.cpp:214,    *)
(* costmap_2d.cpp:145, costmap_2d_publisher.cpp:87).                        *)
THEOREM PlacesKeepCostsHolds == Spec => []PlacesKeepCosts
<1>1. (which = "windows" => WInv) => PlacesKeepCosts
  BY DEF WInv, PlacesKeepCosts
<1>. QED
  BY <1>1, WindowsRuns, PTL DEF Spec
-----------------------------------------------------------------------------
(* A set of natural numbers has a least one.                                *)
LEMMA LeastExists ==
  ASSUME NEW good, good \subseteq Nat, good # {}
  PROVE  \E m \in good : \A k \in good : m <= k
<1>1. PICK m \in good : \A k \in good : ~(<<k, m>> \in OpToRel(<, Nat))
  BY NatLessThanWellFounded, WFMin
<1>2. ASSUME NEW k \in good PROVE m <= k
  <2>1. m \in Nat /\ k \in Nat /\ ~(<<k, m>> \in OpToRel(<, Nat))
    BY <1>1
  <2>2. ~(k < m)
    BY <2>1 DEF OpToRel
  <2>. QED
    BY <1>2, <2>2
<1>. QED
  BY <1>2

(* What holds of 0 and goes on holds of all.                                *)
LEMMA StepByStep ==
  ASSUME NEW n \in Nat, NEW good, 0 \in good, \A i \in 1..n : i - 1 \in good => i \in good
  PROVE  0..n \subseteq good
<1> DEFINE rest == (0..n) \ good
<1>1. SUFFICES ASSUME rest # {} PROVE FALSE
  OBVIOUS
<1>2. PICK m \in rest : \A k \in rest : m <= k
  <2>1. rest \subseteq Nat
    OBVIOUS
  <2> HIDE DEF rest
  <2>. QED
    BY <1>1, <2>1, LeastExists
<1>3. m \in 1..n /\ m - 1 \in 0..n
  BY <1>2
<1>4. m - 1 \in good
  BY <1>2, <1>3
<1>. QED
  BY <1>2, <1>3, <1>4

(* A recursion over 1..n with steps in S has a result there.                *)
StepsIn(S, n) == [(1..n) \X S -> S]

Follows(f, n, first, F) == f[0] = first /\ \A i \in 1..n : f[i] = F[<<i, f[i - 1]>>]

LEMMA RecursionExists ==
  ASSUME NEW n \in Nat, NEW S, NEW first \in S, NEW F \in StepsIn(S, n)
  PROVE  \E f \in [0..n -> S] : Follows(f, n, first, F)
<1> DEFINE Upto(f, k) == f[0] = first /\ \A i \in 1..k : f[i] = F[<<i, f[i - 1]>>]
           good == {k \in 0..n : \E f \in [0..k -> S] : Upto(f, k)}
<1>1. 0 \in good
  <2>1. [i \in 0..0 |-> first] \in [0..0 -> S] /\ Upto([i \in 0..0 |-> first], 0)
    OBVIOUS
  <2> HIDE DEF Upto
  <2>. QED
    BY <2>1
<1>2. ASSUME NEW k \in 1..n, k - 1 \in good PROVE k \in good
  <2>1. PICK f \in [0..k - 1 -> S] : Upto(f, k - 1)
    BY <1>2
  <2> DEFINE last == F[<<k, f[k - 1]>>]
             g == [i \in 0..k |-> IF i < k THEN f[i] ELSE last]
  <2>2. last \in S
    BY <2>1 DEF StepsIn
  <2>3. g \in [0..k -> S]
    <3>1. \A i \in 0..k : i < k => i \in 0..k - 1
      OBVIOUS
    <3> HIDE DEF last
    <3>. QED
      BY <2>1, <2>2, <3>1
  <2>4. g[0] = first /\ g[k] = last /\ \A i \in 0..k - 1 : g[i] = f[i]
    <3>1. 0 \in 0..k /\ 0 < k /\ k \in 0..k
      OBVIOUS
    <3> HIDE DEF last
    <3>. QED
      BY <2>1, <3>1
  <2>5. ASSUME NEW i \in 1..k PROVE g[i] = F[<<i, g[i - 1]>>]
    <3>1. i - 1 \in 0..k - 1 /\ (i = k \/ i \in 1..k - 1)
      OBVIOUS
    <3> HIDE DEF g
    <3>2. CASE i = k
      BY <2>4, <3>1, <3>2
    <3>3. CASE i \in 1..k - 1
      BY <2>1, <2>4, <3>1, <3>3
    <3>. QED
      BY <3>1, <3>2, <3>3
  <2>6. Upto(g, k)
    <3> HIDE DEF g
    <3>. QED
      BY <2>4, <2>5
  <2> HIDE DEF Upto, g
  <2>. QED
    BY <2>3, <2>6
<1>3. 0..n \subseteq good
  <2> HIDE DEF good
  <2>. QED
    BY <1>1, <1>2, StepByStep
<1>4. n \in good
  BY <1>3
<1>. QED
  BY <1>4 DEF Follows

(* A number between two squares has a root that is cut off.                 *)
LEMMA RootExists ==
  ASSUME NEW lo \in Nat, NEW hi \in Nat, NEW sq \in Nat, lo <= hi, lo * lo <= sq, sq < (hi + 1) * (hi + 1)
  PROVE  \E k \in lo..hi : k * k <= sq /\ sq < (k + 1) * (k + 1)
<1> SUFFICES ASSUME \A k \in lo..hi : k * k <= sq => (k + 1) * (k + 1) <= sq PROVE FALSE
  <2>1. \A k \in lo..hi : k * k \in Int /\ (k + 1) * (k + 1) \in Int
    BY Products
  <2>. QED
    BY <2>1
<1> DEFINE good == {i \in 0..hi - lo : (lo + i) * (lo + i) <= sq}
<1>1. 0 \in good
  OBVIOUS
<1>2. ASSUME NEW i \in 1..hi - lo, i - 1 \in good PROVE i \in good
  <2>1. lo + (i - 1) \in lo..hi /\ (lo + (i - 1)) + 1 = lo + i
    OBVIOUS
  <2>2. (lo + (i - 1)) * (lo + (i - 1)) <= sq
    BY <1>2
  <2>3. (lo + i) * (lo + i) <= sq
    BY <2>1, <2>2
  <2>. QED
    BY <2>3
<1>3. hi - lo \in good
  <2>1. hi - lo \in Nat /\ hi - lo \in 0..hi - lo
    OBVIOUS
  <2> HIDE DEF good
  <2>2. 0..hi - lo \subseteq good
    BY <1>1, <1>2, <2>1, StepByStep
  <2>. QED
    BY <2>1, <2>2
<1>4. hi * hi <= sq /\ hi \in lo..hi
  <2>1. (lo + (hi - lo)) * (lo + (hi - lo)) <= sq
    BY <1>3
  <2>2. lo + (hi - lo) = hi
    OBVIOUS
  <2>. QED
    BY <2>1, <2>2
<1>5. (hi + 1) * (hi + 1) <= sq
  BY <1>4
<1>6. (hi + 1) * (hi + 1) \in Int
  BY Products
<1>. QED
  BY <1>5, <1>6

(* The distance of two cells is a number, and the same both ways.           *)
LEMMA EuclideanOK ==
  ASSUME NEW p \in Int \X Int, NEW q \in Int \X Int
  PROVE  T!Euclidean(p, q) \in Nat /\ T!Euclidean(p, q) = T!Euclidean(q, p)
<1> DEFINE dx == T!AbsOf(p[1] - q[1])
           dy == T!AbsOf(p[2] - q[2])
           long == IF dx > dy THEN dx ELSE dy
           square == 10000 * (dx * dx + dy * dy)
<1>1. dx \in Nat /\ dy \in Nat /\ dx = T!AbsOf(q[1] - p[1]) /\ dy = T!AbsOf(q[2] - p[2])
  BY DEF T!AbsOf
<1>2. T!Euclidean(p, q) = CHOOSE k \in 100 * long..150 * long : k * k <= square /\ square < (k + 1) * (k + 1)
  BY DEF T!Euclidean
<1>3. T!Euclidean(q, p) = T!Euclidean(p, q)
  <2> DEFINE Root(a, b) ==
        LET l == IF a > b THEN a ELSE b
            s == 10000 * (a * a + b * b)
        IN CHOOSE k \in 100 * l..150 * l : k * k <= s /\ s < (k + 1) * (k + 1)
  <2>1. T!Euclidean(p, q) = Root(T!AbsOf(p[1] - q[1]), T!AbsOf(p[2] - q[2]))
    BY DEF T!Euclidean
  <2>2. T!Euclidean(q, p) = Root(T!AbsOf(q[1] - p[1]), T!AbsOf(q[2] - p[2]))
    BY DEF T!Euclidean
  <2> HIDE DEF Root
  <2>. QED
    BY <1>1, <2>1, <2>2
<1> HIDE DEF dx, dy
<1>4. long \in Nat /\ dx <= long /\ dy <= long /\ (long = dx \/ long = dy)
  BY <1>1
<1>5. /\ 100 * long \in Nat /\ 150 * long \in Nat /\ square \in Nat
      /\ (100 * long) * (100 * long) <= square
      /\ square < (150 * long + 1) * (150 * long + 1)
  <2>1. dx * dx \in Nat /\ dy * dy \in Nat /\ long * long \in Nat
    BY <1>1, <1>4
  <2>2. dx * dx <= long * long /\ dy * dy <= long * long
    <3>1. \A a, b \in Nat : a <= b => a * a <= b * b
      OBVIOUS
    <3>. QED
      BY <1>1, <1>4, <3>1
  <2>3. long * long = dx * dx \/ long * long = dy * dy
    BY <1>4
  <2>4. /\ (100 * long) * (100 * long) = 10000 * (long * long)
        /\ (150 * long + 1) * (150 * long + 1) = 22500 * (long * long) + 300 * long + 1
    <3>1. \A a \in Nat : /\ (100 * a) * (100 * a) = 10000 * (a * a)
                         /\ (150 * a + 1) * (150 * a + 1) = 22500 * (a * a) + 300 * a + 1
      OBVIOUS
    <3>. QED
      BY <1>4, <3>1
  <2> DEFINE xx == dx * dx
             yy == dy * dy
             ll == long * long
  <2>5. \A a, b, c, d \in Nat : a <= c /\ b <= c /\ (c = a \/ c = b) =>
          10000 * c <= 10000 * (a + b) /\ 10000 * (a + b) < 22500 * c + 300 * d + 1 /\ 10000 * (a + b) \in Nat
    OBVIOUS
  <2>6. square \in Nat /\ 10000 * ll <= square /\ square < 22500 * ll + 300 * long + 1
    <3>1. square = 10000 * (xx + yy)
      OBVIOUS
    <3>2. xx \in Nat /\ yy \in Nat /\ ll \in Nat /\ xx <= ll /\ yy <= ll /\ (ll = xx \/ ll = yy)
      BY <2>1, <2>2, <2>3
    <3> HIDE DEF xx, yy, ll, square, long
    <3>. QED
      BY <1>4, <2>5, <3>1, <3>2
  <2>7. 100 * long \in Nat /\ 150 * long \in Nat
    BY <1>4
  <2> HIDE DEF square, long
  <2>. QED
    BY <2>4, <2>6, <2>7 DEF ll
<1>6. \E k \in 100 * long..150 * long : k * k <= square /\ square < (k + 1) * (k + 1)
  <2> DEFINE lo == 100 * long
             hi == 150 * long
  <2>1. lo <= hi
    BY <1>4
  <2>2. lo \in Nat /\ hi \in Nat /\ square \in Nat /\ lo * lo <= square /\ square < (hi + 1) * (hi + 1)
    BY <1>5
  <2> HIDE DEF long, square, lo, hi
  <2>3. \E k \in lo..hi : k * k <= square /\ square < (k + 1) * (k + 1)
    BY <2>1, <2>2, RootExists
  <2>. QED
    BY <2>3 DEF lo, hi
<1>7. T!Euclidean(p, q) \in 100 * long..150 * long
  <2> HIDE DEF long, square
  <2>. QED
    BY <1>2, <1>6
<1>. QED
  BY <1>3, <1>5, <1>7

(* The line between two cells: along its axes it comes from one to the      *)
(* other.                                                                   *)
Rect(n, k) == (0..n) \X (0..k)

LEMMA AxesOK ==
  ASSUME NEW p \in Int \X Int, NEW q \in Int \X Int
  PROVE  LET a == T!Axes(p, q)
         IN /\ (a.i = 1 /\ a.j = 2) \/ (a.i = 2 /\ a.j = 1)
            /\ a.si \in {1, -1} /\ a.sj \in {1, -1}
            /\ a.major \in Nat /\ a.minor \in Nat /\ a.minor <= a.major
            /\ q[a.i] = p[a.i] + a.si * a.major /\ q[a.j] = p[a.j] + a.sj * a.minor
<1> DEFINE a == T!Axes(p, q)
           steep == T!AbsOf(q[1] - p[1]) < T!AbsOf(q[2] - p[2])
           i == IF steep THEN 2 ELSE 1
           j == 3 - i
<1>1. /\ a.i = i /\ a.j = j /\ a.major = T!AbsOf(q[i] - p[i]) /\ a.minor = T!AbsOf(q[j] - p[j])
      /\ a.si = (IF q[i] > p[i] THEN 1 ELSE -1) /\ a.sj = (IF q[j] > p[j] THEN 1 ELSE -1)
  BY DEF T!Axes
<1>2. (i = 1 /\ j = 2) \/ (i = 2 /\ j = 1)
  OBVIOUS
<1>3. p[i] \in Int /\ p[j] \in Int /\ q[i] \in Int /\ q[j] \in Int
  BY <1>2
<1>4. T!AbsOf(q[j] - p[j]) <= T!AbsOf(q[i] - p[i])
  <2>1. T!AbsOf(q[1] - p[1]) \in Int /\ T!AbsOf(q[2] - p[2]) \in Int
    BY DEF T!AbsOf
  <2>. QED
    BY <2>1
<1> HIDE DEF a, i, j
<1> DEFINE Way(u, v) == IF v > u THEN 1 ELSE -1
<1>5. \A u, v \in Int : T!AbsOf(v - u) \in Nat /\ v = u + Way(u, v) * T!AbsOf(v - u)
  BY DEF T!AbsOf
<1>6. /\ a.major \in Nat /\ q[i] = p[i] + a.si * a.major
      /\ a.minor \in Nat /\ q[j] = p[j] + a.sj * a.minor
  <2>1. a.si = Way(p[i], q[i]) /\ a.sj = Way(p[j], q[j])
    BY <1>1
  <2> HIDE DEF Way
  <2>2. T!AbsOf(q[i] - p[i]) \in Nat /\ q[i] = p[i] + Way(p[i], q[i]) * T!AbsOf(q[i] - p[i])
    BY <1>3, <1>5
  <2>3. T!AbsOf(q[j] - p[j]) \in Nat /\ q[j] = p[j] + Way(p[j], q[j]) * T!AbsOf(q[j] - p[j])
    BY <1>3, <1>5
  <2>. QED
    BY <1>1, <2>1, <2>2, <2>3, Zenon
<1>7. a.si \in {1, -1} /\ a.sj \in {1, -1} /\ a.minor <= a.major
  BY <1>1, <1>4
<1>. QED
  BY <1>1, <1>2, <1>6, <1>7 DEF a

(* What is passed on the way from one side of a row to the other is in it.  *)
LEMMA BetweenOK ==
  ASSUME NEW n \in Nat, NEW u \in 0..n, NEW v \in 0..n, NEW s \in {1, -1}, NEW d \in Nat, v = u + s * d,
         NEW t \in 0..d - 1
  PROVE  u + s * t + T!Behind(s) \in 0..n
<1>1. CASE s = 1
  BY <1>1 DEF T!Behind
<1>2. CASE s = -1
  BY <1>2 DEF T!Behind
<1>. QED
  BY <1>1, <1>2

LEMMA RemainderOf ==
  ASSUME NEW a \in Int, NEW b \in Nat \ {0}
  PROVE  a % b \in Int /\ a = b * (a \div b) + (a % b)
  OBVIOUS

(* A line changes rows at most as often as the rows are apart, the last     *)
(* time at its end.                                                         *)
LEMMA RowsOK ==
  ASSUME NEW major \in Nat, NEW minor \in Nat, minor > 0, NEW k \in 0..major - 1
  PROVE  /\ (k * minor) \div major \in 0..minor - 1
         /\ ((k + 1) * minor) % major # 0 => ((k + 1) * minor) \div major \in 0..minor - 1
<1> DEFINE now == k * minor
           next == (k + 1) * minor
           end == major * minor
           r == now \div major
           t == next \div major
<1>1. major \in Nat \ {0}
  OBVIOUS
<1>2. now \in Nat /\ next \in Nat /\ end \in Nat /\ now < end /\ next <= end
  <2>1. \A a, b, c \in Nat : b > 0 /\ a <= c => a * b \in Nat /\ a * b <= c * b /\ (a + 1) * b = a * b + b
    OBVIOUS
  <2>2. k \in Nat /\ k + 1 \in Nat /\ k + 1 <= major /\ k <= major
    OBVIOUS
  <2>3. now \in Nat /\ next \in Nat /\ end \in Nat /\ next = now + minor /\ next <= end
    BY <2>1, <2>2
  <2>. HIDE DEF now, next, end
  <2>. QED
    BY <2>3
<1>3. r \in Int /\ major * r <= now /\ now < major * r + major
  <2> HIDE DEF now
  <2>. QED
    BY <1>1, <1>2, DivisionBounds
<1>4. t \in Int /\ major * t <= next /\ next < major * t + major /\ next = major * t + (next % major) /\ next % major \in Int
  <2> HIDE DEF next
  <2>. QED
    BY <1>1, <1>2, DivisionBounds, RemainderOf
<1>5. r \in 0..minor - 1
  <2>1. major * r \in Int /\ major * r < major * minor
    <3>. HIDE DEF r, now
    <3>. QED
      BY <1>2, <1>3, Products
  <2>2. major * 0 < major * (r + 1)
    <3>1. major * (r + 1) = major * r + major
      BY <1>1, <1>3, FactorBounds
    <3> HIDE DEF r, now
    <3>. QED
      BY <1>2, <1>3, <3>1
  <2> HIDE DEF r
  <2>3. r < minor
    BY <1>1, <1>3, <2>1, FactorBounds
  <2>4. 0 < r + 1
    BY <1>1, <1>3, <2>2, FactorBounds
  <2>. QED
    BY <1>3, <2>3, <2>4
<1>6. ASSUME next % major # 0 PROVE t \in 0..minor - 1
  <2>1. major * t < major * minor
    <3>1. major * t \in Int /\ major * t <= end
      <4> HIDE DEF t, next, end
      <4>. QED
        BY <1>2, <1>4, Products
    <3>2. major * t # end
      <4> DEFINE m == next % major
                 mt == major * t
      <4>1. mt \in Int /\ m \in Int /\ next = mt + m /\ mt <= next /\ m # 0 /\ next <= end
        BY <1>2, <1>4, <1>6, <3>1
      <4> HIDE DEF m, mt, next, end
      <4>2. mt # end
        BY <1>2, <4>1
      <4>. QED
        BY <4>2 DEF mt
    <3>. QED
      BY <1>2, <3>1, <3>2
  <2>2. major * 0 < major * (t + 1)
    <3>1. major * (t + 1) = major * t + major
      BY <1>1, <1>4, FactorBounds
    <3> HIDE DEF t, next
    <3>. QED
      BY <1>2, <1>4, <3>1
  <2> HIDE DEF t
  <2>3. t < minor
    BY <1>1, <1>4, <2>1, FactorBounds
  <2>4. 0 < t + 1
    BY <1>1, <1>4, <2>2, FactorBounds
  <2>. QED
    BY <1>4, <2>3, <2>4
<1>. QED
  BY <1>5, <1>6

(* What the line of sight reads is in the costmap, or below its lowest row  *)
(* or column, beside an obstacle in it.                                     *)
AtEdge(c) ==
  \E i \in {1, 2} : c[i] = -1 /\ [c EXCEPT ![i] = 0] \in DOMAIN grid /\ ~T!IsSafe([c EXCEPT ![i] = 0])

LEMMA SeenInside ==
  ASSUME NEW n \in Nat, NEW m \in Nat, NEW p \in Rect(n, m), NEW q \in Rect(n, m),
         NEW k \in 0..T!Axes(p, q).major - 1, NEW row \in 0..T!Axes(p, q).minor - 1
  PROVE  T!Beside(T!Axes(p, q), p, k, row) \in Rect(n, m)
<1> DEFINE a == T!Axes(p, q)
           u == p[a.i] + a.si * k + T!Behind(a.si)
           v == p[a.j] + a.sj * row + T!Behind(a.sj)
           ni == IF a.i = 1 THEN n ELSE m
           nj == IF a.i = 1 THEN m ELSE n
<1>1. /\ (a.i = 1 /\ a.j = 2) \/ (a.i = 2 /\ a.j = 1)
      /\ a.si \in {1, -1} /\ a.sj \in {1, -1}
      /\ a.major \in Nat /\ a.minor \in Nat
      /\ q[a.i] = p[a.i] + a.si * a.major /\ q[a.j] = p[a.j] + a.sj * a.minor
  <2>1. p \in Int \X Int /\ q \in Int \X Int
    BY DEF Rect
  <2>. QED
    BY <2>1, AxesOK
<1>2. T!Beside(a, p, k, row) = T!Cell(a, u, v)
  BY DEF T!Beside
<1>3. k \in 0..a.major - 1 /\ row \in 0..a.minor - 1
  OBVIOUS
<1> HIDE DEF a
<1>4. /\ ni \in Nat /\ nj \in Nat /\ p[a.i] \in 0..ni /\ q[a.i] \in 0..ni /\ p[a.j] \in 0..nj /\ q[a.j] \in 0..nj
  BY <1>1 DEF Rect
<1>5. u \in 0..ni
  <2> HIDE DEF ni
  <2>. QED
    BY <1>1, <1>3, <1>4, BetweenOK
<1>6. v \in 0..nj
  <2> HIDE DEF nj
  <2>. QED
    BY <1>1, <1>3, <1>4, BetweenOK
<1>7. T!Cell(a, u, v) \in Rect(n, m)
  <2> HIDE DEF u, v
  <2>. QED
    BY <1>1, <1>5, <1>6 DEF T!Cell, Rect
<1>. QED
  BY <1>2, <1>7 DEF a

(* The two sides of a line along an axis.                                   *)
LEMMA SideAtEdge ==
  ASSUME NEW n \in Nat, NEW m \in Nat, grid \in [Rect(n, m) -> 0..255], NEW luck \in BOOLEAN,
         NEW u, NEW v, NEW i \in {1, 2},
         LET Side(j) == IF i = 1 THEN <<u, j>> ELSE <<j, u>>
         IN Side(v) \in Rect(n, m) /\ ~T!IsSafeInSight(Side(v), luck)
  PROVE  LET side == IF i = 1 THEN <<u, v - 1>> ELSE <<v - 1, u>>
         IN side \in Rect(n, m) \/ AtEdge(side)
<1> DEFINE Side(j) == IF i = 1 THEN <<u, j>> ELSE <<j, u>>
<1>1. Side(v) \in Rect(n, m) /\ ~T!IsSafeInSight(Side(v), luck)
  OBVIOUS
<1>2. v \in Nat /\ Side(v) \in DOMAIN grid /\ grid[Side(v)] \in 0..255
  BY <1>1 DEF Rect
<1>3. ~T!IsSafe(Side(v))
  <2>1. ~(grid[Side(v)] = T!UnknownCost) /\ ~(260 + 9 * grid[Side(v)] < 10 * T!LethalCost)
    BY <1>1, <1>2 DEF T!IsSafeInSight
  <2>2. ~T!IsSafeCost(grid[Side(v)])
    BY <1>2, <2>1 DEF T!IsSafeCost, T!UnknownCost, T!LethalCost
  <2>. QED
    BY <2>2 DEF T!IsSafe
<1>4. CASE v = 0
  <2>1. Side(v - 1)[3 - i] = -1 /\ [Side(v - 1) EXCEPT ![3 - i] = 0] = Side(v)
    <3>1. v - 1 = -1
      BY <1>4
    <3>2. [<<u, -1>> EXCEPT ![2] = 0] = <<u, 0>> /\ [<<-1, u>> EXCEPT ![1] = 0] = <<0, u>>
      OBVIOUS
    <3>3. CASE i = 1
      BY <1>4, <3>1, <3>2, <3>3
    <3>4. CASE i = 2
      BY <1>4, <3>1, <3>2, <3>4
    <3>. QED
      BY <3>3, <3>4
  <2>2. 3 - i \in {1, 2}
    OBVIOUS
  <2>3. AtEdge(Side(v - 1))
    <3> HIDE DEF Side
    <3>. QED
      BY <1>2, <1>3, <2>1, <2>2 DEF AtEdge
  <2>. QED
    BY <2>3
<1>5. CASE v # 0
  <2>1. Side(v - 1) \in Rect(n, m)
    BY <1>1, <1>2, <1>5 DEF Rect
  <2>. QED
    BY <2>1
<1>. QED
  BY <1>4, <1>5

LEMMA SeenAtEdge ==
  ASSUME NEW n \in Nat, NEW m \in Nat, grid \in [Rect(n, m) -> 0..255], NEW luck \in BOOLEAN,
         NEW p \in Rect(n, m), NEW q \in Rect(n, m), NEW k \in 0..T!Axes(p, q).major - 1,
         NEW c \in T!SeenBefore(T!Axes(p, q), p, k) \union T!SeenAfter(T!Axes(p, q), p, k, luck)
  PROVE  c \in DOMAIN grid \/ AtEdge(c)
<1> DEFINE a == T!Axes(p, q)
<1>1. /\ (a.i = 1 /\ a.j = 2) \/ (a.i = 2 /\ a.j = 1)
      /\ a.si \in {1, -1} /\ a.major \in Nat /\ a.minor \in Nat
      /\ q[a.i] = p[a.i] + a.si * a.major
  <2>1. p \in Int \X Int /\ q \in Int \X Int
    BY DEF Rect
  <2>. QED
    BY <2>1, AxesOK
<1>2. k \in 0..a.major - 1
  OBVIOUS
<1>3. DOMAIN grid = Rect(n, m)
  OBVIOUS
<1>4. CASE a.minor > 0
  <2>1. T!Row(a, k) \in 0..a.minor - 1
    BY <1>1, <1>2, <1>4, RowsOK DEF T!Row
  <2>2. ((k + 1) * a.minor) % a.major # 0 => T!Row(a, k + 1) \in 0..a.minor - 1
    BY <1>1, <1>2, <1>4, RowsOK DEF T!Row
  <2>3. \A row \in 0..a.minor - 1 : T!Beside(a, p, k, row) \in Rect(n, m)
    BY SeenInside
  <2> HIDE DEF a
  <2>4. T!SeenBefore(a, p, k) \subseteq Rect(n, m)
    BY <2>1, <2>3 DEF T!SeenBefore
  <2>5. T!SeenAfter(a, p, k, luck) \subseteq Rect(n, m)
    <3>1. a.minor # 0
      BY <1>1, <1>4
    <3>2. T!SeenAfter(a, p, k, luck) \subseteq
            IF ((k + 1) * a.minor) % a.major # 0 THEN {T!Beside(a, p, k, T!Row(a, k + 1))} ELSE {}
      BY <3>1, Zenon DEF T!SeenAfter
    <3>. QED
      BY <2>2, <2>3, <3>2
  <2>. QED
    BY <1>3, <2>4, <2>5 DEF a
<1>5. CASE a.minor = 0
  <2> DEFINE u == p[a.i] + a.si * k + T!Behind(a.si)
             v == p[a.j]
             Side(j) == T!Cell(a, u, j)
             ni == IF a.i = 1 THEN n ELSE m
  <2>1. T!SeenBefore(a, p, k) = {}
    <3>1. a.major \in Nat \ {0}
      BY <1>1, <1>2
    <3>2. \A d \in Nat \ {0} : 0 \div d = 0
      OBVIOUS
    <3>3. k * 0 = 0 /\ (k + 1) * 0 = 0
      OBVIOUS
    <3>4. T!Row(a, k) = 0 /\ T!Row(a, k + 1) = 0
      <4> HIDE DEF a
      <4>. QED
        BY <1>5, <3>1, <3>2, <3>3 DEF T!Row
    <3>. QED
      BY <3>4 DEF T!SeenBefore
  <2>2. T!SeenAfter(a, p, k, luck) = {Side(IF T!IsSafeInSight(Side(v), luck) THEN v ELSE v - 1)}
    <3> HIDE DEF a
    <3>. QED
      BY <1>5, Zenon DEF T!SeenAfter
  <2>3. u \in 0..ni
    <3> HIDE DEF a
    <3>1. ni \in Nat /\ p[a.i] \in 0..ni /\ q[a.i] \in 0..ni
      BY <1>1 DEF Rect
    <3> HIDE DEF ni
    <3>2. k \in 0..a.major - 1
      BY <1>2
    <3>. QED
      BY <1>1, <3>1, <3>2, BetweenOK
  <2>4. \A j : Side(j) = IF a.i = 1 THEN <<u, j>> ELSE <<j, u>>
    BY DEF T!Cell
  <2>5. Side(v) \in Rect(n, m)
    <3>1. v \in 0..(IF a.i = 1 THEN m ELSE n)
      <4> HIDE DEF a
      <4>. QED
        BY <1>1 DEF Rect
    <3> HIDE DEF u, v, a, Side
    <3>. QED
      BY <1>1, <2>3, <2>4, <3>1 DEF Rect
  <2>6. CASE T!IsSafeInSight(Side(v), luck)
    BY <1>3, <2>1, <2>2, <2>5, <2>6
  <2>7. CASE ~T!IsSafeInSight(Side(v), luck)
    <3>1. c = Side(v - 1)
      BY <2>1, <2>2, <2>7
    <3> HIDE DEF u, v, Side
    <3>2. LET side == IF a.i = 1 THEN <<u, v - 1>> ELSE <<v - 1, u>>
          IN side \in Rect(n, m) \/ AtEdge(side)
      <4>1. a.i \in {1, 2}
        BY <1>1
      <4> HIDE DEF a
      <4>. QED
        BY <2>4, <2>5, <2>7, <4>1, SideAtEdge
    <3>. QED
      BY <1>3, <2>4, <3>1, <3>2
  <2>. QED
    BY <2>6, <2>7
<1>. QED
  BY <1>1, <1>4, <1>5

(* What a cell costs is a number.                                           *)
LEMMA TraversalOK == \A cost \in Nat : T!Traversal(cost) \in Nat
<1> SUFFICES ASSUME NEW cost \in Nat PROVE T!Traversal(cost) \in Nat
  OBVIOUS
<1>1. (260 + 9 * cost) * (260 + 9 * cost) \in Nat
  <2>1. \A a \in Nat : a * a \in Nat
    OBVIOUS
  <2>2. 260 + 9 * cost \in Nat
    OBVIOUS
  <2>. QED
    BY <2>1, <2>2
<1>2. \A a \in Nat : a \div 63504 \in Nat
  OBVIOUS
<1>. QED
  BY <1>1, <1>2 DEF T!Traversal

LEMMA CellCostsOK ==
  ASSUME NEW S, grid \in [S -> 0..255]
  PROVE  /\ \A c \in S : T!GetTraversalCost(c) \in Nat
         /\ \A cells : T!CostOf(cells) \in Nat
<1>1. \A c \in S : T!GetTraversalCost(c) \in Nat
  BY TraversalOK DEF T!GetTraversalCost
<1>2. \A c : T!SightCost(c) \in Nat
  <2> SUFFICES ASSUME NEW c PROVE T!SightCost(c) \in Nat
    OBVIOUS
  <2>1. (IF c \notin DOMAIN grid THEN 0 ELSE IF grid[c] = T!UnknownCost THEN 253 ELSE grid[c]) \in Nat
    OBVIOUS
  <2>. QED
    BY <2>1, TraversalOK DEF T!SightCost
<1>3. \A cells : T!CostOf(cells) \in Nat
  BY <1>2 DEF T!CostOf
<1>. QED
  BY <1>1, <1>3

(* The line of sight costs something, and reads the costmap or beside it.   *)
LEMMA LosOK ==
  ASSUME NEW n \in Nat, NEW m \in Nat, grid \in [Rect(n, m) -> 0..255], NEW luck \in BOOLEAN,
         NEW p \in Rect(n, m), NEW q \in Rect(n, m)
  PROVE  LET los == T!LosCheck(p, q, luck)
         IN los.cost \in Nat /\ \A c \in los.strays : AtEdge(c)
<1> DEFINE a == T!Axes(p, q)
           d == a.major
           before1(k) == T!SeenBefore(a, p, k)
           after1(k) == T!SeenAfter(a, p, k, luck)
           seen == UNION {before1(k) \union after1(k) : k \in 0..d - 1}
           clear == \A c \in seen : T!IsSafeInSight(c, luck)
           Sums(f) == f = [k \in 0..d |-> IF k = 0 THEN 0 ELSE f[k - 1] + T!CostOf(before1(k - 1)) + T!CostOf(after1(k - 1))]
           along == CHOOSE f : Sums(f)
           F == [s \in (1..d) \X Nat |-> s[2] + T!CostOf(before1(s[1] - 1)) + T!CostOf(after1(s[1] - 1))]
<1>1. T!LosCheck(p, q, luck) = [clear |-> clear, cost |-> IF clear THEN along[d] ELSE 0, strays |-> seen \ DOMAIN grid]
  BY Zenon DEF T!LosCheck
<1>2. d \in Nat
  <2>1. p \in Int \X Int /\ q \in Int \X Int
    BY DEF Rect
  <2>. QED
    BY <2>1, AxesOK
<1>3. \A c \in seen \ DOMAIN grid : AtEdge(c)
  <2> SUFFICES ASSUME NEW c \in seen, c \notin DOMAIN grid PROVE AtEdge(c)
    OBVIOUS
  <2>1. PICK k \in 0..d - 1 : c \in before1(k) \union after1(k)
    OBVIOUS
  <2>. QED
    BY <2>1, SeenAtEdge
<1>4. \A k : T!CostOf(before1(k)) \in Nat /\ T!CostOf(after1(k)) \in Nat
  BY CellCostsOK
<1> HIDE DEF before1, after1, d
<1>5. F \in StepsIn(Nat, d)
  <2>1. \A s \in (1..d) \X Nat : s[2] + T!CostOf(before1(s[1] - 1)) + T!CostOf(after1(s[1] - 1)) \in Nat
    BY <1>4
  <2>. QED
    BY <2>1 DEF StepsIn
<1>6. \A i \in 1..d, c \in Nat : F[<<i, c>>] = c + T!CostOf(before1(i - 1)) + T!CostOf(after1(i - 1))
  OBVIOUS
<1>7. PICK f \in [0..d -> Nat] : Follows(f, d, 0, F)
  <2> HIDE DEF F
  <2>. QED
    BY <1>2, <1>5, RecursionExists
<1>8. Sums(f)
  <2>1. \A i \in 0..d : i # 0 => i \in 1..d /\ i - 1 \in 0..d
    BY <1>2
  <2>2. \A i \in 1..d : f[i] = F[<<i, f[i - 1]>>]
    BY <1>7 DEF Follows
  <2>3. \A i \in 1..d : f[i] = f[i - 1] + T!CostOf(before1(i - 1)) + T!CostOf(after1(i - 1))
    <3> HIDE DEF F
    <3> SUFFICES ASSUME NEW i \in 1..d
                 PROVE  f[i] = f[i - 1] + T!CostOf(before1(i - 1)) + T!CostOf(after1(i - 1))
      OBVIOUS
    <3>1. i - 1 \in 0..d
      BY <1>2
    <3>2. f[i - 1] \in Nat
      BY <1>7, <3>1
    <3>. QED
      BY <1>6, <2>2, <3>2
  <2>4. f[0] = 0
    BY <1>7 DEF Follows
  <2>5. \A k \in 0..d :
          f[k] = IF k = 0 THEN 0 ELSE f[k - 1] + T!CostOf(before1(k - 1)) + T!CostOf(after1(k - 1))
    <3> HIDE DEF F
    <3>. QED
      BY <2>1, <2>3, <2>4
  <2>6. f = [k \in 0..d |-> f[k]]
    BY <1>7
  <2> HIDE DEF F
  <2>. QED
    BY <2>5, <2>6
<1>9. Sums(along)
  <2> HIDE DEF Sums
  <2>. QED
    BY <1>8
<1> HIDE DEF along, F
<1>10. \A i \in 0..d : along[i] \in Nat
  <2> DEFINE good == {i \in 0..d : along[i] \in Nat}
  <2>1. 0 \in good
    BY <1>2, <1>9
  <2>2. ASSUME NEW i \in 1..d, i - 1 \in good PROVE i \in good
    <3>1. along[i] = along[i - 1] + T!CostOf(before1(i - 1)) + T!CostOf(after1(i - 1))
      BY <1>2, <1>9
    <3>. QED
      BY <1>4, <2>2, <3>1
  <2>3. 0..d \subseteq good
    <3> HIDE DEF good
    <3>. QED
      BY <1>2, <2>1, <2>2, StepByStep
  <2>. QED
    BY <2>3
<1>11. d \in 0..d
  BY <1>2
<1>12. (IF clear THEN along[d] ELSE 0) \in Nat
  <2> HIDE DEF clear
  <2>. QED
    BY <1>10, <1>11
<1> HIDE DEF seen, clear
<1>. QED
  BY <1>1, <1>3, <1>12

(* What can be reached is in every set that is closed under steps.          *)
LEMMA ReachableIn ==
  ASSUME NEW S, src \in S, NEW without, IsFiniteSet(DOMAIN grid),
         \A p \in S : \A c \in DOMAIN grid \ {without} : T!IsSafe(c) /\ T!Adjacent(p, c) => c \in S
  PROVE  T!Reachable(without) \subseteq S
<1> DEFINE d == Cardinality(DOMAIN grid)
           More(r) == r \union {c \in DOMAIN grid \ {without} : T!IsSafe(c) /\ \E p \in r : T!Adjacent(p, c)}
           Reaches(f) == f = [i \in 0..d |-> IF i = 0 THEN {src} ELSE More(f[i - 1])]
           reach == CHOOSE f : Reaches(f)
           All == SUBSET (DOMAIN grid \union {src})
           F == [s \in (1..d) \X All |-> More(s[2])]
<1>1. T!Reachable(without) = reach[d]
  <2>1. T!Cardinality(DOMAIN grid) = d
    BY DEF T!Cardinality, Cardinality
  <2>. QED
    BY <2>1, Zenon DEF T!Reachable
<1>2. d \in Nat
  BY FS_CardinalityType
<1> HIDE DEF d
<1>3. F \in StepsIn(All, d)
  <2>1. \A r \in All : More(r) \in All
    OBVIOUS
  <2>2. \A s \in (1..d) \X All : s[2] \in All
    OBVIOUS
  <2> HIDE DEF More, All
  <2>. QED
    BY <2>1, <2>2 DEF StepsIn
<1>4. \A i \in 1..d, r \in All : F[<<i, r>>] = More(r)
  <2> HIDE DEF More, All
  <2>. QED
    OBVIOUS
<1>5. PICK f \in [0..d -> All] : Follows(f, d, {src}, F)
  <2>1. {src} \in All
    OBVIOUS
  <2> HIDE DEF F, All
  <2>. QED
    BY <1>2, <1>3, <2>1, RecursionExists
<1>6. Reaches(f)
  <2> HIDE DEF F, More, All
  <2>1. \A i \in 0..d : i # 0 => i \in 1..d /\ i - 1 \in 0..d
    BY <1>2
  <2>2. \A i \in 1..d : f[i] = More(f[i - 1])
    <3> SUFFICES ASSUME NEW i \in 1..d PROVE f[i] = More(f[i - 1])
      OBVIOUS
    <3>1. i - 1 \in 0..d
      BY <1>2
    <3>2. f[i - 1] \in All
      BY <1>5, <3>1
    <3>3. f[i] = F[<<i, f[i - 1]>>]
      BY <1>5 DEF Follows
    <3>. QED
      BY <1>4, <3>2, <3>3
  <2>3. \A i \in 0..d : f[i] = IF i = 0 THEN {src} ELSE More(f[i - 1])
    BY <1>5, <2>1, <2>2 DEF Follows
  <2>4. f = [i \in 0..d |-> f[i]]
    BY <1>5
  <2>. QED
    BY <2>3, <2>4
<1>7. Reaches(reach)
  <2> HIDE DEF Reaches
  <2>. QED
    BY <1>6
<1> HIDE DEF reach
<1>8. \A i \in 0..d : reach[i] \subseteq S
  <2> DEFINE good == {i \in 0..d : reach[i] \subseteq S}
  <2>1. 0 \in good
    BY <1>2, <1>7
  <2>2. ASSUME NEW i \in 1..d, i - 1 \in good PROVE i \in good
    <3>1. reach[i] = More(reach[i - 1])
      <4>1. i \in 0..d /\ i # 0
        BY <1>2
      <4> HIDE DEF More
      <4>. QED
        BY <1>7, <4>1
    <3>2. \A r : r \subseteq S => More(r) \subseteq S
      OBVIOUS
    <3> HIDE DEF More
    <3>. QED
      BY <2>2, <3>1, <3>2
  <2>3. 0..d \subseteq good
    <3> HIDE DEF good
    <3>. QED
      BY <1>2, <2>1, <2>2, StepByStep
  <2>. QED
    BY <2>3
<1>. QED
  BY <1>1, <1>2, <1>8

-----------------------------------------------------------------------------
(* The search.  The cells it knows have sums of costs, and are dearer than  *)
(* their parents.                                                           *)
TreeOK(tree) ==
  /\ DOMAIN tree \subseteq DOMAIN grid
  /\ \A c \in DOMAIN tree :
       /\ tree[c].g \in Int /\ tree[c].h = T!GetHCost(c) /\ tree[c].f = tree[c].g + tree[c].h
       /\ tree[c].parent \in DOMAIN tree

Cheaper(tree) ==
  \A c \in DOMAIN tree \ {src} :
    /\ tree[c].parent \in DOMAIN tree
    /\ tree[c].g >= tree[tree[c].parent].g + T!GetEuclideanCost(c, tree[c].parent)

InField == dst \in DOMAIN grid /\ \E n, m \in Nat : grid \in [Rect(n, m) -> 0..255]

\* a cell that is neither in the queue nor taken from it last has been
\* expanded: its neighbors are known
Expanded ==
  /\ \A p \in DOMAIN nodes : p \in queue \/ p = current \/ T!Neighbors(p) \subseteq DOMAIN nodes
  /\ T!Neighbors(src) \subseteq DOMAIN nodes \/ (current = src /\ src \in queue)
  /\ dst \in DOMAIN nodes => dst \in queue \/ dst = current
  /\ src = dst => current = src /\ src \in queue

SearchInv ==
  /\ InField
  /\ TreeOK(nodes) /\ Cheaper(nodes)
  /\ {src, current} \union queue \subseteq DOMAIN nodes
  /\ Expanded
  /\ outcome = "none" => queue = {}
  /\ \A c \in strayed : AtEdge(c)

(* Ways cost something, the same both ways.                                 *)
LEMMA WaysOK ==
  ASSUME InField
  PROVE  /\ \A c \in DOMAIN grid : T!GetHCost(c) \in Nat /\ T!GetTraversalCost(c) \in Nat
         /\ \A p, q \in DOMAIN grid : /\ T!GetEuclideanCost(p, q) \in Nat
                                      /\ T!GetEuclideanCost(p, q) = T!GetEuclideanCost(q, p)
<1>1. PICK n \in Nat, m \in Nat : grid \in [Rect(n, m) -> 0..255]
  BY DEF InField
<1>2. DOMAIN grid = Rect(n, m) /\ \A c \in DOMAIN grid : c \in Int \X Int
  BY <1>1 DEF Rect
<1>3. \A c \in DOMAIN grid : T!GetTraversalCost(c) \in Nat
  BY <1>1, <1>2, CellCostsOK
<1>4. \A p, q \in DOMAIN grid : T!Euclidean(p, q) \in Nat /\ T!Euclidean(p, q) = T!Euclidean(q, p)
  BY <1>2, EuclideanOK
<1>5. \A c \in DOMAIN grid : T!GetHCost(c) \in Nat
  BY <1>4 DEF InField, T!GetHCost
<1>. QED
  BY <1>3, <1>4, <1>5 DEF T!GetEuclideanCost

(* A cell in sight of the parent of its parent becomes cheaper.             *)
LEMMA ResetParentOK ==
  ASSUME InField, TreeOK(nodes), Cheaper(nodes), current \in DOMAIN nodes, NEW los, los.cost \in Nat
  PROVE  LET known == [nodes EXCEPT ![current] = T!ResetParent(los)]
         IN DOMAIN known = DOMAIN nodes /\ TreeOK(known) /\ Cheaper(known)
<1> DEFINE r == T!ResetParent(los)
           grand == T!Grand
           g == nodes[grand].g + T!GetEuclideanCost(current, grand) + los.cost
           known == [nodes EXCEPT ![current] = r]
<1>1. grand \in DOMAIN nodes
  BY DEF TreeOK, T!Grand
<1>2. /\ DOMAIN nodes \subseteq DOMAIN grid
      /\ \A c \in DOMAIN nodes : nodes[c].g \in Int /\ nodes[c].parent \in DOMAIN nodes
      /\ \A p, q \in DOMAIN nodes : T!GetEuclideanCost(p, q) \in Nat
  BY WaysOK DEF TreeOK
<1>3. g \in Int
  BY <1>1, <1>2
<1>4. DOMAIN known = DOMAIN nodes /\ known[current] = r /\ \A c \in DOMAIN nodes \ {current} : known[c] = nodes[c]
  OBVIOUS
<1>5. \/ r = nodes[current]
      \/ /\ r.g = g /\ r.h = nodes[current].h /\ r.f = g + nodes[current].h /\ r.parent = grand
         /\ g < nodes[current].g
  BY DEF T!ResetParent, T!Node
<1> HIDE DEF r, known, g, grand
<1>6. CASE r = nodes[current]
  <2>1. \A c \in DOMAIN nodes : known[c] = nodes[c]
    BY <1>4, <1>6
  <2>. QED
    BY <1>4, <2>1 DEF TreeOK, Cheaper, known, r
<1>7. CASE /\ r.g = g /\ r.h = nodes[current].h /\ r.f = g + nodes[current].h /\ r.parent = grand
           /\ g < nodes[current].g
  <2>1. TreeOK(known)
    <3>1. ASSUME NEW c \in DOMAIN known
          PROVE  /\ known[c].g \in Int /\ known[c].h = T!GetHCost(c) /\ known[c].f = known[c].g + known[c].h
                 /\ known[c].parent \in DOMAIN known
      <4>1. CASE c = current
        BY <1>1, <1>3, <1>4, <1>7, <4>1 DEF TreeOK
      <4>2. CASE c # current
        BY <1>4, <3>1, <4>2 DEF TreeOK
      <4>. QED
        BY <4>1, <4>2
    <3>. QED
      BY <1>2, <1>4, <3>1 DEF TreeOK
  <2>2. grand # current
    <3>1. nodes[current].g \in Int /\ T!GetEuclideanCost(current, grand) \in Nat /\ nodes[grand].g \in Int
      BY <1>1, <1>2
    <3>2. nodes[grand].g < nodes[current].g
      BY <1>3, <1>7, <3>1 DEF g
    <3>. QED
      BY <3>1, <3>2
  <2>3. \A c \in DOMAIN nodes : known[c].g \in Int /\ known[c].g <= nodes[c].g
    <3>1. nodes[current].g \in Int
      BY <1>2
    <3>. QED
      BY <1>2, <1>3, <1>4, <1>7, <3>1
  <2>4. ASSUME NEW c \in DOMAIN nodes \ {src}
        PROVE  /\ known[c].parent \in DOMAIN nodes
               /\ known[c].g >= known[known[c].parent].g + T!GetEuclideanCost(c, known[c].parent)
    <3>1. CASE c = current
      <4>1. known[c].parent = grand /\ known[grand].g = nodes[grand].g /\ known[c].g = g
        BY <1>1, <1>4, <1>7, <2>2, <3>1
      <4>2. g >= nodes[grand].g + T!GetEuclideanCost(current, grand)
        <5>1. T!GetEuclideanCost(current, grand) \in Nat /\ nodes[grand].g \in Int
          BY <1>1, <1>2
        <5>. QED
          BY <5>1 DEF g
      <4>. QED
        BY <1>1, <3>1, <4>1, <4>2
    <3>2. CASE c # current
      <4>1. known[c] = nodes[c] /\ nodes[c].parent \in DOMAIN nodes
        BY <1>2, <1>4, <3>2
      <4>2. nodes[c].g >= nodes[nodes[c].parent].g + T!GetEuclideanCost(c, nodes[c].parent)
        BY <2>4 DEF Cheaper
      <4>3. known[nodes[c].parent].g <= nodes[nodes[c].parent].g
        BY <2>3, <4>1
      <4> DEFINE pg == nodes[nodes[c].parent].g
                 kg == known[nodes[c].parent].g
                 e == T!GetEuclideanCost(c, nodes[c].parent)
                 cg == nodes[c].g
      <4>4. pg \in Int /\ kg \in Int /\ e \in Int /\ cg \in Int /\ cg >= pg + e /\ kg <= pg
        BY <1>2, <2>3, <4>1, <4>2, <4>3
      <4> HIDE DEF pg, kg, e, cg
      <4>5. cg >= kg + e
        BY <4>4
      <4>. QED
        BY <4>1, <4>5 DEF kg, e, cg
    <3>. QED
      BY <3>1, <3>2
  <2>. QED
    BY <1>4, <2>1, <2>4 DEF Cheaper, known, r
<1>. QED
  BY <1>5, <1>6, <1>7

(* The neighbors that are better reached through a cell stay dearer than    *)
(* it, and so do those that have one of them for a parent.                  *)
LEMMA NeighborsOK ==
  ASSUME InField, NEW known, TreeOK(known), Cheaper(known), current \in DOMAIN known
  PROVE  LET better == {c \in T!Neighbors(current) : T!Improves(known, c)}
             after == [c \in DOMAIN known \union better |-> IF c \in better THEN T!Through(known, c) ELSE known[c]]
         IN DOMAIN after = DOMAIN known \union better /\ TreeOK(after) /\ Cheaper(after)
<1> DEFINE better == {c \in T!Neighbors(current) : T!Improves(known, c)}
           after == [c \in DOMAIN known \union better |-> IF c \in better THEN T!Through(known, c) ELSE known[c]]
           way(c) == known[current].g + T!GetEuclideanCost(current, c) + T!GetTraversalCost(c)
<1>1. /\ DOMAIN known \subseteq DOMAIN grid
      /\ \A c \in DOMAIN known : /\ known[c].g \in Int /\ known[c].parent \in DOMAIN known
                                 /\ known[c].h = T!GetHCost(c) /\ known[c].f = known[c].g + known[c].h
  BY DEF TreeOK
<1>2. \A c \in better : c \in DOMAIN grid /\ c # current
  <2>1. \A c \in T!Neighbors(current) : c \in DOMAIN grid
    BY DEF T!Neighbors, T!IsSafe
  <2>2. current \in Int \X Int
    BY <1>1 DEF InField, Rect
  <2>3. \A c \in T!Neighbors(current) : c # current
    <3> SUFFICES ASSUME NEW c \in T!Neighbors(current) PROVE c # current
      OBVIOUS
    <3>1. PICK d \in T!Moves : c = <<current[1] + d[1], current[2] + d[2]>>
      BY DEF T!Neighbors
    <3>2. PICK u \in -1..1, v \in -1..1 : d = <<u, v>> /\ (u # 0 \/ v # 0)
      BY <3>1 DEF T!Moves
    <3>3. c[1] = current[1] + u /\ c[2] = current[2] + v /\ current[1] \in Int /\ current[2] \in Int
      BY <2>2, <3>1, <3>2
    <3>. QED
      BY <3>2, <3>3
  <2>. QED
    BY <2>1, <2>3
<1>3. \A c \in DOMAIN grid : /\ T!GetEuclideanCost(current, c) \in Nat /\ T!GetTraversalCost(c) \in Nat
                             /\ T!GetHCost(c) \in Nat
                             /\ T!GetEuclideanCost(c, current) = T!GetEuclideanCost(current, c)
  BY <1>1, WaysOK
<1>4. \A c \in DOMAIN grid : way(c) \in Int
  BY <1>1, <1>3
<1>5. \A c : /\ T!Through(known, c).g = way(c) /\ T!Through(known, c).h = T!GetHCost(c)
             /\ T!Through(known, c).f = way(c) + T!GetHCost(c) /\ T!Through(known, c).parent = current
  BY DEF T!Through, T!Node
<1>6. /\ DOMAIN after = DOMAIN known \union better
      /\ \A c \in better : after[c] = T!Through(known, c)
      /\ \A c \in DOMAIN known \ better : after[c] = known[c]
  OBVIOUS
<1>7. \A c \in better \intersect DOMAIN known : way(c) <= known[c].g
  <2> SUFFICES ASSUME NEW c \in better, c \in DOMAIN known PROVE way(c) <= known[c].g
    OBVIOUS
  <2>1. known[c].f > T!Through(known, c).f
    BY DEF T!Improves
  <2> DEFINE w == way(c)
             hc == T!GetHCost(c)
             gc == known[c].g
  <2>2. gc + hc > w + hc
    BY <1>1, <1>5, <2>1
  <2>3. w \in Int /\ hc \in Int /\ gc \in Int
    BY <1>1, <1>3, <1>4
  <2> HIDE DEF w, hc, gc
  <2>4. w <= gc
    BY <2>2, <2>3
  <2>. QED
    BY <2>4 DEF w, gc
<1> HIDE DEF better, after, way
<1>8. TreeOK(after)
  <2>1. ASSUME NEW c \in DOMAIN after
        PROVE  /\ after[c].g \in Int /\ after[c].h = T!GetHCost(c) /\ after[c].f = after[c].g + after[c].h
               /\ after[c].parent \in DOMAIN after
    <3>1. CASE c \in better
      <4>1. after[c].g = way(c) /\ after[c].h = T!GetHCost(c) /\ after[c].f = way(c) + T!GetHCost(c) /\ after[c].parent = current
        BY <1>5, <1>6, <3>1
      <4>. QED
        BY <1>2, <1>4, <1>6, <3>1, <4>1
    <3>2. CASE c \notin better
      <4>1. c \in DOMAIN known /\ after[c] = known[c]
        BY <1>6, <2>1, <3>2
      <4>. QED
        BY <1>1, <1>6, <4>1
    <3>. QED
      BY <3>1, <3>2
  <2>. QED
    BY <1>1, <1>2, <1>6, <2>1 DEF TreeOK
<1>9. \A c \in DOMAIN known : after[c].g \in Int /\ after[c].g <= known[c].g
  <2> SUFFICES ASSUME NEW c \in DOMAIN known PROVE after[c].g \in Int /\ after[c].g <= known[c].g
    OBVIOUS
  <2>1. CASE c \in better
    <3>1. after[c].g = way(c)
      BY <1>5, <1>6, <2>1
    <3>. QED
      BY <1>2, <1>4, <1>7, <2>1, <3>1
  <2>2. CASE c \notin better
    <3>1. after[c] = known[c] /\ known[c].g \in Int
      BY <1>1, <1>6, <2>2
    <3>. QED
      BY <3>1
  <2>. QED
    BY <2>1, <2>2
<1>10. ASSUME NEW c \in DOMAIN after \ {src}
       PROVE  /\ after[c].parent \in DOMAIN after
              /\ after[c].g >= after[after[c].parent].g + T!GetEuclideanCost(c, after[c].parent)
  <2>1. CASE c \in better
    <3> DEFINE cg == known[current].g
               e == T!GetEuclideanCost(current, c)
               t == T!GetTraversalCost(c)
    <3>1. after[c].g = way(c) /\ after[c].parent = current
      BY <1>5, <1>6, <2>1
    <3>2. after[current] = known[current]
      BY <1>2, <1>6
    <3>3. cg \in Int /\ e \in Nat /\ t \in Nat /\ T!GetEuclideanCost(c, current) = e
      BY <1>1, <1>2, <1>3, <2>1
    <3>4. way(c) = cg + e + t
      BY DEF way
    <3> HIDE DEF cg, e, t
    <3>5. way(c) >= cg + e
      BY <3>3, <3>4
    <3>. QED
      BY <1>6, <3>1, <3>2, <3>3, <3>5 DEF cg
  <2>2. CASE c \notin better
    <3> DEFINE up == known[c].parent
               cg == known[c].g
               kg == known[up].g
               ag == after[up].g
               e == T!GetEuclideanCost(c, up)
    <3>1. c \in DOMAIN known \ {src} /\ after[c] = known[c]
      BY <1>6, <1>10, <2>2
    <3>2. up \in DOMAIN known /\ cg >= kg + e
      BY <3>1 DEF Cheaper
    <3>3. cg \in Int /\ kg \in Int /\ ag \in Int /\ ag <= kg
      BY <1>1, <1>9, <3>1, <3>2
    <3>4. e \in Int
      BY <1>1, <3>1, <3>2, WaysOK
    <3> HIDE DEF cg, kg, ag, e
    <3>5. cg >= ag + e
      BY <3>2, <3>3, <3>4
    <3>. QED
      BY <1>6, <3>1, <3>2, <3>5 DEF cg, ag, e
  <2>. QED
    BY <2>1, <2>2
<1>11. Cheaper(after)
  BY <1>10 DEF Cheaper
<1>. QED
  BY <1>6, <1>8, <1>11 DEF after, better

LEMMA SearchInitOK == T!Init => SearchInv
<1> SUFFICES ASSUME T!Init PROVE SearchInv
  OBVIOUS
<1>1. grid \in T_Grids /\ src \in DOMAIN grid /\ dst \in DOMAIN grid
  BY DEF T!Init
<1>2. InField
  <2>1. PICK far \in DOMAIN grid : far \in Nat \X Nat /\ grid \in [(0..far[1]) \X (0..far[2]) -> 0..255]
    BY <1>1, SearchAssumption
  <2>2. far[1] \in Nat /\ far[2] \in Nat
    BY <2>1
  <2>. QED
    BY <1>1, <2>1, <2>2 DEF InField, Rect
<1>3. /\ DOMAIN nodes = {src} /\ nodes[src] = T!Node(T!GetTraversalCost(src), T!GetHCost(src), src)
      /\ queue = {src} /\ current = src /\ outcome = "searching" /\ strayed = {}
  BY DEF T!Init
<1>4. TreeOK(nodes)
  <2>1. T!GetTraversalCost(src) \in Nat
    BY <1>1, <1>2, WaysOK
  <2>. QED
    BY <1>1, <1>3, <2>1 DEF TreeOK, T!Node
<1>5. Cheaper(nodes)
  BY <1>3 DEF Cheaper
<1>6. Expanded
  BY <1>3 DEF Expanded
<1>. QED
  BY <1>2, <1>3, <1>4, <1>5, <1>6 DEF SearchInv

(* An expansion.  The cells it takes into the queue are the neighbors that  *)
(* were not known, and some that were.                                      *)
LEMMA ExpandOK ==
  ASSUME SearchInv, T!Search
  PROVE  SearchInv'
<1>1. UNCHANGED <<grid, src, dst, outcome>> /\ outcome = "searching" /\ current # dst
  BY DEF T!Search
<1> DEFINE Better(k) == {c \in T!Neighbors(current) : T!Improves(k, c)}
           After(k) == [c \in DOMAIN k \union Better(k) |-> IF c \in Better(k) THEN T!Through(k, c) ELSE k[c]]
           Known(l) == [nodes EXCEPT ![current] = T!ResetParent(l)]
           Taken(l, k) ==
             /\ nodes' = After(k)
             /\ disturbed' = (disturbed \/ Better(k) \intersect queue # {})
             /\ strayed' = strayed \union l.strays
             /\ \E top \in queue \union Better(k) :
                  /\ disturbed' \/ \A c \in queue \union Better(k) : After(k)[top].f <= After(k)[c].f
                  /\ current' = top
                  /\ queue' = (queue \union Better(k)) \ {top}
<1>2. PICK luck \in BOOLEAN : Taken(T!LosCheck(current, T!Grand, luck), Known(T!LosCheck(current, T!Grand, luck)))
  <2>1. \E luck \in BOOLEAN : \E l \in {T!LosCheck(current, T!Grand, luck)} : \E k \in {Known(l)} : Taken(l, k)
    BY DEF T!Search, T!Expand
  <2> HIDE DEF Taken, Known
  <2>. QED
    BY <2>1
<1> DEFINE los == T!LosCheck(current, T!Grand, luck)
           known == Known(los)
           better == Better(known)
           after == After(known)
           waiting == queue \union better
<1>3. /\ nodes' = after /\ strayed' = strayed \union los.strays
      /\ \E top \in waiting : current' = top /\ queue' = waiting \ {top}
  <2> HIDE DEF los, Known, Better, After
  <2>. QED
    BY <1>2 DEF los
<1>4. PICK top \in waiting : current' = top /\ queue' = waiting \ {top}
  BY <1>3
<1>5. InField /\ TreeOK(nodes) /\ Cheaper(nodes) /\ src \in DOMAIN nodes /\ current \in DOMAIN nodes
      /\ queue \subseteq DOMAIN nodes
  BY DEF SearchInv
<1>6. los.cost \in Nat /\ \A c \in los.strays : AtEdge(c)
  <2>1. PICK n \in Nat, m \in Nat : grid \in [Rect(n, m) -> 0..255]
    BY <1>5 DEF InField
  <2>2. current \in Rect(n, m) /\ T!Grand \in Rect(n, m)
    BY <1>5, <2>1 DEF TreeOK, T!Grand
  <2>. QED
    BY <2>1, <2>2, LosOK
<1>7. DOMAIN known = DOMAIN nodes /\ TreeOK(known) /\ Cheaper(known)
  <2> HIDE DEF los
  <2>. QED
    BY <1>5, <1>6, ResetParentOK
<1>8. DOMAIN after = DOMAIN nodes \union better /\ TreeOK(after) /\ Cheaper(after)
  <2> HIDE DEF known
  <2>. QED
    BY <1>5, <1>7, NeighborsOK
<1>9. \A c \in T!Neighbors(current) : c \in DOMAIN nodes \/ c \in better
  BY <1>7 DEF T!Improves
<1> HIDE DEF los, known, better, after
<1>10. DOMAIN nodes' = DOMAIN nodes \union better
  BY <1>3, <1>8
<1>11. /\ TreeOK(nodes)' /\ Cheaper(nodes)'
  <2>1. TreeOK(nodes')
    BY <1>3, <1>8
  <2>2. Cheaper(nodes')
    BY <1>3, <1>8
  <2>3. \A c : T!GetHCost(c)' = T!GetHCost(c)
    BY <1>1 DEF T!GetHCost
  <2>. QED
    BY <1>1, <2>1, <2>2, <2>3 DEF TreeOK, Cheaper
<1>12. InField'
  BY <1>1, <1>5 DEF InField
<1>13. {src, current}' \union queue' \subseteq DOMAIN nodes'
  BY <1>1, <1>4, <1>5, <1>10
<1>14. \A c \in strayed' : AtEdge(c)'
  <2>1. \A c : AtEdge(c)' <=> AtEdge(c)
    BY <1>1 DEF AtEdge, T!IsSafe
  <2>2. \A c \in strayed : AtEdge(c)
    BY DEF SearchInv
  <2>. QED
    BY <1>3, <1>6, <2>1, <2>2
<1>15. Expanded'
  <2>1. \A p : T!Neighbors(p)' = T!Neighbors(p)
    BY <1>1 DEF T!Neighbors, T!IsSafe
  <2>2. T!Neighbors(current) \subseteq DOMAIN nodes'
    BY <1>9, <1>10
  <2>3. ASSUME NEW p \in DOMAIN nodes', p \notin queue', p # current'
        PROVE  T!Neighbors(p) \subseteq DOMAIN nodes'
    <3>1. p \notin queue /\ p \in DOMAIN nodes
      BY <1>4, <1>10, <2>3
    <3>2. p = current \/ T!Neighbors(p) \subseteq DOMAIN nodes
      BY <3>1 DEF SearchInv, Expanded
    <3>. QED
      BY <1>10, <2>2, <3>2
  <2>4. T!Neighbors(src) \subseteq DOMAIN nodes'
    <3>1. T!Neighbors(src) \subseteq DOMAIN nodes \/ current = src
      BY DEF SearchInv, Expanded
    <3>. QED
      BY <1>10, <2>2, <3>1
  <2>5. dst \in DOMAIN nodes' => dst \in queue' \/ dst = current'
    <3>1. dst \in DOMAIN nodes => dst \in queue
      BY <1>1 DEF SearchInv, Expanded
    <3>. QED
      BY <1>4, <1>10, <3>1
  <2>6. src # dst
    BY <1>1 DEF SearchInv, Expanded
  <2>. QED
    BY <1>1, <2>1, <2>3, <2>4, <2>5, <2>6 DEF Expanded
<1>16. outcome' = "searching"
  BY <1>1
<1>. QED
  BY <1>11, <1>12, <1>13, <1>14, <1>15, <1>16 DEF SearchInv

LEMMA SearchOK == SearchInv /\ (T!Next \/ UNCHANGED T!vars) => SearchInv'
<1> SUFFICES ASSUME SearchInv, T!Next \/ UNCHANGED T!vars PROVE SearchInv'
  OBVIOUS
<1>1. CASE T!Search
  BY <1>1, ExpandOK
<1>2. CASE T!Finish \/ UNCHANGED T!vars
  <2>1. /\ UNCHANGED <<grid, src, dst, nodes, queue, disturbed, current, strayed>>
        /\ outcome' = "none" => queue = {}
    <3>1. CASE T!Finish
      BY <3>1 DEF T!Finish
    <3>2. CASE UNCHANGED T!vars
      BY <3>2 DEF T!vars, SearchInv
    <3>. QED
      BY <1>2, <3>1, <3>2
  <2>2. \A c : T!GetHCost(c)' = T!GetHCost(c) /\ T!Neighbors(c)' = T!Neighbors(c) /\ (AtEdge(c)' <=> AtEdge(c))
    BY <2>1 DEF T!GetHCost, T!Neighbors, AtEdge, T!IsSafe
  <2>3. InField' /\ TreeOK(nodes)' /\ Cheaper(nodes)'
    BY <2>1, <2>2 DEF SearchInv, InField, TreeOK, Cheaper
  <2>4. Expanded'
    BY <2>1, <2>2 DEF SearchInv, Expanded
  <2>5. \A c \in strayed' : AtEdge(c)'
    BY <2>1, <2>2 DEF SearchInv
  <2>. QED
    BY <2>1, <2>3, <2>4, <2>5 DEF SearchInv
<1>. QED
  BY <1>1, <1>2 DEF T!Next

(* What the invariant says of the search that gave up.                      *)
LEMMA SearchInvOK == SearchInv => T!ParentsCheaper /\ T!MissesOnlyLastCell /\ T!StraysOnlyAtEdge
<1> SUFFICES ASSUME SearchInv PROVE T!ParentsCheaper /\ T!MissesOnlyLastCell /\ T!StraysOnlyAtEdge
  OBVIOUS
<1>1. T!ParentsCheaper
  BY DEF SearchInv, Cheaper, T!ParentsCheaper
<1>2. T!StraysOnlyAtEdge
  BY DEF SearchInv, AtEdge, T!StraysOnlyAtEdge
<1>3. T!MissesOnlyLastCell
  <2> SUFFICES ASSUME outcome = "none" PROVE dst \notin T!Reachable(current)
    BY DEF T!MissesOnlyLastCell
  <2> DEFINE S == (DOMAIN nodes \ {current}) \union {src}
  <2>1. queue = {} /\ src # dst /\ src \in DOMAIN nodes /\ DOMAIN nodes \subseteq DOMAIN grid
    BY DEF SearchInv, Expanded, TreeOK
  <2>2. PICK n \in Nat, m \in Nat : grid \in [Rect(n, m) -> 0..255]
    BY DEF SearchInv, InField
  <2>3. IsFiniteSet(DOMAIN grid)
    <3>1. IsFiniteSet(0..n) /\ IsFiniteSet(0..m)
      BY FS_Interval
    <3>2. IsFiniteSet((0..n) \X (0..m))
      BY <3>1, FS_Product
    <3>. QED
      BY <2>2, <3>2 DEF Rect
  <2>4. \A p \in S : T!Neighbors(p) \subseteq DOMAIN nodes
    BY <2>1 DEF SearchInv, Expanded
  <2>5. ASSUME NEW p \in S, NEW c \in DOMAIN grid \ {current}, T!IsSafe(c), T!Adjacent(p, c) PROVE c \in S
    <3>1. p \in Int \X Int /\ c \in Int \X Int
      BY <2>1, <2>2 DEF Rect
    <3> DEFINE u == c[1] - p[1]
               v == c[2] - p[2]
    <3>2. u \in -1..1 /\ v \in -1..1 /\ c = <<p[1] + u, p[2] + v>> /\ <<u, v>> # <<0, 0>>
      <4>1. /\ c[1] \in Int /\ c[2] \in Int /\ p[1] \in Int /\ p[2] \in Int
            /\ p = <<p[1], p[2]>> /\ c = <<c[1], c[2]>>
        BY <3>1
      <4>2. p # c /\ T!AbsOf(p[1] - c[1]) <= 1 /\ T!AbsOf(p[2] - c[2]) <= 1
        BY <2>5 DEF T!Adjacent
      <4>3. u \in -1..1 /\ v \in -1..1
        BY <4>1, <4>2 DEF T!AbsOf
      <4>4. c[1] = p[1] + u /\ c[2] = p[2] + v
        BY <4>1
      <4>5. ~(u = 0 /\ v = 0)
        BY <4>1, <4>2, <4>4
      <4> HIDE DEF u, v
      <4>. QED
        BY <4>1, <4>3, <4>4, <4>5
    <3> HIDE DEF u, v
    <3>3. <<u, v>> \in T!Moves
      BY <3>2 DEF T!Moves
    <3>4. <<p[1] + <<u, v>>[1], p[2] + <<u, v>>[2]>> = c
      BY <3>2
    <3>5. c \in {<<p[1] + d[1], p[2] + d[2]>> : d \in T!Moves}
      BY <3>3, <3>4
    <3>6. c \in T!Neighbors(p)
      BY <2>5, <3>5 DEF T!Neighbors
    <3>. QED
      BY <2>4, <2>5, <3>6
  <2>6. T!Reachable(current) \subseteq S
    <3>1. src \in S
      OBVIOUS
    <3> HIDE DEF S
    <3>. QED
      BY <2>3, <2>5, <3>1, ReachableIn
  <2>7. dst \notin S
    BY <2>1 DEF SearchInv, Expanded
  <2>. QED
    BY <2>6, <2>7
<1>. QED
  BY <1>1, <1>2, <1>3

(* The other machines never become the search.                              *)
LEMMA SearchRuns ==
  /\ Init => (which = "theta" => SearchInv)
  /\ (which = "theta" => SearchInv) /\ [Next]_all => (which = "theta" => SearchInv)'
<1>1. Init => (which = "theta" => SearchInv)
  BY SearchInitOK
  DEF Init, FireInit, WindowsInit, PublisherInit, DenoiseInit, RasterInit, ThetaInit, TrackingInit, CollisionInit,
      DisplayInit, BridgeInit
<1>2. ASSUME which = "theta" => SearchInv, [Next]_all, which' = "theta" PROVE SearchInv'
  <2>1. CASE UNCHANGED all
    <3>1. which' = which /\ UNCHANGED T!vars
      BY <2>1 DEF all, thetaOnly, shared, T!vars
    <3>. QED
      BY <1>2, <3>1, SearchOK
  <2>2. CASE Next
    <3>1. which = "theta" /\ ThetaStep
      BY <1>2, <2>2
      DEF Next, FireStep, WindowsStep, PublisherStep, DenoiseStep, ThetaStep, TrackingStep, CollisionStep,
          DisplayStep, BridgeStep
    <3>. QED
      BY <1>2, <3>1, SearchOK DEF ThetaStep
  <2>. QED
    BY <1>2, <2>1, <2>2
<1>. QED
  BY <1>1, <1>2

(* The planner's search, on any rectangle of costs, follows ever cheaper    *)
(* parents, misses a goal in reach only for the last cell of its queue, and *)
(* looks outside the costmap only at its edge (theta_star.cpp:73, 160).     *)
THEOREM SearchIsSoundHolds == Spec => []SearchIsSound
<1>1. (which = "theta" => SearchInv) => SearchIsSound
  BY SearchInvOK DEF SearchIsSound
<1>. QED
  BY <1>1, SearchRuns, PTL DEF Spec
=============================================================================
