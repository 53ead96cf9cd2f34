----------------------------- MODULE Brushfire -----------------------------
(***************************************************************************)
(* The inflation layer on the plane: the costs around the obstacles, found *)
(* by a brushfire.  Cells wait in one list for every distance a cell can   *)
(* have from an obstacle; each cell carries the obstacle it was reached    *)
(* from and hands it to its four neighbours.  Distances are in cells and   *)
(* squared.                                                                *)
(***************************************************************************)
EXTENDS Integers, Sequences
LOCAL INSTANCE FiniteSets
LOCAL INSTANCE FiniteSetsExt
LOCAL INSTANCE SequencesExt
LOCAL INSTANCE Functions

CONSTANTS Grids,      \* the master grids, functions on {0..n} \X {0..k}
          Windows,    \* [lo, hi]: the corners of the bounds, hi outside
          Radii,      \* of the inflation; 0 among them is allowed
          Footprints, \* their circumscribed radii
          MaxChanges  \* bound on the changes of parameters before an update

VARIABLES radius,     \* cell_inflation_radius_
          inscribed,  \* inscribed_radius_, in cells
          flags,      \* [unknown, around]: inflate_unknown_, inflate_around_unknown_
          cached,     \* what the caches were computed from: <<>> or <<[radius, inscribed]>>
          phase,      \* "idle", "fire" or "done"
          before,     \* the master grid when updateCosts() was called
          master,
          window,
          bins,       \* inflation_cells_: a list for every level
          level,      \* the list that is visited
          source,     \* seen_, and src_x_, src_y_ of the cells visited
          changes

vars == <<radius, inscribed, flags, cached, phase, before, master, window, bins, level, source, changes>>
settings == <<radius, inscribed, flags, cached>>

Lethal == 254
Inscribed == 253
NoInformation == 255

Squared(p, q) == (p[1] - q[1]) * (p[1] - q[1]) + (p[2] - q[2]) * (p[2] - q[2])

-----------------------------------------------------------------------------
(* The caches. *)

\* The costs fall off by a factor of four for each unit of squared distance.
ComputeCost(d, r) ==
  IF d = 0 THEN Lethal
  ELSE IF d <= r * r THEN Inscribed
  ELSE (Inscribed - 1) \div 4 ^ (d - r * r)

DistancesUpTo(r) == {x * x + y * y : x \in 0..r + 2, y \in 0..r + 2} \cap 0..(r + 2) * (r + 2)

DescendingLevels(r, p, q) ==  \* faulty: the points are sorted the wrong way round
  Cardinality({d \in DistancesUpTo(r) : d > Squared(p, q)})

\* distance_matrix_: equal distances are one level
GenerateIntegerDistances(r, p, q) == Cardinality({d \in DistancesUpTo(r) : d < Squared(p, q)})

ComputeCaches(r, i) == IF r = 0 THEN cached ELSE <<[radius |-> r, inscribed |-> i]>>

Init ==
  /\ radius \in Radii /\ inscribed = 0
  /\ flags \in [unknown : BOOLEAN, around : BOOLEAN]
  /\ cached = IF radius = 0 THEN <<>> ELSE <<[radius |-> radius, inscribed |-> 0]>>
  /\ phase = "idle" /\ before = <<>> /\ master = <<>> /\ window = <<>>
  /\ bins = <<>> /\ level = 0 /\ source = <<>> /\ changes = 0

Change ==
  /\ phase = "idle" /\ changes < MaxChanges /\ changes' = changes + 1
  /\ UNCHANGED <<flags, phase, before, master, window, bins, level, source>>

\* The circumscribed radius of the footprint is the layer's inscribed_radius_.
OnFootprintChanged(circumscribed) ==
  /\ Change
  /\ inscribed' = circumscribed /\ cached' = ComputeCaches(radius, circumscribed)
  /\ UNCHANGED radius

SetRadius(r) ==
  /\ Change
  /\ r # radius /\ radius' = r /\ cached' = ComputeCaches(r, inscribed)
  /\ UNCHANGED inscribed

-----------------------------------------------------------------------------
(* updateCosts() *)

Inside(c, w) == w.lo[1] <= c[1] /\ c[1] < w.hi[1] /\ w.lo[2] <= c[2] /\ c[2] < w.hi[2]

Widened(w) ==
  [lo |-> <<w.lo[1] - radius, w.lo[2] - radius>>, hi |-> <<w.hi[1] + radius, w.hi[2] + radius>>]

IsSource(cost) == cost = Lethal \/ (flags.around /\ cost = NoInformation)

Entry(c, s) == [at |-> c, src |-> s]

\* row by row
InScanOrder(cells) == SetToSortSeq(cells, LAMBDA a, b : a[2] < b[2] \/ (a[2] = b[2] /\ a[1] < b[1]))

Levels == 0..Cardinality(DistancesUpTo(cached[1].radius)) - 1

UpdateCosts(grid, w) ==
  /\ phase = "idle" /\ changes' = 0
  /\ before' = grid /\ master' = grid /\ window' = w /\ source' = <<>> /\ level' = 0
  /\ IF radius = 0 THEN phase' = "done" /\ bins' = <<>>
     ELSE \E wide \in {Widened(w)} :
          \E cells \in {InScanOrder({c \in DOMAIN grid : Inside(c, wide) /\ IsSource(grid[c])})} :
             /\ phase' = "fire"
             /\ bins' = [n \in Levels |-> IF n = 0 THEN [i \in DOMAIN cells |-> Entry(cells[i], cells[i])] ELSE <<>>]
  /\ UNCHANGED settings

CostLookup(c, s) == ComputeCost(Squared(c, s), cached[1].inscribed)

\* Unknown cells are overwritten only by costs that count.
Merged(old, cost) ==
  IF old = NoInformation /\ (IF flags.unknown THEN cost > 0 ELSE cost >= Inscribed) THEN cost
  ELSE IF old < cost THEN cost ELSE old

\* in the order in which they are enqueued
Neighbors(c) ==
  SelectSeq(<<<<c[1] - 1, c[2]>>, <<c[1], c[2] - 1>>, <<c[1] + 1, c[2]>>, <<c[1], c[2] + 1>>>>,
            LAMBDA n : n \in DOMAIN master)

Enqueue(lists, c, s) ==
  IF c \in DOMAIN source' \/ Squared(c, s) > radius * radius THEN lists
  ELSE [lists EXCEPT ![GenerateIntegerDistances(cached[1].radius, c, s)] = Append(@, Entry(c, s))]

Skip(entry) == entry.at \in DOMAIN source

Visit ==
  /\ phase = "fire" /\ bins[level] # <<>>
  /\ \E entry \in {Head(bins[level])}, taken \in {[bins EXCEPT ![level] = Tail(@)]} :
        IF Skip(entry)
        THEN bins' = taken /\ UNCHANGED <<source, master>>
        ELSE /\ source' = [c \in DOMAIN source \cup {entry.at} |-> IF c = entry.at THEN entry.src ELSE source[c]]
             /\ master' = IF Inside(entry.at, window)
                          THEN [master EXCEPT ![entry.at] = Merged(@, CostLookup(entry.at, entry.src))]
                          ELSE master
             /\ bins' = FoldLeft(LAMBDA lists, n : Enqueue(lists, n, entry.src), taken, Neighbors(entry.at))
  /\ UNCHANGED <<settings, phase, before, window, level, changes>>

NextList ==
  /\ phase = "fire" /\ bins[level] = <<>>
  /\ IF level + 1 \in Levels
     THEN level' = level + 1 /\ UNCHANGED phase
     ELSE phase' = "done" /\ UNCHANGED level
  /\ UNCHANGED <<settings, before, master, window, bins, source, changes>>

Next ==
  \/ \E c \in Footprints : OnFootprintChanged(c)
  \/ \E r \in Radii : SetRadius(r)
  \/ \E grid \in Grids : \E w \in Windows : UpdateCosts(grid, w)
  \/ Visit
  \/ NextList

Spec == Init /\ [][Next]_vars

-----------------------------------------------------------------------------
(* No cell is put into a list that has been visited: it would never be seen. *)
NothingBehind == phase # "idle" => \A n \in DOMAIN bins : n < level => bins[n] = <<>>

Obstacles == {c \in DOMAIN before : IsSource(before[c])}

LevelOf(c, s) == GenerateIntegerDistances(radius, c, s)

(* The obstacle a cell of the window is inflated from is the nearest one of  *)
(* the whole grid, or one level farther: four neighbours do not hand on      *)
(* every nearest obstacle.  A cell that no obstacle reaches has none nearer  *)
(* than the radius.                                                          *)
NearestWithinOneLevel ==
  phase = "done" /\ radius > 0 =>
    \A c \in {d \in DOMAIN before : Inside(d, window)} :
      \A o \in Obstacles :
        IF c \in DOMAIN source THEN LevelOf(c, source[c]) <= LevelOf(c, o) + 1
        ELSE Squared(c, o) >= radius * radius

(* Where an obstacle is inside the circle around the robot's footprint, the  *)
(* planners see a collision, whatever was set before in whatever order; up   *)
(* to one level of distance.                                                 *)
FootprintIsCovered ==
  phase = "done" =>
    \A c \in DOMAIN before : \A o \in Obstacles :
      /\ Inside(c, window)
      /\ \E d \in DistancesUpTo(radius) :
           Squared(c, o) < d /\ d <= inscribed * inscribed /\ d < radius * radius
      => master[c] >= Inscribed
=============================================================================
