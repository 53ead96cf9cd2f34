----------------------------- MODULE VoxelLayer -----------------------------
(***************************************************************************)
(* The voxel layer: a grid of columns of bits, two for each height (known, *)
(* marked; known, free; unknown), and the costmap that is kept beside it.  *)
(* Points mark voxels, rays clear the voxels they pass, and each of them   *)
(* brings the cost of the column up to date by two thresholds.  The map is *)
(* a row of columns that moves with the robot.                             *)
(***************************************************************************)
EXTENDS Raster, FiniteSets

CONSTANTS Length,      \* cells of the row, numbered from 0
          Bits,        \* heights a column has room for: 16 in the code
          Heights,     \* the values z_voxels is set to
          Unknowns,    \* the values unknown_threshold is set to
          Marks,       \* the values mark_threshold is set to
          MaxSettings  \* bound on the changes of parameters

VARIABLES columns,     \* cell -> [hi, lo]: the heights whose upper, lower bit is set
          costs,       \* cell -> "unknown", "free" or "lethal"
          sizeZ, unknownThreshold, markThreshold,
          enabled,
          bounded,     \* the update is between its bounds and its costs
          settings,
          \* history
          asked,       \* the unknown_threshold the operator asked for
          stale,       \* cells whose cost was not the column's doing, or was before thresholds changed
          wiped        \* cells whose cost was cleared behind the column's back, till a point marks them

vars == <<columns, costs, sizeZ, unknownThreshold, markThreshold, enabled, bounded, settings, asked, stale,
          wiped>>
params == <<sizeZ, unknownThreshold, markThreshold>>
flags == <<enabled, bounded>>

Cells == 0 .. Length - 1
AllBits == 0 .. Bits - 1

(* Columns *)

UnknownColumn == [hi |-> {}, lo |-> AllBits]

MarkVoxel(col, z) == [hi |-> col.hi \union {z}, lo |-> col.lo \union {z}]

ClearVoxels(col, zs) == [hi |-> col.hi \ zs, lo |-> col.lo \ zs]

UnknownBits(col) == (col.hi \ col.lo) \union (col.lo \ col.hi)

BitsBelowThreshold(bits, threshold) == Cardinality(bits) <= threshold

GetVoxel(col, z) ==
  IF z \in col.hi /\ z \in col.lo THEN "marked"
  ELSE IF z \in col.hi \/ z \in col.lo THEN "unknown" ELSE "free"

GetVoxelColumn(col, unknown, marked) ==
  IF ~BitsBelowThreshold(col.hi, marked) THEN "marked"
  ELSE IF ~BitsBelowThreshold(UnknownBits(col), unknown) THEN "unknown" ELSE "free"

ClearedByName(col, old) ==  \* faulty: the bits above the height count as unknown
  IF ~BitsBelowThreshold(col.hi, markThreshold) THEN old
  ELSE IF BitsBelowThreshold(UnknownBits(col), asked) THEN "free" ELSE "unknown"

\* the functor ClearVoxelInMap: the cost the column gives, or the old one
ClearedCost(col, old) ==
  IF ~BitsBelowThreshold(col.hi, markThreshold) THEN old
  ELSE IF BitsBelowThreshold(UnknownBits(col), unknownThreshold) THEN "free" ELSE "unknown"

InGrid(v) == v[1] \in Cells /\ v[2] >= 0 /\ v[2] < sizeZ

(* The grid and the costmap, [columns, costs] *)

\* The voxels of a ray, which come one after the other, at once: the last one
\* of a column gives it its cost, for if too many of its voxels are marked
\* then, too many were before, and its cost is the old one.
ClearInMap(m, ray) ==
  LET passed(c) == {v[2] : v \in {v \in ray : v[1] = c}}
      after(c) == ClearVoxels(m.columns[c], passed(c))
  IN [columns |-> [c \in Cells |-> after(c)],
      costs |-> [c \in Cells |-> IF passed(c) = {} THEN m.costs[c] ELSE ClearedCost(after(c), m.costs[c])]]

Voxels == Cells \X AllBits

\* where the rays start: the sensor is on the robot, and the map moves with it
Sensor == <<0, 1>>

Rays == [p, q \in Voxels |-> RaytraceLine3D(p, q, Unlimited, 0)]

ClearVoxelLineInMap(m, p, q) ==
  IF InGrid(p) /\ InGrid(q) THEN ClearInMap(m, {Rays[p, q][i] : i \in DOMAIN Rays[p, q]}) ELSE m

\* A ray ends two cells before its point, or where it leaves the grid: any
\* voxel of the grid.
RaytraceFreespace(m, p, q) == ClearVoxelLineInMap(m, p, q)

MarkVoxelInMap(m, v) ==
  LET col == MarkVoxel(m.columns[v[1]], v[2])
  IN [columns |-> [m.columns EXCEPT ![v[1]] = col],
      costs |-> IF BitsBelowThreshold(col.hi, markThreshold) THEN m.costs
                ELSE [m.costs EXCEPT ![v[1]] = "lethal"]]

ResetColumns == [c \in Cells |-> UnknownColumn]

ResetMaps == [columns |-> ResetColumns, costs |-> [c \in Cells |-> "unknown"]]

(* updateOrigin(): the map moves by some cells, what is left of the voxels *)
(* and of the costs with it.                                               *)
Moved(c, by) == c + by \in Cells

UpdateOrigin(by) ==
  [columns |-> [c \in Cells |-> IF Moved(c, by) THEN columns[c + by] ELSE UnknownColumn],
   costs |-> [c \in Cells |-> IF Moved(c, by) THEN costs[c + by] ELSE "unknown"]]

-----------------------------------------------------------------------------
Init ==
  /\ sizeZ \in Heights /\ asked \in Unknowns /\ unknownThreshold = asked + (Bits - sizeZ)
  /\ markThreshold \in Marks
  /\ columns = ResetColumns /\ costs = ResetMaps.costs
  /\ enabled = TRUE /\ bounded = FALSE
  /\ settings = 0 /\ stale = {} /\ wiped = {}

MapOf(m) == columns' = m.columns /\ costs' = m.costs

(* One update: the map follows the robot, then the rays to what clears are  *)
(* traced, then what marks is marked; a layer that is disabled moves and    *)
(* does nothing else.                                                       *)
UpdateBounds(by, marking, clearing) ==
  /\ ~bounded /\ bounded' = TRUE
  /\ by # 0 \/ enabled
  /\ \E m0 \in {UpdateOrigin(by)} :
     \E m1 \in {IF clearing = <<>> THEN m0 ELSE RaytraceFreespace(m0, Sensor, clearing[1])} :
     \E m2 \in {IF marking = <<>> THEN m1 ELSE MarkVoxelInMap(m1, marking[1])} :
       MapOf(IF enabled THEN m2 ELSE m0)
  /\ stale' = {c \in Cells : Moved(c, by) /\ c + by \in stale}
  /\ wiped' = {c \in Cells : /\ Moved(c, by) /\ c + by \in wiped /\ costs'[c] = "unknown"
                            /\ ~(enabled /\ \E i \in DOMAIN marking : marking[i][1] = c)}
  /\ UNCHANGED <<params, enabled, settings, asked>>

(* The cells of the footprint are freed, whatever their voxels. *)
UpdateCosts(footprint) ==
  /\ bounded /\ bounded' = FALSE
  /\ costs' = [c \in Cells |-> IF enabled /\ c \in footprint THEN "free" ELSE costs[c]]
  /\ stale' = IF enabled THEN stale \union footprint ELSE stale
  /\ UNCHANGED <<columns, params, enabled, settings, asked, wiped>>

\* clearArea(), by the service that clears a region or all but a region: it
\* is the costmap's own, and no voxel hears of it.
ClearArea(kept) ==
  /\ costs' = [c \in Cells |-> IF c \in kept THEN costs[c] ELSE "unknown"]
  /\ wiped' = wiped \union {c \in Cells \ kept : costs[c] # "unknown"}
  /\ UNCHANGED <<columns, params, flags, settings, asked, stale>>

Reset ==
  /\ MapOf(ResetMaps) /\ stale' = {} /\ wiped' = {}
  /\ UNCHANGED <<params, enabled, bounded, settings, asked>>

MatchSize == MapOf(ResetMaps) /\ stale' = {} /\ wiped' = {}

Set == settings < MaxSettings /\ settings' = settings + 1

(* z_voxels at run time: the unknown threshold keeps the room it was given *)
(* for the bits above the old size.                                        *)
SetHeight(z) ==
  /\ Set /\ sizeZ' = z
  /\ MatchSize
  /\ UNCHANGED <<unknownThreshold, markThreshold, flags, asked>>

SetUnknown(n) ==
  /\ Set /\ asked' = n /\ unknownThreshold' = n + (Bits - sizeZ)
  /\ stale' = Cells
  /\ UNCHANGED <<columns, costs, sizeZ, markThreshold, flags, wiped>>

SetMark(n) ==
  /\ Set /\ markThreshold' = n
  /\ stale' = Cells
  /\ UNCHANGED <<columns, costs, sizeZ, unknownThreshold, flags, asked, wiped>>

SetEnabled ==
  /\ Set /\ enabled' = ~enabled
  /\ UNCHANGED <<columns, costs, params, bounded, asked, stale, wiped>>

Next ==
  \/ \E by \in {0, 1}, point \in Voxels : \E marking, clearing \in {<<>>, <<point>>} :
       /\ InGrid(point)
       /\ UpdateBounds(by, marking, clearing)
  \/ \E footprint \in {{}, {0}} : UpdateCosts(footprint)
  \/ \E kept \in SUBSET Cells : ClearArea(kept)
  \/ Reset \/ SetEnabled
  \/ \E z \in Heights : SetHeight(z)
  \/ \E n \in Unknowns : SetUnknown(n)
  \/ \E n \in Marks : SetMark(n)

Spec == Init /\ [][Next]_vars

-----------------------------------------------------------------------------
Says(c) == GetVoxelColumn(columns[c], unknownThreshold, markThreshold)

(* The costmap and the voxels, which every mark, ray and move of the map    *)
(* changes side by side, say the same: what is lethal has more voxels       *)
(* marked than the threshold allows, and what is free has not, and what has *)
(* is lethal, unless the footprint or a new threshold passed it over or its *)
(* cost was cleared since the last point in it: clearing a region of the    *)
(* costmap forgets obstacles that the voxels still hold                     *)
(* (voxel_layer.cpp:248, costmap_layer.cpp:64).                             *)
CostFollowsColumn ==
  \A c \in Cells \ stale :
    /\ costs[c] = "lethal" => Says(c) = "marked"
    /\ costs[c] = "free" => Says(c) = "free"
    /\ Says(c) = "marked" => costs[c] = "lethal" \/ (c \in wiped /\ costs[c] = "unknown")

(* A column that was seen to be free at all its heights is free in the      *)
(* costmap, whatever unknown_threshold is: the bits above its height, which *)
(* are never known, do not count, as long as the height is not changed at   *)
(* run time and the cost is not cleared (voxel_layer.cpp:108, 510).         *)
KnownFreeIsFree ==
  unknownThreshold = asked + (Bits - sizeZ) =>
    \A c \in Cells \ (stale \union wiped) :
      (\A z \in 0 .. sizeZ - 1 : GetVoxel(columns[c], z) = "free") => costs[c] = "free"
=============================================================================
