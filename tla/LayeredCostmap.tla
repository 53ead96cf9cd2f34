--------------------------- MODULE LayeredCostmap ---------------------------
(***************************************************************************)
(* The data of nav2_costmap_2d: LayeredCostmap::updateMap() with a static  *)
(* layer, an obstacle layer, an inflation layer and, if the configuration  *)
(* has one, the keepout filter, on a row of cells.  An update recomputes   *)
(* only the cells between the bounds the layers ask for; the question is   *)
(* whether the master grid still is what the layers say.  Cells of the     *)
(* world are integers, a grid is a function on 0..W-1, the place of the    *)
(* robot is in quarters of a cell.                                         *)
(***************************************************************************)
EXTENDS Integers, FiniteSets

CONSTANTS W,            \* cells of the master grid
          Radius,       \* cell_inflation_radius_
          RayRange,     \* raytrace_max_range, obstacle_max_range, in cells
          Configs,      \* [rolling, filtered, overwrite : BOOLEAN,
                        \*  toggles: layers whose "enabled" is set]
          Robots,       \* places of the robot, in quarters of a cell
          Scans,        \* sets of cells a scan can hit
          StaticMaps,   \* occupancy grids, functions on 0..W-1
          Updates       \* cells an update of the static map can be about

Free == 0
Inscribed == 253
Lethal == 254
NoInfo == 255
Default == NoInfo   \* track_unknown_space
Cells == 0 .. W - 1
Blank == [i \in Cells |-> Default]

VARIABLES cfg,        \* the configuration
          origin,     \* origin of master grid and obstacle layer
          primary,    \* primary_costmap_
          master,     \* combined_costmap_
          static,     \* static layer: costmap_, map_buffer_, flags
          obstacle,   \* obstacle layer: costmap_, origin, extra bounds
          inflation,  \* inflation layer: last bounds, need_reinflation_
          masked,     \* the keepout mask has been received
          inWindow,   \* the robot was in the grid at the last update
          synced,     \* history: no change the next bounds may miss
          fresh       \* history: no message since the last update

vars == <<cfg, origin, primary, master, static, obstacle, inflation, masked, inWindow,
          synced, fresh>>

-----------------------------------------------------------------------------
(* Bounds, in cells of the world. *)

Far == 1000
NoBounds == [lo |-> Far, hi |-> -Far]
Everything == [lo |-> -Far, hi |-> Far]

Least(S) == CHOOSE x \in S : \A y \in S : x <= y
Greatest(S) == CHOOSE x \in S : \A y \in S : y <= x

Widen(b, c) == [lo |-> Least({b.lo, c.lo}), hi |-> Greatest({b.hi, c.hi})]
Touch(b, S) == [lo |-> Least({b.lo} \cup S), hi |-> Greatest({b.hi} \cup S)]

WorldToMapEnforceBounds(x, o) ==
  IF x < o THEN 0 ELSE IF x - o > W - 1 THEN W - 1 ELSE x - o

(* Costmap2D::updateOrigin() with static_cast<int>, which rounds to zero. *)
CellShift(p, o) ==
  LET d == p - (2 * W - 1) - 4 * o
  IN IF d >= 0 THEN d \div 4 ELSE -((-d) \div 4)

MoveGrid(g, k) == [i \in Cells |-> IF i + k \in Cells THEN g[i + k] ELSE Default]

-----------------------------------------------------------------------------
(* The static layer. *)

InterpretValue(v) == IF v = -1 THEN NoInfo ELSE IF v >= 100 THEN Lethal ELSE Free

ProcessMap(m) ==
  [static EXCEPT !.grid = [i \in Cells |-> InterpretValue(m[i])],
                 !.updated = TRUE, !.buffer = <<>>]

LoadedStatic ==
  IF static.received /\ static.buffer # <<>> THEN ProcessMap(static.buffer[1]) ELSE static

StaticBounds(s, b) ==
  IF s.received /\ (cfg.rolling \/ s.updated) THEN Touch(b, {0, W}) ELSE b

StaticCosts(s, m, o, lo, hi) ==
  IF ~s.enabled \/ ~s.received THEN m
  ELSE [i \in Cells |-> IF i \in lo .. hi - 1 /\ o + i \in Cells
                        THEN s.grid[o + i] ELSE m[i]]

-----------------------------------------------------------------------------
(* The obstacle layer. *)

InGrid(x, o) == x - o \in Cells
Between(a, b) == IF a <= b THEN a .. b ELSE b .. a

(* Where the ray from r to h ends: at the edge of the grid or at its range. *)
RayEnd(r, h, o) ==
  LET edge == IF h < o THEN o ELSE IF h > o + W - 1 THEN o + W - 1 ELSE h
  IN IF edge - r > RayRange THEN r + RayRange
     ELSE IF r - edge > RayRange THEN r - RayRange ELSE edge

RaytraceFreespace(g, o, r, hits) ==
  [i \in Cells |-> IF InGrid(r, o) /\ \E h \in hits : o + i \in Between(r, RayEnd(r, h, o))
                   THEN Free ELSE g[i]]

MarkedBy(o, r, hits) == {h \in hits : InGrid(h, o) /\ h - r < RayRange /\ r - h < RayRange}

MarkObstacles(g, o, r, hits) ==
  [i \in Cells |-> IF o + i \in MarkedBy(o, r, hits) THEN Lethal ELSE g[i]]

UseExtraBounds(b) == Widen(b, obstacle.extra)

ObstacleBounds(b, o, r, hits, clearing) ==
  IF ~obstacle.enabled THEN b
  ELSE Touch(UseExtraBounds(b),
         {r} \cup MarkedBy(o, r, hits) \cup
         (IF InGrid(r, o) THEN {RayEnd(r, h, o) : h \in clearing} ELSE {}))

ClearFootprint(g, o, r) == IF InGrid(r, o) THEN [g EXCEPT ![r - o] = Free] ELSE g

ObservedGrid(o, r, hits, clearing) ==
  LET moved == IF cfg.rolling THEN MoveGrid(obstacle.grid, o - obstacle.origin)
                              ELSE obstacle.grid
  IN IF ~obstacle.enabled THEN moved
     ELSE ClearFootprint(MarkObstacles(RaytraceFreespace(moved, o, r, clearing),
                                       o, r, hits), o, r)

ObstacleUpdate(b, g, o) ==
  [obstacle EXCEPT !.grid = g, !.origin = o,
                   !.extra = IF obstacle.enabled THEN NoBounds ELSE @]

UpdateWithOverwrite(g, m, lo, hi) ==
  [i \in Cells |-> IF i \in lo .. hi - 1 /\ g[i] # NoInfo THEN g[i] ELSE m[i]]

UpdateWithMax(g, m, lo, hi) ==
  [i \in Cells |-> IF i \in lo .. hi - 1 /\ g[i] # NoInfo /\ (m[i] = NoInfo \/ m[i] < g[i])
                   THEN g[i] ELSE m[i]]

ObstacleCosts(g, m, lo, hi) ==
  IF ~obstacle.enabled THEN m
  ELSE IF cfg.overwrite THEN UpdateWithOverwrite(g, m, lo, hi)
  ELSE UpdateWithMax(g, m, lo, hi)

-----------------------------------------------------------------------------
(* The inflation layer. *)

InflationBoundsTight(b) ==  \* faulty: no room for the inflation around the bounds
  IF inflation.again THEN Everything ELSE Widen(inflation.last, b)

InflationBounds(b) ==
  IF inflation.again THEN Everything
  ELSE [lo |-> Least({inflation.last.lo, b.lo}) - Radius,
        hi |-> Greatest({inflation.last.hi, b.hi}) + Radius]

CostAt(d) == IF d = 0 THEN Lethal ELSE IF d = 1 THEN Inscribed ELSE 100 \div d

Sources(m, lo, hi) ==
  {j \in Greatest({0, lo - Radius}) .. Least({W, hi + Radius}) - 1 : m[j] = Lethal}

InflatedCost(old, d) ==
  IF old = NoInfo /\ CostAt(d) >= Inscribed THEN CostAt(d) ELSE Greatest({old, CostAt(d)})

InflationCosts(m, lo, hi) ==
  LET sources == Sources(m, lo, hi)
      Distances(i) == {Greatest({i - j, j - i}) : j \in sources}
  IN IF ~inflation.enabled THEN m
     ELSE [i \in Cells |->
            IF i \in lo .. hi - 1 /\ \E d \in Distances(i) : d <= Radius
            THEN InflatedCost(m[i], Least(Distances(i))) ELSE m[i]]

-----------------------------------------------------------------------------
(* The keepout filter: lethal where the mask is, one cell here. *)

MaskCell == 2

FilterCosts(m, o, lo, hi) ==
  [i \in Cells |-> IF masked /\ i \in lo .. hi - 1 /\ o + i = MaskCell THEN Lethal ELSE m[i]]

-----------------------------------------------------------------------------
(* LayeredCostmap *)

ResetMap(m, lo, hi) == [i \in Cells |-> IF i \in lo .. hi - 1 THEN Default ELSE m[i]]

(* The grid the layers make of m, one layer after the other: a set of one. *)
Plugins(s, g, m, o, lo, hi) ==
  {InflationCosts(b, lo, hi) :
     b \in {ObstacleCosts(g, a, lo, hi) : a \in {StaticCosts(s, ResetMap(m, lo, hi), o, lo, hi)}}}

CopyWindow(from, to, lo, hi) == [i \in Cells |-> IF i \in lo .. hi - 1 THEN from[i] ELSE to[i]]

UpdateCosts(s, g, o, lo, hi) ==
  LET old(m) == IF cfg.rolling THEN MoveGrid(m, o - origin) ELSE m
  IN \E p \in {old(primary)}, m \in {old(master)} :
       IF hi < lo THEN primary' = p /\ master' = m
       ELSE \E done \in Plugins(s, g, IF cfg.filtered THEN p ELSE m, o, lo, hi) :
              IF ~cfg.filtered THEN primary' = p /\ master' = done
              ELSE /\ primary' = done
                   /\ master' = FilterCosts(CopyWindow(done, m, lo, hi), o, lo, hi)

UpdateMap(p, hits, clearing) ==
  \E o \in {IF cfg.rolling THEN origin + CellShift(p, origin) ELSE origin},
     r \in {p \div 4}, s \in {LoadedStatic} :
  \E g \in {ObservedGrid(o, r, hits, clearing)},
     b \in {ObstacleBounds(StaticBounds(s, NoBounds), o, r, hits, clearing)} :
  \E c \in {InflationBounds(b)} :
  \E lo \in {WorldToMapEnforceBounds(c.lo, o)},
     hi \in {Least({W, WorldToMapEnforceBounds(c.hi, o) + 1})} :
     /\ origin' = o
     /\ inWindow' = InGrid(r, o)
     /\ static' = IF s.received /\ (cfg.rolling \/ s.updated)
                  THEN [s EXCEPT !.updated = FALSE] ELSE s
     /\ obstacle' = ObstacleUpdate(b, g, o)
     /\ inflation' = [inflation EXCEPT !.last = b, !.again = FALSE]
     /\ UpdateCosts(s, g, o, lo, hi)
     /\ synced' = (synced \/ (lo = 0 /\ hi = W))
     /\ fresh' = TRUE
     /\ UNCHANGED <<cfg, masked>>

-----------------------------------------------------------------------------
(* Messages, services and parameters, between two updates. *)

(* The first map is loaded at once and makes the grids anew: resizeMap(). *)
FirstMap(m) ==
  /\ ~static.received
  /\ static' = [ProcessMap(m) EXCEPT !.received = TRUE]
  /\ IF cfg.rolling THEN UNCHANGED <<primary, master, obstacle, synced>>
     ELSE /\ primary' = Blank /\ master' = Blank
          /\ obstacle' = [obstacle EXCEPT !.grid = Blank]
          /\ UNCHANGED synced
  /\ fresh' = FALSE
  /\ UNCHANGED <<cfg, origin, inflation, masked, inWindow>>

NextMap(m) ==
  /\ static.received
  /\ static' = [static EXCEPT !.buffer = <<m>>]
  /\ fresh' = FALSE
  /\ UNCHANGED <<cfg, origin, primary, master, obstacle, inflation, masked, inWindow, synced>>

IncomingUpdate(i, v) ==
  /\ static.received
  /\ static' = [static EXCEPT !.grid[i] = InterpretValue(v), !.updated = TRUE]
  /\ fresh' = FALSE
  /\ UNCHANGED <<cfg, origin, primary, master, obstacle, inflation, masked, inWindow, synced>>

(* ClearCostmapService::clearLayerRegion() of the cells between a and b; the *)
(* cells at a and b themselves are not cleared.                              *)
ClearRegion(p, reset, invert) ==
  LET a == WorldToMapEnforceBounds((p - reset) \div 4, origin)
      b == WorldToMapEnforceBounds((p + reset) \div 4, origin)
  IN /\ obstacle' = [obstacle EXCEPT
                       !.grid = [i \in Cells |-> IF (a < i /\ i < b) = invert THEN @[i]
                                                                              ELSE NoInfo],
                       !.extra = Widen(@, [lo |-> origin, hi |-> origin + W])]
     /\ fresh' = FALSE
     /\ UNCHANGED <<cfg, origin, primary, master, static, inflation, masked, inWindow, synced>>

(* Costmap2DROS::resetLayers(): primary_costmap_ keeps what it has. *)
ResetLayers ==
  /\ master' = Blank
  /\ obstacle' = [obstacle EXCEPT !.grid = Blank]
  /\ static' = [static EXCEPT !.updated = TRUE]
  /\ fresh' = FALSE
  /\ synced' = FALSE
  /\ UNCHANGED <<cfg, origin, primary, inflation, masked, inWindow>>

MaskReceived ==
  /\ cfg.filtered /\ ~masked
  /\ masked' = TRUE
  /\ fresh' = FALSE /\ synced' = FALSE
  /\ UNCHANGED <<cfg, origin, primary, master, static, obstacle, inflation, inWindow>>

(* onFootprintChanged(), or a parameter of the inflation *)
FootprintChanged ==
  /\ inflation' = [inflation EXCEPT !.again = TRUE]
  /\ fresh' = FALSE
  /\ UNCHANGED <<cfg, origin, primary, master, static, obstacle, masked, inWindow, synced>>

ToggleStatic ==
  /\ "static" \in cfg.toggles
  /\ static' = [static EXCEPT !.enabled = ~@, !.updated = TRUE]
  /\ fresh' = FALSE
  /\ UNCHANGED <<cfg, origin, primary, master, obstacle, inflation, masked, inWindow, synced>>

(* Nothing makes the next update wider: what the layer wrote may stay. *)
ToggleObstacle ==
  /\ "obstacle" \in cfg.toggles
  /\ obstacle' = [obstacle EXCEPT !.enabled = ~@]
  /\ fresh' = FALSE /\ synced' = FALSE
  /\ UNCHANGED <<cfg, origin, primary, master, static, inflation, masked, inWindow>>

ToggleInflation ==
  /\ "inflation" \in cfg.toggles
  /\ inflation' = [inflation EXCEPT !.enabled = ~@, !.again = TRUE]
  /\ fresh' = FALSE
  /\ UNCHANGED <<cfg, origin, primary, master, static, obstacle, masked, inWindow, synced>>

Init ==
  /\ cfg \in Configs
  /\ origin = 0
  /\ primary = Blank /\ master = Blank
  /\ static = [grid |-> Blank, buffer |-> <<>>, received |-> FALSE,
               updated |-> FALSE, enabled |-> TRUE]
  /\ obstacle = [grid |-> Blank, origin |-> 0, extra |-> NoBounds, enabled |-> TRUE]
  /\ inflation = [last |-> Everything, again |-> FALSE, enabled |-> TRUE]
  /\ masked = FALSE /\ inWindow = TRUE
  /\ synced = FALSE /\ fresh = FALSE

Next ==
  \/ \E p \in Robots, hits \in Scans : \E clearing \in {{}, hits} : UpdateMap(p, hits, clearing)
  \/ \E m \in StaticMaps : FirstMap(m) \/ NextMap(m)
  \/ \E i \in Updates, v \in {0, 100} : IncomingUpdate(i, v)
  \/ \E p \in Robots, invert \in BOOLEAN : ClearRegion(p, 6, invert)
  \/ ResetLayers \/ MaskReceived \/ FootprintChanged
  \/ ToggleStatic \/ ToggleObstacle \/ ToggleInflation

Spec == Init /\ [][Next]_vars

-----------------------------------------------------------------------------
(* What an update of every cell of blank grids would give. *)
Composed == Plugins(static, obstacle.grid, Blank, origin, 0, W)
FilteredComposed ==
  IF cfg.filtered THEN {FilterCosts(c, origin, 0, W) : c \in Composed} ELSE Composed

(* The bounds miss nothing: after an update the master grid is what an      *)
(* update of every cell would give, although only some were recomputed,     *)
(* and the filter's costs have not leaked into what the plugins see.        *)
MasterIsComposed == ~cfg.rolling /\ synced /\ fresh => master \in FilteredComposed

(* A rolling grid keeps the robot inside, however far it jumped. *)
RobotInWindow == cfg.rolling => inWindow

(* Wherever the window rolls, a cell the obstacle layer holds lethal is     *)
(* lethal in the master grid after the update.                              *)
LethalKept ==
  fresh /\ cfg.rolling /\ ~cfg.overwrite /\ obstacle.enabled /\ synced
    => \A i \in Cells : obstacle.grid[i] = Lethal => master[i] = Lethal

(* An obstacle stays where it was seen: rolling the window, clearing and    *)
(* switching layers off and on never move what the layers hold.             *)
LethalWhereSeen ==
  LET Seen == (UNION Scans) \cup {j \in Cells : static.grid[j] = Lethal}
                  \cup (IF masked THEN {MaskCell} ELSE {})
  IN \A i \in Cells : /\ obstacle.grid[i] = Lethal => origin + i \in UNION Scans
                      /\ cfg.rolling /\ fresh /\ synced /\ master[i] = Lethal
                           => origin + i \in Seen
=============================================================================
