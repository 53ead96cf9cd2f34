----------------------------- MODULE ThetaStar -----------------------------
(***************************************************************************)
(* The Theta* search by which the pure pursuit controller finds its own    *)
(* path in the local costmap: A* on the eight neighbours, where a cell may *)
(* take the parent of its parent when it is in sight.  Costs and distances *)
(* are in hundredths, rounded down.                                        *)
(***************************************************************************)
EXTENDS Integers, Sequences, FiniteSets

CONSTANTS Grids,      \* functions on (0 .. n) \X (0 .. k) to costs
          Queries     \* pairs of start and goal

VARIABLES grid, src, dst,
          nodes,      \* nodes_data_: cell -> [g, h, f, parent]
          queue,      \* queue_
          disturbed,  \* an f in the queue was changed in place: it is no heap any more
          current,    \* curr_data
          outcome,    \* "searching", "found" or "none"
          path,       \* raw_path
          strayed     \* cells outside the costmap whose cost was read

vars == <<grid, src, dst, nodes, queue, disturbed, current, outcome, path, strayed>>

UnknownCost == 255
LethalCost == 252

AbsOf(n) == IF n < 0 THEN -n ELSE n

\* In hundredths, cut off: between the longer axis and one and a half times it.
Euclidean(p, q) ==
  LET dx == AbsOf(p[1] - q[1])
      dy == AbsOf(p[2] - q[2])
      long == IF dx > dy THEN dx ELSE dy
      square == 10000 * (dx * dx + dy * dy)
  IN CHOOSE k \in 100 * long .. 150 * long : k * k <= square /\ square < (k + 1) * (k + 1)

GetEuclideanCost(p, q) == 2 * Euclidean(p, q)

GetHCost(p) == Euclidean(p, dst)

\* (26 + 0.9 cost)^2 / 252^2
Traversal(cost) == ((260 + 9 * cost) * (260 + 9 * cost)) \div 63504

GetTraversalCost(p) == Traversal(grid[p])

IsSafeCost(cost) == cost = UnknownCost \/ cost < LethalCost

IsSafe(p) == p \in DOMAIN grid /\ IsSafeCost(grid[p])

\* With the costs scaled to 26 .. 255, fewer are below the limit.  What is
\* read outside the costmap may be anything: luck is that it is free.
IsSafeInSight(p, luck) ==
  IF p \notin DOMAIN grid THEN luck ELSE grid[p] = UnknownCost \/ 260 + 9 * grid[p] < 10 * LethalCost

SightCost(p) ==
  Traversal(IF p \notin DOMAIN grid THEN 0 ELSE IF grid[p] = UnknownCost THEN 253 ELSE grid[p])

-----------------------------------------------------------------------------
(* Line of sight.  Along the longer axis (major) one step at a time; the    *)
(* line is one between corners of cells, and so is what it passes.          *)
BehindAway(s) == IF s = 1 THEN -1 ELSE 0  \* faulty: the cell on the other side of the corner

Behind(s) == IF s = 1 THEN 0 ELSE -1

Axes(p, q) ==
  LET steep == AbsOf(q[1] - p[1]) < AbsOf(q[2] - p[2])
      i == IF steep THEN 2 ELSE 1
      j == 3 - i
  IN [i |-> i, j |-> j, major |-> AbsOf(q[i] - p[i]), minor |-> AbsOf(q[j] - p[j]),
      si |-> IF q[i] > p[i] THEN 1 ELSE -1, sj |-> IF q[j] > p[j] THEN 1 ELSE -1]

Cell(a, i, j) == IF a.i = 1 THEN <<i, j>> ELSE <<j, i>>

\* How many rows the line has changed after k steps, and the cell beside it then.
Row(a, k) == (k * a.minor) \div a.major

Beside(a, p, k, row) == Cell(a, p[a.i] + a.si * k + Behind(a.si), p[a.j] + a.sj * row + Behind(a.sj))

\* What step k looks at before it changes rows.
SeenBefore(a, p, k) == IF Row(a, k + 1) > Row(a, k) THEN {Beside(a, p, k, Row(a, k))} ELSE {}

\* What step k looks at then.  Of the two sides of a line along an axis, the
\* second is only looked at when the first is not safe.
SeenAfter(a, p, k, luck) ==
  LET Side(j) == Cell(a, p[a.i] + a.si * k + Behind(a.si), j)
  IN IF a.minor = 0 THEN {Side(IF IsSafeInSight(Side(p[a.j]), luck) THEN p[a.j] ELSE p[a.j] - 1)}
     ELSE IF ((k + 1) * a.minor) % a.major # 0 THEN {Beside(a, p, k, Row(a, k + 1))}
     ELSE {}

\* of one cell at most
CostOf(cells) == IF cells = {} THEN 0 ELSE SightCost(CHOOSE c \in cells : TRUE)

LosCheck(p, q, luck) ==
  LET a == Axes(p, q)
      seen == UNION {SeenBefore(a, p, k) \union SeenAfter(a, p, k, luck) : k \in 0 .. a.major - 1}
      clear == \A c \in seen : IsSafeInSight(c, luck)
      along[k \in 0 .. a.major] ==
        IF k = 0 THEN 0
        ELSE along[k - 1] + CostOf(SeenBefore(a, p, k - 1)) + CostOf(SeenAfter(a, p, k - 1, luck))
  IN [clear |-> clear, cost |-> IF clear THEN along[a.major] ELSE 0, strays |-> seen \ DOMAIN grid]

-----------------------------------------------------------------------------
(* The search. *)

Node(g, h, parent) == [g |-> g, h |-> h, f |-> g + h, parent |-> parent]

\* SetStartAndGoal, ResetContainers: nothing is left of the last search.
Init ==
  /\ grid \in Grids
  /\ \E q \in Queries : {q[1], q[2]} \subseteq DOMAIN grid /\ src = q[1] /\ dst = q[2]
  /\ nodes = [c \in {src} |-> Node(GetTraversalCost(c), GetHCost(c), c)]
  /\ queue = {src} /\ disturbed = FALSE /\ current = src
  /\ outcome = "searching" /\ path = <<>> /\ strayed = {}

Grand == nodes[nodes[current].parent].parent

ResetParent(los) ==
  LET grand == Grand
      g == nodes[grand].g + GetEuclideanCost(current, grand) + los.cost
  IN IF los.clear /\ g < nodes[current].g THEN Node(g, nodes[current].h, grand) ELSE nodes[current]

Moves == {<<a, b>> : a \in -1 .. 1, b \in -1 .. 1} \ {<<0, 0>>}

Neighbors(p) == {c \in {<<p[1] + m[1], p[2] + m[2]>> : m \in Moves} : IsSafe(c)}

Through(known, c) == Node(known[current].g + GetEuclideanCost(current, c) + GetTraversalCost(c), GetHCost(c), current)

Improves(known, c) == c \notin DOMAIN known \/ known[c].f > Through(known, c).f

Expand ==
  \E luck \in BOOLEAN : \E los \in {LosCheck(current, Grand, luck)} :
  \E known \in {[nodes EXCEPT ![current] = ResetParent(los)]} :
    LET better == {c \in Neighbors(current) : Improves(known, c)}
        after == [c \in DOMAIN known \union better |-> IF c \in better THEN Through(known, c) ELSE known[c]]
        waiting == queue \union better
    IN /\ nodes' = after
       /\ disturbed' = (disturbed \/ better \intersect queue # {})
       /\ strayed' = strayed \union los.strays
       /\ \E top \in waiting :
            /\ disturbed' \/ \A c \in waiting : after[top].f <= after[c].f
            /\ current' = top
            /\ queue' = waiting \ {top}

Search ==
  /\ outcome = "searching" /\ queue # {} /\ current # dst
  /\ Expand
  /\ UNCHANGED <<grid, src, dst, outcome, path>>

\* From the goal to the start, turned round; the goal comes twice.
Backtrace(c) ==
  LET back[n \in Nat] == IF n = 0 THEN c ELSE LET b == back[n - 1] IN nodes[b].parent
      last == CHOOSE n \in 0 .. Cardinality(DOMAIN nodes) : back[n] = src /\ \A m \in 0 .. n - 1 : back[m] # src
  IN [i \in 1 .. last + 2 |-> IF i = last + 2 THEN c ELSE back[last + 1 - i]]

Finish ==
  /\ outcome = "searching" /\ (queue = {} \/ current = dst)
  /\ IF queue = {} THEN outcome' = "none" /\ UNCHANGED path
     ELSE outcome' = "found" /\ path' = Backtrace(dst)
  /\ UNCHANGED <<grid, src, dst, nodes, queue, disturbed, current, strayed>>

Next == Search \/ Finish

Spec == Init /\ [][Next]_vars

-----------------------------------------------------------------------------
(* Every cell found is dearer than its parent by the way between them, so   *)
(* that the way back ends, at the start.                                    *)
ParentsCheaper ==
  \A c \in DOMAIN nodes \ {src} :
    /\ nodes[c].parent \in DOMAIN nodes
    /\ nodes[c].g >= nodes[nodes[c].parent].g + GetEuclideanCost(c, nodes[c].parent)

Adjacent(p, q) == p # q /\ AbsOf(p[1] - q[1]) <= 1 /\ AbsOf(p[2] - q[2]) <= 1

Reachable(without) ==
  LET reach[n \in 0 .. Cardinality(DOMAIN grid)] ==
        IF n = 0 THEN {src}
        ELSE LET r == reach[n - 1]
             IN r \union {c \in DOMAIN grid \ {without} : IsSafe(c) /\ \E p \in r : Adjacent(p, c)}
  IN reach[Cardinality(DOMAIN grid)]

(* The search gives up only when every way to the goal leads through the    *)
(* last cell of the queue, which it does not expand.                        *)
MissesOnlyLastCell == outcome = "none" => dst \notin Reachable(current)

(* The cost of a cell outside the map is read only below its lowest row or  *)
(* column, beside an obstacle in it.                                        *)
StraysOnlyAtEdge ==
  \A c \in strayed : \E i \in {1, 2} : c[i] = -1 /\ [c EXCEPT ![i] = 0] \in DOMAIN grid /\ ~IsSafe([c EXCEPT ![i] = 0])
=============================================================================
