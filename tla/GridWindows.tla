---------------------------- MODULE GridWindows ----------------------------
(***************************************************************************)
(* What is carried from one grid to another by its place in the world: a   *)
(* keepout mask onto the master grid, a window of a costmap into a new     *)
(* one, costs into the values of an occupancy grid and back.  A map is one *)
(* row, [origin, res, cells], positions are in units half a cell is a      *)
(* whole number of.                                                        *)
(***************************************************************************)
EXTENDS Integers, Sequences

CONSTANTS Masters,  \* maps
          Masks,    \* maps
          Shifts,   \* of the mask's frame against the global frame
          Regions   \* <<from, to>>: parts of the world asked for as a window

VARIABLES job,      \* what is asked for
          result    \* <<>>, or what was answered

vars == <<job, result>>

Lethal == 254
NoInformation == 255
OccGridUnknown == -1

Size(m) == Len(m.cells)

\* Cells count from 0.
CostOf(m, i) == m.cells[i + 1]

Quotient(a, b) == IF a >= 0 THEN a \div b ELSE -((-a) \div b)

MapToWorld(m, i) == m.origin + i * m.res + m.res \div 2

WorldToMapNoBounds(m, w) == Quotient(w - m.origin, m.res)

InMap(m, w) == m.origin <= w /\ WorldToMapNoBounds(m, w) < Size(m)

-----------------------------------------------------------------------------
(* KeepoutFilter::process() in the bounds lo..hi-1. *)

Least(a, b) == IF a < b THEN a ELSE b
Greatest(a, b) == IF a < b THEN b ELSE a

OverlapInclusive(m, k, lo, hi) ==  \* faulty: the upper bound is taken for the last cell
  LET first == WorldToMapNoBounds(m, k.origin + k.res \div 2)
      end == WorldToMapNoBounds(m, k.origin + Size(k) * k.res - k.res \div 2)
  IN IF first >= hi \/ end <= lo THEN {} ELSE Greatest(lo, first)..Least(hi, end) - 1

\* The cells of m between the middle of the mask's first cell and half a
\* cell behind its last.
Overlap(m, k, lo, hi) ==
  LET first == WorldToMapNoBounds(m, k.origin + k.res \div 2)
      end == WorldToMapNoBounds(m, k.origin + Size(k) * k.res + k.res \div 2)
  IN IF first >= hi \/ end <= lo THEN {} ELSE Greatest(lo, first)..Least(hi, end) - 1

Masked(old, data) ==
  IF data # NoInformation /\ (data > old \/ old = NoInformation) THEN data ELSE old

Keepout(m, k, shift, sameFrame, lo, hi) ==
  LET visited == IF sameFrame THEN Overlap(m, k, lo, hi) ELSE lo..hi - 1
      InMask(i) == MapToWorld(m, i) + shift
  IN [m EXCEPT !.cells =
        [n \in DOMAIN @ |->
           IF n - 1 \in visited /\ InMap(k, InMask(n - 1))
           THEN Masked(@[n], CostOf(k, WorldToMapNoBounds(k, InMask(n - 1)))) ELSE @[n]]]

\* With a mask, and a transform to its frame: without one of them process()
\* returns and leaves the grid as it is (keepout_filter.cpp:158, 185).
Process ==
  /\ job.kind = "keepout" /\ result = <<>>
  /\ result' = <<Keepout(job.master, job.mask, job.shift, job.sameFrame, job.lo, job.hi)>>
  /\ UNCHANGED job

-----------------------------------------------------------------------------
(* copyCostmapWindow(); a window that is not inside leaves no cells.        *)

CopyCostmapWindow(m, from, to) ==
  LET first == WorldToMapNoBounds(m, from)
      end == WorldToMapNoBounds(m, to)
  IN IF ~InMap(m, from) \/ ~InMap(m, to) THEN [m EXCEPT !.cells = <<>>]
     ELSE [origin |-> from, res |-> m.res, cells |-> SubSeq(m.cells, first + 1, end)]

Window ==
  /\ job.kind = "window" /\ result = <<>>
  /\ result' = <<CopyCostmapWindow(job.map, job.from, job.to)>>
  /\ UNCHANGED job

-----------------------------------------------------------------------------
(* Costs as they are published, and as they are read. *)

CostTranslation(cost) ==
  IF cost = 0 THEN 0 ELSE IF cost = 253 THEN 99 ELSE IF cost = Lethal THEN 100
  ELSE IF cost = NoInformation THEN OccGridUnknown
  ELSE 1 + (97 * (cost - 1)) \div 251

\* std::round, to an unsigned char
FromOccupancy(data) ==
  IF data = OccGridUnknown THEN NoInformation ELSE ((2 * data * Lethal + 100) \div 200) % 256

Exchange ==
  /\ job.kind = "cost" /\ result = <<>>
  /\ result' = <<FromOccupancy(CostTranslation(job.cost)), FromOccupancy(CostTranslation(job.next))>>
  /\ UNCHANGED job

-----------------------------------------------------------------------------
\* Both maps are in one frame if the mask's is the global one.
KeepoutJobs ==
  UNION {{j \in [kind : {"keepout"}, master : {m}, mask : Masks, shift : Shifts, sameFrame : BOOLEAN,
                 lo : 0..Size(m), hi : 0..Size(m)] :
            j.lo < j.hi /\ (j.sameFrame => j.shift = 0)} : m \in Masters}

WindowJobs == {[kind |-> "window", map |-> m, from |-> r[1], to |-> r[2]] : m \in Masters, r \in Regions}

CostJobs == {[kind |-> "cost", cost |-> c, next |-> c + 1] : c \in 0..254}

Init == job \in KeepoutJobs \cup WindowJobs \cup CostJobs /\ result = <<>>

Next == Process \/ Window \/ Exchange

Spec == Init /\ [][Next]_vars

-----------------------------------------------------------------------------
\* The middle of the cell is half a mask cell inside the mask's lower edge,
\* and its end at most as much behind the upper one.
WellInside(m, k, i) ==
  /\ MapToWorld(m, i) >= k.origin + k.res \div 2
  /\ m.origin + (i + 1) * m.res <= k.origin + Size(k) * k.res + k.res \div 2

(* Inside the bounds a master cell costs at least what the mask says at its *)
(* middle.  In one frame, where only the overlap is visited, this is so for *)
(* the cells well inside the mask (keepout_filter.cpp:214, 229).            *)
KeepoutHolds ==
  job.kind = "keepout" /\ result # <<>> =>
    \A i \in job.lo..job.hi - 1 :
      LET w == MapToWorld(job.master, i) + job.shift
          data == CostOf(job.mask, WorldToMapNoBounds(job.mask, w))
      IN InMap(job.mask, w) /\ (job.sameFrame => WellInside(job.master, job.mask, i)) /\ data # NoInformation
           => CostOf(result[1], i) # NoInformation /\ CostOf(result[1], i) >= data

(* A cell of a window has the cost the map has at the middle of the cell,   *)
(* or up to one cell before it: the window's corner need not be a cell's.   *)
WindowKeepsPlace ==
  job.kind = "window" /\ result # <<>> =>
    \A i \in 0..Size(result[1]) - 1 :
      \E j \in 0..Size(job.map) - 1 :
        /\ MapToWorld(job.map, j) <= MapToWorld(result[1], i)
        /\ MapToWorld(result[1], i) < MapToWorld(job.map, j) + job.map.res
        /\ CostOf(job.map, j) = CostOf(result[1], i)

(* A costmap that is published and read as a map keeps what is lethal, what *)
(* is unknown and what is free, and the order of the costs between.         *)
ExchangeKeepsClasses ==
  job.kind = "cost" /\ result # <<>> =>
    /\ (job.cost = 0) <=> (result[1] = 0)
    /\ (job.cost = Lethal) <=> (result[1] = Lethal)
    /\ (job.next = NoInformation) <=> (result[2] = NoInformation)
    /\ result[1] <= result[2]
=============================================================================
