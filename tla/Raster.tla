------------------------------- MODULE Raster -------------------------------
(***************************************************************************)
(* Lines and polygons on a grid: Bresenham's line in the costmap, in the   *)
(* voxel grid and in the line iterator of the collision checkers, the      *)
(* outline of a polygon and the cells a convex polygon covers.  A point is *)
(* a tuple of two or three coordinates.                                    *)
(***************************************************************************)
EXTENDS Integers, Sequences
LOCAL INSTANCE FiniteSetsExt
LOCAL INSTANCE SequencesExt
LOCAL INSTANCE Functions

Unlimited == 1000  \* UINT_MAX

AbsOf(n) == IF n < 0 THEN -n ELSE n

Sign(n) == IF n > 0 THEN 1 ELSE -1

SquareOf(p, q) == LET d == [k \in DOMAIN p |-> (p[k] - q[k]) * (p[k] - q[k])]
                  IN FoldFunction(+, 0, d)

\* (unsigned int)(std::min(1.0, max / dist) * da)
Scaled(max, sq, da) ==
  IF max * max >= sq THEN da
  ELSE Max({n \in 0 .. da : n * n * sq <= max * max * da * da})

MinorLate(i, da, db) ==  \* faulty: the error starts at nothing
  IF da = 0 THEN 0 ELSE (i * db) \div da

\* One axis beside the dominant one, i steps on: error starts at half.
Minor(i, da, db) == IF da = 0 THEN 0 ELSE ((da \div 2) + i * db) \div da

\* x is dominant when it is as long as any other, then y.
Dominant(d) == CHOOSE k \in DOMAIN d : /\ \A j \in DOMAIN d : AbsOf(d[j]) <= AbsOf(d[k])
                                       /\ \A j \in 1 .. k - 1 : AbsOf(d[j]) < AbsOf(d[k])

\* The cells from p, n steps along the dominant axis.
Bresenham2D(p, d, n) ==
  LET a == Dominant(d)
      da == AbsOf(d[a])
  IN [i \in 1 .. n + 1 |-> [k \in DOMAIN p |->
        p[k] + Sign(d[k]) * (IF k = a THEN i - 1 ELSE Minor(i - 1, da, AbsOf(d[k])))]]

Bresenham3D(p, d, n) == Bresenham2D(p, d, n)

\* The first cell that is as far as min along the line: each coordinate is
\* cut off, towards 0.
StartAt(p, q, min) ==
  LET sq == SquareOf(p, q)
      Along(k) == LET d == AbsOf(q[k] - p[k])
                      sofar == {n \in 0 .. d : n * n * sq <= d * d * min * min}
                  IN Max(sofar)
      Exact(k) == LET d == AbsOf(q[k] - p[k]) IN Along(k) * Along(k) * sq = d * d * min * min
  IN IF sq = 0 THEN p
     ELSE [k \in DOMAIN p |-> IF q[k] >= p[k] THEN p[k] + Along(k)
                              ELSE p[k] - Along(k) - (IF Exact(k) THEN 0 ELSE 1)]

\* Costmap2D::raytraceLine()
RaytraceLine(p, q, max, min) ==
  LET sq == SquareOf(p, q)
      s == StartAt(p, q, min)
      d == [k \in DOMAIN p |-> q[k] - s[k]]
      da == AbsOf(d[Dominant(d)])
  IN IF sq < min * min THEN <<>>
     ELSE Bresenham2D(s, d, IF sq = 0 THEN da ELSE Scaled(max, sq, da))

\* VoxelGrid::raytraceLine(): the distance is cut off before it is compared,
\* which is the same for a minimum that is a whole number.
RaytraceLine3D(p, q, max, min) ==
  LET sq == SquareOf(p, q)
      s == StartAt(p, q, min)
      d == [k \in DOMAIN p |-> q[k] - s[k]]
      da == AbsOf(d[Dominant(d)])
  IN IF sq < min * min THEN <<>>
     ELSE Bresenham3D(s, d, IF sq = 0 THEN da ELSE Scaled(max, sq, da))

\* LineIterator, up to the last cell for which isValid()
LineCells(x0, y0, x1, y1) ==
  LET dx == AbsOf(x1 - x0)
      dy == AbsOf(y1 - y0)
      den == IF dx >= dy THEN dx ELSE dy
      numadd == IF dx >= dy THEN dy ELSE dx
      xinc == IF x1 >= x0 THEN 1 ELSE -1
      yinc == IF y1 >= y0 THEN 1 ELSE -1
      advance == [n \in 0 .. den |-> IF den = 0 THEN 0 ELSE (den \div 2 + n * numadd) \div den]
  IN [i \in 1 .. den + 1 |->
        IF dx >= dy THEN <<x0 + xinc * (i - 1), y0 + yinc * advance[i - 1]>>
        ELSE <<x0 + xinc * advance[i - 1], y0 + yinc * (i - 1)>>]

PolygonOutlineCells(polygon) ==
  FlattenSeq([i \in DOMAIN polygon |->
    RaytraceLine(polygon[i], polygon[1 + (i % Len(polygon))], Unlimited, 0)])

\* The columns of the sorted outline: a column starts with two cells,
\* whatever column the second one is in, and goes on with all that are in it.
ColumnEnd(cells, x, i) ==
  LET others == {j \in i + 2 .. Len(cells) : cells[j][1] # x}
  IN IF others = {} THEN Len(cells) ELSE Min(others) - 1

Column(cells, x, i) ==
  LET ys == {cells[j][2] : j \in i .. ColumnEnd(cells, x, i)}
  IN {<<x, y>> : y \in Min(ys) .. Max(ys)}

\* what is filled from column x on, the outline being read from its i-th cell
FillFrom(cells, first, last) ==
  LET next[x \in first - 1 .. last] ==
        IF x < first THEN 1 ELSE IF next[x - 1] >= Len(cells) THEN next[x - 1]
        ELSE ColumnEnd(cells, x, next[x - 1]) + 1
  IN UNION {IF next[x - 1] >= Len(cells) THEN {} ELSE Column(cells, x, next[x - 1])
            : x \in first .. last}

ConvexFillCells(polygon) ==
  LET outline == SortSeq(PolygonOutlineCells(polygon), LAMBDA a, b : a[1] < b[1])
  IN IF Len(polygon) < 3 THEN {}
     ELSE Range(outline) \union FillFrom(outline, outline[1][1], outline[Len(outline)][1])
=============================================================================
