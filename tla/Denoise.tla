------------------------------ MODULE Denoise ------------------------------
(***************************************************************************)
(* The denoise layer.  An image is a function from the positions           *)
(* <<row, column>>, from 0, to pixels.  Groups of obstacles that are too   *)
(* small are removed: single pixels by a dilation that finds the pixels    *)
(* without neighbours, greater groups by labelling the connected           *)
(* components with one scan, a step for each pixel, and a union-find of    *)
(* the labels.                                                             *)
(***************************************************************************)
EXTENDS Integers, Sequences
LOCAL INSTANCE FiniteSetsExt
LOCAL INSTANCE SequencesExt
LOCAL INSTANCE Functions

CONSTANTS Images,      \* the windows of the master that are updated
          Connectivities,
          GroupSizes   \* minimal_group_size, a parameter

VARIABLES image,       \* the window, as it was
          connectivity,
          minimalGroupSize,
          unknownIsObstacle,
          phase,       \* "start", "scan" or "done"
          scanned,     \* how many pixels the scan has passed
          labels,
          parent,      \* the labels' trees: parent[i] <= i
          overflow,    \* the labels did not suffice
          result

vars == <<image, connectivity, minimalGroupSize, unknownIsObstacle, phase, scanned, labels, parent,
          overflow, result>>
asked == <<image, connectivity, minimalGroupSize, unknownIsObstacle>>

FreeSpace == 0
Inscribed == 253
Lethal == 254
NoInformation == 255

Way4 == 4
Way8 == 8

RowsOf(img) == 1 + Max({p[1] : p \in DOMAIN img})

ColumnsOf(img) == 1 + Max({p[2] : p \in DOMAIN img})

\* the order of forEach()
ScanOrder(img) ==
  LET c == ColumnsOf(img)
  IN [i \in 1 .. RowsOf(img) * c |-> <<(i - 1) \div c, (i - 1) % c>>]

IsBackground(pixel) ==
  ~ \/ pixel = Lethal \/ pixel = Inscribed
    \/ pixel = NoInformation /\ unknownIsObstacle

-----------------------------------------------------------------------------
(* Dilation. *)

\* for each row of the shape, the columns that are used
CreateShape ==
  IF connectivity = Way8 THEN <<{-1, 0, 1}, {-1, 1}, {-1, 0, 1}>>
  ELSE <<{0}, {-1, 1}, {0}>>

\* What one row of the shape, laid over the rows of the input from firstIn
\* on, shows to the pixels of the output from row firstOut on.
ProbeRows(input, firstIn, firstOut, used) ==
  LET rows == RowsOf(input) - Max({firstIn, firstOut})
      Applied(r, c, k) == IF k \in used /\ <<r, c + k>> \in DOMAIN input THEN input[<<r, c + k>>] ELSE 0
  IN [p \in {q \in DOMAIN input : q[1] - firstOut \in 0 .. rows - 1} |->
        [i \in 1 .. 3 |-> Applied(p[1] - firstOut + firstIn, p[2], i - 2)]]

\* max_function: what is no obstacle counts as free
Greatest(lst) ==
  LET ReplaceToFree(v) == IF v = NoInformation /\ ~unknownIsObstacle THEN FreeSpace ELSE v
  IN Max({ReplaceToFree(lst[i]) : i \in DOMAIN lst})

\* The middle row of the shape sets the output, the rows above and below
\* update it.
MorphologyOperation(input, shape) ==
  LET Update(output, probes) ==
        [p \in DOMAIN output |-> IF p \in DOMAIN probes
                                 THEN Greatest(<<output[p], Greatest(probes[p]), 0>>) ELSE output[p]]
      centre == ProbeRows(input, 0, 0, shape[2])
      set == [p \in DOMAIN input |-> Greatest(centre[p])]
  IN IF RowsOf(input) = 1 THEN set
     ELSE Update(Update(set, ProbeRows(input, 0, 1, shape[1])), ProbeRows(input, 1, 0, shape[3]))

Dilate(input) == MorphologyOperation(input, CreateShape)

RemoveSinglePixels ==
  LET maxNeighbors == Dilate(image)
      Clean(maxNeighbor, pixel) ==
        IF ~IsBackground(pixel) /\ IsBackground(maxNeighbor) THEN FreeSpace ELSE pixel
  IN [p \in DOMAIN image |-> Clean(maxNeighbors[p], image[p])]

-----------------------------------------------------------------------------
(* The labels' trees.  Label 0 is the background. *)

LabelLimit == 65535

MaxLabels(rows, columns) ==
  LET most == IF connectivity = Way4 THEN (rows * columns) \div 2 + 1 ELSE (rows * columns) \div 3 + 1
  IN Min({most + 1, LabelLimit})

NextFree == Max(DOMAIN parent) + 1

FindRoot(trees, i) ==
  LET root[k \in DOMAIN trees] == IF trees[k] < k THEN root[trees[k]] ELSE k
  IN root[i]

\* i and all above it
PathTo(trees, i) ==
  LET path[k \in DOMAIN trees] == {k} \union (IF trees[k] < k THEN path[trees[k]] ELSE {})
  IN path[i]

SetRoot(trees, i, root) ==
  LET path == PathTo(trees, i) IN [k \in DOMAIN trees |-> IF k \in path THEN root ELSE trees[k]]

UnionHalf(trees, i, j) ==  \* faulty: only one of the two trees gets the new root
  SetRoot(trees, i, Min({FindRoot(trees, i), FindRoot(trees, j)}))

UnionTrees(trees, i, j) ==
  LET root == Min({FindRoot(trees, i), FindRoot(trees, j)})
  IN SetRoot(SetRoot(trees, j, root), i, root)

\* The roots are numbered without gaps, the others take their root's number.
GetLabels ==
  LET final[i \in DOMAIN parent] ==
        IF i = 0 THEN 0
        ELSE IF parent[i] < i THEN final[parent[i]]
        ELSE Cardinality({k \in 1 .. i : parent[k] = k})
  IN final

-----------------------------------------------------------------------------
(* The scan.  The window around the pixel e is                              *)
(*     a b c                                                                *)
(*     d e                                                                  *)
Window(img, p) ==
  LET At(r, c) == IF <<p[1] + r, p[2] + c>> \in DOMAIN img THEN img[<<p[1] + r, p[2] + c>>] ELSE 0
  IN [a |-> At(-1, -1), b |-> At(-1, 0), c |-> At(-1, 1), d |-> At(0, -1), e |-> At(0, 0)]

Scanning == phase = "scan" /\ ~overflow /\ scanned < Cardinality(DOMAIN image)

Current == ScanOrder(image)[scanned + 1]

Label(l) ==
  /\ labels' = [labels EXCEPT ![Current] = l]
  /\ scanned' = scanned + 1
  /\ UNCHANGED overflow

Keep(l) == Label(l) /\ UNCHANGED parent

MakeLabel ==
  IF NextFree = MaxLabels(RowsOf(image), ColumnsOf(image))
  THEN overflow' = TRUE /\ UNCHANGED <<labels, parent, scanned>>
  ELSE Label(NextFree) /\ parent' = [i \in DOMAIN parent \union {NextFree} |->
                                      IF i = NextFree THEN i ELSE parent[i]]

Join(i, j) ==
  /\ parent' = UnionTrees(parent, i, j)
  /\ Label(Min({FindRoot(parent, i), FindRoot(parent, j)}))

PassWay8(bg, label) ==
  IF bg.e THEN Keep(0)
  ELSE IF label.b # 0 THEN Keep(label.b)
  ELSE IF ~bg.c THEN IF ~bg.a THEN Join(label.c, label.a)
                     ELSE IF ~bg.d THEN Join(label.c, label.d)
                     ELSE Keep(label.c)
  ELSE IF ~bg.a THEN Keep(label.a)
  ELSE IF ~bg.d THEN Keep(label.d)
  ELSE MakeLabel

PassWay4(bg, label) ==
  IF bg.e THEN Keep(0)
  ELSE IF ~bg.b THEN IF ~bg.d THEN Join(label.d, label.b) ELSE Keep(label.b)
  ELSE IF ~bg.d THEN Keep(label.d)
  ELSE MakeLabel

ScanPixel ==
  /\ Scanning
  /\ LET w == Window(image, Current)
         bg == [n \in DOMAIN w |-> IsBackground(w[n])]
     IN IF connectivity = Way4 THEN PassWay4(bg, Window(labels, Current))
        ELSE PassWay8(bg, Window(labels, Current))
  /\ UNCHANGED <<asked, phase, result>>

\* The bins count no further than to most.
Histogram(img, most) ==
  [v \in 0 .. Max(Range(img)) |-> Min({most, Cardinality({p \in DOMAIN img : img[p] = v})})]

\* When the labels did not suffice the image stays: 32 bits instead of 16 do
\* not help, the number of labels is limited by the size of the image.
RemoveGroups ==
  /\ phase = "scan" /\ ~Scanning
  /\ LET final == GetLabels
         groups == [p \in DOMAIN image |-> final[labels[p]]]
         sizes == Histogram(groups, minimalGroupSize + 1)
         Noise(label) == label = 0 \/ sizes[label] < minimalGroupSize
         Clean(label, pixel) == IF ~IsBackground(pixel) /\ Noise(label) THEN FreeSpace ELSE pixel
     IN result' = IF overflow THEN image ELSE [p \in DOMAIN image |-> Clean(groups[p], image[p])]
  /\ phase' = "done"
  /\ UNCHANGED <<asked, scanned, labels, parent, overflow>>

\* DenoiseLayer::denoise()
DenoiseImage ==
  /\ phase = "start"
  /\ phase' = IF minimalGroupSize <= 2 THEN "done" ELSE "scan"
  /\ result' = IF minimalGroupSize = 2 THEN RemoveSinglePixels ELSE image
  /\ UNCHANGED <<asked, scanned, labels, parent, overflow>>

Init ==
  /\ image \in Images /\ connectivity \in Connectivities
  /\ minimalGroupSize \in GroupSizes /\ unknownIsObstacle \in BOOLEAN
  /\ (NoInformation \notin Range(image) => ~unknownIsObstacle)
  /\ phase = "start" /\ scanned = 0 /\ overflow = FALSE
  /\ labels = [p \in DOMAIN image |-> 0] /\ parent = [i \in {0} |-> 0]
  /\ result = image

Next == DenoiseImage \/ ScanPixel \/ RemoveGroups

Spec == Init /\ [][Next]_vars

-----------------------------------------------------------------------------
Touching(p, q) ==
  LET r == p[1] - q[1] c == p[2] - q[2]
  IN p # q /\ r \in -1 .. 1 /\ c \in -1 .. 1 /\ (connectivity = Way8 \/ r * c = 0)

GroupOf(obstacles, p) ==
  LET reach[n \in 0 .. Cardinality(obstacles)] ==
        IF n = 0 THEN {p}
        ELSE LET nearer == reach[n - 1]
             IN nearer \union {q \in obstacles : \E o \in nearer : Touching(o, q)}
  IN reach[Cardinality(obstacles)]

Obstacles == {p \in DOMAIN image : ~IsBackground(image[p])}
Passed == {ScanOrder(image)[i] : i \in 1 .. scanned}

(* While the scan goes on, two pixels have the same root exactly when they  *)
(* are connected through pixels the scan has passed.                        *)
TreesAreGroups ==
  phase = "scan" =>
    LET seen == Obstacles \intersect Passed
        root == [p \in seen |-> FindRoot(parent, labels[p])]
    IN \A p \in seen : GroupOf(seen, p) = {q \in seen : root[q] = root[p]}

(* In the end what is gone are the obstacles of the groups that are too     *)
(* small, whichever of the two methods removed them.                        *)
SmallGroupsRemoved ==
  phase = "done" /\ ~overflow =>
    result = [p \in DOMAIN image |->
               IF p \in Obstacles /\ Cardinality(GroupOf(Obstacles, p)) < minimalGroupSize
               THEN FreeSpace ELSE image[p]]

(* The labels suffice for every image of more than one row and column.      *)
LabelsSuffice == overflow => RowsOf(image) = 1 \/ ColumnsOf(image) = 1
=============================================================================
