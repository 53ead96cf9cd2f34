-------------------------- MODULE CostmapPublisher --------------------------
(***************************************************************************)
(* How the master grid, one row of cells, reaches other nodes: a whole     *)
(* grid when its place or size is new, else the part that changed since    *)
(* the last publication, and the raw costmap, always whole, for a          *)
(* CostmapSubscriber.  The last message of each topic is kept for whoever  *)
(* subscribes later.  Messages arrive at once and in order.                *)
(***************************************************************************)
EXTENDS Integers, Sequences

CONSTANTS Costs,     \* of the master grid
          Origins,   \* where a rolling grid may be
          Width,     \* cells of the grid
          Always,    \* the values of always_send_full_costmap
          MaxUpdates \* bound on the updates and resets between two publications

VARIABLES master, origin,
          full,      \* always_send_full_costmap_
          saved,     \* saved_origin_x_, with grid_width and grid_resolution: <<>> never set
          x0, xn,    \* the part that changed
          grid,      \* the grid kept for late subscribers: <<>> or <<[origin, cells]>>
          update,    \* the last update: <<>> or <<[x0, cells]>>
          raw,       \* the costmap kept for late subscribers
          here,      \* a subscriber of the grid and the updates is connected
          view,      \* what it sees: <<>> or <<[origin, cells]>>
          rawHere,   \* a CostmapSubscriber is connected
          message,   \* its costmap_msg_
          heard,     \* it was connected at the last publication
          copy,      \* its costmap_: <<>> or <<[origin, cells]>>
          published, \* the grid at the last publication
          complete,  \* what the subscriber got when it came was what was published
          wandered,  \* the grid has been elsewhere since the last publication
          missed,    \* cells that were reset outside the part that changed, till they are published
          updates

vars == <<master, origin, full, saved, x0, xn, grid, update, raw, here, view, rawHere, message, heard, copy,
          published, complete, wandered, missed, updates>>
topics == <<grid, update, raw>>
reader == <<rawHere, message, heard, copy>>

NoInformation == 255
Cells == 0..Width - 1

CostTranslation(cost) ==
  IF cost = 0 THEN 0 ELSE IF cost = 253 THEN 99 ELSE IF cost = 254 THEN 100
  ELSE IF cost = NoInformation THEN -1
  ELSE 1 + (97 * (cost - 1)) \div 251

Translated == [c \in Cells |-> CostTranslation(master[c])]

\* The saved values are never initialised: they may be those of the grid.
Init ==
  /\ master = [c \in Cells |-> NoInformation] /\ origin \in Origins /\ full \in Always
  /\ saved \in {<<>>, <<origin>>} /\ x0 = Width /\ xn = 0
  /\ grid = <<>> /\ update = <<>> /\ raw = <<>> /\ here = FALSE /\ view = <<>>
  /\ rawHere = FALSE /\ message = <<>> /\ heard = FALSE /\ copy = <<>>
  /\ published = <<>> /\ complete = FALSE /\ wandered = FALSE /\ missed = {} /\ updates = 0

-----------------------------------------------------------------------------
Least(a, b) == IF a < b THEN a ELSE b
Greatest(a, b) == IF a < b THEN b ELSE a

LastBounds(lo, hi) ==  \* faulty: only the last update counts
  x0' = lo /\ xn' = hi

UpdateBounds(lo, hi) == x0' = Least(lo, x0) /\ xn' = Greatest(hi, xn)

\* The layers change the cells lo..hi-1 after a rolling grid has moved.
UpdateMap(lo, hi, cost, to) ==
  LET Shifted(c) == IF c + to - origin \in Cells THEN master[c + to - origin] ELSE NoInformation
  IN /\ updates < MaxUpdates /\ updates' = updates + 1
     /\ master' = [c \in Cells |-> IF c \in lo..hi - 1 THEN cost ELSE Shifted(c)]
     /\ origin' = to /\ wandered' = (wandered \/ to # origin)
     /\ UpdateBounds(lo, hi)
     /\ UNCHANGED <<full, saved, topics, here, view, reader, published, complete, missed>>

\* resetLayers(): the master grid is reset as a whole, which the publisher is
\* not told.
ResetMaster ==
  /\ updates < MaxUpdates /\ updates' = updates + 1
  /\ master' = [c \in Cells |-> NoInformation]
  /\ missed' = missed \union (Cells \ x0..xn - 1)
  /\ UNCHANGED <<origin, full, saved, x0, xn, topics, here, view, reader, published, complete, wandered>>

-----------------------------------------------------------------------------
(* publishCostmap() *)

PrepareCostmap == <<[origin |-> origin, cells |-> master]>>

PublishRaw ==
  IF rawHere THEN raw' = PrepareCostmap /\ message' = PrepareCostmap ELSE UNCHANGED <<raw, message>>

PublishGrid ==
  IF ~here THEN UNCHANGED <<saved, grid, view>>
  ELSE /\ saved' = <<origin>> /\ grid' = <<[origin |-> origin, cells |-> Translated]>> /\ view' = grid'

Applied(seen, u) ==
  IF seen = <<>> \/ u = <<>> THEN seen
  ELSE <<[seen[1] EXCEPT !.cells = [c \in Cells |-> IF c \in DOMAIN u[1].cells THEN u[1].cells[c] ELSE @[c]]]>>

PublishUpdate ==
  IF ~here THEN UNCHANGED <<update, view>>
  ELSE /\ update' = <<[x0 |-> x0, cells |-> [c \in x0..xn - 1 |-> Translated[c]]]>>
       /\ view' = Applied(view, update')

PlaceIsNew == full \/ saved # <<origin>>

PublishCostmap ==
  /\ PublishRaw /\ heard' = rawHere
  /\ \/ PlaceIsNew /\ PublishGrid /\ UNCHANGED update
     \/ ~PlaceIsNew /\ x0 < xn /\ PublishUpdate /\ UNCHANGED <<saved, grid>>
     \/ ~PlaceIsNew /\ x0 >= xn /\ UNCHANGED <<saved, grid, update, view>>
  /\ x0' = Width /\ xn' = 0 /\ updates' = 0
  /\ published' = <<[origin |-> origin, cells |-> Translated]>>
  /\ complete' = (here /\ (full \/ saved # <<origin>> \/ (complete /\ ~wandered)))
  /\ wandered' = FALSE
  /\ missed' = IF PlaceIsNew \/ ~here THEN {} ELSE missed \ x0..xn - 1
  /\ UNCHANGED <<master, origin, full, here, rawHere, copy>>

-----------------------------------------------------------------------------
(* Subscribers. *)

Come ==
  /\ ~here /\ here' = TRUE /\ view' = Applied(grid, update)
  /\ complete' = (view' # <<>> /\ view' = published)
  /\ UNCHANGED <<master, origin, full, saved, x0, xn, topics, reader, published, wandered, missed,
                 updates>>

Leave ==
  /\ here /\ here' = FALSE /\ view' = <<>> /\ complete' = FALSE
  /\ UNCHANGED <<master, origin, full, saved, x0, xn, topics, reader, published, wandered, missed,
                 updates>>

\* A connected CostmapSubscriber has heard the last costmap that was kept.
CostmapCallback ==
  /\ ~rawHere /\ rawHere' = TRUE /\ message' = IF raw = <<>> THEN message ELSE raw
  /\ UNCHANGED <<master, origin, full, saved, x0, xn, topics, here, view, heard, copy, published, complete,
                 wandered, missed, updates>>

\* An old map is resized if its place is another.
ToCostmap2D == message

GetCostmap ==
  /\ message # <<>> /\ copy' = ToCostmap2D
  /\ UNCHANGED <<master, origin, full, saved, x0, xn, topics, here, view, rawHere, message, heard, published, complete,
                 wandered, missed, updates>>

Next ==
  \/ \E lo, hi \in 0..Width : lo < hi /\ \E cost \in Costs : \E to \in Origins : UpdateMap(lo, hi, cost, to)
  \/ ResetMaster
  \/ PublishCostmap
  \/ Come \/ Leave \/ CostmapCallback \/ GetCostmap

Spec == Init /\ [][Next]_vars

-----------------------------------------------------------------------------
(* A subscriber that once had what was published, from a whole grid or from *)
(* what was kept for it, goes on having it: the parts that are published    *)
(* miss no change, unless the grid left its place and came back in between, *)
(* but for one: when the whole costmap is cleared, it goes on seeing the    *)
(* old costs wherever nothing was changed or published since.               *)
IncrementsSuffice ==
  complete =>
    /\ view # <<>> /\ published # <<>> /\ view[1].origin = published[1].origin
    /\ \A c \in Cells \ missed : view[1].cells[c] = published[1].cells[c]

(* The costmap a connected CostmapSubscriber hands out is the one that was  *)
(* published last, at its place, whatever it held before.                   *)
CopyIsPublishedStep ==
  copy' # copy /\ heard =>
    copy'[1].origin = published[1].origin
    /\ \A c \in Cells : CostTranslation(copy'[1].cells[c]) = published[1].cells[c]
=============================================================================
