----------------------------- MODULE GazeboPose -----------------------------
(***************************************************************************)
(* The bridge from the simulator to the odometry: it starts "gz topic",    *)
(* parses what that prints, line by line in a thread of its own,           *)
(* differentiates and filters the poses of the robot, and a watchdog       *)
(* starts the program again when it died or fell silent.  The robot moves  *)
(* on a line; velocities are in tenths.                                    *)
(***************************************************************************)
EXTENDS Integers, Sequences

CONSTANTS Steps,       \* [dt, dx]: how far time and robot go on between two messages
          MaxTime,     \* bound on the simulated time
          MaxDt,       \* max_dt
          Window,      \* median_window
          MaxBackoff,  \* max_backoff
          MaxFaults    \* bound on crashes, failed starts, pauses and world resets

VARIABLES clock, at,   \* of the simulation, and where the robot is
          paused,      \* the simulation stands still
          proc,        \* "none", "alive" or "dead"
          lines,       \* left of the message "gz topic" prints
          idle,        \* no line came for idle_timeout
          backoff,
          inTime, inPose, inPosition, inOrientation,
          stamp,       \* current_sec and current_nsec: <<>> or <<t>>
          poseName, pos, ori,
          prev,        \* prev_t, prev_pos: <<>> or <<[t, x]>>
          recent,      \* vx_med
          smooth,      \* vx_ema
          out,         \* the last odometry
          spoke,       \* it was published by the last step
          faults,
          \* history
          moved,       \* the world was reset since the last pose was taken
          fooled       \* a velocity was taken across a reset of the world

vars == <<clock, at, paused, proc, lines, idle, backoff, inTime, inPose, inPosition, inOrientation, stamp,
          poseName, pos, ori, prev, recent, smooth, out, spoke, faults, moved, fooled>>
world == <<clock, at, paused>>
block == <<inPose, inPosition, inOrientation, poseName, pos, ori>>
filters == <<prev, recent, smooth, out, fooled>>

Line(kind) == [kind |-> kind, of |-> "", t |-> 0, x |-> 0]

PoseLines(name, t, x) ==
  <<Line("pose {"), [Line("name:") EXCEPT !.of = name],
    Line("position {"), [kind |-> "x:", of |-> name, t |-> t, x |-> x], Line("}"),
    Line("orientation {"), [kind |-> "w:", of |-> name, t |-> t, x |-> x], Line("}"), Line("}")>>

Message(t, x) ==
  <<Line("time {"), [Line("sec:") EXCEPT !.t = t], Line("}")>> \o PoseLines("box", t, 9) \o PoseLines("go2", t, x)

Init ==
  /\ clock = 0 /\ at = 0 /\ paused = FALSE
  /\ proc = "alive" /\ lines = <<>> /\ idle = FALSE /\ backoff = 1
  /\ inTime = FALSE /\ inPose = FALSE /\ inPosition = FALSE /\ inOrientation = FALSE
  /\ stamp = <<>> /\ poseName = "" /\ pos = <<>> /\ ori = <<>>
  /\ prev = <<>> /\ recent = <<>> /\ smooth = <<>> /\ out = <<>> /\ spoke = FALSE
  /\ faults = 0 /\ moved = FALSE /\ fooled = FALSE

Fault == faults < MaxFaults /\ faults' = faults + 1

-----------------------------------------------------------------------------
(* The simulator and the program that prints its messages. *)

PrintPoses ==
  /\ proc = "alive" /\ ~paused /\ lines = <<>>
  /\ \E step \in Steps :
       /\ clock' = IF clock + step.dt <= MaxTime THEN clock + step.dt ELSE clock
       /\ at' = IF clock + step.dt <= MaxTime THEN at + step.dx ELSE at
  /\ lines' = Message(clock', at') /\ spoke' = FALSE
  /\ UNCHANGED <<paused, proc, idle, backoff, inTime, block, stamp, filters, moved, faults>>

\* The simulator sets back its clock, the robot's pose or both.
WorldReset ==
  /\ Fault /\ lines = <<>> /\ spoke' = FALSE
  /\ clock' \in {0, clock} /\ at' \in {0, at} /\ <<clock', at'>> # <<clock, at>>
  /\ moved' = TRUE
  /\ UNCHANGED <<paused, proc, lines, idle, backoff, inTime, block, stamp, filters>>

Pause ==
  /\ Fault /\ lines = <<>> /\ ~paused /\ paused' = TRUE /\ idle' = TRUE /\ spoke' = FALSE
  /\ UNCHANGED <<clock, at, proc, lines, backoff, inTime, block, stamp, filters, moved>>

Resume ==
  /\ paused /\ paused' = FALSE /\ idle' = FALSE /\ spoke' = FALSE
  /\ UNCHANGED <<clock, at, proc, lines, backoff, inTime, block, stamp, filters, moved, faults>>

Crash ==
  /\ Fault /\ proc = "alive" /\ proc' = "dead" /\ lines' = <<>> /\ spoke' = FALSE
  /\ UNCHANGED <<world, idle, backoff, inTime, block, stamp, filters, moved>>

-----------------------------------------------------------------------------
(* The watchdog.  What the old process printed and was not read is lost.   *)

Doubled == IF 2 * backoff < MaxBackoff THEN 2 * backoff ELSE MaxBackoff

Spawn ==
  /\ lines' = <<>>
  /\ \/ proc' = "alive" /\ idle' = FALSE /\ UNCHANGED faults
     \/ Fault /\ proc' = "none" /\ UNCHANGED idle

Watchdog ==
  /\ spoke' = FALSE
  /\ IF proc # "alive" \/ idle
     THEN Spawn /\ backoff' = Doubled
     ELSE backoff' = 1 /\ UNCHANGED <<proc, lines, idle, faults>>
  /\ UNCHANGED <<world, inTime, block, stamp, filters, moved>>

-----------------------------------------------------------------------------
(* Velocities. *)

AbsOf(n) == IF n < 0 THEN -n ELSE n

\* of at most three values, and twice that
MedianTwice(values) ==
  LET n == Len(values)
      Below(i) == Len(SelectSeq(values, LAMBDA v : v < values[i]))
      Upto(i) == Len(SelectSeq(values, LAMBDA v : v <= values[i]))
      Rank(k) == values[CHOOSE i \in DOMAIN values : Below(i) < k /\ k <= Upto(i)]
  IN IF n % 2 = 1 THEN 2 * Rank((n + 1) \div 2) ELSE Rank(n \div 2) + Rank(n \div 2 + 1)

\* With alpha 0.3; below the dead band of 0.1 there is no velocity.
ApplyFilters(v) ==
  LET values == IF Len(recent) = Window THEN Append(Tail(recent), v) ELSE Append(recent, v)
      median == MedianTwice(values) \div 2
  IN /\ recent' = values
     /\ smooth' = IF smooth = <<>> THEN <<median>> ELSE <<(3 * median + 7 * smooth[1]) \div 10>>

DeadBand(v) == IF AbsOf(v) < 1 THEN 0 ELSE v

Says(v) == out' = <<[stamp |-> stamp[1], pos |-> pos[1], ori |-> ori[1], v |-> v]>> /\ spoke' = TRUE

DifferentiateAnyway ==  \* faulty: after a gap the old position stays
  LET t == stamp[1]
      x == pos[1].x
      dt == t - prev[1].t
      steady == prev # <<>> /\ 0 < dt /\ dt <= MaxDt
  IN /\ fooled' = (fooled \/ (steady /\ moved)) /\ moved' = FALSE
     /\ prev' = <<[t |-> t, x |-> IF steady \/ prev = <<>> THEN x ELSE prev[1].x]>>
     /\ IF steady THEN ApplyFilters((10 * (x - prev[1].x)) \div dt) /\ Says(DeadBand(smooth'[1]))
        ELSE UNCHANGED <<recent, smooth>> /\ Says(0)

Differentiate ==
  LET t == stamp[1]
      x == pos[1].x
      dt == t - prev[1].t
      steady == prev # <<>> /\ 0 < dt /\ dt <= MaxDt
  IN /\ fooled' = (fooled \/ (steady /\ moved)) /\ moved' = FALSE
     /\ prev' = <<[t |-> t, x |-> x]>>
     /\ IF steady THEN ApplyFilters((10 * (x - prev[1].x)) \div dt) /\ Says(DeadBand(smooth'[1]))
        ELSE UNCHANGED <<recent, smooth>> /\ Says(0)

IsComplete == pos # <<>> /\ ori # <<>>

MaybePublish ==
  IF poseName # "go2" \/ ~IsComplete THEN UNCHANGED <<filters, moved>> /\ spoke' = FALSE ELSE Differentiate

-----------------------------------------------------------------------------
(* The reader. *)

ResetPoseBlock ==
  /\ inPosition' = FALSE /\ inOrientation' = FALSE
  /\ poseName' = "" /\ pos' = <<>> /\ ori' = <<>>

Quiet == UNCHANGED <<filters, moved>> /\ spoke' = FALSE

ParseTime(line) ==
  \/ /\ line.kind = "time {" /\ inTime' = TRUE /\ stamp' = <<>>
     /\ UNCHANGED block /\ Quiet
  \/ /\ inTime /\ line.kind = "sec:" /\ stamp' = <<line.t>>
     /\ UNCHANGED <<inTime, block>> /\ Quiet
  \/ /\ inTime /\ line.kind = "}" /\ inTime' = FALSE
     /\ UNCHANGED <<stamp, block>> /\ Quiet

ParsePose(line) ==
  /\ UNCHANGED <<inTime, stamp>>
  /\ \/ line.kind = "pose {" /\ ResetPoseBlock /\ inPose' = TRUE /\ Quiet
     \/ /\ inPose /\ line.kind = "name:" /\ poseName' = line.of
        /\ UNCHANGED <<inPose, inPosition, inOrientation, pos, ori>> /\ Quiet
     \/ /\ inPose /\ line.kind = "position {" /\ inPosition' = TRUE
        /\ UNCHANGED <<inPose, inOrientation, poseName, pos, ori>> /\ Quiet
     \/ /\ inPose /\ line.kind = "orientation {" /\ inOrientation' = TRUE
        /\ UNCHANGED <<inPose, inPosition, poseName, pos, ori>> /\ Quiet
     \/ /\ inPose /\ inPosition /\ line.kind = "x:" /\ pos' = <<line>>
        /\ UNCHANGED <<inPose, inPosition, inOrientation, poseName, ori>> /\ Quiet
     \/ /\ inPose /\ inOrientation /\ line.kind = "w:" /\ ori' = <<line>>
        /\ UNCHANGED <<inPose, inPosition, inOrientation, poseName, pos>> /\ Quiet
     \/ /\ inPose /\ line.kind = "}" /\ ~inTime
        /\ IF inPosition
           THEN inPosition' = FALSE /\ UNCHANGED <<inPose, inOrientation, poseName, pos, ori>> /\ Quiet
           ELSE IF inOrientation
           THEN inOrientation' = FALSE /\ UNCHANGED <<inPose, inPosition, poseName, pos, ori>> /\ Quiet
           ELSE MaybePublish /\ ResetPoseBlock /\ inPose' = FALSE

ReaderLoop ==
  /\ lines # <<>> /\ proc = "alive"
  /\ lines' = Tail(lines)
  /\ (ParseTime(Head(lines)) \/ ParsePose(Head(lines)))
  /\ UNCHANGED <<world, proc, idle, backoff, faults>>

Next == PrintPoses \/ WorldReset \/ Pause \/ Resume \/ Crash \/ Watchdog \/ ReaderLoop

\* The timer of the watchdog and the threads go on, and no pause is for ever.
Fairness == WF_vars(PrintPoses) /\ WF_vars(Resume) /\ WF_vars(Watchdog) /\ WF_vars(ReaderLoop)

Spec == Init /\ [][Next]_vars /\ Fairness

-----------------------------------------------------------------------------
(* A pose that is published is one the robot had, at the time it is stamped *)
(* with, wherever the program was cut off before.                           *)
NoMixedPose ==
  out # <<>> =>
    /\ out[1].pos.of = "go2" /\ out[1].ori.of = "go2"
    /\ out[1].stamp = out[1].pos.t /\ out[1].stamp = out[1].ori.t

(* No velocity is above what the robot can do, whatever gaps, pauses and    *)
(* resets of the world there are between the poses, as long as the time     *)
(* shows them.  It need not: after a reset of the robot's pose, or of a     *)
(* clock whose first messages were lost, two poses of different worlds are  *)
(* taken for a movement (gazebo_pose_to_ros2.py:254).                       *)
VelocityBounded == out # <<>> /\ ~fooled => AbsOf(out[1].v) <= 10
=============================================================================
