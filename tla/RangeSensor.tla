----------------------------- MODULE RangeSensor -----------------------------
(***************************************************************************)
(* The range sensor layer.  A cell's cost is the probability that it is    *)
(* occupied, 0 .. 254, updated by Bayes' rule with the sensor's model from *)
(* each reading of the cone; what is likely enough is marked, what is      *)
(* unlikely enough is freed in the master.  The cone is a row of cells,    *)
(* each as far from the sensor as its number says.                         *)
(***************************************************************************)
EXTENDS Integers, Sequences, FiniteSets

CONSTANTS Cells,       \* 1 .. how far the sensor reaches
          Certainty,   \* lbda of the sensor model, in percent
          ClearOnMax,  \* clear_on_max_reading_
          Timeout,     \* no_readings_timeout_, 0 for none
          MaxTime,     \* bound on the clock
          MaxReadings  \* bound on the readings

VARIABLES now, rangeMsgs,  \* range_msgs_buffer_
          belief,          \* costmap_ of the layer
          master,          \* what the master has: "unknown", "free", "lethal"
          touched,         \* the bounds since the last update
          bounded,         \* the update is between its bounds and its costs
          buffered,        \* buffered_readings_
          lastReading,     \* last_reading_time_
          current, wasReset, readings,
          applied          \* history: the last message of the update, or none

vars == <<now, rangeMsgs, belief, master, touched, bounded, buffered, lastReading, current,
          wasReset, readings, applied>>

ToCost(percent) == (percent * 254) \div 100

DefaultValue == ToCost(50)

Init ==
  /\ now = 0 /\ rangeMsgs = <<>> /\ belief = [c \in Cells |-> DefaultValue]
  /\ master = [c \in Cells |-> "unknown"] /\ touched = {} /\ bounded = FALSE
  /\ buffered = 0 /\ lastReading = 0 /\ current = TRUE /\ wasReset = FALSE
  /\ readings = 0 /\ applied = <<>>

Tick ==
  /\ now < MaxTime /\ now' = now + 1
  /\ UNCHANGED <<rangeMsgs, belief, master, touched, bounded, buffered, lastReading, current,
                 wasReset, readings, applied>>

\* A range is a cell, or the maximum of a variable sensor, or one of the two
\* values of a fixed one (nothing, an object), or one that is invalid.
MaxRange == 0
NoObject == -1
Object == -2
Invalid == -3

BufferIncomingRangeMsg(range) ==
  /\ readings < MaxReadings /\ readings' = readings + 1
  /\ rangeMsgs' = Append(rangeMsgs, range)
  /\ UNCHANGED <<now, belief, master, touched, bounded, buffered, lastReading, current, wasReset,
                 applied>>

Far == CHOOSE c \in Cells : \A d \in Cells : d <= c

\* In percent; the flanks of the peak, narrower than a cell, are left out.
SensorModel(r, phi) ==
  IF phi < r THEN (100 - Certainty) \div 2
  ELSE IF phi = r THEN 50 + Certainty \div 2
  ELSE 50

\* update_cell(): a division by zero (a certain cell that a certain sensor
\* denies) has no value a cost can hold.
Bayes(cost, sensor) ==
  LET occ == sensor * cost
      free == (100 - sensor) * (254 - cost)
  IN IF occ + free = 0 THEN -1 ELSE (254 * occ) \div (occ + free)

UpdateCell(b, r, clear) ==
  [c \in Cells |-> Bayes(b[c], IF clear THEN 0 ELSE SensorModel(r, c))]

MarkTarget(b, r) == [b EXCEPT ![r] = 233]

ProcessFixedRangeMsg(range) ==
  CASE range = Object -> [valid |-> TRUE, clear |-> FALSE, target |-> 1]
    [] range = NoObject    -> [valid |-> ClearOnMax, clear |-> ClearOnMax, target |-> 1]
    [] OTHER            -> [valid |-> FALSE, clear |-> FALSE, target |-> 1]

ProcessVariableRangeMsg(range) ==
  IF range = MaxRange THEN [valid |-> TRUE, clear |-> ClearOnMax, target |-> Far]
  ELSE [valid |-> range # Invalid, clear |-> FALSE, target |-> range]

ProcessRangeMsg(range) ==
  IF range \in {Object, NoObject} THEN ProcessFixedRangeMsg(range) ELSE ProcessVariableRangeMsg(range)

\* updateCostmap() for one message that can be transformed
Applied(b, msg) == UpdateCell(MarkTarget(b, msg.target), msg.target, msg.clear)

\* one message that is used after the other
AllApplied(b, msgs, used) ==
  LET after[i \in 0 .. Len(msgs)] ==
        IF i = 0 THEN b ELSE IF i \in used THEN Applied(after[i - 1], msgs[i]) ELSE after[i - 1]
  IN after[Len(msgs)]

\* The transforms of the readings in lost fail.
UpdateBounds(lost) ==
  LET msgs == [i \in DOMAIN rangeMsgs |-> ProcessRangeMsg(rangeMsgs[i])]
      used == {i \in DOMAIN msgs \ lost : msgs[i].valid}
      last == CHOOSE i \in used : \A j \in used : j <= i
      count == buffered + Cardinality(used)
  IN /\ ~bounded /\ bounded' = TRUE
     /\ rangeMsgs' = <<>>
     /\ belief' = AllApplied(belief, msgs, used)
     /\ touched' = IF used = {} THEN {} ELSE Cells
     /\ buffered' = count
     /\ lastReading' = IF used = {} THEN lastReading ELSE now
     /\ applied' = IF used = {} THEN <<>> ELSE <<msgs[last]>>
     /\ current' = (current /\ ~(count = 0 /\ Timeout > 0 /\ now - lastReading > Timeout))
     /\ UNCHANGED <<now, master, wasReset, readings>>

MarkThreshold == ToCost(80)

ClearThreshold == ToCost(20)

\* The master is reset between the bounds first.
UpdateCosts ==
  /\ bounded /\ bounded' = FALSE
  /\ master' = [c \in Cells |-> IF c \notin touched THEN master[c]
                                ELSE IF belief[c] > MarkThreshold THEN "lethal"
                                ELSE IF belief[c] < ClearThreshold THEN "free"
                                ELSE "unknown"]
  /\ touched' = {}
  /\ buffered' = 0
  /\ current' = (current \/ wasReset) /\ wasReset' = (wasReset /\ current)
  /\ UNCHANGED <<now, rangeMsgs, belief, lastReading, readings, applied>>

\* reset(), after the costmap node has cleared the master
Reset ==
  /\ ~bounded
  /\ rangeMsgs' = <<>> /\ wasReset' = TRUE
  /\ belief' = [c \in Cells |-> DefaultValue]
  /\ master' = [c \in Cells |-> "unknown"]
  /\ applied' = <<>>
  /\ UNCHANGED <<now, touched, bounded, buffered, lastReading, current, readings>>

Next ==
  \/ Tick \/ UpdateCosts \/ Reset
  \/ \E range \in Cells \union {MaxRange, NoObject, Object, Invalid} : BufferIncomingRangeMsg(range)
  \/ \E lost \in SUBSET DOMAIN rangeMsgs : UpdateBounds(lost)

Spec == Init /\ [][Next]_vars

-----------------------------------------------------------------------------
(* No sequence of readings drives a cell to certainty, from which the next  *)
(* contradicting reading would divide by zero (range_sensor_layer.cpp:416). *)
NeverCertain == \A c \in Cells : belief[c] \in 0 .. 253

(* The object of the last reading of an update is in the master after it,   *)
(* however sure earlier readings were that its cell is free: a cell whose   *)
(* probability has reached 0 stays at 0 under Bayes' rule.                  *)
LastObjectMarked ==
  ~bounded /\ applied # <<>> /\ ~applied[1].clear => master[applied[1].target] = "lethal"
=============================================================================
