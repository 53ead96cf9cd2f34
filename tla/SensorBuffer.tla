---------------------------- MODULE SensorBuffer ----------------------------
(***************************************************************************)
(* The buffer of the readings of one sensor, newest arrival first: the     *)
(* ObservationBuffer of the obstacle layers and the MeasurementBuffer of   *)
(* the spatio-temporal voxel layer.  A buffer is a record [list, updated], *)
(* what is configured about it a record                                    *)
(* [keep, rate, marking, clearing, clearAfter].  A reading is a record     *)
(* with a stamp; the points it holds are the business of its reader.       *)
(***************************************************************************)
EXTENDS Integers, Sequences

\* the stamp of a cloud nobody filled in: the epoch, long before any reading
NeverStamped == -1000

NewBuffer(now) == [list |-> <<>>, updated |-> now]

PurgeOldestOnly(list, keep, now) ==  \* faulty: looks at the oldest arrival only
  IF list = <<>> THEN list
  ELSE IF keep = 0 THEN <<Head(list)>>
  ELSE IF now - list[Len(list)].stamp > keep THEN SubSeq(list, 1, Len(list) - 1)
  ELSE list

\* The first stale reading goes, and everything behind it.
PurgeStaleObservations(list, keep, now) ==
  LET stale == {i \in DOMAIN list : now - list[i].stamp > keep}
      first == CHOOSE i \in stale : \A k \in stale : i <= k
  IN IF list = <<>> THEN list
     ELSE IF keep = 0 THEN <<Head(list)>>
     ELSE IF stale = {} THEN list
     ELSE SubSeq(list, 1, first - 1)

RemoveStaleObservations(list, keep, now) == PurgeStaleObservations(list, keep, now)

\* ObservationBuffer::bufferCloud(): a transform that fails leaves no trace.
BufferCloud(b, c, conf, now, tfOk) ==
  IF ~tfOk THEN b
  ELSE [list |-> PurgeStaleObservations(<<c>> \o b.list, conf.keep, now), updated |-> now]

\* MeasurementBuffer::BufferROSCloud(): a source that only clears is done
\* before its cloud, its time of update or its stale readings are looked at.
BufferROSCloud(b, c, conf, now, tfOk) ==
  IF ~tfOk THEN b
  ELSE IF conf.clearing /\ ~conf.marking
       THEN [b EXCEPT !.list = <<[c EXCEPT !.stamp = NeverStamped]>> \o @]
  ELSE [list |-> RemoveStaleObservations(<<c>> \o b.list, conf.keep, now), updated |-> now]

\* What is read stays in the buffer.
GetObservations(b, conf, now) ==
  [b EXCEPT !.list = PurgeStaleObservations(@, conf.keep, now)]

GetReadings(b, conf, now) ==
  [b EXCEPT !.list = RemoveStaleObservations(@, conf.keep, now)]

IsCurrent(b, conf, now) == conf.rate = 0 \/ now - b.updated <= conf.rate

UpdatedAtExpectedRate(b, conf, now) == conf.rate = 0 \/ now - b.updated <= conf.rate

ResetLastUpdated(b, now) == [b EXCEPT !.updated = now]

ResetAllMeasurements(b) == [b EXCEPT !.list = <<>>]
=============================================================================
