---------------------------- MODULE GpsImuFusion ----------------------------
(***************************************************************************)
(* The node that puts the position of the GPS and the orientation of the   *)
(* IMU together, ten times a second.  Messages of the IMU come late; yaws  *)
(* are quarter turns.                                                      *)
(***************************************************************************)
EXTENDS Integers, Sequences

CONSTANTS Fixes,     \* positions relative to the origin of the parameters
          Attitudes, \* [yaw, level]: of the IMU
          Offset,    \* yaw_offset_
          MaxTime,   \* bound on the time
          Patience   \* bound on the messages under way

VARIABLES now,
          yawOnly,     \* use_yaw_only_
          sent,        \* the messages of the IMU under way, [stamp, attitude]
          position,    \* current_x_, current_y_, current_z_
          attitude,    \* current_orientation_
          stamp,       \* latest_timestamp_
          gps, imu,    \* gps_received_, imu_received_
          lastImu,     \* the last message of the IMU: <<>> or <<message>>
          out,         \* the last odometry: <<>> or <<[position, attitude, stamp, byImu]>>
          due          \* the timer is due

vars == <<now, yawOnly, sent, position, attitude, stamp, gps, imu, lastImu, out, due>>
state == <<position, attitude, stamp, gps, imu, lastImu>>

Init ==
  /\ now = 1 /\ yawOnly \in BOOLEAN /\ sent = <<>>
  /\ position = 0 /\ attitude = [yaw |-> 0, level |-> TRUE] /\ stamp = 0
  /\ gps = FALSE /\ imu = FALSE /\ lastImu = <<>>
  /\ out = <<>> /\ due = FALSE

Tick ==
  /\ now < MaxTime /\ ~due /\ now' = now + 1 /\ due' = TRUE
  /\ UNCHANGED <<yawOnly, sent, state, out>>

\* The IMU measures; the messages arrive in their order.
Measure(a) ==
  /\ Len(sent) < Patience /\ (sent # <<>> => sent[Len(sent)].stamp < now)
  /\ sent' = Append(sent, [stamp |-> now, attitude |-> a])
  /\ UNCHANGED <<now, yawOnly, state, out, due>>

GpsCallback(fix) ==
  /\ position' = fix /\ gps' = TRUE
  /\ UNCHANGED <<now, yawOnly, sent, attitude, stamp, imu, lastImu, out, due>>

Turned(a) == [yaw |-> (a.yaw + Offset) % 4, level |-> IF yawOnly THEN TRUE ELSE a.level]

ImuCallback ==
  /\ sent # <<>> /\ sent' = Tail(sent)
  /\ stamp' = Head(sent).stamp /\ attitude' = Turned(Head(sent).attitude)
  /\ imu' = TRUE /\ lastImu' = <<Head(sent)>>
  /\ UNCHANGED <<now, yawOnly, position, gps, out, due>>

OdomStamp == IF imu THEN stamp ELSE now

Received == gps \/ imu

PublishOdomAndTf ==
  /\ due /\ due' = FALSE
  /\ out' = IF Received
            THEN <<[position |-> position, attitude |-> attitude, stamp |-> OdomStamp, byImu |-> imu]>>
            ELSE out
  /\ UNCHANGED <<now, yawOnly, sent, state>>

Next ==
  \/ Tick
  \/ \E a \in Attitudes : Measure(a)
  \/ \E fix \in Fixes : GpsCallback(fix)
  \/ ImuCallback
  \/ PublishOdomAndTf

\* The node's one thread goes on.
Fairness == WF_vars(PublishOdomAndTf) /\ WF_vars(ImuCallback) /\ WF_vars(Tick)

Spec == Init /\ [][Next]_vars /\ Fairness

-----------------------------------------------------------------------------
(* Once the IMU is heard the times of the odometry, and of the transform    *)
(* that is sent with it, never go back: a transform older than the last is  *)
(* lost for every listener.                                                 *)
StampsGoOnStep ==
  out # <<>> /\ out[1].byImu /\ out' # out =>
    /\ out'[1].byImu /\ out[1].stamp <= out'[1].stamp
    /\ out'[1].stamp = lastImu[1].stamp

(* One sensor that was heard is enough for an odometry. *)
Heard == (gps \/ imu) /\ now < MaxTime
Spoken == out # <<>>
=============================================================================
