--------------------------- MODULE ObstacleSources ---------------------------
(***************************************************************************)
(* The sensor side of the obstacle and voxel layers: clouds are delivered  *)
(* by the callbacks of the node, the map update thread reads the buffers   *)
(* that mark and then those that clear, and the layer is activated,        *)
(* deactivated and reset in between.  Each access to a buffer holds its    *)
(* lock; two accesses do not.                                              *)
(***************************************************************************)
EXTENDS SensorBuffer, FiniteSets

CONSTANTS Sources,     \* the observation sources
          Confs,       \* the parameters a source can have
          MaxTime,     \* bound on the clock
          MaxInFlight  \* bound on the clouds sent and not yet delivered

VARIABLES conf,       \* source -> its parameters
          now,        \* the clock of the node
          subscribed, \* the subscriptions are on
          inFlight,   \* clouds on their way: <<source, stamp>>
          sent,       \* source -> the stamp of its last cloud
          buffer,     \* source -> its buffer
          reading,    \* "idle", "marked" (marking read), "read", "bounded"
          allCurrent, \* the local variable current of updateBounds()
          marks,      \* what the update marks with: [source, stamp]
          clears,     \* what it clears with
          current,    \* current_
          wasReset,   \* was_reset_
          \* history
          born,       \* source -> when it last gave a sign of life
          late        \* some cloud arrived after a newer one of its source

vars == <<conf, now, subscribed, inFlight, sent, buffer, reading, allCurrent, marks, clears, current,
          wasReset, born, late>>
update == <<reading, allCurrent, marks, clears>>

Buffers(t) == [s \in Sources |-> NewBuffer(t)]

Init ==
  /\ conf \in [Sources -> Confs]
  /\ now = 0 /\ subscribed = FALSE /\ inFlight = {} /\ sent = [s \in Sources |-> -1]
  /\ buffer = Buffers(0)
  /\ reading = "idle" /\ allCurrent = TRUE /\ marks = {} /\ clears = {}
  /\ current = TRUE /\ wasReset = FALSE
  /\ born = [s \in Sources |-> 0] /\ late = FALSE

Tick ==
  /\ now < MaxTime /\ now' = now + 1
  /\ UNCHANGED <<conf, subscribed, inFlight, sent, buffer, update, current, wasReset, born, late>>

Publish(s) ==
  /\ subscribed /\ Cardinality(inFlight) < MaxInFlight /\ sent[s] < now
  /\ inFlight' = inFlight \union {<<s, now>>}
  /\ sent' = [sent EXCEPT ![s] = now]
  /\ UNCHANGED <<conf, now, subscribed, buffer, update, current, wasReset, born, late>>

Drop(c) ==
  /\ inFlight' = inFlight \ {c}
  /\ UNCHANGED <<conf, now, subscribed, sent, buffer, update, current, wasReset, born, late>>

Deliver(c, tfOk) ==
  LET s == c[1]
      cloud == [source |-> s, stamp |-> c[2]]
  IN /\ inFlight' = inFlight \ {c}
     /\ buffer' = [buffer EXCEPT ![s] = BufferCloud(@, cloud, conf[s], now, tfOk)]
     /\ born' = IF tfOk THEN [born EXCEPT ![s] = now] ELSE born
     /\ late' = (late \/ \E i \in DOMAIN buffer[s].list : buffer[s].list[i].stamp > c[2])
     /\ UNCHANGED <<conf, now, subscribed, sent, update, current, wasReset>>

\* A scan that is malformed is dropped.
LaserScanCallback(c, malformed, tfOk) ==
  /\ subscribed /\ conf[c[1]].type = "scan"
  /\ IF malformed THEN Drop(c) ELSE Deliver(c, tfOk)

\* the same, once what is infinitely far is moved to the end of the range
LaserScanValidInfCallback(c, malformed, tfOk) ==
  /\ subscribed /\ conf[c[1]].type = "inf"
  /\ IF malformed THEN Drop(c) ELSE Deliver(c, tfOk)

PointCloud2Callback(c, tfOk) ==
  /\ subscribed /\ conf[c[1]].type = "cloud"
  /\ Deliver(c, tfOk)

ResetBuffersLastUpdated ==
  /\ buffer' = [s \in Sources |-> ResetLastUpdated(buffer[s], now)]
  /\ born' = [s \in Sources |-> now]

Activate ==
  /\ ~subscribed /\ subscribed' = TRUE
  /\ inFlight' = {} /\ UNCHANGED sent
  /\ ResetBuffersLastUpdated
  /\ UNCHANGED <<conf, now, update, current, wasReset, late>>

Deactivate ==
  /\ subscribed /\ subscribed' = FALSE
  /\ UNCHANGED <<conf, now, inFlight, sent, buffer, update, current, wasReset, born, late>>

Reset ==
  /\ ResetBuffersLastUpdated
  /\ current' = FALSE /\ wasReset' = TRUE
  /\ UNCHANGED <<conf, now, subscribed, inFlight, sent, update, late>>

Marking == {s \in Sources : conf[s].marking}
Clearing == {s \in Sources : conf[s].clearing}

Read(srcs) == [s \in Sources |-> IF s \in srcs THEN GetObservations(buffer[s], conf[s], now) ELSE buffer[s]]
ReadingsOf(bufs, srcs) == UNION {{bufs[s].list[i] : i \in DOMAIN bufs[s].list} : s \in srcs}
AllCurrent(bufs, srcs) == \A s \in srcs : IsCurrent(bufs[s], conf[s], now)

GetMarkingObservations ==
  /\ reading = "idle" /\ subscribed
  /\ reading' = "marked"
  /\ buffer' = Read(Marking)
  /\ marks' = ReadingsOf(buffer', Marking)
  /\ allCurrent' = AllCurrent(buffer', Marking)
  /\ UNCHANGED <<conf, now, subscribed, inFlight, sent, clears, current, wasReset, born, late>>

\* "current && getClearingObservations(...)": one marking source that is
\* late and no buffer is asked what it clears.
GetClearingObservations ==
  /\ reading = "marked" /\ reading' = "read"
  /\ IF allCurrent
     THEN /\ buffer' = Read(Clearing)
          /\ clears' = ReadingsOf(buffer', Clearing)
          /\ allCurrent' = AllCurrent(buffer', Clearing)
     ELSE clears' = {} /\ UNCHANGED <<buffer, allCurrent>>
  /\ UNCHANGED <<conf, now, subscribed, inFlight, sent, marks, current, wasReset, born, late>>

UpdateBounds ==
  /\ reading = "read" /\ reading' = "bounded"
  /\ current' = allCurrent
  /\ UNCHANGED <<conf, now, subscribed, inFlight, sent, buffer, allCurrent, marks, clears, wasReset, born, late>>

UpdateCosts ==
  /\ reading = "bounded" /\ reading' = "idle"
  /\ current' = (current \/ wasReset)
  /\ wasReset' = (wasReset /\ current)
  /\ marks' = {} /\ clears' = {} /\ allCurrent' = TRUE
  /\ UNCHANGED <<conf, now, subscribed, inFlight, sent, buffer, born, late>>

Next ==
  \/ Tick \/ Activate \/ Deactivate \/ Reset
  \/ \E s \in Sources : Publish(s)
  \/ \E c \in inFlight, tfOk \in BOOLEAN :
       \/ PointCloud2Callback(c, tfOk)
       \/ \E malformed \in BOOLEAN :
            LaserScanCallback(c, malformed, tfOk) \/ LaserScanValidInfCallback(c, malformed, tfOk)
  \/ GetMarkingObservations \/ GetClearingObservations \/ UpdateBounds \/ UpdateCosts

Spec == Init /\ [][Next]_vars

-----------------------------------------------------------------------------
Fresh(r) == now - r.stamp <= conf[r.source].keep
Lasting(s) == conf[s].keep > 0

(* What the update reads is fresh, whatever order the clouds came in        *)
(* (observation_buffer.cpp:187): an obstacle that was seen longer ago than  *)
(* the persistence of its source is not marked again.                       *)
OnlyFreshReadStep ==
  /\ reading = "idle" /\ reading' = "marked"
        => \A r \in marks' : Lasting(r.source) => Fresh(r)
  /\ reading = "marked" /\ reading' = "read"
        => \A r \in clears' : Lasting(r.source) => Fresh(r)

(* A buffer that drops everything behind the first stale cloud drops no     *)
(* fresh one as long as the clouds of a source arrive in the order they     *)
(* were taken in; a late one takes every newer one with it.                 *)
FreshKeptStep ==
  ~late' => \A s \in Sources : \A i \in DOMAIN buffer[s].list :
       Lasting(s) /\ Fresh(buffer[s].list[i])
         => \E j \in DOMAIN buffer'[s].list : buffer'[s].list[j] = buffer[s].list[i]

(* The layer is found out of date only when a source has been silent for    *)
(* longer than its expected rate: not because the layer was inactive, or    *)
(* was reset, for that long (obstacle_layer.cpp:836).                       *)
SilenceHasCauseStep ==
  reading' = "marked" /\ reading = "idle" /\ ~allCurrent'
       => \E s \in Sources : conf[s].rate > 0 /\ now - born[s] > conf[s].rate
=============================================================================
